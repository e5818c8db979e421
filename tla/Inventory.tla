------------------------------- MODULE Inventory -------------------------------
(***************************************************************************)
(* measureInventory and countFile (cmd/gooo-observer/main.go): the walk    *)
(* over the directory of the input that gives the counts of the report.    *)
(* filepath.WalkDir visits an entry, lists it when it is a directory, and  *)
(* visits what the listing gave; the directory belongs to the caller, who  *)
(* creates and removes entries and changes their permissions while the     *)
(* walk goes on, as do other runs that observe into it.                    *)
(*                                                                         *)
(* Abstractions.  An entry is known by its place, its kind, whether it is  *)
(* called .git, its extension and its lines, and by whether it can be      *)
(* read: a directory is listed, anything else opened as a file, which a    *)
(* missing permission, a socket or a link to nothing does not allow.  A    *)
(* link to a file is like the file; a link is one to a directory.  The     *)
(* entries of a directory are listed in one order.                         *)
(***************************************************************************)
EXTENDS Naturals, Integers, Sequences, FiniteSets

CONSTANTS
  Order,       \* all entries that there may be, in the order of their names
  Top,         \* the entry that all others are below
  Roots,       \* the entries that may be the inventory root
  Parent,      \* the directory of every other entry
  Kind,        \* "directory", "file" or "link"
  Git,         \* the entries called .git
  Extension,   \* of every entry
  Content,     \* of every file, as the ends of lines and other characters
  Barriers,    \* the sets of entries that may at first not be readable
  MaxChanges   \* bound on what the caller and others change

Entries  == {Order[k] : k \in DOMAIN Order}
Newline  == "newline"

(* Only a directory has entries, and its path comes before theirs.         *)
ASSUME InventoryAssumption ==
  /\ Order \in Seq(Entries)
  /\ \A j, k \in DOMAIN Order : Order[j] = Order[k] => j = k
  /\ Top \in Entries /\ Roots \subseteq Entries
  /\ Parent \in [Entries \ {Top} -> Entries]
  /\ \A k \in DOMAIN Order :
       Order[k] # Top => \E j \in 1..(k - 1) : Order[j] = Parent[Order[k]]
  /\ Kind \in [Entries -> {"directory", "file", "link"}]
  /\ \A n \in Entries \ {Top} : Kind[Parent[n]] = "directory"
  /\ Git \subseteq Entries
  /\ Extension \in [Entries -> {".go", ".gooo", ""}]
  /\ Content \in [Entries -> Seq({Newline, "other"})]
  /\ Barriers \subseteq SUBSET Entries
  /\ MaxChanges \in Nat

Children(n) == {m \in Entries \ {Top} : Parent[m] = n}

(* A set of entries in their order, as os.ReadDir gives it.                *)
Place(n) == CHOOSE k \in DOMAIN Order : Order[k] = n

Sorted(S) ==
  [k \in 1..Cardinality(S) |->
     CHOOSE n \in S : Cardinality({m \in S : Place(m) <= Place(n)}) = k]

(* An entry with what is above it, and with what is below it.              *)
Above ==
  LET up[n \in Entries] == {n} \cup (IF n = Top THEN {} ELSE up[Parent[n]])
  IN  up

Below(n) == {m \in Entries : n \in Above[m]}

(* Every entry that is there is in a directory that is there.              *)
Closed(S) == \A n \in S : Above[n] \subseteq S

-----------------------------------------------------------------------------
(* Slip: a file without a last newline is taken to have one line less.     *)
physicalLinesSplit(data) ==
  Cardinality({i \in DOMAIN data : data[i] = Newline})
    - (IF data # <<>> /\ data[Len(data)] = Newline THEN 0 ELSE 1)

physicalLines(data) ==
  Cardinality({i \in DOMAIN data : data[i] = Newline})
    + (IF data # <<>> /\ data[Len(data)] # Newline THEN 1 ELSE 0)

-----------------------------------------------------------------------------
VARIABLES
  root,     \* the inventory root
  present,  \* the entries that are there
  barred,   \* those that cannot be read, there or not
  pending,  \* what the walk has still to do, the next first
  metrics,  \* the counts so far
  pc,
  before,   \* the entries that were there at first, ...
  come,     \* ... those created, ...
  gone,     \* ... and those removed since
  refused,  \* the entries that at some time could not be read
  changes

tree == <<root, present, barred, before, come, gone, refused, changes>>
vars == <<tree, pending, metrics, pc>>

Task == [do: {"root", "visit", "list"}, entry: Entries]

InventoryMetrics ==
  [descendantDirs: Nat, descendantFiles: Nat, physicalLines: Nat, goLines: Nat,
   goooLines: Nat]

Nothing ==
  [descendantDirs |-> 0, descendantFiles |-> 0, physicalLines |-> 0, goLines |-> 0,
   goooLines |-> 0]

Init ==
  /\ root \in Roots
  /\ present \in {S \in SUBSET Entries : Closed(S)}
  /\ barred \in Barriers
  /\ before = present
  /\ come = {}
  /\ gone = {}
  /\ refused = barred
  /\ changes = 0
  /\ pending = <<>>
  /\ metrics = Nothing
  /\ pc = "stat"

Fail ==
  /\ pc' = "failed"
  /\ pending' = <<>>
  /\ UNCHANGED metrics

(* The next task is replaced by others.                                    *)
Continue(tasks) ==
  /\ pending' = tasks \o Tail(pending)
  /\ UNCHANGED pc

Do(task) == pc = "walk" /\ pending # <<>> /\ Head(pending).do = task

entry == Head(pending).entry

CanRead(n) == n \in present \ barred

(* os.Stat follows a link: only a file is counted without a walk.          *)
StatRoot ==
  /\ pc = "stat"
  /\ IF root \notin present THEN Fail
     ELSE /\ pc' = "walk"
          /\ pending' = <<[do |-> IF Kind[root] = "file" THEN "visit" ELSE "root",
                           entry |-> root]>>
          /\ UNCHANGED metrics
  /\ UNCHANGED tree

(* filepath.WalkDir does not follow it: behind a link there is no walk.    *)
VisitRoot ==
  /\ Do("root")
  /\ IF root \notin present THEN Fail
     ELSE /\ Continue(IF Kind[root] = "directory"
                      THEN <<[do |-> "list", entry |-> root]>> ELSE <<>>)
          /\ UNCHANGED metrics
  /\ UNCHANGED tree

(* Slip: .git is walked like any directory.                                *)
VisitDirectoryGit ==
  /\ Do("visit")
  /\ Kind[entry] = "directory"
  /\ Continue(<<[do |-> "list", entry |-> entry]>>)
  /\ metrics' = [metrics EXCEPT !.descendantDirs = @ + 1]
  /\ UNCHANGED tree

(* A directory is counted when it is visited, and listed after that.       *)
VisitDirectory ==
  /\ Do("visit")
  /\ Kind[entry] = "directory"
  /\ IF entry \in Git
     THEN Continue(<<>>) /\ UNCHANGED metrics
     ELSE /\ Continue(<<[do |-> "list", entry |-> entry]>>)
          /\ metrics' = [metrics EXCEPT !.descendantDirs = @ + 1]
  /\ UNCHANGED tree

(* Slip: a directory without entries is taken to be unreadable.            *)
ListDirectoryEmpty ==
  /\ Do("list")
  /\ LET listed == Sorted(Children(entry) \cap present)
     IN  IF ~CanRead(entry) \/ listed = <<>> THEN Fail
         ELSE /\ Continue([k \in DOMAIN listed |-> [do |-> "visit", entry |-> listed[k]]])
              /\ UNCHANGED metrics
  /\ UNCHANGED tree

(* Slip: a directory is listed again after its entries.                    *)
ListDirectoryAgain ==
  /\ Do("list")
  /\ LET listed == Sorted(Children(entry) \cap present)
     IN  IF ~CanRead(entry) THEN Fail
         ELSE /\ Continue(IF listed = <<>> THEN <<>>
                          ELSE <<[do |-> "visit", entry |-> listed[1]],
                                 [do |-> "list", entry |-> entry]>>)
              /\ UNCHANGED metrics
  /\ UNCHANGED tree

ListDirectory ==
  /\ Do("list")
  /\ LET listed == Sorted(Children(entry) \cap present)
     IN  IF ~CanRead(entry) THEN Fail
         ELSE /\ Continue([k \in DOMAIN listed |-> [do |-> "visit", entry |-> listed[k]]])
              /\ UNCHANGED metrics
  /\ UNCHANGED tree

(* countFile: what is not a directory is read; a link to one cannot be.    *)
CountFile ==
  /\ Do("visit")
  /\ Kind[entry] # "directory"
  /\ IF ~CanRead(entry) \/ Kind[entry] = "link" THEN Fail
     ELSE LET lines == physicalLines(Content[entry])
          IN  /\ Continue(<<>>)
              /\ metrics' =
                   [metrics EXCEPT
                      !.descendantFiles = @ + 1,
                      !.physicalLines = @ + lines,
                      !.goLines = @ + (IF Extension[entry] = ".go" THEN lines ELSE 0),
                      !.goooLines = @ + (IF Extension[entry] = ".gooo" THEN lines ELSE 0)]
  /\ UNCHANGED tree

ReturnMetrics ==
  /\ pc = "walk"
  /\ pending = <<>>
  /\ pc' = "done"
  /\ UNCHANGED <<tree, pending, metrics>>

(* Somebody creates an entry, removes one with all that is below it, or    *)
(* makes that it cannot, or can, be read.                                  *)
Change ==
  /\ changes < MaxChanges
  /\ changes' = changes + 1
  /\ \/ \E n \in Entries \ present :
          /\ n # Top => Parent[n] \in present /\ Kind[Parent[n]] = "directory"
          /\ present' = present \cup {n}
          /\ come' = come \cup {n}
          /\ UNCHANGED <<gone, barred, refused>>
     \/ \E n \in present :
          /\ present' = present \ Below(n)
          /\ gone' = gone \cup (present \cap Below(n))
          /\ UNCHANGED <<come, barred, refused>>
     \/ \E n \in present :
          /\ barred' = IF n \in barred THEN barred \ {n} ELSE barred \cup {n}
          /\ refused' = refused \cup barred'
          /\ UNCHANGED <<present, come, gone>>
  /\ UNCHANGED <<root, before, pending, metrics, pc>>

Returned == pc \in {"done", "failed"} /\ UNCHANGED vars

Step ==
  \/ StatRoot \/ VisitRoot \/ VisitDirectory \/ ListDirectory \/ CountFile
  \/ ReturnMetrics

Next == Step \/ Change \/ Returned

Spec == Init /\ [][Next]_vars

(* The walk goes on; nobody has to change anything.                        *)
FairSpec == Spec /\ WF_vars(Step)

-----------------------------------------------------------------------------
(* Properties.                                                             *)

(* Every variable holds a value of its kind; no count is below 0.          *)
TypeOK ==
  /\ root \in Roots
  /\ present \in SUBSET Entries /\ Closed(present)
  /\ before \in SUBSET Entries /\ come \in SUBSET Entries /\ gone \in SUBSET Entries
  /\ barred \in SUBSET Entries /\ refused \in SUBSET Entries
  /\ changes \in 0..MaxChanges
  /\ pending \in Seq(Task)
  /\ metrics \in InventoryMetrics
  /\ pc \in {"stat", "walk", "done", "failed"}

(* What is to be counted of a set of entries: what is below the root but   *)
(* not in or below a .git; a file of that name counts.  A root that is a   *)
(* file is counted itself.                                                 *)
Descendants(S) == {n \in S : root \in Above[n] \ {n}}

Excluded(n) ==
  \E g \in Git : g \in Above[n] /\ root \in Above[g] \ {g} /\ Kind[g] = "directory"

Counted(S) ==
  IF Kind[root] = "file" THEN S \cap {root}
  ELSE {n \in Descendants(S) : ~Excluded(n)}

(* A line begins at the first character and after every newline.           *)
LineStarts(n) == {i \in DOMAIN Content[n] : i = 1 \/ Content[n][i - 1] = Newline}

Lines(S, extensions) ==
  Cardinality({l \in S \X UNION {DOMAIN Content[n] : n \in S} :
                 Extension[l[1]] \in extensions /\ l[2] \in LineStarts(l[1])})

MetricsOf(S) ==
  LET files == {n \in S : Kind[n] = "file"}
  IN  [descendantDirs |-> Cardinality({n \in S : Kind[n] = "directory"}),
       descendantFiles |-> Cardinality(files),
       physicalLines |-> Lines(files, {".go", ".gooo", ""}),
       goLines |-> Lines(files, {".go"}), goooLines |-> Lines(files, {".gooo"})]

AtMost(m, n) == \A f \in DOMAIN m : m[f] <= n[f]

(* Whatever is created and removed during the walk, the counts of a report *)
(* are at least those of the entries that stay and at most those of all    *)
(* that ever were there; without changes they are exactly what is there.   *)
CountsWhatStays ==
  pc = "done" =>
    /\ AtMost(MetricsOf(Counted(before \ gone)), metrics)
    /\ AtMost(metrics, MetricsOf(Counted(before \cup come)))

(* The walk fails only for the root or an entry that is to be counted: it  *)
(* is not there any more, or at some time it could not be read, or it is a *)
(* link to a directory.  What is in or below a .git or outside of the root *)
(* never disturbs, nor does what is created, unless it cannot be read.     *)
FailsOnlyWhenDisturbed ==
  pc = "failed" =>
    \/ root \notin before
    \/ \E n \in {root} \cup Counted(before \cup come) : n \in gone \cup refused
    \/ \E n \in Counted(before \cup come) : Kind[n] = "link"

(* The walk ends, with counts or without.                                  *)
WalkEnds == <>(pc \in {"done", "failed"})
=============================================================================
