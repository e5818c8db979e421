----------------------------- MODULE Publication -----------------------------
(***************************************************************************)
(* observeFile (cmd/gooo-observer/main.go): how runs of the observer turn  *)
(* their results into six files of one output directory, one step per      *)
(* system call that touches the directory.  A run may fail or be killed at *)
(* any of them.  The directory belongs to the caller, who may create       *)
(* entries at any time, and clears it when no run is using it.             *)
(*                                                                         *)
(* Abstractions.  The bytes a run writes under a name are known by the run *)
(* and the name; a digest of bytes is those bytes (no collisions).  One    *)
(* write of a file either completes or stops in the middle, and a file     *)
(* that stops in the middle does not decode.  A write over a longer file   *)
(* of another run keeps the tail of that file: json.Decoder reads the      *)
(* first value and does not see the tail, a digest does.                   *)
(***************************************************************************)
EXTENDS Naturals, Sequences, FiniteSets

CONSTANTS
  Runs,         \* the runs of the observer on this directory
  Nobody,       \* no run
  Caller,       \* the caller, as the writer of an entry
  CaseOf,       \* the case id of the input of every run
  OtherNames,   \* names that are no artifact kinds
  CallerNames,  \* the names under which the caller creates entries
  MaxRunning    \* runs that use the directory at the same time

Manifest == "observation-manifest.json"
Receipt  == "observer-receipt.json"

ArtifactKinds ==
  {Manifest, Receipt, "claims.ndjson", "evidence.ndjson",
   "transitions.ndjson", "observer-report.md"}

Names == ArtifactKinds \cup OtherNames

(* Slip: the manifest before the report it vouches for.                    *)
WriteOrderReportLast ==
  <<"claims.ndjson", "evidence.ndjson", "transitions.ndjson",
    Receipt, Manifest, "observer-report.md">>

(* The order in which a run writes: the manifest seals the other five.     *)
WriteOrder ==
  <<"claims.ndjson", "evidence.ndjson", "transitions.ndjson",
    Receipt, "observer-report.md", Manifest>>

ASSUME PublicationAssumption ==
  /\ Nobody \notin Runs /\ Caller \notin Runs
  /\ DOMAIN CaseOf = Runs
  /\ CallerNames \subseteq Names
  /\ OtherNames \cap ArtifactKinds = {}
  /\ MaxRunning \in Nat \ {0}

-----------------------------------------------------------------------------
(* An entry of the directory.  A file knows who wrote its head, how much   *)
(* of it is there, whose tails were left behind it and, a manifest, the    *)
(* bytes of the receipt whose digest it records.                           *)
Writers == Runs \cup {Caller}

Image == [by: Writers, part: {"none", "some", "all"}, tail: SUBSET Writers]

File == [kind: {"file"}, bytes: Image, binds: SUBSET Image]

Entry == File \cup [kind: {"nothing", "directory"}]

Nothing      == [kind |-> "nothing"]
Subdirectory == [kind |-> "directory"]

Written(w, part, tail, binds) ==
  [kind |-> "file", bytes |-> [by |-> w, part |-> part, tail |-> tail],
   binds |-> binds]

Empty(e) == e.kind = "file" /\ e.bytes.part = "none"

(* What decodes is a whole first value that an observer wrote.             *)
Decodes(e) == e.kind = "file" /\ e.bytes.part = "all" /\ e.bytes.by \in Runs

(* Slip: a digest that is not empty is enough.                             *)
verifyDetachedReceiptBindingAnyDigest(manifest, receipt) ==
  /\ Decodes(manifest)
  /\ Decodes(receipt)
  /\ manifest.binds # {}
  /\ CaseOf[manifest.bytes.by] = CaseOf[receipt.bytes.by]

(* The two decode, the manifest records the digest of the receipt bytes,   *)
(* and both name the same case.  That the receipt carries no digest of     *)
(* itself and names its detached manifest is so in every receipt that an   *)
(* observer writes.                                                        *)
verifyDetachedReceiptBinding(manifest, receipt) ==
  /\ Decodes(manifest)
  /\ Decodes(receipt)
  /\ manifest.binds = {receipt.bytes}
  /\ CaseOf[manifest.bytes.by] = CaseOf[receipt.bytes.by]

-----------------------------------------------------------------------------
VARIABLES
  made,   \* the directory exists
  entry,  \* what it holds under every name
  pc,     \* where every run is
  next,   \* the file of WriteOrder that the run writes next
  bound,  \* the receipt bytes the run has read back for its manifest
  seen    \* the manifest the run has read to verify it

directory == <<made, entry>>
vars == <<made, entry, pc, next, bound, seen>>

Steps == {"check", "load", "open", "write", "bind", "list", "manifest", "receipt"}
Ends  == {"succeeded", "failed", "killed"}

Running == {r \in Runs : pc[r] \in Steps}

Init ==
  /\ made \in BOOLEAN
  /\ entry = [n \in Names |-> Nothing]
  /\ pc = [r \in Runs |-> "idle"]
  /\ next = [r \in Runs |-> 1]
  /\ bound = [r \in Runs |-> {}]
  /\ seen = [r \in Runs |-> Nothing]

GoTo(r, step) == pc' = [pc EXCEPT ![r] = step]

(* The caller starts the command; its input has been read.                 *)
Start(r) ==
  /\ pc[r] = "idle"
  /\ Cardinality(Running) < MaxRunning
  /\ GoTo(r, "check")
  /\ UNCHANGED <<directory, next, bound, seen>>

(* Slip: only a published observation makes the directory used.            *)
EnsureEmptyDirectoryUnsealed(r) ==
  /\ pc[r] = "check"
  /\ made' = TRUE
  /\ GoTo(r, IF entry[Manifest] = Nothing THEN "load" ELSE "failed")
  /\ UNCHANGED <<entry, next, bound, seen>>

(* A directory that does not exist is created, one that holds anything is  *)
(* refused.                                                                *)
EnsureEmptyDirectory(r) ==
  /\ pc[r] = "check"
  /\ made' = TRUE
  /\ GoTo(r, IF \A n \in Names : entry[n] = Nothing THEN "load" ELSE "failed")
  /\ UNCHANGED <<entry, next, bound, seen>>

(* The authority chain and the inventory are read and the input is         *)
(* observed, all in memory.                                                *)
Evaluate(r) ==
  /\ pc[r] = "load"
  /\ GoTo(r, "open")
  /\ UNCHANGED <<directory, next, bound, seen>>

(* os.WriteFile opens the file, creating or truncating it ...              *)
OpenFile(r) ==
  /\ pc[r] = "open"
  /\ LET n == WriteOrder[next[r]]
     IN  IF entry[n].kind = "directory"
         THEN /\ GoTo(r, "failed")
              /\ UNCHANGED entry
         ELSE /\ entry' = [entry EXCEPT ![n] = Written(r, "none", {}, {})]
              /\ GoTo(r, "write")
  /\ UNCHANGED <<made, next, bound, seen>>

(* What is in the file when r has put part of its bytes at its start.  The *)
(* file may have been written by another run since r opened it.            *)
Overwritten(r, old, part) ==
  LET binds == IF WriteOrder[next[r]] = Manifest THEN bound[r] ELSE {}
      left  == old.bytes.tail \cup {old.bytes.by}
  IN  IF Empty(old) THEN {Written(r, part, {}, binds)}
      ELSE {Written(r, part, tail, binds) : tail \in {{}, left}}

(* The receipt is read back before the manifest is built; the manifest is  *)
(* the last file.                                                          *)
After(n) ==
  CASE n = "observer-report.md" -> "bind"
    [] n = Manifest             -> "list"
    [] OTHER                    -> "open"

(* Slip: one file more than there are.                                     *)
WriteFileBeyond(r) ==
  /\ pc[r] = "write"
  /\ LET n == WriteOrder[next[r]]
     IN  /\ \E new \in Overwritten(r, entry[n], "all") :
              entry' = [entry EXCEPT ![n] = new]
         /\ GoTo(r, After(n))
  /\ next' = [next EXCEPT ![r] = @ + 1]
  /\ UNCHANGED <<made, bound, seen>>

(* ... and writes it.                                                      *)
WriteFile(r) ==
  /\ pc[r] = "write"
  /\ LET n == WriteOrder[next[r]]
     IN  /\ \E new \in Overwritten(r, entry[n], "all") :
              entry' = [entry EXCEPT ![n] = new]
         /\ GoTo(r, After(n))
         /\ next' = [next EXCEPT ![r] = IF n = Manifest THEN @ ELSE @ + 1]
  /\ UNCHANGED <<made, bound, seen>>

(* Slips: the error of a short write is dropped; it is retried.            *)
ShortWriteDropped(r) ==
  /\ pc[r] = "write"
  /\ LET n == WriteOrder[next[r]]
     IN  /\ \E new \in Overwritten(r, entry[n], "some") :
              entry' = [entry EXCEPT ![n] = new]
         /\ GoTo(r, After(n))
         /\ next' = [next EXCEPT ![r] = IF n = Manifest THEN @ ELSE @ + 1]
  /\ UNCHANGED <<made, bound, seen>>

ShortWriteRetried(r) ==
  /\ pc[r] = "write"
  /\ LET n == WriteOrder[next[r]]
     IN  \E new \in Overwritten(r, entry[n], "some") :
           entry' = [entry EXCEPT ![n] = new]
  /\ GoTo(r, "open")
  /\ UNCHANGED <<made, next, bound, seen>>

(* The write stops in the middle: the disk is full, or the run is killed.  *)
ShortWrite(r) ==
  /\ pc[r] = "write"
  /\ LET n == WriteOrder[next[r]]
     IN  \E new \in Overwritten(r, entry[n], "some") :
           entry' = [entry EXCEPT ![n] = new]
  /\ \E end \in {"failed", "killed"} : GoTo(r, end)
  /\ UNCHANGED <<made, next, bound, seen>>

(* The digest the manifest will record is that of the receipt on disk.     *)
BindReceipt(r) ==
  /\ pc[r] = "bind"
  /\ IF entry[Receipt].kind = "file"
     THEN /\ bound' = [bound EXCEPT ![r] = {entry[Receipt].bytes}]
          /\ GoTo(r, "open")
     ELSE /\ GoTo(r, "failed")
          /\ UNCHANGED bound
  /\ UNCHANGED <<directory, next, seen>>

(* verifyArtifactSet: six files, nothing else.                             *)
VerifyArtifactSet(r) ==
  /\ pc[r] = "list"
  /\ GoTo(r, IF \A n \in Names :
                  IF n \in ArtifactKinds THEN entry[n].kind = "file"
                                         ELSE entry[n] = Nothing
             THEN "manifest" ELSE "failed")
  /\ UNCHANGED <<directory, next, bound, seen>>

(* verifyDetachedReceiptBinding reads the manifest, then the receipt.      *)
ReadManifest(r) ==
  /\ pc[r] = "manifest"
  /\ seen' = [seen EXCEPT ![r] = entry[Manifest]]
  /\ GoTo(r, IF entry[Manifest].kind = "file" THEN "receipt" ELSE "failed")
  /\ UNCHANGED <<directory, next, bound>>

ReadReceipt(r) ==
  /\ pc[r] = "receipt"
  /\ GoTo(r, IF verifyDetachedReceiptBinding(seen[r], entry[Receipt])
             THEN "succeeded" ELSE "failed")
  /\ UNCHANGED <<directory, next, bound, seen>>

(* Any other system call returns an error, and the run with it; or the run *)
(* is killed between two of them.  Nothing is cleaned up.                  *)
Stop(r) ==
  /\ pc[r] \in Steps
  /\ \E end \in {"failed", "killed"} : GoTo(r, end)
  /\ UNCHANGED <<directory, next, bound, seen>>

(* The caller creates an entry under a name that is free, and removes the  *)
(* directory when no run is using it.                                      *)
CallerCreates(n) ==
  /\ made
  /\ entry[n] = Nothing
  /\ \E new \in {Written(Caller, "all", {}, {}), Subdirectory} :
       entry' = [entry EXCEPT ![n] = new]
  /\ UNCHANGED <<made, pc, next, bound, seen>>

CallerClears ==
  /\ made
  /\ Running = {}
  /\ made' = FALSE
  /\ entry' = [n \in Names |-> Nothing]
  /\ UNCHANGED <<pc, next, bound, seen>>

Finished ==
  /\ \A r \in Runs : pc[r] \in Ends
  /\ UNCHANGED vars

Step(r) ==
  \/ EnsureEmptyDirectory(r) \/ Evaluate(r)
  \/ OpenFile(r) \/ WriteFile(r) \/ ShortWrite(r)
  \/ BindReceipt(r)
  \/ VerifyArtifactSet(r) \/ ReadManifest(r) \/ ReadReceipt(r)
  \/ Stop(r)

Next ==
  \/ \E r \in Runs : Start(r) \/ Step(r)
  \/ \E n \in CallerNames : CallerCreates(n)
  \/ CallerClears
  \/ Finished

Spec == Init /\ [][Next]_vars

(* A run that is not stopped goes on: no call waits for another run.       *)
FairSpec == Spec /\ \A r \in Runs : WF_vars(Step(r))

-----------------------------------------------------------------------------
(* Properties.                                                             *)

(* Every variable holds a value of its kind, and no run writes past the    *)
(* last of its files.                                                      *)
TypeOK ==
  /\ made \in BOOLEAN
  /\ entry \in [Names -> Entry]
  /\ pc \in [Runs -> {"idle"} \cup Steps \cup Ends]
  /\ next \in [Runs -> 1..Len(WriteOrder)]
  /\ bound \in [Runs -> SUBSET Image]
  /\ seen \in [Runs -> Entry]

Whole(r, n) ==
  /\ entry[n].kind = "file"
  /\ entry[n].bytes = [by |-> r, part |-> "all", tail |-> {}]

Sealed(r) ==
  /\ \A n \in ArtifactKinds : Whole(r, n)
  /\ entry[Manifest].binds = {entry[Receipt].bytes}

(* The manifest is written last and never over the remains of another run: *)
(* wherever runs failed or were killed before, a manifest that decodes     *)
(* stands beside five whole files of its own run and binds the receipt     *)
(* among them.                                                             *)
ManifestSeals ==
  Decodes(entry[Manifest]) => \E r \in Runs : Whole(r, Manifest) /\ Sealed(r)

(* What a run that stopped early leaves behind is refused as long as the   *)
(* caller does not clear it: no later run adds to it or changes it.        *)
RemainsAreRefused ==
  [][\A r \in Runs, n \in Names :
       entry[n].kind = "file" /\ entry[n].bytes.by = r /\ pc[r] \in Ends /\ made'
         => entry'[n] = entry[n]]_vars

(* Every run that starts comes to an end, whatever the caller does.        *)
RunsEnd == \A r \in Runs : pc[r] = "check" ~> pc[r] \in Ends

(* Everybody who got past the check of the directory has written its last  *)
(* file, and nobody was stopped on the way.                                *)
AllWritten ==
  \A r \in Runs :
    pc[r] \in {"idle", "check", "list", "manifest", "receipt", "succeeded"}

(* Runs at the same time, of one case or of several, may both find the     *)
(* directory empty and write over each other in any order.  Once all have  *)
(* written, the run whose manifest is there has reported success only if   *)
(* this manifest records the digest of the receipt that is there, for      *)
(* good, and stands beside five complete files, if not all of one run.     *)
SuccessIsBound ==
  \A r \in Runs :
    /\ AllWritten
    /\ pc[r] = "succeeded"
    /\ entry[Manifest].kind = "file" /\ entry[Manifest].bytes.by = r
    => /\ \A n \in ArtifactKinds : Decodes(entry[n])
       /\ entry[Manifest].binds = {entry[Receipt].bytes}

holderOfDirectory ==
  IF \E r \in Runs : Sealed(r) THEN CHOOSE r \in Runs : Sealed(r) ELSE Nobody

Vault == INSTANCE ObservationVault
  WITH holder <- holderOfDirectory, running <- Running,
       told <- {r \in Runs : pc[r] = "succeeded"}

(* Runs that take turns implement the vault: an observation appears whole  *)
(* and with the last file, no step of a later run replaces or damages it,  *)
(* and success is reported only of the observation that is there.          *)
ImplementsVault == Vault!Spec

-----------------------------------------------------------------------------
(* What the documents promise and the code does not keep.                  *)

(* docs/rfcs/semantic-observer-v1.md:36-37: the output directory must be   *)
(* empty before the observer writes, so the observer never deletes caller  *)
(* data.  It is empty when it is checked; the files are opened with        *)
(* truncation later.                                                       *)
CallerDataIsKept ==
  [][\A n \in Names :
       /\ entry[n].kind = "file" /\ entry[n].bytes.by = Caller
       /\ Running # {}
       => entry'[n] = entry[n]]_vars
=============================================================================
