--------------------------- MODULE PublicationProofs ---------------------------
(***************************************************************************)
(* Proofs about Publication for any runs, cases and callers: types, and    *)
(* what success says of the receipt, however many runs use the directory   *)
(* at the same time; for runs that take turns, that a manifest seals a     *)
(* whole observation and that nobody touches what a run has left.          *)
(***************************************************************************)
EXTENDS Publication, TLAPS, SequenceTheorems, FiniteSetTheorems

-----------------------------------------------------------------------------
(* The inductive invariants.                                               *)

(* A run writes into a file it has opened, whoever else has been there.    *)
OpenedIsFile ==
  \A r \in Runs : pc[r] = "write" => entry[WriteOrder[next[r]]].kind = "file"

TypeInv == TypeOK /\ OpenedIsFile

(* The rest is for runs in turn.  What a run relies on after its one check *)
(* that the directory is empty: nobody but the caller has added to it, no  *)
(* manifest decodes, what it has written is whole, and the receipt bytes   *)
(* that it will bind are those in the directory.                           *)
Alone == \A r, s \in Running : r = s

OwnOnly(r) ==
  pc[r] \in Steps \ {"check"} =>
    \A n \in Names : entry[n].kind = "file" => entry[n].bytes.by \in {r, Caller}

Unsealed(r) ==
  pc[r] \in {"load", "open", "write", "bind"} => ~Decodes(entry[Manifest])

WrittenSoFar(r) ==
  /\ pc[r] \in {"idle", "check", "load"} => next[r] = 1
  /\ pc[r] \in {"open", "write", "bind"} =>
       \A i \in 1..(next[r] - 1) : Whole(r, WriteOrder[i])
  /\ pc[r] = "write" => entry[WriteOrder[next[r]]] = Written(r, "none", {}, {})
  /\ pc[r] = "bind" => next[r] = 6
  /\ pc[r] \in {"list", "manifest", "receipt"} => Sealed(r)

Bound(r) ==
  pc[r] \in {"open", "write"} /\ next[r] = 6 => bound[r] = {entry[Receipt].bytes}

TurnOf(r) == OwnOnly(r) /\ Unsealed(r) /\ WrittenSoFar(r) /\ Bound(r)

TurnInv ==
  /\ TypeInv
  /\ Alone
  /\ ManifestSeals
  /\ \A r \in Runs : TurnOf(r)

-----------------------------------------------------------------------------
(* Names, entries and writes.                                              *)

LEMMA Order ==
  /\ Len(WriteOrder) = 6
  /\ WriteOrder[6] = Manifest /\ WriteOrder[4] = Receipt
  /\ WriteOrder[5] = "observer-report.md"
  /\ \A i \in 1..6 : WriteOrder[i] \in ArtifactKinds
  /\ \A n \in ArtifactKinds : \E i \in 1..6 : WriteOrder[i] = n
  /\ \A i, j \in 1..6 : WriteOrder[i] = WriteOrder[j] => i = j
  /\ ArtifactKinds \subseteq Names /\ Manifest \in Names /\ Receipt \in Names
<1>1. \A i \in 1..6 : i = 1 \/ i = 2 \/ i = 3 \/ i = 4 \/ i = 5 \/ i = 6
  OBVIOUS
<1>2. /\ Len(WriteOrder) = 6
      /\ WriteOrder[1] = "claims.ndjson" /\ WriteOrder[2] = "evidence.ndjson"
      /\ WriteOrder[3] = "transitions.ndjson" /\ WriteOrder[4] = Receipt
      /\ WriteOrder[5] = "observer-report.md" /\ WriteOrder[6] = Manifest
  BY DEF WriteOrder
<1>3. /\ \A i \in 1..6 : WriteOrder[i] \in ArtifactKinds
      /\ \A n \in ArtifactKinds : \E i \in 1..6 : WriteOrder[i] = n
  BY <1>2, <1>1 DEF ArtifactKinds
<1>4. \A i, j \in 1..6 : WriteOrder[i] = WriteOrder[j] => i = j
  BY <1>2, <1>1 DEF Manifest, Receipt
<1>5. ArtifactKinds \subseteq Names /\ Manifest \in Names /\ Receipt \in Names
  BY DEF Names, ArtifactKinds
<1> QED BY <1>2, <1>3, <1>4, <1>5

Binds(r) == IF WriteOrder[next[r]] = Manifest THEN bound[r] ELSE {}

LEMMA FileType ==
  ASSUME NEW w \in Writers, NEW part \in {"none", "some", "all"},
         NEW tail \in SUBSET Writers, NEW binds \in SUBSET Image
  PROVE  /\ Written(w, part, tail, binds) \in File
         /\ Written(w, part, tail, binds) \in Entry
         /\ Written(w, part, tail, binds).kind = "file"
         /\ Written(w, part, tail, binds).bytes = [by |-> w, part |-> part, tail |-> tail]
         /\ Written(w, part, tail, binds).binds = binds
BY DEF Written, File, Entry, Image

LEMMA EntryKinds ==
  /\ Nothing \in Entry /\ Subdirectory \in Entry
  /\ Nothing.kind # "file" /\ Subdirectory.kind # "file"
  /\ \A e \in Entry : e.kind = "file" => e \in File /\ e.bytes \in Image
BY DEF Nothing, Subdirectory, Entry, File

LEMMA OverwrittenType ==
  ASSUME TypeOK, NEW r \in Runs, NEW old \in File, NEW part \in {"some", "all"},
         NEW new \in Overwritten(r, old, part)
  PROVE  /\ new \in Entry /\ new.kind = "file"
         /\ new.bytes.by = r /\ new.bytes.part = part /\ new.binds = Binds(r)
         /\ Empty(old) => new = Written(r, part, {}, Binds(r))
<1>1. r \in Writers /\ Binds(r) \in SUBSET Image
  BY DEF Writers, TypeOK, Binds
<1>2. PICK tail \in SUBSET Writers :
        /\ new = Written(r, part, tail, Binds(r))
        /\ Empty(old) => tail = {}
  <2> DEFINE left == old.bytes.tail \cup {old.bytes.by}
  <2>1. {} \in SUBSET Writers /\ left \in SUBSET Writers
    BY DEF File, Image
  <2>2. \/ Empty(old) /\ new = Written(r, part, {}, Binds(r))
        \/ /\ ~Empty(old)
           /\ \E tail \in {{}, left} : new = Written(r, part, tail, Binds(r))
    BY DEF Overwritten, Binds
  <2> HIDE DEF left
  <2> QED BY <2>1, <2>2
<1>3. part \in {"none", "some", "all"}
  OBVIOUS
<1>4. /\ new \in Entry /\ new.kind = "file"
      /\ new.bytes = [by |-> r, part |-> part, tail |-> tail]
      /\ new.binds = Binds(r)
  <2> HIDE DEF Binds
  <2> QED BY <1>1, <1>2, <1>3, FileType
<1>5. new.bytes.by = r /\ new.bytes.part = part
  BY <1>4
<1> QED BY <1>2, <1>4, <1>5

LEMMA Unmoved ==
  UNCHANGED directory => UNCHANGED <<made, entry>>
BY DEF directory

-----------------------------------------------------------------------------
(* Type correctness, with any number of runs at the same time.             *)

LEMMA InitTypes == Init => TypeInv
BY Order, EntryKinds DEF Init, TypeInv, TypeOK, OpenedIsFile

LEMMA StepsOnTheWay ==
  ASSUME NEW r \in Runs, TypeInv, NEW e \in {"idle"} \cup Steps \cup Ends,
         e # "write", GoTo(r, e), UNCHANGED <<entry, next>>, made' \in BOOLEAN,
         bound' \in [Runs -> SUBSET Image], seen' \in [Runs -> Entry]
  PROVE  TypeInv'
<1>1. /\ pc' \in [Runs -> {"idle"} \cup Steps \cup Ends]
      /\ \A s \in Runs : pc'[s] = "write" => pc[s] = "write"
  BY DEF GoTo, TypeInv, TypeOK
<1> QED BY <1>1 DEF TypeInv, TypeOK, OpenedIsFile

LEMMA WriteTypes ==
  ASSUME NEW r \in Runs, TypeInv, pc[r] = "write",
         NEW part \in {"some", "all"},
         NEW new \in Overwritten(r, entry[WriteOrder[next[r]]], part),
         entry' = [entry EXCEPT ![WriteOrder[next[r]]] = new],
         NEW e \in {"idle"} \cup Steps \cup Ends, e # "write", GoTo(r, e),
         \/ next' = next
         \/ /\ WriteOrder[next[r]] # Manifest
            /\ next' = [next EXCEPT ![r] = @ + 1],
         UNCHANGED <<made, bound, seen>>
  PROVE  TypeInv'
<1> DEFINE n == WriteOrder[next[r]]
<1>1. next[r] \in 1..6 /\ n \in Names /\ entry[n] \in Entry
  BY Order DEF TypeInv, TypeOK
<1>2. entry[n] \in File
  BY <1>1, EntryKinds DEF TypeInv, OpenedIsFile
<1>3. new \in Entry /\ new.kind = "file"
  <2> HIDE DEF n
  <2> QED BY <1>2, OverwrittenType DEF TypeInv, n
<1>4. entry' \in [Names -> Entry]
      /\ \A m \in Names : entry[m].kind = "file" => entry'[m].kind = "file"
  <2> HIDE DEF n
  <2>1. entry' = [entry EXCEPT ![n] = new] /\ entry \in [Names -> Entry]
    BY DEF n, TypeInv, TypeOK
  <2> QED BY <1>1, <1>3, <2>1
<1>5. pc' \in [Runs -> {"idle"} \cup Steps \cup Ends]
      /\ \A s \in Runs : pc'[s] = "write" => pc[s] = "write" /\ s # r
  BY DEF GoTo, TypeInv, TypeOK
<1>6. next' \in [Runs -> 1..6] /\ \A s \in Runs : s # r => next'[s] = next[s]
  <2>1. n # Manifest => next[r] + 1 \in 1..6
    BY <1>1, Order
  <2>2. next \in [Runs -> 1..6]
    BY Order DEF TypeInv, TypeOK
  <2> QED BY <2>1, <2>2
<1>7. OpenedIsFile'
  <2>1. ASSUME NEW s \in Runs, pc'[s] = "write"
        PROVE  entry'[WriteOrder[next'[s]]].kind = "file"
    <3>1. pc[s] = "write" /\ s # r /\ next'[s] = next[s]
      BY <1>5, <1>6, <2>1
    <3>2. entry[WriteOrder[next[s]]].kind = "file" /\ next[s] \in 1..6
      BY <3>1, Order DEF TypeInv, TypeOK, OpenedIsFile
    <3>3. WriteOrder[next[s]] \in Names
      BY <3>2, Order
    <3> QED BY <1>4, <3>1, <3>2, <3>3
  <2> QED BY <2>1 DEF OpenedIsFile
<1> QED BY <1>4, <1>5, <1>6, <1>7, Order DEF TypeInv, TypeOK

LEMMA OpenTypes ==
  ASSUME NEW r \in Runs, TypeInv, OpenFile(r)
  PROVE  TypeInv'
<1> DEFINE n == WriteOrder[next[r]]
           new == Written(r, "none", {}, {})
<1>1. next[r] \in 1..6 /\ n \in Names /\ pc[r] = "open"
  BY Order DEF TypeInv, TypeOK, OpenFile
<1>2. new \in Entry /\ new.kind = "file"
  <2>1. r \in Writers /\ "none" \in {"none", "some", "all"}
        /\ {} \in SUBSET Writers /\ {} \in SUBSET Image
    BY DEF Writers
  <2>2. new \in Entry
    BY <2>1, FileType
  <2>3. new.kind = "file"
    BY DEF Written
  <2> QED BY <2>2, <2>3
<1>3. CASE entry[n].kind = "directory"
  <2>1. GoTo(r, "failed") /\ UNCHANGED <<entry, next, made, bound, seen>>
    BY <1>3 DEF OpenFile
  <2>2. /\ made' \in BOOLEAN /\ bound' \in [Runs -> SUBSET Image]
        /\ seen' \in [Runs -> Entry]
    BY <2>1 DEF TypeInv, TypeOK
  <2>3. "failed" \in {"idle"} \cup Steps \cup Ends /\ "failed" # "write"
    BY DEF Ends
  <2> QED BY <2>1, <2>2, <2>3, StepsOnTheWay
<1>4. CASE entry[n].kind # "directory"
  <2>1. /\ entry' = [entry EXCEPT ![n] = new] /\ GoTo(r, "write")
        /\ UNCHANGED <<made, next, bound, seen>>
    BY <1>4 DEF OpenFile
  <2>2. /\ entry' \in [Names -> Entry] /\ entry'[n].kind = "file"
        /\ \A m \in Names : entry[m].kind = "file" => entry'[m].kind = "file"
    <3>1. entry \in [Names -> Entry]
      BY DEF TypeInv, TypeOK
    <3> HIDE DEF n, new
    <3> QED BY <1>1, <1>2, <2>1, <3>1
  <2>3. /\ pc' \in [Runs -> {"idle"} \cup Steps \cup Ends]
        /\ \A s \in Runs : pc'[s] = "write" => s = r \/ pc[s] = "write"
    BY <2>1 DEF GoTo, TypeInv, TypeOK, Steps
  <2>4. ASSUME NEW s \in Runs, pc'[s] = "write"
        PROVE  entry'[WriteOrder[next'[s]]].kind = "file"
    <3>1. CASE s = r
      BY <2>1, <2>2, <3>1
    <3>2. CASE s # r
      <4>1. entry[WriteOrder[next[s]]].kind = "file" /\ next[s] \in 1..6
        BY <2>3, <2>4, <3>2, Order DEF TypeInv, TypeOK, OpenedIsFile
      <4> QED BY <4>1, <2>1, <2>2, Order
    <3> QED BY <3>1, <3>2
  <2> QED BY <2>1, <2>2, <2>3, <2>4 DEF TypeInv, TypeOK, OpenedIsFile
<1> QED BY <1>3, <1>4

LEMMA RunTypes ==
  ASSUME NEW r \in Runs, TypeInv, Start(r) \/ Step(r)
  PROVE  TypeInv'
<1> USE DEF Steps, Ends
<1>t. /\ made \in BOOLEAN /\ bound \in [Runs -> SUBSET Image]
      /\ seen \in [Runs -> Entry] /\ entry \in [Names -> Entry]
  BY DEF TypeInv, TypeOK
<1>1. CASE Start(r)
  BY <1>1, <1>t, StepsOnTheWay DEF Start, directory
<1>2. CASE EnsureEmptyDirectory(r)
  <2>1. PICK e \in {"load", "failed"} : GoTo(r, e)
    BY <1>2 DEF EnsureEmptyDirectory
  <2>2. UNCHANGED <<entry, next, bound, seen>> /\ made' = TRUE
    BY <1>2 DEF EnsureEmptyDirectory
  <2> QED BY <1>t, <2>1, <2>2, StepsOnTheWay
<1>3. CASE Evaluate(r)
  BY <1>3, <1>t, StepsOnTheWay DEF Evaluate, directory
<1>4. CASE OpenFile(r)
  BY <1>4, OpenTypes
<1>5. CASE WriteFile(r)
  <2> DEFINE n == WriteOrder[next[r]]
  <2>1. pc[r] = "write" /\ UNCHANGED <<made, bound, seen>>
    BY <1>5 DEF WriteFile
  <2>2. PICK new \in Overwritten(r, entry[n], "all") :
          entry' = [entry EXCEPT ![n] = new]
    BY <1>5 DEF WriteFile
  <2>3. PICK e \in {"bind", "list", "open"} : GoTo(r, e)
    BY <1>5 DEF WriteFile, After
  <2>4. \/ next' = next
        \/ n # Manifest /\ next' = [next EXCEPT ![r] = @ + 1]
    <3>1. next' = [next EXCEPT ![r] = IF n = Manifest THEN @ ELSE @ + 1]
      BY <1>5 DEF WriteFile
    <3>2. next \in [Runs -> 1..6]
      BY Order DEF TypeInv, TypeOK
    <3>3. CASE n = Manifest
      BY <3>1, <3>2, <3>3
    <3>4. CASE n # Manifest
      BY <3>1, <3>4
    <3> QED BY <3>3, <3>4
  <2> QED BY <2>1, <2>2, <2>3, <2>4, WriteTypes
<1>6. CASE ShortWrite(r)
  <2>1. pc[r] = "write" /\ UNCHANGED <<made, next, bound, seen>>
    BY <1>6 DEF ShortWrite
  <2>2. PICK new \in Overwritten(r, entry[WriteOrder[next[r]]], "some") :
          entry' = [entry EXCEPT ![WriteOrder[next[r]]] = new]
    BY <1>6 DEF ShortWrite
  <2>3. PICK e \in {"failed", "killed"} : GoTo(r, e)
    BY <1>6 DEF ShortWrite
  <2> QED BY <2>1, <2>2, <2>3, WriteTypes
<1>7. CASE BindReceipt(r)
  <2>1. PICK e \in {"open", "failed"} : GoTo(r, e)
    BY <1>7 DEF BindReceipt
  <2>2. bound' \in [Runs -> SUBSET Image]
    <3>1. Receipt \in Names
      BY Order
    <3>2. CASE entry[Receipt].kind = "file"
      BY <1>7, <1>t, <3>1, <3>2, EntryKinds DEF BindReceipt
    <3>3. CASE entry[Receipt].kind # "file"
      BY <1>7, <1>t, <3>3 DEF BindReceipt
    <3> QED BY <3>2, <3>3
  <2>3. UNCHANGED <<made, entry, next, seen>>
    BY <1>7 DEF BindReceipt, directory
  <2> QED BY <1>t, <2>1, <2>2, <2>3, StepsOnTheWay
<1>8. CASE VerifyArtifactSet(r)
  <2>1. PICK e \in {"manifest", "failed"} : GoTo(r, e)
    BY <1>8 DEF VerifyArtifactSet
  <2>2. UNCHANGED <<made, entry, next, bound, seen>>
    BY <1>8 DEF VerifyArtifactSet, directory
  <2> QED BY <1>t, <2>1, <2>2, StepsOnTheWay
<1>9. CASE ReadManifest(r)
  <2>1. PICK e \in {"receipt", "failed"} : GoTo(r, e)
    BY <1>9 DEF ReadManifest
  <2>2. UNCHANGED <<made, entry, next, bound>> /\ seen' \in [Runs -> Entry]
    BY <1>9, <1>t, Order DEF ReadManifest, directory
  <2> QED BY <1>t, <2>1, <2>2, StepsOnTheWay
<1>10. CASE ReadReceipt(r)
  <2>1. PICK e \in {"succeeded", "failed"} : GoTo(r, e)
    BY <1>10 DEF ReadReceipt
  <2>2. UNCHANGED <<made, entry, next, bound, seen>>
    BY <1>10 DEF ReadReceipt, directory
  <2> QED BY <1>t, <2>1, <2>2, StepsOnTheWay
<1>11. CASE Stop(r)
  <2>1. PICK e \in {"failed", "killed"} : GoTo(r, e)
    BY <1>11 DEF Stop
  <2>2. UNCHANGED <<made, entry, next, bound, seen>>
    BY <1>11 DEF Stop, directory
  <2> QED BY <1>t, <2>1, <2>2, StepsOnTheWay
<1> QED
  BY <1>1, <1>2, <1>3, <1>4, <1>5, <1>6, <1>7, <1>8, <1>9, <1>10, <1>11
  DEF Step

LEMMA CallerTypes ==
  ASSUME TypeInv, CallerClears \/ \E n \in CallerNames : CallerCreates(n)
  PROVE  TypeInv'
<1>1. CASE CallerClears
  <2>1. \A s \in Runs : pc[s] # "write"
    BY <1>1 DEF CallerClears, Running, Steps
  <2> QED BY <1>1, <2>1, EntryKinds
    DEF CallerClears, TypeInv, TypeOK, OpenedIsFile
<1>2. ASSUME NEW n \in CallerNames, CallerCreates(n)
      PROVE  TypeInv'
  <2>1. n \in Names /\ entry \in [Names -> Entry] /\ entry[n] = Nothing
    BY <1>2, PublicationAssumption DEF CallerCreates, TypeInv, TypeOK
  <2>2. PICK new \in {Written(Caller, "all", {}, {}), Subdirectory} :
          entry' = [entry EXCEPT ![n] = new]
    BY <1>2 DEF CallerCreates
  <2>3. new \in Entry
    <3>1. Caller \in Writers /\ "all" \in {"none", "some", "all"}
          /\ {} \in SUBSET Writers /\ {} \in SUBSET Image
      BY DEF Writers
    <3>2. Written(Caller, "all", {}, {}) \in Entry
      BY <3>1, FileType
    <3> QED BY <2>2, <3>2, EntryKinds
  <2>4. /\ entry' \in [Names -> Entry]
        /\ \A m \in Names : entry[m].kind = "file" => entry'[m].kind = "file"
    BY <2>1, <2>2, <2>3, EntryKinds
  <2>5. UNCHANGED <<made, pc, next, bound, seen>>
    BY <1>2 DEF CallerCreates
  <2>6. OpenedIsFile'
    <3>1. ASSUME NEW s \in Runs, pc[s] = "write"
          PROVE  entry'[WriteOrder[next[s]]].kind = "file"
      <4>1. entry[WriteOrder[next[s]]].kind = "file" /\ next[s] \in 1..6
        BY <3>1, Order DEF TypeInv, TypeOK, OpenedIsFile
      <4> QED BY <4>1, <2>4, Order
    <3> QED BY <2>5, <3>1 DEF OpenedIsFile
  <2> QED BY <2>4, <2>5, <2>6 DEF TypeInv, TypeOK
<1> QED BY <1>1, <1>2

LEMMA StutterTypes ==
  ASSUME TypeInv, UNCHANGED vars
  PROVE  TypeInv'
BY DEF TypeInv, TypeOK, OpenedIsFile, vars

(* However many runs use the directory at the same time, every entry of it *)
(* is nothing, a directory or a file, no run writes past its last file,    *)
(* and a run writes only into a file that it has opened.                   *)
THEOREM TypeInvariant == Spec => []TypeInv
<1>1. ASSUME TypeInv, [Next]_vars
      PROVE  TypeInv'
  BY <1>1, RunTypes, CallerTypes, StutterTypes DEF Next, Finished
<1> QED BY <1>1, InitTypes, PTL DEF Spec

THEOREM TypeCorrect == Spec => []TypeOK
<1>1. TypeInv => TypeOK
  BY DEF TypeInv
<1> QED BY <1>1, TypeInvariant, PTL

-----------------------------------------------------------------------------
(* Runs in turn.                                                           *)

LEMMA StepKinds ==
  /\ {"check", "load", "open", "write", "bind", "list", "manifest", "receipt"} = Steps
  /\ Ends \cap Steps = {} /\ "idle" \notin Steps \cup Ends
BY DEF Steps, Ends

LEMMA OthersAtRest ==
  ASSUME Alone, NEW r \in Runs, pc[r] \in Steps
  PROVE  \A t \in Runs : t # r => pc[t] \notin Steps
BY DEF Alone, Running

(* A step of the running run leaves the others where they are.             *)
LEMMA OnlyTheRunning ==
  ASSUME TurnInv, TypeInv', ManifestSeals',
         NEW r \in Runs, NEW e \in Steps \cup Ends, GoTo(r, e),
         \A t \in Runs : t # r => pc[t] \notin Steps /\ next'[t] = next[t],
         TurnOf(r)'
  PROVE  TurnInv'
<1>1. \A t \in Runs : t # r => pc'[t] = pc[t] /\ pc'[t] \notin Steps
  BY DEF GoTo, TurnInv, TypeInv, TypeOK
<1>2. Alone'
  BY <1>1 DEF Alone, Running
<1>3. ASSUME NEW t \in Runs, t # r
      PROVE  TurnOf(t)'
  <2>1. pc'[t] \notin Steps
    BY <1>1, <1>3
  <2>2. OwnOnly(t)' /\ Unsealed(t)' /\ Bound(t)'
    BY <2>1, StepKinds DEF OwnOnly, Unsealed, Bound
  <2>3. pc'[t] = "idle" => next'[t] = 1
    BY <1>1, <1>3 DEF TurnInv, TurnOf, WrittenSoFar
  <2>4. WrittenSoFar(t)'
    BY <2>1, <2>3, StepKinds DEF WrittenSoFar
  <2> QED BY <2>2, <2>4 DEF TurnOf
<1> QED BY <1>2, <1>3 DEF TurnInv

(* A run that has ended promises nothing more.                             *)
LEMMA EndedTurn ==
  ASSUME NEW r \in Runs, NEW e \in Ends, GoTo(r, e), TypeInv
  PROVE  TurnOf(r)'
<1>1. pc'[r] \in Ends
  BY DEF GoTo, TypeInv, TypeOK
<1>2. pc'[r] \notin Steps /\ pc'[r] # "idle"
  BY <1>1, StepKinds
<1> QED BY <1>2, StepKinds DEF TurnOf, OwnOnly, Unsealed, WrittenSoFar, Bound

LEMMA SealsKept ==
  ASSUME ManifestSeals, UNCHANGED entry
  PROVE  ManifestSeals'
BY DEF ManifestSeals, Sealed, Whole, Decodes

LEMMA NoSealNeeded ==
  ASSUME ~Decodes(entry[Manifest])'
  PROVE  ManifestSeals'
BY DEF ManifestSeals

LEMMA StartTurn ==
  ASSUME MaxRunning = 1, IsFiniteSet(Runs), NEW r \in Runs, TurnInv, Start(r)
  PROVE  TurnInv'
<1>1. Running = {}
  <2>1. IsFiniteSet(Running) /\ Cardinality(Running) < 1
    <3>1. Running \in SUBSET Runs
      BY DEF Running
    <3> QED BY <3>1, FS_Subset DEF Start
  <2>2. Cardinality(Running) = 0
    BY <2>1, FS_CardinalityType
  <2> QED BY <2>1, <2>2, FS_EmptySet
<1>2. \A t \in Runs : pc[t] \notin Steps
  BY <1>1 DEF Running
<1>3. GoTo(r, "check") /\ UNCHANGED <<made, entry, next, bound, seen>>
  BY DEF Start, directory
<1>4. TypeInv' /\ ManifestSeals'
  BY <1>3, RunTypes, SealsKept DEF TurnInv
<1>5. TurnOf(r)'
  <2>1. pc'[r] = "check" /\ next'[r] = 1
    BY <1>3 DEF GoTo, Start, TurnInv, TurnOf, WrittenSoFar, TypeInv, TypeOK
  <2> QED BY <2>1 DEF TurnOf, OwnOnly, Unsealed, WrittenSoFar, Bound
<1>6. "check" \in Steps \cup Ends
  BY StepKinds
<1> QED BY <1>2, <1>3, <1>4, <1>5, <1>6, OnlyTheRunning

(* Steps that do not touch the entries.                                    *)
LEMMA QuietTurn ==
  ASSUME NEW r \in Runs, TurnInv,
         \/ EnsureEmptyDirectory(r) \/ Evaluate(r) \/ BindReceipt(r)
         \/ VerifyArtifactSet(r) \/ ReadManifest(r) \/ ReadReceipt(r) \/ Stop(r)
  PROVE  TurnInv'
<1>1. TypeInv' /\ UNCHANGED <<entry, next>> /\ pc[r] \in Steps
  <2>1. Step(r)
    BY DEF Step
  <2>2. TypeInv'
    BY <2>1, RunTypes DEF TurnInv
  <2> QED BY <2>2, StepKinds
    DEF EnsureEmptyDirectory, Evaluate, BindReceipt, VerifyArtifactSet,
        ReadManifest, ReadReceipt, Stop, directory
<1>2. ManifestSeals'
  BY <1>1, SealsKept DEF TurnInv
<1>3. \A t \in Runs : t # r => pc[t] \notin Steps /\ next'[t] = next[t]
  BY <1>1, OthersAtRest DEF TurnInv
<1>4. /\ pc' = [pc EXCEPT ![r] = pc'[r]]
      /\ GoTo(r, pc'[r])
      /\ \/ pc'[r] \in Ends
         \/ pc[r] = "check" /\ pc'[r] = "load" /\ \A n \in Names : entry[n] = Nothing
         \/ pc[r] = "load" /\ pc'[r] = "open"
         \/ /\ pc[r] = "bind" /\ pc'[r] = "open"
            /\ bound'[r] = {entry[Receipt].bytes}
         \/ pc[r] = "list" /\ pc'[r] = "manifest"
         \/ pc[r] = "manifest" /\ pc'[r] = "receipt"
  <2>1. pc \in [Runs -> {"idle"} \cup Steps \cup Ends] /\ bound \in [Runs -> SUBSET Image]
    BY DEF TurnInv, TypeInv, TypeOK
  <2>2. /\ pc' = [pc EXCEPT ![r] = pc'[r]]
        /\ \/ pc'[r] \in Ends
           \/ pc[r] = "check" /\ pc'[r] = "load" /\ \A n \in Names : entry[n] = Nothing
           \/ pc[r] = "load" /\ pc'[r] = "open"
           \/ /\ pc[r] = "bind" /\ pc'[r] = "open"
              /\ bound'[r] = {entry[Receipt].bytes}
           \/ pc[r] = "list" /\ pc'[r] = "manifest"
           \/ pc[r] = "manifest" /\ pc'[r] = "receipt"
    <3>1. CASE EnsureEmptyDirectory(r)
      BY <2>1, <3>1 DEF EnsureEmptyDirectory, GoTo, Ends
    <3>2. CASE Evaluate(r)
      BY <2>1, <3>2 DEF Evaluate, GoTo
    <3>3. CASE BindReceipt(r)
      BY <2>1, <3>3 DEF BindReceipt, GoTo, Ends
    <3>4. CASE VerifyArtifactSet(r)
      <4>1. PICK e \in {"manifest", "failed"} : GoTo(r, e)
        BY <3>4 DEF VerifyArtifactSet
      <4>2. pc[r] = "list"
        BY <3>4 DEF VerifyArtifactSet
      <4> QED BY <2>1, <4>1, <4>2 DEF GoTo, Ends
    <3>5. CASE ReadManifest(r)
      BY <2>1, <3>5 DEF ReadManifest, GoTo, Ends
    <3>6. CASE ReadReceipt(r)
      <4>1. PICK e \in {"succeeded", "failed"} : GoTo(r, e)
        BY <3>6 DEF ReadReceipt
      <4> QED BY <2>1, <4>1 DEF GoTo, Ends
    <3>7. CASE Stop(r)
      BY <2>1, <3>7 DEF Stop, GoTo, Ends
    <3> QED BY <3>1, <3>2, <3>3, <3>4, <3>5, <3>6, <3>7
  <2> QED BY <2>2 DEF GoTo
<1>5. TurnOf(r)'
  <2>t. TurnOf(r) /\ pc'[r] \in Steps \cup Ends
    BY <1>4, StepKinds DEF TurnInv
  <2>1. CASE pc'[r] \in Ends
    BY <1>4, <2>1, EndedTurn DEF TurnInv
  <2>2. CASE pc[r] = "check" /\ pc'[r] = "load" /\ \A n \in Names : entry[n] = Nothing
    <3>1. Nothing.kind # "file" /\ Manifest \in Names
      BY EntryKinds, Order
    <3>2. OwnOnly(r)' /\ Unsealed(r)'
      BY <1>1, <2>2, <3>1 DEF OwnOnly, Unsealed, Decodes
    <3>3. next'[r] = 1
      BY <1>1, <2>t, <2>2 DEF TurnOf, WrittenSoFar
    <3> QED BY <2>2, <3>2, <3>3 DEF TurnOf, WrittenSoFar, Bound
  <2>3. CASE pc[r] = "load" /\ pc'[r] = "open"
    <3>1. next'[r] = 1
      BY <1>1, <2>t, <2>3 DEF TurnOf, WrittenSoFar
    <3>2. OwnOnly(r)' /\ Unsealed(r)'
      BY <1>1, <2>t, <2>3 DEF TurnOf, OwnOnly, Unsealed, Steps
    <3> QED BY <2>3, <3>1, <3>2 DEF TurnOf, WrittenSoFar, Bound
  <2>4. CASE /\ pc[r] = "bind" /\ pc'[r] = "open"
             /\ bound'[r] = {entry[Receipt].bytes}
    <3>1. OwnOnly(r)' /\ Unsealed(r)' /\ Bound(r)'
      BY <1>1, <2>t, <2>4 DEF TurnOf, OwnOnly, Unsealed, Bound, Steps
    <3>2. \A i \in 1..(next'[r] - 1) : Whole(r, WriteOrder[i])'
      BY <1>1, <2>t, <2>4 DEF TurnOf, WrittenSoFar, Whole
    <3> QED BY <2>4, <3>1, <3>2 DEF TurnOf, WrittenSoFar
  <2>5. CASE \/ pc[r] = "list" /\ pc'[r] = "manifest"
             \/ pc[r] = "manifest" /\ pc'[r] = "receipt"
    <3>1. OwnOnly(r)'
      BY <1>1, <2>t, <2>5 DEF TurnOf, OwnOnly, Steps
    <3>2. Sealed(r)'
      BY <1>1, <2>t, <2>5 DEF TurnOf, WrittenSoFar, Sealed, Whole
    <3> QED BY <2>5, <3>1, <3>2 DEF TurnOf, WrittenSoFar, Unsealed, Bound
  <2> QED BY <1>4, <2>1, <2>2, <2>3, <2>4, <2>5
<1>6. pc'[r] \in Steps \cup Ends
  BY <1>4, StepKinds
<1> QED BY <1>1, <1>2, <1>3, <1>4, <1>5, <1>6, OnlyTheRunning

(* A file is opened: what was written before is under other names.         *)
LEMMA OpenTurn ==
  ASSUME NEW r \in Runs, TurnInv, OpenFile(r)
  PROVE  TurnInv'
<1> DEFINE n == WriteOrder[next[r]]
           new == Written(r, "none", {}, {})
<1>1. TypeInv' /\ pc[r] = "open" /\ UNCHANGED <<made, next, bound, seen>>
  BY OpenTypes DEF TurnInv, OpenFile
<1>2. next[r] \in 1..6 /\ n \in Names /\ entry \in [Names -> Entry] /\ TurnOf(r)
  BY Order DEF TurnInv, TypeInv, TypeOK
<1>3. \A t \in Runs : t # r => pc[t] \notin Steps /\ next'[t] = next[t]
  BY <1>1, OthersAtRest, StepKinds DEF TurnInv
<1>4. CASE entry[n].kind = "directory"
  <2>1. GoTo(r, "failed") /\ UNCHANGED entry
    BY <1>4 DEF OpenFile
  <2>2. TurnOf(r)' /\ ManifestSeals' /\ "failed" \in Steps \cup Ends
    BY <2>1, EndedTurn, SealsKept DEF TurnInv, Ends
  <2> QED BY <1>1, <1>3, <2>1, <2>2, OnlyTheRunning
<1>5. CASE entry[n].kind # "directory"
  <2>1. entry' = [entry EXCEPT ![n] = new] /\ GoTo(r, "write")
    BY <1>5 DEF OpenFile
  <2>2. entry'[n] = new /\ \A m \in Names : m # n => entry'[m] = entry[m]
    <3> HIDE DEF n, new
    <3> QED BY <1>2, <2>1
  <2>3. new.bytes.by = r /\ new.bytes.part = "none"
    BY DEF Written
  <2>4. ~Decodes(entry[Manifest])
    BY <1>1, <1>2 DEF TurnOf, Unsealed
  <2>5. ~Decodes(entry[Manifest])'
    <3> HIDE DEF n, new
    <3> QED BY <2>2, <2>3, <2>4, Order DEF Decodes
  <2>6. pc'[r] = "write"
    BY <2>1 DEF GoTo, TurnInv, TypeInv, TypeOK
  <2>7. OwnOnly(r)'
    <3>1. \A m \in Names : entry[m].kind = "file" => entry[m].bytes.by \in {r, Caller}
      BY <1>1, <1>2 DEF TurnOf, OwnOnly, Steps
    <3> HIDE DEF n, new
    <3> QED BY <2>2, <2>3, <3>1 DEF OwnOnly
  <2>8. \A i \in 1..(next[r] - 1) : Whole(r, WriteOrder[i])'
    <3> SUFFICES ASSUME NEW i \in 1..(next[r] - 1) PROVE Whole(r, WriteOrder[i])'
      OBVIOUS
    <3>1. i \in 1..6 /\ i # next[r]
      BY <1>2
    <3>2. WriteOrder[i] \in Names /\ WriteOrder[i] # n
      BY <1>2, <3>1, Order
    <3>3. Whole(r, WriteOrder[i])
      BY <1>1, <1>2 DEF TurnOf, WrittenSoFar
    <3> HIDE DEF n, new
    <3> QED BY <2>2, <3>2, <3>3 DEF Whole
  <2>9. WrittenSoFar(r)'
    BY <1>1, <2>2, <2>6, <2>8 DEF WrittenSoFar
  <2>10. Bound(r)'
    <3>1. next[r] = 6 => n # Receipt
      BY Order DEF Manifest, Receipt
    <3>2. next[r] = 6 => bound[r] = {entry[Receipt].bytes}
      BY <1>1, <1>2 DEF TurnOf, Bound
    <3> HIDE DEF n, new
    <3> QED BY <1>1, <2>2, <3>1, <3>2, Order DEF Bound
  <2>11. TurnOf(r)' /\ ManifestSeals'
    BY <2>5, <2>7, <2>9, <2>10, NoSealNeeded DEF TurnOf, Unsealed
  <2>12. "write" \in Steps \cup Ends
    BY StepKinds
  <2> QED BY <1>1, <1>3, <2>1, <2>11, <2>12, OnlyTheRunning
<1> QED BY <1>4, <1>5

(* What a write leaves of the directory: the file of r, and the rest as it *)
(* was.                                                                    *)
LEMMA TurnWrites ==
  ASSUME NEW r \in Runs, TurnInv, pc[r] = "write", NEW part \in {"some", "all"},
         NEW new \in Overwritten(r, entry[WriteOrder[next[r]]], part),
         entry' = [entry EXCEPT ![WriteOrder[next[r]]] = new]
  PROVE  /\ next[r] \in 1..6 /\ WriteOrder[next[r]] \in Names
         /\ entry'[WriteOrder[next[r]]] = Written(r, part, {}, Binds(r))
         /\ \A m \in Names : m # WriteOrder[next[r]] => entry'[m] = entry[m]
<1> DEFINE n == WriteOrder[next[r]]
<1>1. next[r] \in 1..6 /\ n \in Names /\ entry \in [Names -> Entry] /\ TurnOf(r)
  BY Order DEF TurnInv, TypeInv, TypeOK
<1>2. entry[n] = Written(r, "none", {}, {})
  BY <1>1 DEF TurnOf, WrittenSoFar
<1>3. Empty(entry[n])
  <2> HIDE DEF n
  <2> QED BY <1>2 DEF Empty, Written
<1>4. new = Written(r, part, {}, Binds(r))
  BY <1>3 DEF Overwritten, Binds
<1>5. entry'[n] = new /\ \A m \in Names : m # n => entry'[m] = entry[m]
  <2>1. entry' = [entry EXCEPT ![n] = new]
    OBVIOUS
  <2> HIDE DEF n
  <2> QED BY <1>1, <2>1
<1> QED BY <1>1, <1>4, <1>5

LEMMA ShortTurn ==
  ASSUME NEW r \in Runs, TurnInv, ShortWrite(r)
  PROVE  TurnInv' /\ ~Decodes(entry[Manifest])'
<1>1. /\ TypeInv' /\ pc[r] = "write" /\ TurnOf(r)
      /\ \A t \in Runs : t # r => pc[t] \notin Steps /\ next'[t] = next[t]
  <2>1. Step(r)
    BY DEF Step
  <2>2. TypeInv'
    BY <2>1, RunTypes DEF TurnInv
  <2> QED BY <2>2, OthersAtRest, StepKinds DEF TurnInv, ShortWrite
<1>2. PICK new \in Overwritten(r, entry[WriteOrder[next[r]]], "some") :
        entry' = [entry EXCEPT ![WriteOrder[next[r]]] = new]
  BY DEF ShortWrite
<1>3. PICK e \in {"failed", "killed"} : GoTo(r, e)
  BY DEF ShortWrite
<1>4. e \in Ends
  BY DEF Ends
<1>5. /\ WriteOrder[next[r]] \in Names
      /\ entry'[WriteOrder[next[r]]] = Written(r, "some", {}, Binds(r))
      /\ \A m \in Names : m # WriteOrder[next[r]] => entry'[m] = entry[m]
  BY <1>1, <1>2, TurnWrites
<1>6. ~Decodes(entry[Manifest])'
  <2>1. ~Decodes(entry[Manifest])
    BY <1>1 DEF TurnOf, Unsealed
  <2>2. Written(r, "some", {}, Binds(r)).bytes.part = "some"
    BY DEF Written
  <2>3. CASE WriteOrder[next[r]] = Manifest
    BY <1>5, <2>2, <2>3 DEF Decodes
  <2>4. CASE WriteOrder[next[r]] # Manifest
    BY <1>5, <2>1, <2>4, Order DEF Decodes
  <2> QED BY <2>3, <2>4
<1>7. TurnOf(r)' /\ ManifestSeals'
  BY <1>3, <1>4, <1>6, EndedTurn, NoSealNeeded DEF TurnInv
<1> QED BY <1>1, <1>3, <1>4, <1>6, <1>7, OnlyTheRunning

(* The file is written: with the manifest, the observation is sealed.      *)
LEMMA WholeTurn ==
  ASSUME NEW r \in Runs, TurnInv, WriteFile(r)
  PROVE  /\ TurnInv'
         /\ WriteOrder[next[r]] = Manifest => Sealed(r)'
         /\ WriteOrder[next[r]] # Manifest => ~Decodes(entry[Manifest])'
<1> DEFINE n == WriteOrder[next[r]]
           new == Written(r, "all", {}, Binds(r))
<1>1. /\ TypeInv' /\ pc[r] = "write" /\ TurnOf(r)
      /\ next' = [next EXCEPT ![r] = IF n = Manifest THEN @ ELSE @ + 1]
      /\ GoTo(r, After(n)) /\ UNCHANGED bound
  <2>1. Step(r)
    BY DEF Step
  <2>2. TypeInv'
    BY <2>1, RunTypes DEF TurnInv
  <2> QED BY <2>2 DEF TurnInv, WriteFile
<1>2. PICK file \in Overwritten(r, entry[n], "all") :
        entry' = [entry EXCEPT ![n] = file]
  BY DEF WriteFile
<1>3. /\ next[r] \in 1..6 /\ n \in Names
      /\ entry'[n] = new
      /\ \A m \in Names : m # n => entry'[m] = entry[m]
  BY <1>1, <1>2, TurnWrites
<1>4. /\ new.kind = "file" /\ new.binds = Binds(r)
      /\ new.bytes = [by |-> r, part |-> "all", tail |-> {}]
  BY DEF Written
<1>5. /\ \A t \in Runs : t # r => pc[t] \notin Steps /\ next'[t] = next[t]
      /\ n # Manifest => next'[r] = next[r] + 1
      /\ pc'[r] = After(n)
  <2>1. next \in [Runs -> 1..6] /\ pc \in [Runs -> {"idle"} \cup Steps \cup Ends]
    BY Order DEF TurnInv, TypeInv, TypeOK
  <2>2. \A t \in Runs : t # r => pc[t] \notin Steps
    BY <1>1, OthersAtRest, StepKinds DEF TurnInv
  <2> HIDE DEF n
  <2> QED BY <1>1, <2>1, <2>2 DEF GoTo
<1>6. \A i \in 1..next[r] : Whole(r, WriteOrder[i])'
  <2> SUFFICES ASSUME NEW i \in 1..next[r] PROVE Whole(r, WriteOrder[i])'
    OBVIOUS
  <2>1. CASE i = next[r]
    <3>1. WriteOrder[i] = n
      BY <2>1
    <3> HIDE DEF n, new
    <3> QED BY <1>3, <1>4, <3>1 DEF Whole
  <2>2. CASE i # next[r]
    <3>1. i \in 1..6 /\ i \in 1..(next[r] - 1)
      BY <1>3, <2>2
    <3>2. WriteOrder[i] \in Names /\ WriteOrder[i] # n
      BY <1>3, <2>2, <3>1, Order
    <3>3. Whole(r, WriteOrder[i])
      BY <1>1, <3>1 DEF TurnOf, WrittenSoFar
    <3> HIDE DEF n, new
    <3> QED BY <1>3, <3>2, <3>3 DEF Whole
  <2> QED BY <2>1, <2>2
<1>7. \A m \in Names : entry'[m].kind = "file" => entry'[m].bytes.by \in {r, Caller}
  <2>1. \A m \in Names : entry[m].kind = "file" => entry[m].bytes.by \in {r, Caller}
    BY <1>1 DEF TurnOf, OwnOnly, Steps
  <2>2. new.bytes.by = r
    BY <1>4
  <2> HIDE DEF n, new
  <2> QED BY <1>3, <2>1, <2>2
<1>8. ~Decodes(entry[Manifest])
  BY <1>1 DEF TurnOf, Unsealed
<1>9. CASE n = Manifest
  <2>1. next[r] = 6 /\ pc'[r] = "list"
    <3>1. next[r] = 6
      BY <1>3, <1>9, Order
    <3> QED BY <1>5, <1>9, <3>1 DEF After, Manifest
  <2>2. entry'[Receipt] = entry[Receipt] /\ bound[r] = {entry[Receipt].bytes}
    <3>1. Receipt # n
      BY <1>9 DEF Manifest, Receipt
    <3>2. bound[r] = {entry[Receipt].bytes}
      BY <1>1, <2>1 DEF TurnOf, Bound
    <3> HIDE DEF n, new
    <3> QED BY <1>3, <3>1, <3>2, Order
  <2>3. Sealed(r)'
    <3>1. \A m \in ArtifactKinds : Whole(r, m)'
      BY <1>6, <2>1, Order
    <3>2. entry'[Manifest].binds = {entry'[Receipt].bytes}
      <4>1. Binds(r) = bound[r]
        BY <1>9 DEF Binds
      <4>2. entry'[Manifest] = new
        BY <1>3, <1>9
      <4> HIDE DEF new
      <4> QED BY <1>4, <2>2, <4>1, <4>2
    <3> QED BY <3>1, <3>2 DEF Sealed
  <2>4. ManifestSeals'
    <3>1. Whole(r, Manifest)'
      BY <2>3 DEF Sealed, ArtifactKinds
    <3> QED BY <2>3, <3>1 DEF ManifestSeals
  <2>5. TurnOf(r)'
    BY <1>7, <2>1, <2>3 DEF TurnOf, OwnOnly, Unsealed, WrittenSoFar, Bound
  <2>6. GoTo(r, "list") /\ "list" \in Steps \cup Ends
    BY <1>1, <1>9, StepKinds DEF After, Manifest
  <2>7. TurnInv'
    BY <1>1, <1>5, <2>4, <2>5, <2>6, OnlyTheRunning
  <2> QED BY <1>9, <2>3, <2>7
<1>10. CASE n # Manifest
  <2>1. ~Decodes(entry[Manifest])'
    <3> HIDE DEF n, new
    <3> QED BY <1>3, <1>8, <1>10, Order DEF Decodes
  <2>2. next'[r] = next[r] + 1 /\ next[r] # 6
    BY <1>5, <1>10, Order
  <2>3. \A i \in 1..(next'[r] - 1) : Whole(r, WriteOrder[i])'
    <3>1. next'[r] - 1 = next[r]
      BY <1>3, <2>2
    <3> QED BY <1>6, <3>1
  <2>4. \/ n = "observer-report.md" /\ After(n) = "bind" /\ next'[r] = 6
        \/ n # "observer-report.md" /\ After(n) = "open" /\ next'[r] # 6
    <3>1. n = "observer-report.md" <=> next[r] = 5
      BY <1>3, Order
    <3>2. next'[r] = 6 <=> next[r] = 5
      BY <1>3, <2>2
    <3> QED BY <1>10, <3>1, <3>2 DEF After
  <2>5. After(n) \in Steps \cup Ends
    BY <2>4, StepKinds
  <2>6. TurnOf(r)'
    BY <1>5, <1>7, <2>1, <2>3, <2>4 DEF TurnOf, OwnOnly, Unsealed, WrittenSoFar, Bound
  <2>7. TurnInv'
    BY <1>1, <1>5, <2>1, <2>5, <2>6, OnlyTheRunning, NoSealNeeded
  <2> QED BY <1>10, <2>1, <2>7
<1> QED BY <1>9, <1>10

(* The caller adds to what is there.                                       *)
LEMMA Added ==
  ASSUME TypeInv, NEW n \in CallerNames, CallerCreates(n)
  PROVE  /\ \A m \in Names : entry[m].kind = "file" => entry'[m] = entry[m]
         /\ \A m \in Names : m # n => entry'[m] = entry[m]
         /\ n \in Names /\ entry[n] = Nothing
         /\ entry'[n].kind # "file" \/ entry'[n].bytes.by = Caller
         /\ UNCHANGED <<made, pc, next, bound, seen>>
<1>1. n \in Names /\ entry \in [Names -> Entry] /\ entry[n] = Nothing
  BY PublicationAssumption DEF CallerCreates, TypeInv, TypeOK
<1>2. PICK new \in {Written(Caller, "all", {}, {}), Subdirectory} :
        entry' = [entry EXCEPT ![n] = new]
  BY DEF CallerCreates
<1>3. new.kind # "file" \/ new.bytes.by = Caller
  <2>1. Written(Caller, "all", {}, {}).bytes.by = Caller
    BY DEF Written
  <2> QED BY <1>2, <2>1, EntryKinds
<1> QED BY <1>1, <1>2, <1>3, EntryKinds DEF CallerCreates

LEMMA AddedSeals ==
  ASSUME TypeInv, NEW n \in CallerNames, CallerCreates(n)
  PROVE  /\ \A r \in Runs : Sealed(r)' <=> Sealed(r)
         /\ Decodes(entry[Manifest])' <=> Decodes(entry[Manifest])
<1>1. Caller \notin Runs /\ Manifest \in ArtifactKinds /\ Receipt \in ArtifactKinds
  BY PublicationAssumption DEF ArtifactKinds
<1>2. \A r \in Runs, m \in ArtifactKinds : Whole(r, m)' <=> Whole(r, m)
  <2> SUFFICES ASSUME NEW r \in Runs, NEW m \in ArtifactKinds
               PROVE  Whole(r, m)' <=> Whole(r, m)
    OBVIOUS
  <2>1. m \in Names
    BY Order
  <2>2. CASE m # n
    BY <2>1, <2>2, Added DEF Whole
  <2>3. CASE m = n
    <3>1. ~Whole(r, n)
      BY Added, EntryKinds DEF Whole
    <3>2. ~Whole(r, n)'
      <4>1. entry'[n].kind # "file" \/ entry'[n].bytes.by = Caller
        BY Added
      <4> QED BY <4>1, <1>1 DEF Whole
    <3> QED BY <2>3, <3>1, <3>2
  <2> QED BY <2>2, <2>3
<1>3. ASSUME NEW r \in Runs
      PROVE  Sealed(r)' <=> Sealed(r)
  <2>1. Whole(r, Manifest) => entry'[Manifest] = entry[Manifest]
    BY Added, Order DEF Whole
  <2>2. Whole(r, Receipt) => entry'[Receipt] = entry[Receipt]
    BY Added, Order DEF Whole
  <2>3. Sealed(r) => Sealed(r)'
    BY <1>1, <1>2, <2>1, <2>2 DEF Sealed
  <2>4. Sealed(r)' => Sealed(r)
    BY <1>1, <1>2, <2>1, <2>2 DEF Sealed
  <2> QED BY <2>3, <2>4
<1>4. Decodes(entry[Manifest])' <=> Decodes(entry[Manifest])
  <2>1. CASE Manifest # n
    BY <2>1, Added, Order DEF Decodes
  <2>2. CASE Manifest = n
    BY <1>1, <2>2, Added, EntryKinds DEF Decodes
  <2> QED BY <2>1, <2>2
<1> QED BY <1>3, <1>4

LEMMA CallerTurn ==
  ASSUME TurnInv, CallerClears \/ \E n \in CallerNames : CallerCreates(n)
  PROVE  TurnInv'
<1>1. TypeInv' /\ UNCHANGED <<pc, next, bound, seen>>
  BY CallerTypes DEF TurnInv, CallerClears, CallerCreates
<1>2. Alone'
  BY <1>1 DEF TurnInv, Alone, Running
<1>3. CASE CallerClears
  <2>1. ~Decodes(entry[Manifest])'
    BY <1>3, EntryKinds, Order DEF CallerClears, Decodes
  <2>2. \A r \in Runs : pc[r] \notin Steps
    BY <1>3 DEF CallerClears, Running
  <2>3. ASSUME NEW r \in Runs
        PROVE  TurnOf(r)'
    <3>1. pc'[r] \notin Steps /\ (pc'[r] = "idle" => next'[r] = 1)
      BY <1>1, <2>2 DEF TurnInv, TurnOf, WrittenSoFar
    <3> QED BY <3>1, StepKinds DEF TurnOf, OwnOnly, Unsealed, WrittenSoFar, Bound
  <2> QED BY <1>1, <1>2, <2>1, <2>3, NoSealNeeded DEF TurnInv
<1>4. ASSUME NEW n \in CallerNames, CallerCreates(n)
      PROVE  TurnInv'
  <2>1. /\ \A r \in Runs : Sealed(r)' <=> Sealed(r)
        /\ Decodes(entry[Manifest])' <=> Decodes(entry[Manifest])
    BY <1>4, AddedSeals DEF TurnInv
  <2>2. /\ \A m \in Names : entry[m].kind = "file" => entry'[m] = entry[m]
        /\ \A m \in Names : m # n => entry'[m] = entry[m]
        /\ entry'[n].kind # "file" \/ entry'[n].bytes.by = Caller
    BY <1>4, Added DEF TurnInv
  <2>3. ManifestSeals'
    <3>1. ASSUME Decodes(entry[Manifest])'
          PROVE  \E r \in Runs : Whole(r, Manifest)' /\ Sealed(r)'
      <4>1. PICK r \in Runs : Sealed(r)
        BY <2>1, <3>1 DEF TurnInv, ManifestSeals
      <4>2. Sealed(r)'
        BY <2>1, <4>1
      <4> QED BY <4>2 DEF Sealed, ArtifactKinds
    <3> QED BY <3>1 DEF ManifestSeals
  <2>4. ASSUME NEW r \in Runs
        PROVE  TurnOf(r)'
    <3>1. TurnOf(r) /\ UNCHANGED <<pc, next, bound>>
      BY <1>1 DEF TurnInv
    <3>2. OwnOnly(r)'
      BY <2>2, <3>1 DEF TurnOf, OwnOnly
    <3>3. Unsealed(r)'
      BY <2>1, <3>1 DEF TurnOf, Unsealed
    <3>4. next[r] \in 1..6
      BY Order DEF TurnInv, TypeInv, TypeOK
    <3>5. \A i \in 1..6 : Whole(r, WriteOrder[i]) => Whole(r, WriteOrder[i])'
      BY <2>2, Order DEF Whole
    <3>6. pc[r] = "write" => entry'[WriteOrder[next[r]]] = entry[WriteOrder[next[r]]]
      BY <2>2, <3>4, Order DEF TurnInv, TypeInv, OpenedIsFile
    <3>7. \A i \in 1..(next[r] - 1) : i \in 1..6
      BY <3>4
    <3>8. WrittenSoFar(r)'
      BY <2>1, <3>1, <3>5, <3>6, <3>7 DEF TurnOf, WrittenSoFar
    <3>9. Bound(r)'
      <4>1. ASSUME pc[r] \in {"open", "write"}, next[r] = 6
            PROVE  bound[r] = {entry'[Receipt].bytes}
        <5>1. Whole(r, WriteOrder[4]) /\ bound[r] = {entry[Receipt].bytes}
          BY <3>1, <4>1 DEF TurnOf, WrittenSoFar, Bound
        <5>2. entry'[Receipt] = entry[Receipt]
          BY <2>2, <5>1, Order DEF Whole
        <5> QED BY <5>1, <5>2
      <4> QED BY <3>1, <4>1 DEF Bound
    <3> QED BY <3>2, <3>3, <3>8, <3>9 DEF TurnOf
  <2> QED BY <1>1, <1>2, <2>3, <2>4 DEF TurnInv
<1> QED BY <1>3, <1>4

LEMMA StutterTurn ==
  ASSUME TurnInv, UNCHANGED vars
  PROVE  TurnInv'
<1>1. UNCHANGED <<entry, pc, next, bound>> /\ TypeInv'
  BY StutterTypes DEF TurnInv, vars
<1> QED BY <1>1, SealsKept DEF TurnInv, Alone, Running, TurnOf, OwnOnly, Unsealed,
                               WrittenSoFar, Bound, Sealed, Whole, Decodes

LEMMA TurnStep ==
  ASSUME MaxRunning = 1, IsFiniteSet(Runs), TurnInv, [Next]_vars
  PROVE  TurnInv'
<1>1. ASSUME NEW r \in Runs, Start(r) \/ Step(r)
      PROVE  TurnInv'
  BY <1>1, StartTurn, QuietTurn, OpenTurn, WholeTurn, ShortTurn DEF Step
<1> QED BY <1>1, CallerTurn, StutterTurn DEF Next, Finished

LEMMA InitTurn == Init => TurnInv
<1> SUFFICES ASSUME Init PROVE TurnInv
  OBVIOUS
<1>1. \A r \in Runs : pc[r] = "idle" /\ next[r] = 1
  BY DEF Init
<1>2. Alone
  BY <1>1, StepKinds DEF Alone, Running
<1>3. ManifestSeals
  BY EntryKinds, Order DEF Init, ManifestSeals, Decodes
<1>4. \A r \in Runs : TurnOf(r)
  BY <1>1, StepKinds DEF TurnOf, OwnOnly, Unsealed, WrittenSoFar, Bound
<1> QED BY InitTypes, <1>2, <1>3, <1>4 DEF TurnInv

(* Runs in turn, whatever their number, their cases and the caller: what a *)
(* run has written since it found the directory empty is whole and its     *)
(* own, and no manifest decodes before its last write.                     *)
THEOREM TurnInvariant ==
  ASSUME MaxRunning = 1, IsFiniteSet(Runs)
  PROVE  Spec => []TurnInv
<1>1. TurnInv /\ [Next]_vars => TurnInv'
  BY TurnStep
<1> QED BY <1>1, InitTurn, PTL DEF Spec

(* For runs in turn a manifest that decodes stands beside five whole files *)
(* of its own run and binds the receipt among them (main.go:254-314).      *)
THEOREM ManifestSealsTheWhole ==
  ASSUME MaxRunning = 1, IsFiniteSet(Runs)
  PROVE  Spec => []ManifestSeals
<1>1. TurnInv => ManifestSeals
  BY DEF TurnInv
<1> QED BY <1>1, TurnInvariant, PTL

-----------------------------------------------------------------------------
(* Nobody touches what a run has left.                                     *)

Refusal ==
  \A r \in Runs, n \in Names :
    entry[n].kind = "file" /\ entry[n].bytes.by = r /\ pc[r] \in Ends /\ made'
      => entry'[n] = entry[n]

LEMMA LeftAlone ==
  ASSUME TurnInv, [Next]_vars
  PROVE  Refusal
<1> SUFFICES ASSUME NEW r \in Runs, NEW n \in Names, entry[n].kind = "file",
                    entry[n].bytes.by = r, pc[r] \in Ends, made'
             PROVE  entry'[n] = entry[n]
  BY DEF Refusal
<1>1. CASE UNCHANGED vars
  BY <1>1 DEF vars
<1>2. CASE CallerClears
  BY <1>2 DEF CallerClears
<1>3. ASSUME NEW m \in CallerNames, CallerCreates(m)
      PROVE  entry'[n] = entry[n]
  BY <1>3, Added DEF TurnInv
<1>4. ASSUME NEW s \in Runs, Start(s) \/ Step(s)
      PROVE  entry'[n] = entry[n]
  <2>1. CASE UNCHANGED entry
    BY <2>1
  <2>2. CASE OpenFile(s) \/ WriteFile(s) \/ ShortWrite(s)
    <3>1. pc[s] \in {"open", "write"}
      BY <2>2 DEF OpenFile, WriteFile, ShortWrite
    <3>2. r # s /\ r # Caller
      BY <3>1, StepKinds, PublicationAssumption
    <3>3. entry[n].bytes.by \in {s, Caller}
      <4>1. OwnOnly(s) /\ pc[s] \in Steps \ {"check"}
        BY <3>1 DEF TurnInv, TurnOf, Steps
      <4> QED BY <4>1 DEF OwnOnly
    <3> QED BY <3>2, <3>3
  <2> QED
    BY <1>4, <2>1, <2>2
    DEF Start, Step, EnsureEmptyDirectory, Evaluate, BindReceipt,
        VerifyArtifactSet, ReadManifest, ReadReceipt, Stop, directory
<1> QED BY <1>1, <1>2, <1>3, <1>4 DEF Next, Finished

(* For runs in turn no later run adds to or changes what a run that came   *)
(* to its end has left, as long as the caller does not clear the directory *)
(* (main.go:317-334, 254-296).                                             *)
THEOREM RemainsRefused ==
  ASSUME MaxRunning = 1, IsFiniteSet(Runs)
  PROVE  Spec => RemainsAreRefused
<1>1. TurnInv /\ [Next]_vars => [Refusal]_vars
  BY LeftAlone
<1> QED BY <1>1, TurnInvariant, PTL DEF Spec, RemainsAreRefused, Refusal

-----------------------------------------------------------------------------
(* The vault.                                                              *)

LEMMA OneSeals ==
  /\ \A r, s \in Runs : Sealed(r) /\ Sealed(s) => r = s
  /\ \A r \in Runs : Sealed(r) => Decodes(entry[Manifest])
BY DEF Sealed, Whole, Decodes, ArtifactKinds

LEMMA HolderNow ==
  /\ \A r \in Runs : Sealed(r) => holderOfDirectory = r
  /\ (\A r \in Runs : ~Sealed(r)) => holderOfDirectory = Nobody
<1>1. ASSUME NEW r \in Runs, Sealed(r)
      PROVE  holderOfDirectory = r
  <2>1. holderOfDirectory = CHOOSE s \in Runs : Sealed(s)
    BY <1>1 DEF holderOfDirectory
  <2>2. (CHOOSE s \in Runs : Sealed(s)) \in Runs /\ Sealed(CHOOSE s \in Runs : Sealed(s))
    BY <1>1
  <2> QED BY <1>1, <2>1, <2>2, OneSeals
<1>2. (\A r \in Runs : ~Sealed(r)) => holderOfDirectory = Nobody
  BY DEF holderOfDirectory
<1> QED BY <1>1, <1>2

LEMMA HolderNext ==
  /\ \A r \in Runs : Sealed(r)' => holderOfDirectory' = r
  /\ (\A r \in Runs : ~Sealed(r)') => holderOfDirectory' = Nobody
<1>1. (/\ \A r \in Runs : Sealed(r) => holderOfDirectory = r
       /\ (\A r \in Runs : ~Sealed(r)) => holderOfDirectory = Nobody)'
  BY HolderNow, PTL
<1> QED BY <1>1

LEMMA HolderKept ==
  ASSUME \A r \in Runs : Sealed(r)' <=> Sealed(r)
  PROVE  UNCHANGED holderOfDirectory
<1>1. CASE \E r \in Runs : Sealed(r)
  BY <1>1, HolderNow, HolderNext
<1>2. CASE \A r \in Runs : ~Sealed(r)
  BY <1>2, HolderNow, HolderNext
<1> QED BY <1>1, <1>2

LEMMA SameSeals ==
  ASSUME UNCHANGED entry
  PROVE  \A r \in Runs : Sealed(r)' <=> Sealed(r)
BY DEF Sealed, Whole

Told == {r \in Runs : pc[r] = "succeeded"}

(* The runs that go on and the runs that reported success, after a step of *)
(* the run r.                                                              *)
LEMMA Moved ==
  ASSUME TypeInv, NEW r \in Runs, pc[r] \in Steps, NEW e \in Steps \cup Ends, GoTo(r, e)
  PROVE  /\ r \in Running
         /\ Running' = IF e \in Steps THEN Running ELSE Running \ {r}
         /\ Told' = IF e = "succeeded" THEN Told \cup {r} ELSE Told
<1>1. pc'[r] = e /\ \A t \in Runs : t # r => pc'[t] = pc[t]
  BY DEF GoTo, TypeInv, TypeOK
<1>2. pc[r] # "succeeded"
  BY StepKinds
<1>3. r \in Running
  BY DEF Running
<1>4. CASE e \in Steps
  <2>1. Running' = Running /\ e # "succeeded"
    BY <1>1, <1>4, StepKinds DEF Running
  <2>2. Told' = Told
    BY <1>1, <1>2, <2>1 DEF Told
  <2> QED BY <1>3, <1>4, <2>1, <2>2
<1>5. CASE e \notin Steps
  <2>1. Running' = Running \ {r}
    BY <1>1, <1>5 DEF Running
  <2>2. CASE e = "succeeded"
    <3>1. Told' = Told \cup {r}
      BY <1>1, <2>2 DEF Told
    <3> QED BY <1>3, <1>5, <2>1, <2>2, <3>1
  <2>3. CASE e # "succeeded"
    <3>1. Told' = Told
      BY <1>1, <1>2, <2>3 DEF Told
    <3> QED BY <1>3, <1>5, <2>1, <2>3, <3>1
  <2> QED BY <2>2, <2>3
<1> QED BY <1>4, <1>5

(* A step that does not touch the entries begins, ends or passes over.     *)
LEMMA QuietVault ==
  ASSUME TurnInv, NEW r \in Runs, NEW e \in Steps \cup Ends, GoTo(r, e),
         pc[r] \in Steps, UNCHANGED entry, e = "succeeded" => Sealed(r)
  PROVE  [Vault!Next]_(Vault!vars)
<1>1. UNCHANGED holderOfDirectory
  BY SameSeals, HolderKept
<1>2. /\ r \in Running
      /\ Running' = IF e \in Steps THEN Running ELSE Running \ {r}
      /\ Told' = IF e = "succeeded" THEN Told \cup {r} ELSE Told
  BY Moved DEF TurnInv
<1>3. CASE e \in Steps
  <2>1. UNCHANGED <<Running, Told>>
    BY <1>2, <1>3, StepKinds DEF Ends
  <2> QED BY <1>1, <2>1 DEF Vault!vars, Told
<1>4. CASE e = "succeeded"
  <2>1. /\ holderOfDirectory = r /\ Running' = Running \ {r}
        /\ Told' = Told \cup {r}
    <3>1. holderOfDirectory = r
      BY <1>4, HolderNow
    <3> QED BY <1>2, <1>4, <3>1, StepKinds DEF Ends
  <2>2. Vault!Succeed(r)
    BY <1>1, <1>2, <2>1 DEF Vault!Succeed, Told
  <2> QED BY <2>2 DEF Vault!Next
<1>5. CASE e \notin Steps /\ e # "succeeded"
  <2>1. Vault!End(r)
    BY <1>1, <1>2, <1>5 DEF Vault!End, Told
  <2> QED BY <2>1 DEF Vault!Next
<1> QED BY <1>3, <1>4, <1>5

LEMMA StartVault ==
  ASSUME TurnInv, NEW r \in Runs, Start(r)
  PROVE  Vault!Next
<1>1. pc[r] = "idle" /\ GoTo(r, "check") /\ UNCHANGED entry
  BY DEF Start, directory
<1>2. pc'[r] = "check" /\ \A t \in Runs : t # r => pc'[t] = pc[t]
  BY <1>1 DEF GoTo, TurnInv, TypeInv, TypeOK
<1>3. r \notin Running /\ Running' = Running \cup {r}
  BY <1>1, <1>2, StepKinds DEF Running
<1>4. Told' = Told
  BY <1>1, <1>2 DEF Told
<1>5. UNCHANGED holderOfDirectory
  BY <1>1, SameSeals, HolderKept
<1>6. Vault!Begin(r)
  BY <1>3, <1>4, <1>5 DEF Vault!Begin, Told
<1> QED BY <1>6 DEF Vault!Next

(* While files are written nothing is sealed, until the manifest is.       *)
LEMMA FileVault ==
  ASSUME TurnInv, TurnInv', NEW r \in Runs,
         OpenFile(r) \/ WriteFile(r) \/ ShortWrite(r)
  PROVE  [Vault!Next]_(Vault!vars)
<1>1. pc[r] \in {"open", "write"} /\ pc[r] \in Steps
  BY StepKinds DEF OpenFile, WriteFile, ShortWrite
<1>2. PICK e \in Steps \cup Ends : GoTo(r, e) /\ e # "succeeded"
  <2>1. CASE OpenFile(r)
    <3>1. PICK e \in {"failed", "write"} : GoTo(r, e)
      BY <2>1 DEF OpenFile
    <3> QED BY <3>1 DEF Steps, Ends
  <2>2. CASE WriteFile(r)
    <3>1. PICK e \in {"bind", "list", "open"} : GoTo(r, e)
      BY <2>2 DEF WriteFile, After
    <3> QED BY <3>1 DEF Steps, Ends
  <2>3. CASE ShortWrite(r)
    <3>1. PICK e \in {"failed", "killed"} : GoTo(r, e)
      BY <2>3 DEF ShortWrite
    <3> QED BY <3>1 DEF Steps, Ends
  <2> QED BY <1>1, <2>1, <2>2, <2>3
<1>3. /\ r \in Running
      /\ Running' = IF e \in Steps THEN Running ELSE Running \ {r}
      /\ Told' = Told
  BY <1>1, <1>2, Moved DEF TurnInv
<1>4. ~Decodes(entry[Manifest])
  BY <1>1 DEF TurnInv, TurnOf, Unsealed
<1>5. \A t \in Runs : ~Sealed(t)
  BY <1>4, OneSeals
<1>6. holderOfDirectory = Nobody
  BY <1>5, HolderNow
<1>7. CASE ~Decodes(entry[Manifest])'
  <2>1. \A t \in Runs : ~Sealed(t)'
    BY <1>7 DEF Sealed, Whole, Decodes, ArtifactKinds
  <2>2. UNCHANGED holderOfDirectory
    BY <1>6, <2>1, HolderNext
  <2>3. CASE e \in Steps
    <3>1. UNCHANGED Running
      BY <1>3, <2>3
    <3> QED BY <1>3, <2>2, <3>1 DEF Vault!vars, Told
  <2>4. CASE e \notin Steps
    <3>1. Vault!End(r)
      BY <1>3, <2>2, <2>4 DEF Vault!End, Told
    <3> QED BY <3>1 DEF Vault!Next
  <2> QED BY <2>3, <2>4
<1>8. CASE Decodes(entry[Manifest])'
  <2>1. Sealed(r)' /\ e \in Steps
    <3>1. PICK s \in Runs : Whole(s, Manifest)' /\ Sealed(s)'
      BY <1>8 DEF TurnInv, ManifestSeals
    <3>2. pc'[r] = e
      BY <1>2 DEF GoTo, TurnInv, TypeInv, TypeOK
    <3>3. CASE OpenFile(r)
      <4>1. (pc'[r] = "failed" /\ UNCHANGED entry) \/ pc'[r] = "write"
        BY <3>3 DEF OpenFile, GoTo, TurnInv, TypeInv, TypeOK
      <4>2. pc'[r] # "write"
        BY <1>8 DEF TurnInv, TurnOf, Unsealed
      <4>3. UNCHANGED entry
        BY <4>1, <4>2
      <4> QED BY <1>4, <1>8, <4>3 DEF Decodes
    <3>4. CASE WriteFile(r)
      <4>1. WriteOrder[next[r]] = Manifest /\ Sealed(r)'
        BY <1>8, <3>4, WholeTurn
      <4>2. GoTo(r, "list")
        BY <3>4, <4>1 DEF WriteFile, After, Manifest
      <4>3. pc'[r] = "list"
        BY <4>2 DEF GoTo, TurnInv, TypeInv, TypeOK
      <4> QED BY <3>2, <4>1, <4>3, StepKinds
    <3>5. CASE ShortWrite(r)
      BY <1>8, <3>5, ShortTurn
    <3> QED BY <3>3, <3>4, <3>5
  <2>2. holderOfDirectory' = r /\ UNCHANGED Running
    BY <1>3, <2>1, HolderNext
  <2>3. Vault!Publish(r)
    BY <1>3, <1>6, <2>2 DEF Vault!Publish, Told
  <2> QED BY <2>3 DEF Vault!Next
<1> QED BY <1>7, <1>8

LEMMA CallerVault ==
  ASSUME TurnInv, CallerClears \/ \E n \in CallerNames : CallerCreates(n)
  PROVE  [Vault!Next]_(Vault!vars)
<1>1. UNCHANGED <<Running, Told>>
  <2>1. UNCHANGED pc
    BY DEF CallerClears, CallerCreates
  <2> QED BY <2>1 DEF Running, Told
<1>2. CASE CallerClears
  <2>1. \A r \in Runs : ~Sealed(r)'
    BY <1>2, EntryKinds, Order DEF CallerClears, Sealed, Whole
  <2>2. holderOfDirectory' = Nobody
    BY <2>1, HolderNext
  <2>3. Vault!Clear
    BY <1>1, <1>2, <2>2 DEF Vault!Clear, CallerClears, Told
  <2> QED BY <2>3 DEF Vault!Next
<1>3. ASSUME NEW n \in CallerNames, CallerCreates(n)
      PROVE  UNCHANGED Vault!vars
  <2>1. UNCHANGED holderOfDirectory
    BY <1>3, AddedSeals, HolderKept DEF TurnInv
  <2> QED BY <1>1, <2>1 DEF Vault!vars, Told
<1> QED BY <1>2, <1>3

LEMMA VaultStep ==
  ASSUME TurnInv, TurnInv', [Next]_vars
  PROVE  [Vault!Next]_(Vault!vars)
<1>1. CASE UNCHANGED vars
  <2>1. UNCHANGED <<entry, pc>>
    BY <1>1 DEF vars
  <2>2. UNCHANGED holderOfDirectory
    BY <2>1, SameSeals, HolderKept
  <2> QED BY <2>1, <2>2 DEF Vault!vars, Running
<1>2. ASSUME NEW r \in Runs, Step(r)
      PROVE  [Vault!Next]_(Vault!vars)
  <2>1. CASE OpenFile(r) \/ WriteFile(r) \/ ShortWrite(r)
    BY <2>1, FileVault
  <2>2. CASE \/ EnsureEmptyDirectory(r) \/ Evaluate(r) \/ BindReceipt(r)
             \/ VerifyArtifactSet(r) \/ ReadManifest(r) \/ ReadReceipt(r) \/ Stop(r)
    <3>1. pc[r] \in Steps /\ UNCHANGED entry
      BY <2>2, StepKinds
      DEF EnsureEmptyDirectory, Evaluate, BindReceipt, VerifyArtifactSet,
          ReadManifest, ReadReceipt, Stop, directory
    <3>2. PICK e \in Steps \cup Ends :
            GoTo(r, e) /\ (e = "succeeded" => pc[r] = "receipt")
      <4>1. CASE EnsureEmptyDirectory(r)
        <5>1. PICK e \in {"load", "failed"} : GoTo(r, e)
          BY <4>1 DEF EnsureEmptyDirectory
        <5> QED BY <5>1 DEF Steps, Ends
      <4>2. CASE Evaluate(r) \/ BindReceipt(r) \/ ReadManifest(r) \/ Stop(r)
        <5>1. PICK e \in {"open", "receipt", "failed", "killed"} : GoTo(r, e)
          BY <4>2 DEF Evaluate, BindReceipt, ReadManifest, Stop
        <5> QED BY <5>1 DEF Steps, Ends
      <4>3. CASE VerifyArtifactSet(r)
        <5>1. PICK e \in {"manifest", "failed"} : GoTo(r, e)
          BY <4>3 DEF VerifyArtifactSet
        <5> QED BY <5>1 DEF Steps, Ends
      <4>4. CASE ReadReceipt(r)
        <5>1. PICK e \in {"succeeded", "failed"} : GoTo(r, e)
          BY <4>4 DEF ReadReceipt
        <5>2. pc[r] = "receipt"
          BY <4>4 DEF ReadReceipt
        <5> QED BY <5>1, <5>2 DEF Steps, Ends
      <4> QED BY <2>2, <4>1, <4>2, <4>3, <4>4
    <3>3. pc[r] = "receipt" => Sealed(r)
      BY DEF TurnInv, TurnOf, WrittenSoFar
    <3> QED BY <3>1, <3>2, <3>3, QuietVault
  <2> QED BY <1>2, <2>1, <2>2 DEF Step
<1>3. ASSUME NEW r \in Runs, Start(r)
      PROVE  Vault!Next
  BY <1>3, StartVault
<1> QED BY <1>1, <1>2, <1>3, CallerVault DEF Next, Finished

LEMMA VaultStart ==
  ASSUME Init
  PROVE  Vault!Init
<1>1. \A r \in Runs : pc[r] = "idle" /\ ~Sealed(r)
  BY EntryKinds, Order DEF Init, Sealed, Whole
<1>2. holderOfDirectory = Nobody
  BY <1>1, HolderNow
<1>3. Running = {} /\ Told = {}
  BY <1>1, StepKinds DEF Running, Told
<1> QED BY <1>2, <1>3 DEF Vault!Init, Told

(* Runs in turn implement the vault: an observation appears whole and with *)
(* its manifest, no later run replaces or damages it, and success is       *)
(* reported only of the observation that is there (main.go:171-315).       *)
THEOREM VaultImplemented ==
  ASSUME MaxRunning = 1, IsFiniteSet(Runs)
  PROVE  Spec => ImplementsVault
<1>1. TurnInv /\ TurnInv' /\ [Next]_vars => [Vault!Next]_(Vault!vars)
  BY VaultStep
<1>2. Init => Vault!Init
  BY VaultStart
<1> QED BY <1>1, <1>2, TurnInvariant, PTL DEF Spec, ImplementsVault, Vault!Spec

-----------------------------------------------------------------------------
(* Runs at the same time.                                                  *)

(* What runs that write over each other can still rely on.  A file of a    *)
(* run is there, whichever run wrote it last ...                           *)
FileOfRun(n) == entry[n].kind = "file" /\ entry[n].bytes.by \in Runs

(* ... it is complete unless that run is still writing it or was stopped,  *)
FilesComplete ==
  \A n \in Names :
    FileOfRun(n) =>
      LET w == entry[n].bytes.by
      IN  \/ entry[n].bytes.part = "all"
          \/ pc[w] \in {"failed", "killed"}
          \/ pc[w] = "write" /\ WriteOrder[next[w]] = n

(* ... no file that a running run has written is gone,                     *)
NothingGone(r) ==
  /\ pc[r] \in {"idle", "check"} => next[r] = 1
  /\ pc[r] \in {"load", "open", "write", "bind"} =>
       \A i \in 1..(next[r] - 1) : FileOfRun(WriteOrder[i])
  /\ pc[r] = "write" => FileOfRun(WriteOrder[next[r]])
  /\ pc[r] \in {"list", "manifest", "receipt"} =>
       \A n \in ArtifactKinds : FileOfRun(n)

(* ... and when all have written, the run whose manifest is there has      *)
(* looked at this manifest and at the receipt that is there.               *)
LastOne(r) ==
  AllWritten /\ entry[Manifest].kind = "file" /\ entry[Manifest].bytes.by = r =>
    /\ pc[r] = "receipt" => seen[r] = entry[Manifest]
    /\ pc[r] = "succeeded" =>
         /\ \A n \in ArtifactKinds : Decodes(entry[n])
         /\ entry[Manifest].binds = {entry[Receipt].bytes}

TogetherInv ==
  /\ FilesComplete
  /\ \A r \in Runs : NothingGone(r) /\ LastOne(r)

LEMMA InitTogether == Init => TogetherInv
<1> SUFFICES ASSUME Init PROVE TogetherInv
  OBVIOUS
<1>1. \A n \in Names : entry[n].kind # "file"
  BY EntryKinds DEF Init
<1>2. \A r \in Runs : NothingGone(r) /\ LastOne(r)
  BY <1>1, Order DEF Init, NothingGone, LastOne
<1> QED BY <1>1, <1>2 DEF TogetherInv, FilesComplete, FileOfRun

(* The steps that change neither a file nor the position among them.       *)
QuietMove(r, e) ==
  \/ pc[r] \in Steps /\ e \in {"failed", "killed"}
  \/ pc[r] = "idle" /\ e = "check"
  \/ pc[r] = "check" /\ e = "load"
  \/ pc[r] \in {"load", "bind"} /\ e = "open"
  \/ pc[r] = "list" /\ e = "manifest"
  \/ pc[r] = "manifest" /\ e = "receipt" /\ seen'[r] = entry[Manifest]
  \/ /\ pc[r] = "receipt" /\ e = "succeeded" /\ seen'[r] = seen[r]
     /\ verifyDetachedReceiptBinding(seen[r], entry[Receipt])

LEMMA QuietTogether ==
  ASSUME TypeInv, TogetherInv, NEW r \in Runs, NEW e, GoTo(r, e), QuietMove(r, e),
         UNCHANGED <<entry, next>>, \A s \in Runs : s # r => seen'[s] = seen[s]
  PROVE  TogetherInv'
<1>1. /\ pc'[r] = e /\ \A s \in Runs : s # r => pc'[s] = pc[s]
      /\ entry' = entry /\ next' = next
  BY DEF GoTo, TypeInv, TypeOK
<1>2. \A n : FileOfRun(n)' <=> FileOfRun(n)
  BY <1>1 DEF FileOfRun
<1>3. FilesComplete'
  <2>1. ASSUME NEW n \in Names, FileOfRun(n), NEW w \in Runs, w = entry[n].bytes.by,
               entry[n].bytes.part # "all"
        PROVE  \/ pc'[w] \in {"failed", "killed"}
               \/ pc'[w] = "write" /\ WriteOrder[next'[w]] = n
    <3>1. \/ pc[w] \in {"failed", "killed"}
          \/ pc[w] = "write" /\ WriteOrder[next[w]] = n
      BY <2>1 DEF TogetherInv, FilesComplete
    <3>2. CASE w # r
      BY <1>1, <3>1, <3>2
    <3>3. CASE w = r
      BY <1>1, <3>1, <3>3 DEF QuietMove, Steps
    <3> QED BY <3>2, <3>3
  <2> QED BY <1>1, <2>1 DEF FilesComplete, FileOfRun
<1>4. ASSUME NEW s \in Runs PROVE NothingGone(s)'
  <2>1. NothingGone(s)
    BY DEF TogetherInv
  <2>2. CASE s # r
    BY <1>1, <1>2, <2>1, <2>2 DEF NothingGone
  <2>3. CASE s = r
    <3>1. next[r] = 1 => 1..(next[r] - 1) = {}
      OBVIOUS
    <3> QED BY <1>1, <1>2, <2>1, <2>3, <3>1 DEF NothingGone, QuietMove
  <2> QED BY <2>2, <2>3
<1>5. AllWritten' => AllWritten
  <2> SUFFICES ASSUME AllWritten', NEW s \in Runs
               PROVE pc[s] \in {"idle", "check", "list", "manifest", "receipt", "succeeded"}
    BY DEF AllWritten
  <2>1. pc'[s] \in {"idle", "check", "list", "manifest", "receipt", "succeeded"}
    BY DEF AllWritten
  <2>2. CASE s # r
    BY <1>1, <2>1, <2>2
  <2>3. CASE s = r
    BY <1>1, <2>1, <2>3 DEF QuietMove
  <2> QED BY <2>2, <2>3
<1>6. ASSUME NEW s \in Runs, AllWritten',
             entry[Manifest].kind = "file", entry[Manifest].bytes.by = s
      PROVE  /\ pc'[s] = "receipt" => seen'[s] = entry[Manifest]
             /\ pc'[s] = "succeeded" =>
                  /\ \A n \in ArtifactKinds : Decodes(entry[n])
                  /\ entry[Manifest].binds = {entry[Receipt].bytes}
  <2>1. AllWritten
    BY <1>5, <1>6
  <2>2. /\ pc[s] = "receipt" => seen[s] = entry[Manifest]
        /\ pc[s] = "succeeded" =>
             /\ \A n \in ArtifactKinds : Decodes(entry[n])
             /\ entry[Manifest].binds = {entry[Receipt].bytes}
    BY <1>6, <2>1 DEF TogetherInv, LastOne
  <2>3. CASE s # r
    BY <1>1, <2>2, <2>3
  <2>4. CASE s = r /\ pc'[r] = "receipt"
    BY <1>1, <2>4 DEF QuietMove
  <2>5. CASE s = r /\ pc'[r] = "succeeded"
    <3>1. /\ pc[r] = "receipt"
          /\ verifyDetachedReceiptBinding(seen[r], entry[Receipt])
      BY <1>1, <2>5 DEF QuietMove
    <3>2. entry[Manifest].binds = {entry[Receipt].bytes}
      BY <2>2, <2>5, <3>1 DEF verifyDetachedReceiptBinding
    <3>3. ASSUME NEW n \in ArtifactKinds PROVE Decodes(entry[n])
      <4>1. FileOfRun(n) /\ n \in Names
        BY <3>1, Order DEF TogetherInv, NothingGone
      <4>2. pc[entry[n].bytes.by] \notin {"failed", "killed", "write"}
        BY <2>1, <4>1 DEF AllWritten, FileOfRun
      <4> QED BY <4>1, <4>2 DEF TogetherInv, FilesComplete, FileOfRun, Decodes
    <3> QED BY <2>5, <3>2, <3>3, <1>1
  <2>6. CASE s = r /\ pc'[r] \notin {"receipt", "succeeded"}
    BY <2>6
  <2> QED BY <2>3, <2>4, <2>5, <2>6
<1>7. \A s \in Runs : LastOne(s)'
  BY <1>1, <1>6 DEF LastOne
<1> QED BY <1>3, <1>4, <1>7 DEF TogetherInv

(* A step that opens or writes the next file n of r.                       *)
LEMMA FileTogether ==
  ASSUME TypeInv, TogetherInv, NEW r \in Runs, NEW n, n = WriteOrder[next[r]],
         NEW new, new.kind = "file", new.bytes.by = r,
         entry' = [entry EXCEPT ![n] = new], NEW e, GoTo(r, e),
         pc[r] \in {"open", "write"},
         \/ e = "write" /\ next' = next
         \/ e \in {"failed", "killed"} /\ next' = next
         \/ /\ new.bytes.part = "all" /\ pc[r] = "write" /\ n = Manifest
            /\ e = "list" /\ next' = next
         \/ /\ new.bytes.part = "all" /\ pc[r] = "write"
            /\ e \in {"open", "bind"} /\ next' = [next EXCEPT ![r] = @ + 1]
  PROVE  TogetherInv'
<1>1. /\ next[r] \in 1..6 /\ n \in Names /\ n \in ArtifactKinds
      /\ next \in [Runs -> 1..6] /\ entry \in [Names -> Entry]
  BY Order DEF TypeInv, TypeOK
<1>2. /\ entry'[n] = new /\ \A m \in Names : m # n => entry'[m] = entry[m]
      /\ pc'[r] = e /\ \A s \in Runs : s # r => pc'[s] = pc[s]
      /\ \A s \in Runs : s # r => next'[s] = next[s]
      /\ next'[r] = next[r] \/ next'[r] = next[r] + 1
  BY <1>1 DEF GoTo, TypeInv, TypeOK
<1>3. /\ FileOfRun(n)'
      /\ \A m \in Names : FileOfRun(m) => FileOfRun(m)'
  BY <1>2 DEF FileOfRun
<1>4. FilesComplete'
  <2>1. ASSUME NEW m \in Names, FileOfRun(m)', NEW w \in Runs, w = entry'[m].bytes.by,
               entry'[m].bytes.part # "all"
        PROVE  \/ pc'[w] \in {"failed", "killed"}
               \/ pc'[w] = "write" /\ WriteOrder[next'[w]] = m
    <3>1. CASE m = n
      BY <1>2, <2>1, <3>1
    <3>2. CASE m # n
      <4>1. \/ pc[w] \in {"failed", "killed"}
            \/ pc[w] = "write" /\ WriteOrder[next[w]] = m
        BY <1>2, <2>1, <3>2 DEF TogetherInv, FilesComplete, FileOfRun
      <4>2. w # r
        BY <3>2, <4>1
      <4> QED BY <1>2, <4>1, <4>2
    <3> QED BY <3>1, <3>2
  <2> QED BY <2>1 DEF FilesComplete, FileOfRun
<1>5. ASSUME NEW s \in Runs PROVE NothingGone(s)'
  <2>1. NothingGone(s) /\ next[s] \in 1..6
    BY <1>1 DEF TogetherInv
  <2>2. \A i \in 1..6 : WriteOrder[i] \in Names
    BY Order
  <2>3. CASE s # r
    <3>1. \A i \in 1..(next[s] - 1) : i \in 1..6
      BY <2>1
    <3>2. \A m \in ArtifactKinds : m \in Names
      BY Order
    <3> QED BY <1>2, <1>3, <2>1, <2>2, <2>3, <3>1, <3>2 DEF NothingGone
  <2>4. CASE s = r
    <3>1. \A i \in 1..(next[r] - 1) : FileOfRun(WriteOrder[i])'
      <4>1. \A i \in 1..(next[r] - 1) : i \in 1..6 /\ FileOfRun(WriteOrder[i])
        BY <2>1, <2>4 DEF NothingGone
      <4> QED BY <1>3, <2>2, <4>1
    <3>2. CASE e = "write" \/ e \in {"failed", "killed"}
      BY <1>2, <1>3, <2>4, <3>1, <3>2 DEF NothingGone
    <3>3. CASE e = "list"
      <4>1. n = Manifest
        BY <3>3
      <4>2. next[r] = 6
        <5>1. PICK i \in 1..6 : i = 6
          OBVIOUS
        <5>2. WriteOrder[i] = WriteOrder[next[r]]
          BY <4>1, <5>1, Order
        <5> QED BY <1>1, <5>1, <5>2, Order
      <4>3. \A i \in 1..6 : FileOfRun(WriteOrder[i])'
        <5>1. \A i \in 1..6 : i = 6 \/ i \in 1..(6 - 1)
          OBVIOUS
        <5> QED BY <1>3, <3>1, <4>2, <5>1
      <4>4. \A m \in ArtifactKinds : FileOfRun(m)'
        BY <4>3, Order
      <4> QED BY <1>2, <2>4, <3>3, <4>4 DEF NothingGone
    <3>4. CASE e \in {"open", "bind"}
      <4>1. next'[r] = next[r] + 1
        BY <1>1, <3>4
      <4>2. \A i \in 1..(next'[r] - 1) : i = next[r] \/ i \in 1..(next[r] - 1)
        BY <1>1, <4>1
      <4>3. \A i \in 1..(next'[r] - 1) : FileOfRun(WriteOrder[i])'
        BY <1>3, <3>1, <4>2
      <4> QED BY <1>2, <2>4, <3>4, <4>3 DEF NothingGone
    <3> QED BY <3>2, <3>3, <3>4
  <2> QED BY <2>3, <2>4
<1>6. ASSUME NEW s \in Runs PROVE LastOne(s)'
  <2>1. CASE e # "list"
    <3>1. ~AllWritten'
      BY <1>2, <2>1 DEF AllWritten
    <3> QED BY <3>1 DEF LastOne
  <2>2. CASE e = "list"
    <3>1. n = Manifest
      BY <2>2
    <3>2. entry'[Manifest].bytes.by = r /\ pc'[r] = "list"
      BY <1>2, <2>2, <3>1
    <3> QED BY <3>2 DEF LastOne
  <2> QED BY <2>1, <2>2
<1> QED BY <1>4, <1>5, <1>6 DEF TogetherInv

LEMMA RunTogether ==
  ASSUME TypeInv, TogetherInv, NEW r \in Runs, Start(r) \/ Step(r)
  PROVE  TogetherInv'
<1> DEFINE n == WriteOrder[next[r]]
<1>1. CASE Start(r)
  BY <1>1, QuietTogether DEF Start, QuietMove, directory
<1>2. CASE EnsureEmptyDirectory(r)
  <2>1. PICK e \in {"load", "failed"} : GoTo(r, e)
    BY <1>2 DEF EnsureEmptyDirectory
  <2>2. QuietMove(r, e)
    BY <1>2 DEF EnsureEmptyDirectory, QuietMove, Steps
  <2> QED BY <1>2, <2>1, <2>2, QuietTogether DEF EnsureEmptyDirectory
<1>3. CASE Evaluate(r)
  BY <1>3, QuietTogether DEF Evaluate, QuietMove, directory
<1>4. CASE OpenFile(r)
  <2>1. CASE entry[n].kind = "directory"
    BY <1>4, <2>1, QuietTogether DEF OpenFile, QuietMove, Steps
  <2>2. CASE entry[n].kind # "directory"
    <3>1. /\ entry' = [entry EXCEPT ![n] = Written(r, "none", {}, {})]
          /\ GoTo(r, "write") /\ next' = next /\ pc[r] = "open"
      BY <1>4, <2>2 DEF OpenFile
    <3>2. /\ Written(r, "none", {}, {}).kind = "file"
          /\ Written(r, "none", {}, {}).bytes.by = r
      BY DEF Written
    <3> HIDE DEF n
    <3>3. n = WriteOrder[next[r]]
      BY DEF n
    <3> QED BY <3>1, <3>2, <3>3, FileTogether
  <2> QED BY <2>1, <2>2
<1>5. ASSUME NEW part \in {"some", "all"}, NEW new \in Overwritten(r, entry[n], part),
             pc[r] = "write"
      PROVE  new.kind = "file" /\ new.bytes.by = r /\ new.bytes.part = part
  <2>1. entry[n] \in File
    <3>1. n \in Names
      BY Order DEF TypeInv, TypeOK
    <3> QED BY <1>5, <3>1, EntryKinds DEF TypeInv, TypeOK, OpenedIsFile
  <2> HIDE DEF n
  <2> QED BY <1>5, <2>1, OverwrittenType DEF TypeInv
<1>6. CASE WriteFile(r)
  <2>1. pc[r] = "write"
    BY <1>6 DEF WriteFile
  <2>2. PICK new \in Overwritten(r, entry[n], "all") :
          entry' = [entry EXCEPT ![n] = new]
    BY <1>6 DEF WriteFile
  <2>3. /\ GoTo(r, After(n))
        /\ next' = [next EXCEPT ![r] = IF n = Manifest THEN @ ELSE @ + 1]
    BY <1>6 DEF WriteFile
  <2>4. new.kind = "file" /\ new.bytes.by = r /\ new.bytes.part = "all"
    BY <1>5, <2>1, <2>2
  <2>5. next \in [Runs -> 1..6] /\ n = WriteOrder[next[r]]
    BY Order DEF TypeInv, TypeOK
  <2>6. CASE n = Manifest
    <3>1. After(n) = "list"
      BY <2>6 DEF After, Manifest
    <3>2. next' = next
      BY <2>3, <2>5, <2>6
    <3> HIDE DEF n
    <3> QED BY <2>1, <2>2, <2>3, <2>4, <2>5, <2>6, <3>1, <3>2, FileTogether
  <2>7. CASE n # Manifest
    <3>1. After(n) \in {"open", "bind"}
      BY <2>7 DEF After
    <3>2. next' = [next EXCEPT ![r] = @ + 1]
      <4> HIDE DEF n
      <4>1. next' = [next EXCEPT ![r] = next[r] + 1]
        BY <2>3, <2>5, <2>7
      <4> QED BY <4>1
    <3> HIDE DEF n
    <3> QED BY <2>1, <2>2, <2>3, <2>4, <2>5, <3>1, <3>2, FileTogether
  <2> QED BY <2>6, <2>7
<1>7. CASE ShortWrite(r)
  <2>1. pc[r] = "write" /\ next' = next
    BY <1>7 DEF ShortWrite
  <2>2. PICK new \in Overwritten(r, entry[n], "some") :
          entry' = [entry EXCEPT ![n] = new]
    BY <1>7 DEF ShortWrite
  <2>3. PICK e \in {"failed", "killed"} : GoTo(r, e)
    BY <1>7 DEF ShortWrite
  <2>4. new.kind = "file" /\ new.bytes.by = r
    BY <1>5, <2>1, <2>2
  <2>5. n = WriteOrder[next[r]]
    OBVIOUS
  <2> HIDE DEF n
  <2> QED BY <2>1, <2>2, <2>3, <2>4, <2>5, FileTogether
<1>8. CASE BindReceipt(r)
  <2>1. PICK e \in {"open", "failed"} : GoTo(r, e)
    BY <1>8 DEF BindReceipt
  <2>2. QuietMove(r, e)
    BY <1>8 DEF BindReceipt, QuietMove, Steps
  <2> QED BY <1>8, <2>1, <2>2, QuietTogether DEF BindReceipt, directory
<1>9. CASE VerifyArtifactSet(r)
  <2>1. PICK e \in {"manifest", "failed"} : GoTo(r, e)
    BY <1>9 DEF VerifyArtifactSet
  <2>2. QuietMove(r, e)
    BY <1>9 DEF VerifyArtifactSet, QuietMove, Steps
  <2> QED BY <1>9, <2>1, <2>2, QuietTogether DEF VerifyArtifactSet, directory
<1>10. CASE ReadManifest(r)
  <2>1. PICK e \in {"receipt", "failed"} : GoTo(r, e)
    BY <1>10 DEF ReadManifest
  <2>2. seen'[r] = entry[Manifest] /\ \A s \in Runs : s # r => seen'[s] = seen[s]
    BY <1>10 DEF ReadManifest, TypeInv, TypeOK
  <2>3. QuietMove(r, e)
    BY <1>10, <2>2 DEF ReadManifest, QuietMove, Steps
  <2> QED BY <1>10, <2>1, <2>2, <2>3, QuietTogether DEF ReadManifest, directory
<1>11. CASE ReadReceipt(r)
  <2>1. PICK e \in {"succeeded", "failed"} :
          /\ GoTo(r, e)
          /\ e = "succeeded" => verifyDetachedReceiptBinding(seen[r], entry[Receipt])
    BY <1>11 DEF ReadReceipt
  <2>2. seen' = seen /\ pc[r] = "receipt" /\ UNCHANGED <<entry, next>>
    BY <1>11 DEF ReadReceipt, directory
  <2>3. QuietMove(r, e)
    BY <2>1, <2>2 DEF QuietMove, Steps
  <2> QED BY <2>1, <2>2, <2>3, QuietTogether
<1>12. CASE Stop(r)
  <2>1. PICK e \in {"failed", "killed"} : GoTo(r, e)
    BY <1>12 DEF Stop
  <2> QED BY <1>12, <2>1, QuietTogether DEF Stop, QuietMove, directory
<1> QED BY <1>1, <1>2, <1>3, <1>4, <1>6, <1>7, <1>8, <1>9, <1>10, <1>11, <1>12 DEF Step

LEMMA CallerTogether ==
  ASSUME TypeInv, TogetherInv, CallerClears \/ \E n \in CallerNames : CallerCreates(n)
  PROVE  TogetherInv'
<1>1. CASE CallerClears
  <2>1. \A n \in Names : entry'[n].kind # "file"
    BY <1>1, EntryKinds DEF CallerClears
  <2>2. \A r \in Runs : pc[r] \notin Steps /\ pc'[r] = pc[r] /\ next'[r] = next[r]
    BY <1>1 DEF CallerClears, Running
  <2>3. \A r \in Runs : NothingGone(r)'
    BY <2>2 DEF TogetherInv, NothingGone, Steps
  <2>4. \A r \in Runs : LastOne(r)'
    BY <2>1, Order DEF LastOne
  <2> QED BY <2>1, <2>3, <2>4 DEF TogetherInv, FilesComplete, FileOfRun
<1>2. ASSUME NEW n \in CallerNames, CallerCreates(n)
      PROVE  TogetherInv'
  <2>1. PICK new \in {Written(Caller, "all", {}, {}), Subdirectory} :
          entry' = [entry EXCEPT ![n] = new]
    BY <1>2 DEF CallerCreates
  <2>2. /\ new.kind = "file" => new.bytes.by = Caller
        /\ n \in Names /\ entry[n].kind # "file" /\ Caller \notin Runs
    BY <1>2, EntryKinds, PublicationAssumption DEF CallerCreates, Written
  <2>3. /\ entry'[n] = new /\ \A m \in Names : m # n => entry'[m] = entry[m]
        /\ pc' = pc /\ next' = next /\ seen' = seen
    <3>1. entry \in [Names -> Entry]
      BY DEF TypeInv, TypeOK
    <3> QED BY <1>2, <2>1, <2>2, <3>1 DEF CallerCreates
  <2>4. \A m \in Names : FileOfRun(m)' <=> FileOfRun(m)
    BY <2>2, <2>3 DEF FileOfRun
  <2>5. FilesComplete'
    <3>1. \A m \in Names : FileOfRun(m) => m # n
      BY <2>2 DEF FileOfRun
    <3> QED BY <2>3, <2>4, <3>1 DEF TogetherInv, FilesComplete
  <2>6. ASSUME NEW r \in Runs PROVE NothingGone(r)'
    <3>1. NothingGone(r) /\ next[r] \in 1..6
      BY Order DEF TogetherInv, TypeInv, TypeOK
    <3>2. \A i \in 1..(next[r] - 1) : i \in 1..6
      BY <3>1
    <3> QED BY <2>3, <2>4, <3>1, <3>2, Order DEF NothingGone
  <2>7. ASSUME NEW r \in Runs PROVE LastOne(r)'
    <3>1. CASE n = Manifest
      BY <2>2, <2>3, <3>1 DEF LastOne
    <3>2. CASE n # Manifest
      <4>1. entry'[Manifest] = entry[Manifest] /\ (AllWritten' <=> AllWritten)
        BY <2>3, <3>2, Order DEF AllWritten
      <4>2. (\A m \in ArtifactKinds : Decodes(entry[m])) =>
              \A m \in ArtifactKinds : entry'[m] = entry[m]
        BY <2>2, <2>3, Order DEF Decodes
      <4>3. Receipt \in ArtifactKinds
        BY DEF ArtifactKinds
      <4> QED BY <2>3, <4>1, <4>2, <4>3 DEF TogetherInv, LastOne
    <3> QED BY <3>1, <3>2
  <2> QED BY <2>5, <2>6, <2>7 DEF TogetherInv
<1> QED BY <1>1, <1>2

LEMMA StutterTogether == TogetherInv /\ UNCHANGED vars => TogetherInv'
BY DEF vars, TogetherInv, FilesComplete, FileOfRun, NothingGone, LastOne, AllWritten

THEOREM TogetherInvariant == Spec => []TogetherInv
<1>1. TypeInv /\ TogetherInv /\ [Next]_vars => TogetherInv'
  BY RunTogether, CallerTogether, StutterTogether DEF Next, Finished
<1> QED BY <1>1, InitTogether, TypeInvariant, PTL DEF Spec

(* However many runs of one case or of several write over each other, and  *)
(* whatever the caller does: when all have written, success of the run     *)
(* whose manifest is there (main.go:294-299) is success on the receipt     *)
(* that is there (main.go:285, 414-455).                                   *)
THEOREM SuccessBound == Spec => []SuccessIsBound
<1>1. TogetherInv => SuccessIsBound
  BY DEF TogetherInv, LastOne, SuccessIsBound
<1> QED BY <1>1, TogetherInvariant, PTL
=============================================================================
