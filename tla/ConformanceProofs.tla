-------------------------- MODULE ConformanceProofs --------------------------
(***************************************************************************)
(* Proofs about the conformance command for every fixture directory and    *)
(* every number of runs: what a success says, that the late checks never   *)
(* fail, that the summary is true, and that the directories of the cases   *)
(* are used as module ObservationVault allows it.                          *)
(***************************************************************************)
EXTENDS Conformance, TLAPS, SequenceTheorems, FunctionTheorems, FiniteSetTheorems

-----------------------------------------------------------------------------
(* The inductive invariant.  The code keeps no list of what it has done    *)
(* but the reports; the invariant says what these stand for.               *)

InLoopBody == {"begin", "observe", "return", "check"}
AfterLoop  == {"substitute", "count", "summary"}

Own == [state |-> "whole", by |-> run]

(* The accepted reports are of the fixtures passed so far, one of each.    *)
ReportsAreOfEntries ==
  /\ \A j \in DOMAIN reports : \E k \in Jsons(fixtures) :
       k < index /\ fixtures.entries[k].name = reports[j]
  /\ \A k \in Jsons(fixtures) :
       k < index => \E j \in DOMAIN reports : reports[j] = fixtures.entries[k].name
  /\ \A i, j \in DOMAIN reports : reports[i] = reports[j] => i = j

(* Each was as expected, and its directory is of this run.                 *)
ReportsAreExpected ==
  \A j \in DOMAIN reports :
    /\ fixtures.outcome[reports[j]].decision = expectedDecision(reports[j])
    /\ fixtures.outcome[reports[j]].complete
    /\ dir[reports[j]] = Own

(* What the body of the loop works on, and the directory it works in.      *)
BodyIsOfCase ==
  /\ pc \in InLoopBody => index \in Jsons(fixtures) /\ current \in Cases
  /\ pc = "observe" => dir[current].state = "empty"
  /\ pc \in {"return", "check"} => dir[current] = Own

(* Twelve reports have been counted before anything else is checked.       *)
LoopIsOver ==
  /\ pc \in AfterLoop => index > Len(fixtures.entries) /\ Len(reports) = 12
  /\ pc = "summary" => Classes \subseteq ClassesSeen

ConfInv ==
  /\ TypeOK
  /\ fixtures \in FixtureDirs
  /\ pc # "idle" => run \in Runs /\ ReportsAreOfEntries /\ ReportsAreExpected
  /\ BodyIsOfCase
  /\ LoopIsOver
  /\ LateChecksFollow
  /\ SummaryIsTrue

-----------------------------------------------------------------------------
(* The table: twelve names, three, four and five of a decision.            *)
LEMMA CaseCounts ==
  /\ IsFiniteSet(ClosedCases) /\ Cardinality(ClosedCases) = 3
  /\ IsFiniteSet(UnknownCases) /\ Cardinality(UnknownCases) = 4
  /\ IsFiniteSet(RefutedCases) /\ Cardinality(RefutedCases) = 5
  /\ IsFiniteSet(Cases) /\ Cardinality(Cases) = 12
<1> DEFINE A1 == {"closed-github-run"}
           A2 == A1 \cup {"closed-github-artifact"}
           A3 == A2 \cup {"closed-caller-input"}
           U1 == {"unknown-direct-missing"}
           U2 == U1 \cup {"unknown-dependency-blocked"}
           U3 == U2 \cup {"unknown-stale"}
           U4 == U3 \cup {"unknown-ambiguous"}
           R1 == {"refuted-contradiction"}
           R2 == R1 \cup {"refuted-self-attestation"}
           R3 == R2 \cup {"refuted-evaluator-digest"}
           R4 == R3 \cup {"refuted-evidence-digest"}
           R5 == R4 \cup {"refuted-source-binding"}
<1>1. /\ IsFiniteSet(A1) /\ Cardinality(A1) = 1
      /\ IsFiniteSet(U1) /\ Cardinality(U1) = 1
      /\ IsFiniteSet(R1) /\ Cardinality(R1) = 1
  BY FS_Singleton
<1>2. IsFiniteSet(A2) /\ Cardinality(A2) = 2
  <2>1. "closed-github-artifact" \notin A1
    OBVIOUS
  <2> HIDE DEF A1
  <2> QED BY <1>1, <2>1, FS_AddElement
<1>3. IsFiniteSet(A3) /\ Cardinality(A3) = 3
  <2>1. "closed-caller-input" \notin A2
    OBVIOUS
  <2> HIDE DEF A2
  <2> QED BY <1>2, <2>1, FS_AddElement
<1>4. IsFiniteSet(U2) /\ Cardinality(U2) = 2
  <2>1. "unknown-dependency-blocked" \notin U1
    OBVIOUS
  <2> HIDE DEF U1
  <2> QED BY <1>1, <2>1, FS_AddElement
<1>5. IsFiniteSet(U3) /\ Cardinality(U3) = 3
  <2>1. "unknown-stale" \notin U2
    OBVIOUS
  <2> HIDE DEF U2
  <2> QED BY <1>4, <2>1, FS_AddElement
<1>6. IsFiniteSet(U4) /\ Cardinality(U4) = 4
  <2>1. "unknown-ambiguous" \notin U3
    OBVIOUS
  <2> HIDE DEF U3
  <2> QED BY <1>5, <2>1, FS_AddElement
<1>7. IsFiniteSet(R2) /\ Cardinality(R2) = 2
  <2>1. "refuted-self-attestation" \notin R1
    OBVIOUS
  <2> HIDE DEF R1
  <2> QED BY <1>1, <2>1, FS_AddElement
<1>8. IsFiniteSet(R3) /\ Cardinality(R3) = 3
  <2>1. "refuted-evaluator-digest" \notin R2
    OBVIOUS
  <2> HIDE DEF R2
  <2> QED BY <1>7, <2>1, FS_AddElement
<1>9. IsFiniteSet(R4) /\ Cardinality(R4) = 4
  <2>1. "refuted-evidence-digest" \notin R3
    OBVIOUS
  <2> HIDE DEF R3
  <2> QED BY <1>8, <2>1, FS_AddElement
<1>10. IsFiniteSet(R5) /\ Cardinality(R5) = 5
  <2>1. "refuted-source-binding" \notin R4
    OBVIOUS
  <2> HIDE DEF R4
  <2> QED BY <1>9, <2>1, FS_AddElement
<1>11. ClosedCases = A3 /\ UnknownCases = U4 /\ RefutedCases = R5
  BY DEF ClosedCases, UnknownCases, RefutedCases
<1>12. ClosedCases \cap UnknownCases = {}
       /\ (ClosedCases \cup UnknownCases) \cap RefutedCases = {}
  BY DEF ClosedCases, UnknownCases, RefutedCases
<1> HIDE DEF A1, A2, A3, U1, U2, U3, U4, R1, R2, R3, R4, R5
<1>13. /\ IsFiniteSet(ClosedCases \cup UnknownCases)
       /\ Cardinality(ClosedCases \cup UnknownCases) = 7
  BY <1>3, <1>6, <1>11, <1>12, FS_Union, FS_EmptySet
<1>14. IsFiniteSet(Cases) /\ Cardinality(Cases) = 12
  BY <1>10, <1>11, <1>12, <1>13, FS_Union, FS_EmptySet DEF Cases
<1> QED BY <1>3, <1>6, <1>10, <1>11, <1>14

(* The three sets of names have nothing in common, so the decision says    *)
(* which set a name is in.                                                 *)
LEMMA TableIsOneToOne ==
  ASSUME NEW c \in Cases
  PROVE  /\ expectedDecision(c) = "CLOSED" <=> c \in ClosedCases
         /\ expectedDecision(c) = "UNKNOWN" <=> c \in UnknownCases
         /\ expectedDecision(c) = "REFUTED" <=> c \in RefutedCases
<1>1. /\ c \in ClosedCases => c \notin UnknownCases /\ c \notin RefutedCases
      /\ c \in UnknownCases => c \notin RefutedCases
  BY DEF ClosedCases, UnknownCases, RefutedCases
<1>2. c \in ClosedCases \/ c \in UnknownCases \/ c \in RefutedCases
  BY DEF Cases
<1>3. CASE c \in ClosedCases
  BY <1>1, <1>3 DEF expectedDecision
<1>4. CASE c \in UnknownCases
  BY <1>1, <1>4 DEF expectedDecision
<1>5. CASE c \in RefutedCases
  BY <1>1, <1>5 DEF expectedDecision
<1> QED BY <1>2, <1>3, <1>4, <1>5

LEMMA CountTo ==
  ASSUME NEW n \in Nat
  PROVE  IsFiniteSet(1..n) /\ Cardinality(1..n) = n
<1>1. n \in Int /\ 1 \in Int
  OBVIOUS
<1>2. /\ IsFiniteSet(1..n)
      /\ Cardinality(1..n) = IF 1 > n THEN 0 ELSE n - 1 + 1
  BY <1>1, FS_Interval, Zenon
<1> QED BY <1>2

(* Twelve different cases are all the cases.                               *)
LEMMA TwelveAreAll ==
  ASSUME NEW s \in Seq(Cases), Len(s) = 12,
         \A i, j \in DOMAIN s : s[i] = s[j] => i = j
  PROVE  \A c \in Cases : \E j \in DOMAIN s : s[j] = c
<1>1. DOMAIN s = 1..12 /\ s \in [1..12 -> Cases]
  BY LenProperties
<1>2. s \in Injection(1..12, Cases)
  BY <1>1 DEF Injection, IsInjective
<1>3. IsFiniteSet(1..12) /\ Cardinality(1..12) = 12
  BY CountTo
<1>4. s \in Surjection(1..12, Cases)
  <2> HIDE DEF Cases
  <2>1. Cardinality(1..12) = Cardinality(Cases)
    BY <1>3, CaseCounts
  <2> QED BY <1>2, <2>1, CaseCounts, FS_Injection
<1> QED BY <1>1, <1>4 DEF Surjection

(* As many positions hold a name of a set as the set has names.            *)
LEMMA PositionsOf ==
  ASSUME NEW s \in Seq(Cases), Len(s) = 12,
         \A i, j \in DOMAIN s : s[i] = s[j] => i = j,
         NEW S \in SUBSET Cases, IsFiniteSet(S)
  PROVE  Cardinality({k \in DOMAIN s : s[k] \in S}) = Cardinality(S)
<1> DEFINE P == {k \in DOMAIN s : s[k] \in S}
           f == [k \in P |-> s[k]]
<1>1. \A c \in S : \E k \in P : s[k] = c
  BY TwelveAreAll
<1>2. f \in Bijection(P, S)
  <2>1. f \in [P -> S]
    OBVIOUS
  <2>2. \A i, j \in P : f[i] = f[j] => i = j
    OBVIOUS
  <2>3. \A c \in S : \E k \in P : f[k] = c
    BY <1>1
  <2> HIDE DEF P, f
  <2> QED BY <2>1, <2>2, <2>3, Fun_IsBij
<1>3. DOMAIN s = 1..12
  BY LenProperties
<1>4. IsFiniteSet(P)
  BY <1>3, CountTo, FS_Subset
<1>5. ExistsBijection(P, S)
  BY <1>2 DEF ExistsBijection
<1> HIDE DEF P, f
<1>6. Cardinality(S) = Cardinality(P)
  BY <1>4, <1>5, FS_Bijection
<1> QED BY <1>6 DEF P


-----------------------------------------------------------------------------
(* What the invariant says of the fixtures and of the entry looked at.     *)
LEMMA FixtureFacts ==
  ASSUME TypeOK
  PROVE  /\ Len(fixtures.entries) \in Nat
         /\ DOMAIN fixtures.entries = 1..Len(fixtures.entries)
         /\ \A k \in DOMAIN fixtures.entries :
              fixtures.entries[k].name \in Cases \cup OtherCases
         /\ Jsons(fixtures) \subseteq 1..Len(fixtures.entries)
         /\ index \in Nat \ {0}
         /\ pc # "idle" => index <= Len(fixtures.entries) + 1
<1>1. fixtures.entries \in Seq(Fixture)
  BY DEF TypeOK, FixtureDir
<1>2. DOMAIN fixtures.entries = 1..Len(fixtures.entries)
      /\ Len(fixtures.entries) \in Nat
  BY <1>1, LenProperties
<1>3. \A k \in DOMAIN fixtures.entries : fixtures.entries[k] \in Fixture
  BY <1>1, <1>2, ElementOfSeq
<1>4. \A f \in Fixture : f.name \in Cases \cup OtherCases
  BY DEF Fixture
<1>5. /\ index \in Nat \ {0}
      /\ pc # "idle" => index <= Len(fixtures.entries) + 1
  BY DEF TypeOK
<1> QED BY <1>2, <1>3, <1>4, <1>5 DEF Jsons

LEMMA ReportFacts ==
  ASSUME TypeOK
  PROVE  /\ reports \in Seq(Cases) /\ Len(reports) \in Nat
         /\ DOMAIN reports = 1..Len(reports)
         /\ \A j \in DOMAIN reports : reports[j] \in Cases
<1>1. reports \in Seq(Cases)
  BY DEF TypeOK
<1>2. DOMAIN reports = 1..Len(reports) /\ Len(reports) \in Nat
  BY <1>1, LenProperties
<1>3. \A j \in DOMAIN reports : reports[j] \in Cases
  BY <1>1, <1>2, ElementOfSeq
<1> QED BY <1>1, <1>2, <1>3

(* Names of one directory differ.                                          *)
LEMMA NamesDiffer ==
  ASSUME ConfInv, NEW j \in Jsons(fixtures), NEW k \in Jsons(fixtures),
         fixtures.entries[j].name = fixtures.entries[k].name
  PROVE  j = k
BY ConformanceAssumption DEF ConfInv

(* What is said of the loop stays while it does not move.                  *)
LEMMA LoopStands ==
  ASSUME UNCHANGED <<fixtures, dir, run, index, reports>>
  PROVE  /\ Own' = Own /\ current' = current
         /\ Jsons(fixtures)' = Jsons(fixtures)
         /\ ClassesSeen' = ClassesSeen
         /\ ReportsAreOfEntries' <=> ReportsAreOfEntries
         /\ ReportsAreExpected' <=> ReportsAreExpected
BY DEF Own, current, Jsons, ClassesSeen, ReportsAreOfEntries, ReportsAreExpected

(* A run that ends or moves on to another check leaves the rest behind.    *)
LEMMA MovedOn ==
  ASSUME ConfInv, TypeOK', UNCHANGED <<fixtures, dir, summary, run, index, reports>>,
         pc # "idle", pc' \notin InLoopBody, LateChecksFollow',
         pc' \in AfterLoop => index > Len(fixtures.entries) /\ Len(reports) = 12,
         pc' = "summary" => Classes \subseteq ClassesSeen
  PROVE  ConfInv'
<1>1. ReportsAreOfEntries' /\ ReportsAreExpected' /\ run' \in Runs
  BY LoopStands DEF ConfInv
<1>2. BodyIsOfCase'
  BY DEF BodyIsOfCase, InLoopBody
<1>3. LoopIsOver'
  BY LoopStands DEF LoopIsOver
<1>4. SummaryIsTrue'
  BY DEF ConfInv, SummaryIsTrue, Listed
<1> QED BY <1>1, <1>2, <1>3, <1>4 DEF ConfInv

-----------------------------------------------------------------------------
(* One lemma for each action.                                              *)
LEMMA InitHolds ==
  ASSUME Init
  PROVE  ConfInv
<1>1. fixtures \in FixtureDirs /\ fixtures \in FixtureDir
  BY ConformanceAssumption DEF Init
<1>2. Len(fixtures.entries) \in Nat
  BY <1>1, LenProperties DEF FixtureDir
<1>3. summary \in Summary /\ dir \in [Cases -> Directory]
  BY DEF Init, NoSummary, Absent, Summary, Directory
<1>4. TypeOK
  BY <1>1, <1>2, <1>3, ConformanceAssumption DEF Init, TypeOK
<1>5. BodyIsOfCase /\ LoopIsOver
  BY DEF Init, BodyIsOfCase, LoopIsOver, InLoopBody, AfterLoop
<1>6. LateChecksFollow /\ SummaryIsTrue
  BY DEF Init, LateChecksFollow, SummaryIsTrue, Listed, NoSummary
<1> QED BY <1>1, <1>4, <1>5, <1>6 DEF ConfInv, Init

LEMMA StartKeeps ==
  ASSUME ConfInv, Start
  PROVE  ConfInv'
<1>1. run' \in Runs
  BY ConformanceAssumption DEF inputs, ConfInv, TypeOK, Start, Runs, Nobody
<1>2. index' = 1 /\ reports' = <<>> /\ fixtures' = fixtures
  BY DEF inputs, Start
<1>3. TypeOK'
  BY <1>1, <1>2, FixtureFacts DEF inputs, ConfInv, TypeOK, Start, outputs, Steps
<1>4. ReportsAreOfEntries' /\ ReportsAreExpected'
  BY <1>2, FixtureFacts DEF ConfInv, ReportsAreOfEntries, ReportsAreExpected, Jsons
<1>5. BodyIsOfCase' /\ LoopIsOver'
  BY DEF inputs, Start, BodyIsOfCase, LoopIsOver, InLoopBody, AfterLoop
<1>6. LateChecksFollow' /\ SummaryIsTrue'
  BY DEF inputs, ConfInv, Start, LateChecksFollow, SummaryIsTrue, Listed, outputs
<1> QED BY <1>1, <1>2, <1>3, <1>4, <1>5, <1>6 DEF ConfInv

LEMMA ListFixturesKeeps ==
  ASSUME ConfInv, ListFixtures
  PROVE  ConfInv'
<1>1. TypeOK'
  BY DEF inputs, ConfInv, TypeOK, ListFixtures, GoTo, outputs, Steps
<1>2. LateChecksFollow'
  BY DEF inputs, ConfInv, LateChecksFollow, ListFixtures, GoTo
<1> QED BY <1>1, <1>2, MovedOn DEF inputs, ListFixtures, GoTo, outputs, InLoopBody, AfterLoop

LEMMA NextEntryKeeps ==
  ASSUME ConfInv, NextEntry
  PROVE  ConfInv'
<1>1. CASE fixtures.entries[index].kind # "json"
  <2>1. /\ index' = index + 1 /\ pc' = "entry" /\ pc = "entry"
        /\ index <= Len(fixtures.entries)
        /\ UNCHANGED <<fixtures, changes, dir, told, summary, run, reports, exit>>
    BY <1>1 DEF inputs, NextEntry, GoTo, outputs
  <2>2. TypeOK'
    BY <2>1, FixtureFacts DEF ConfInv, TypeOK
  <2>3. \A k \in Jsons(fixtures) : k < index + 1 => k < index
    BY <1>1, FixtureFacts DEF ConfInv, Jsons
  <2>4. ReportsAreOfEntries'
    <3>1. ReportsAreOfEntries
      BY <2>1 DEF ConfInv
    <3>2. \A k \in Jsons(fixtures) : k < index + 1 <=> k < index
      BY <2>3, FixtureFacts DEF ConfInv
    <3>3. Jsons(fixtures)' = Jsons(fixtures)
      BY <2>1 DEF Jsons
    <3> QED BY <2>1, <3>1, <3>2, <3>3 DEF ReportsAreOfEntries
  <2>5. ReportsAreExpected' /\ run' \in Runs
    BY <2>1 DEF ConfInv, ReportsAreExpected, Own
  <2>6. BodyIsOfCase' /\ LoopIsOver'
    BY <2>1 DEF BodyIsOfCase, LoopIsOver, InLoopBody, AfterLoop
  <2>7. LateChecksFollow' /\ SummaryIsTrue'
    BY <2>1 DEF ConfInv, LateChecksFollow, SummaryIsTrue, Listed
  <2> QED BY <2>1, <2>2, <2>4, <2>5, <2>6, <2>7 DEF ConfInv
<1>2. CASE fixtures.entries[index].kind = "json"
  <2>1. /\ pc = "entry" /\ index <= Len(fixtures.entries)
        /\ UNCHANGED <<fixtures, changes, dir, told, summary, run, index, reports>>
        /\ \/ pc' = "begin" /\ exit' = exit /\ current \in Cases
           \/ pc' = "idle" /\ exit' = "UNEXPECTED_FIXTURE"
    BY <1>2 DEF inputs, NextEntry, GoTo, Exit, outputs
  <2>2. TypeOK'
    BY <2>1 DEF ConfInv, TypeOK, Steps, Ends
  <2>3. LateChecksFollow' /\ SummaryIsTrue'
    BY <2>1 DEF ConfInv, LateChecksFollow, SummaryIsTrue, Listed
  <2>4. index \in Jsons(fixtures)
    BY <1>2, <2>1, FixtureFacts DEF ConfInv, Jsons, TypeOK
  <2>5. BodyIsOfCase'
    BY <2>1, <2>4, LoopStands DEF BodyIsOfCase, InLoopBody
  <2>6. LoopIsOver'
    BY <2>1 DEF LoopIsOver, AfterLoop
  <2>7. ReportsAreOfEntries' /\ ReportsAreExpected' /\ run' \in Runs
    BY <2>1, LoopStands DEF ConfInv
  <2> QED BY <2>1, <2>2, <2>3, <2>5, <2>6, <2>7 DEF ConfInv
<1> QED BY <1>1, <1>2

(* The directory of the current case changes: it is of no accepted report. *)
LEMMA CurrentIsNew ==
  ASSUME ConfInv, pc \in InLoopBody
  PROVE  \A j \in DOMAIN reports : reports[j] # current
<1> SUFFICES ASSUME NEW j \in DOMAIN reports, reports[j] = current
             PROVE  FALSE
  OBVIOUS
<1>1. PICK k \in Jsons(fixtures) : k < index /\ fixtures.entries[k].name = reports[j]
  BY DEF ConfInv, InLoopBody, ReportsAreOfEntries
<1>2. index \in Jsons(fixtures)
  BY DEF ConfInv, BodyIsOfCase
<1>3. k = index
  BY <1>1, <1>2, NamesDiffer DEF current
<1> QED BY <1>1, <1>2, <1>3, FixtureFacts DEF ConfInv

(* A step of the body that changes only the directory of its case.         *)
LEMMA BodyMoves ==
  ASSUME ConfInv, pc \in InLoopBody, TypeOK',
         UNCHANGED <<fixtures, summary, run, index, reports>>,
         \A c \in Cases : c # current => dir'[c] = dir[c],
         pc' \in {"idle", "observe", "return", "check"},
         pc' = "observe" => dir'[current].state = "empty",
         pc' \in {"return", "check"} => dir'[current] = Own,
         LateChecksFollow'
  PROVE  ConfInv'
<1>1. reports \in Seq(Cases) /\ \A j \in DOMAIN reports : reports[j] \in Cases
  BY DEF ConfInv, TypeOK
<1>2. Own' = Own /\ current' = current /\ Jsons(fixtures)' = Jsons(fixtures)
  BY DEF Own, current, Jsons
<1>3. ReportsAreOfEntries' /\ run' \in Runs
  BY DEF ConfInv, InLoopBody, ReportsAreOfEntries, Jsons
<1>4. ReportsAreExpected'
  BY <1>1, <1>2, CurrentIsNew DEF ConfInv, InLoopBody, ReportsAreExpected
<1>5. BodyIsOfCase'
  BY <1>2 DEF ConfInv, BodyIsOfCase, InLoopBody
<1>6. LoopIsOver'
  BY DEF LoopIsOver, AfterLoop
<1>7. SummaryIsTrue'
  BY DEF ConfInv, SummaryIsTrue, Listed
<1> QED BY <1>3, <1>4, <1>5, <1>6, <1>7 DEF ConfInv

LEMMA BeginCaseKeeps ==
  ASSUME ConfInv, BeginCase
  PROVE  ConfInv'
<1>1. current \in Cases /\ dir \in [Cases -> Directory] /\ pc = "begin"
  BY DEF inputs, ConfInv, BodyIsOfCase, InLoopBody, TypeOK, BeginCase
<1>2. /\ UNCHANGED <<fixtures, changes, told, summary, run, index, reports>>
      /\ \/ /\ pc' = "observe" /\ exit' = exit
            /\ dir' = [dir EXCEPT ![current].state = "empty"]
         \/ pc' = "idle" /\ exit' = "OUTPUT_DIRECTORY_NOT_EMPTY" /\ dir' = dir
  BY DEF inputs, BeginCase, GoTo, Exit
<1>3. dir' \in [Cases -> Directory]
  BY <1>1, <1>2 DEF Directory
<1>4. TypeOK'
  BY <1>1, <1>2, <1>3 DEF ConfInv, TypeOK, Steps, Ends
<1>5. LateChecksFollow'
  BY <1>2 DEF ConfInv, LateChecksFollow
<1>6. pc' = "observe" => dir'[current].state = "empty"
  BY <1>1, <1>2 DEF Directory
<1> QED BY <1>1, <1>2, <1>4, <1>5, <1>6, BodyMoves DEF InLoopBody

LEMMA PublishCaseKeeps ==
  ASSUME ConfInv, PublishCase
  PROVE  ConfInv'
<1>1. /\ current \in Cases /\ dir \in [Cases -> Directory] /\ pc = "observe"
      /\ run \in Runs
  BY DEF inputs, ConfInv, BodyIsOfCase, InLoopBody, TypeOK, PublishCase
<1>2. /\ UNCHANGED <<fixtures, changes, told, summary, run, index, reports, exit>>
      /\ pc' = "return" /\ dir' = [dir EXCEPT ![current] = Own]
  BY DEF inputs, PublishCase, GoTo, Own
<1>3. Own \in Directory
  BY <1>1 DEF Own, Directory
<1>4. TypeOK'
  BY <1>1, <1>2, <1>3 DEF ConfInv, TypeOK, Steps
<1>5. LateChecksFollow'
  BY <1>2 DEF ConfInv, LateChecksFollow
<1> QED BY <1>1, <1>2, <1>4, <1>5, BodyMoves DEF InLoopBody

LEMMA ReturnReportKeeps ==
  ASSUME ConfInv, ReturnReport
  PROVE  ConfInv'
<1>1. /\ current \in Cases /\ told \in [Cases -> SUBSET Runs] /\ pc = "return"
      /\ run \in Runs /\ dir[current] = Own
  BY DEF inputs, ConfInv, BodyIsOfCase, InLoopBody, TypeOK, ReturnReport
<1>2. /\ UNCHANGED <<fixtures, changes, dir, summary, run, index, reports, exit>>
      /\ pc' = "check" /\ told' = [told EXCEPT ![current] = @ \cup {run}]
  BY DEF inputs, ReturnReport, GoTo
<1>3. TypeOK'
  BY <1>1, <1>2 DEF ConfInv, TypeOK, Steps
<1>4. LateChecksFollow'
  BY <1>2 DEF ConfInv, LateChecksFollow
<1> QED BY <1>1, <1>2, <1>3, <1>4, BodyMoves DEF InLoopBody

LEMMA CheckReportKeeps ==
  ASSUME ConfInv, CheckReport
  PROVE  ConfInv'
<1>1. /\ current \in Cases /\ pc = "check" /\ index \in Jsons(fixtures)
      /\ run \in Runs /\ dir[current] = Own
      /\ UNCHANGED <<fixtures, changes, dir, told, summary, run>>
  BY DEF inputs, ConfInv, BodyIsOfCase, InLoopBody, TypeOK, CheckReport, outputs
<1>2. CASE UNCHANGED <<index, reports>>
             /\ pc' = "idle" /\ exit' \in {"UNEXPECTED_DECISION",
                                           "UNKNOWN_RECORD_MISSING_REQUIRED_FIELD"}
  <2>1. TypeOK'
    BY <1>1, <1>2 DEF ConfInv, TypeOK, Ends
  <2>2. LateChecksFollow'
    BY <1>2 DEF LateChecksFollow
  <2> QED BY <1>1, <1>2, <2>1, <2>2, BodyMoves DEF InLoopBody
<1>3. CASE /\ reports' = Append(reports, current) /\ index' = index + 1
           /\ pc' = "entry" /\ exit' = exit
           /\ fixtures.outcome[current].decision = expectedDecision(current)
           /\ fixtures.outcome[current].complete
  <2>1. /\ reports' \in Seq(Cases)
        /\ Len(reports') = Len(reports) + 1 /\ Len(reports) \in Nat
        /\ DOMAIN reports' = 1..Len(reports') /\ DOMAIN reports = 1..Len(reports)
        /\ \A j \in DOMAIN reports : reports'[j] = reports[j]
        /\ reports'[Len(reports')] = current
        /\ \A j \in DOMAIN reports' : j \in DOMAIN reports \/ j = Len(reports')
    BY <1>1, <1>3, AppendProperties, LenProperties DEF ConfInv, TypeOK
  <2>2. TypeOK'
    BY <1>1, <1>3, <2>1, FixtureFacts DEF ConfInv, TypeOK, Steps
  <2>3. \A j \in DOMAIN reports : reports[j] # current
    BY <1>1, CurrentIsNew DEF InLoopBody
  <2>4. /\ \A k \in Jsons(fixtures) : k < index + 1 <=> k < index \/ k = index
        /\ Jsons(fixtures)' = Jsons(fixtures) /\ index \in Nat
    BY <1>1, FixtureFacts DEF ConfInv, Jsons
  <2>5. ReportsAreOfEntries /\ ReportsAreExpected
    BY <1>1 DEF ConfInv
  <2>6. ReportsAreOfEntries'
    <3>1. ASSUME NEW j \in DOMAIN reports'
          PROVE  \E k \in Jsons(fixtures) :
                   k < index + 1 /\ fixtures.entries[k].name = reports'[j]
      BY <1>1, <2>1, <2>4, <2>5 DEF ReportsAreOfEntries, current
    <3>2. ASSUME NEW k \in Jsons(fixtures), k < index + 1
          PROVE  \E j \in DOMAIN reports' : reports'[j] = fixtures.entries[k].name
      <4>1. Len(reports') \in DOMAIN reports' /\ DOMAIN reports \subseteq DOMAIN reports'
        BY <2>1
      <4> QED BY <1>1, <2>1, <2>4, <2>5, <3>2, <4>1 DEF ReportsAreOfEntries, current
    <3>3. ASSUME NEW i \in DOMAIN reports', NEW j \in DOMAIN reports',
                 reports'[i] = reports'[j]
          PROVE  i = j
      BY <2>1, <2>3, <2>5, <3>3 DEF ReportsAreOfEntries
    <3>4. fixtures' = fixtures /\ index' = index + 1
      BY <1>1, <1>3
    <3> QED BY <2>4, <3>1, <3>2, <3>3, <3>4 DEF ReportsAreOfEntries
  <2>7. ReportsAreExpected'
    <3>1. Own' = Own
      BY <1>1 DEF Own
    <3> QED BY <1>1, <1>3, <2>1, <2>5, <3>1 DEF ReportsAreExpected
  <2>8. BodyIsOfCase' /\ LoopIsOver'
    BY <1>3 DEF BodyIsOfCase, LoopIsOver, InLoopBody, AfterLoop
  <2>9. LateChecksFollow' /\ SummaryIsTrue'
    BY <1>1, <1>3 DEF ConfInv, LateChecksFollow, SummaryIsTrue, Listed
  <2> QED BY <1>1, <2>2, <2>6, <2>7, <2>8, <2>9 DEF ConfInv
<1> QED BY <1>2, <1>3 DEF inputs, CheckReport, GoTo, Exit

LEMMA CountReportsKeeps ==
  ASSUME ConfInv, CountReports
  PROVE  ConfInv'
<1>1. /\ pc = "entry" /\ index > Len(fixtures.entries)
      /\ UNCHANGED <<fixtures, changes, dir, told, summary, run, index, reports>>
      /\ \/ pc' = "substitute" /\ exit' = exit /\ Len(reports) = 12
         \/ pc' = "idle" /\ exit' = "FIXTURE_COUNT"
  BY DEF inputs, CountReports, GoTo, Exit, outputs
<1>2. TypeOK'
  BY <1>1 DEF ConfInv, TypeOK, Steps, Ends
<1>3. LateChecksFollow'
  BY <1>1 DEF ConfInv, LateChecksFollow
<1> QED BY <1>1, <1>2, <1>3, MovedOn DEF InLoopBody, AfterLoop

(* After the loop every case has been accepted.                            *)
LEMMA AllAccepted ==
  ASSUME ConfInv, pc \in AfterLoop
  PROVE  /\ \A c \in Cases : \E j \in DOMAIN reports : reports[j] = c
         /\ \A c \in Cases :
              /\ fixtures.outcome[c].decision = expectedDecision(c)
              /\ fixtures.outcome[c].complete
              /\ dir[c] = Own
<1>1. /\ reports \in Seq(Cases) /\ Len(reports) = 12
      /\ \A i, j \in DOMAIN reports : reports[i] = reports[j] => i = j
      /\ ReportsAreExpected
  BY DEF ConfInv, TypeOK, LoopIsOver, AfterLoop, ReportsAreOfEntries
<1>2. \A c \in Cases : \E j \in DOMAIN reports : reports[j] = c
  BY <1>1, TwelveAreAll
<1> QED BY <1>1, <1>2 DEF ReportsAreExpected

LEMMA SubstituteKeeps ==
  ASSUME ConfInv, Substitute
  PROVE  ConfInv'
<1>1. /\ dir["closed-github-run"] = Own /\ dir["refuted-contradiction"] = Own
  <2>1. "closed-github-run" \in Cases /\ "refuted-contradiction" \in Cases
    BY DEF Cases, ClosedCases, RefutedCases
  <2> QED BY <2>1, AllAccepted DEF inputs, Substitute, AfterLoop
<1>2. /\ pc = "substitute" /\ pc' = "count" /\ exit' = exit
      /\ UNCHANGED <<fixtures, changes, dir, told, summary, run, index, reports>>
  BY <1>1 DEF inputs, Substitute, GoTo, outputs, Own
<1>3. TypeOK'
  BY <1>2 DEF ConfInv, TypeOK, Steps
<1>4. LateChecksFollow'
  BY <1>2 DEF ConfInv, LateChecksFollow
<1> QED BY <1>2, <1>3, <1>4, MovedOn DEF ConfInv, LoopIsOver, InLoopBody, AfterLoop

(* The counts of the twelve reports are those of the table.                *)
LEMMA CountsFollow ==
  ASSUME ConfInv, pc \in AfterLoop
  PROVE  Accepted("CLOSED") = 3 /\ Accepted("UNKNOWN") = 4 /\ Accepted("REFUTED") = 5
<1>1. /\ reports \in Seq(Cases) /\ Len(reports) = 12
      /\ \A i, j \in DOMAIN reports : reports[i] = reports[j] => i = j
  BY DEF ConfInv, TypeOK, LoopIsOver, AfterLoop, ReportsAreOfEntries
<1>2. \A k \in DOMAIN reports :
        /\ reports[k] \in Cases
        /\ fixtures.outcome[reports[k]].decision = expectedDecision(reports[k])
  BY AllAccepted, ReportFacts DEF ConfInv
<1>3. {k \in DOMAIN reports : fixtures.outcome[reports[k]].decision = "CLOSED"}
        = {k \in DOMAIN reports : reports[k] \in ClosedCases}
  BY <1>2, TableIsOneToOne
<1>4. {k \in DOMAIN reports : fixtures.outcome[reports[k]].decision = "UNKNOWN"}
        = {k \in DOMAIN reports : reports[k] \in UnknownCases}
  BY <1>2, TableIsOneToOne
<1>5. {k \in DOMAIN reports : fixtures.outcome[reports[k]].decision = "REFUTED"}
        = {k \in DOMAIN reports : reports[k] \in RefutedCases}
  BY <1>2, TableIsOneToOne
<1>6. /\ ClosedCases \in SUBSET Cases /\ UnknownCases \in SUBSET Cases
      /\ RefutedCases \in SUBSET Cases
  BY DEF Cases
<1>7. /\ Cardinality({k \in DOMAIN reports : reports[k] \in ClosedCases}) = 3
      /\ Cardinality({k \in DOMAIN reports : reports[k] \in UnknownCases}) = 4
      /\ Cardinality({k \in DOMAIN reports : reports[k] \in RefutedCases}) = 5
  BY <1>1, <1>6, CaseCounts, PositionsOf
<1> QED BY <1>3, <1>4, <1>5, <1>7 DEF Accepted

LEMMA CountDecisionsKeeps ==
  ASSUME ConfInv, CountDecisions
  PROVE  ConfInv'
<1>1. Accepted("CLOSED") = 3 /\ Accepted("UNKNOWN") = 4 /\ Accepted("REFUTED") = 5
  BY CountsFollow DEF inputs, CountDecisions, AfterLoop
<1>2. /\ pc = "count"
      /\ UNCHANGED <<fixtures, changes, dir, told, summary, run, index, reports>>
      /\ \/ pc' = "idle" /\ exit' = "MISSING_UNKNOWN_CLASS"
         \/ pc' = "summary" /\ exit' = exit /\ Classes \subseteq ClassesSeen
  BY <1>1 DEF inputs, CountDecisions, GoTo, Exit, outputs
<1>3. TypeOK'
  BY <1>2 DEF ConfInv, TypeOK, Steps, Ends
<1>4. LateChecksFollow'
  BY <1>2 DEF ConfInv, LateChecksFollow
<1> QED BY <1>2, <1>3, <1>4, MovedOn DEF ConfInv, LoopIsOver, InLoopBody, AfterLoop

(* The row of a case, and how many rows the cases of a set have.           *)
RowOf(c) ==
  [case |-> c, caseID |-> fixtures.outcome[c].caseID,
   decision |-> fixtures.outcome[c].decision]

LEMMA RowsOf ==
  ASSUME NEW S, IsFiniteSet(S)
  PROVE  Cardinality({RowOf(c) : c \in S}) = Cardinality(S)
<1> DEFINE T == {RowOf(c) : c \in S}
           f == [c \in S |-> RowOf(c)]
<1>1. f \in Bijection(S, T)
  <2>1. f \in [S -> T]
    OBVIOUS
  <2>2. \A c, d \in S : f[c] = f[d] => c = d
    BY DEF RowOf
  <2>3. \A t \in T : \E c \in S : f[c] = t
    OBVIOUS
  <2> HIDE DEF T, f
  <2> QED BY <2>1, <2>2, <2>3, Fun_IsBij
<1>2. ExistsBijection(S, T)
  BY <1>1 DEF ExistsBijection
<1> HIDE DEF T
<1>3. Cardinality(T) = Cardinality(S)
  BY <1>2, FS_Bijection
<1> QED BY <1>3 DEF T

(* What is printed after the loop: a row for each case, as decided by the  *)
(* table, whatever case ids the fixtures give themselves.                  *)
LEMMA RowsAreTrue ==
  ASSUME ConfInv, pc \in AfterLoop
  PROVE  /\ Rows \subseteq Row
         /\ {r.case : r \in Rows} = Cases
         /\ \A r \in Rows : r.decision = expectedDecision(r.case)
         /\ Cardinality({r \in Rows : r.decision = "CLOSED"}) = 3
         /\ Cardinality({r \in Rows : r.decision = "UNKNOWN"}) = 4
         /\ Cardinality({r \in Rows : r.decision = "REFUTED"}) = 5
<1>1. /\ \A j \in DOMAIN reports : reports[j] \in Cases
      /\ \A c \in Cases : \E j \in DOMAIN reports : reports[j] = c
      /\ \A c \in Cases : fixtures.outcome[c].decision = expectedDecision(c)
  BY AllAccepted, ReportFacts DEF ConfInv
<1>2. Rows = {RowOf(reports[j]) : j \in DOMAIN reports}
  BY DEF Rows, RowOf
<1>3. Rows = {RowOf(c) : c \in Cases}
  BY <1>1, <1>2
<1>4. \A c : RowOf(c).case = c /\ RowOf(c).decision = fixtures.outcome[c].decision
  BY DEF RowOf
<1>5. \A c \in Cases : RowOf(c) \in Row
  <2>1. \A c \in Cases : fixtures.outcome[c] \in Outcome
    BY DEF ConfInv, TypeOK, FixtureDir
  <2> QED BY <2>1 DEF RowOf, Row, Outcome
<1> HIDE DEF Cases, Rows
<1>6. Rows \subseteq Row /\ {r.case : r \in Rows} = Cases
  BY <1>3, <1>4, <1>5
<1>7. \A r \in Rows : r.decision = expectedDecision(r.case)
  BY <1>1, <1>3, <1>4
<1>8. /\ {r \in Rows : r.decision = "CLOSED"} = {RowOf(c) : c \in ClosedCases}
      /\ {r \in Rows : r.decision = "UNKNOWN"} = {RowOf(c) : c \in UnknownCases}
      /\ {r \in Rows : r.decision = "REFUTED"} = {RowOf(c) : c \in RefutedCases}
  <2>1. /\ ClosedCases \subseteq Cases /\ UnknownCases \subseteq Cases
        /\ RefutedCases \subseteq Cases
    BY DEF Cases
  <2>2. \A c \in Cases : /\ RowOf(c).decision = "CLOSED" <=> c \in ClosedCases
                         /\ RowOf(c).decision = "UNKNOWN" <=> c \in UnknownCases
                         /\ RowOf(c).decision = "REFUTED" <=> c \in RefutedCases
    BY <1>1, <1>4, TableIsOneToOne
  <2> HIDE DEF ClosedCases, UnknownCases, RefutedCases
  <2>3. ASSUME NEW d, NEW S \in SUBSET Cases,
               \A c \in Cases : RowOf(c).decision = d <=> c \in S
        PROVE  {r \in Rows : r.decision = d} = {RowOf(c) : c \in S}
    BY <1>3, <2>3
  <2>4. {r \in Rows : r.decision = "CLOSED"} = {RowOf(c) : c \in ClosedCases}
    BY <2>1, <2>2, <2>3
  <2>5. {r \in Rows : r.decision = "UNKNOWN"} = {RowOf(c) : c \in UnknownCases}
    BY <2>1, <2>2, <2>3
  <2>6. {r \in Rows : r.decision = "REFUTED"} = {RowOf(c) : c \in RefutedCases}
    BY <2>1, <2>2, <2>3
  <2> QED BY <2>4, <2>5, <2>6
<1>9. /\ Cardinality({RowOf(c) : c \in ClosedCases}) = 3
      /\ Cardinality({RowOf(c) : c \in UnknownCases}) = 4
      /\ Cardinality({RowOf(c) : c \in RefutedCases}) = 5
  <2> HIDE DEF ClosedCases, UnknownCases, RefutedCases
  <2> QED BY CaseCounts, RowsOf
<1> QED BY <1>6, <1>7, <1>8, <1>9

(* A summary that is written lists accepted reports, a whole one all.      *)
LEMMA SummaryWritten ==
  ASSUME ConfInv, pc = "summary", NEW state \in {"cut off", "whole"},
         NEW rows \in SUBSET Rows, state = "whole" => rows = Rows,
         Summarise(state, rows),
         UNCHANGED <<inputs, dir, told, run, index, reports>>,
         pc' = "idle", exit' \in {"succeeded", "stopped"}
  PROVE  ConfInv'
<1>1. /\ Rows \subseteq Row
      /\ {r.case : r \in Rows} = Cases
      /\ \A r \in Rows : r.decision = expectedDecision(r.case)
      /\ Cardinality({r \in Rows : r.decision = "CLOSED"}) = 3
      /\ Cardinality({r \in Rows : r.decision = "UNKNOWN"}) = 4
      /\ Cardinality({r \in Rows : r.decision = "REFUTED"}) = 5
  BY RowsAreTrue DEF AfterLoop
<1>2. /\ summary' = [state |-> state, by |-> run, rows |-> rows]
      /\ UNCHANGED <<fixtures, changes, dir, told, run, index, reports>>
      /\ run \in Runs
  BY DEF Summarise, inputs, ConfInv
<1>3. summary' \in Summary
  BY <1>1, <1>2 DEF Summary
<1>4. TypeOK'
  BY <1>2, <1>3 DEF ConfInv, TypeOK, Ends
<1>5. SummaryIsTrue'
  <2>1. summary'.state = state /\ summary'.rows = rows
    BY <1>2
  <2> HIDE DEF Cases, Rows, expectedDecision
  <2> QED BY <1>1, <2>1 DEF SummaryIsTrue, Listed
<1>6. BodyIsOfCase' /\ LoopIsOver' /\ LateChecksFollow'
  BY DEF BodyIsOfCase, LoopIsOver, LateChecksFollow, InLoopBody, AfterLoop
<1> QED BY <1>2, <1>4, <1>5, <1>6 DEF ConfInv

LEMMA StopKeeps ==
  ASSUME ConfInv, Stop
  PROVE  ConfInv'
<1>1. /\ pc' = "idle" /\ exit' = "stopped" /\ pc \in Steps
      /\ UNCHANGED <<fixtures, changes, run, index, reports>>
  BY DEF inputs, Stop, Exit
<1>2. CASE UNCHANGED outputs
  <2>1. TypeOK'
    BY <1>1, <1>2 DEF ConfInv, TypeOK, Ends, outputs
  <2>2. LateChecksFollow'
    BY <1>1 DEF LateChecksFollow
  <2> QED BY <1>1, <1>2, <2>1, <2>2, MovedOn
          DEF Steps, outputs, InLoopBody, AfterLoop
<1>3. CASE /\ pc = "observe" /\ dir' = [dir EXCEPT ![current].state = "remains"]
           /\ UNCHANGED <<told, summary>>
  <2>1. current \in Cases /\ dir \in [Cases -> Directory]
    BY <1>3 DEF ConfInv, BodyIsOfCase, InLoopBody, TypeOK
  <2>2. dir' \in [Cases -> Directory]
    BY <1>3, <2>1 DEF Directory
  <2>3. TypeOK'
    BY <1>1, <1>3, <2>2 DEF ConfInv, TypeOK, Ends
  <2>4. LateChecksFollow'
    BY <1>1 DEF LateChecksFollow
  <2> QED BY <1>1, <1>3, <2>1, <2>3, <2>4, BodyMoves DEF InLoopBody
<1>4. CASE /\ pc = "summary"
           /\ SummaryCutOff \/ Summarise("whole", Rows)
           /\ UNCHANGED <<dir, told>>
  <2>1. UNCHANGED <<inputs, dir, told, run, index, reports>>
    BY <1>1, <1>4 DEF inputs
  <2>2. CASE Summarise("whole", Rows)
    BY <1>1, <1>4, <2>1, <2>2, SummaryWritten
  <2>3. CASE SummaryCutOff
    <3> PICK last \in {r.caseID : r \in Rows} :
          \E some \in SUBSET {r \in Rows : r.caseID = last} :
            Summarise("cut off", {r \in Rows : r.caseID < last} \cup some)
      BY <2>3 DEF SummaryCutOff
    <3>1. PICK some \in SUBSET {r \in Rows : r.caseID = last} :
            Summarise("cut off", {r \in Rows : r.caseID < last} \cup some)
      OBVIOUS
    <3> DEFINE rows == {r \in Rows : r.caseID < last} \cup some
    <3>2. rows \in SUBSET Rows
      OBVIOUS
    <3>3. Summarise("cut off", rows) /\ "cut off" \in {"cut off", "whole"}
      BY <3>1
    <3>4. "cut off" = "whole" => rows = Rows
      OBVIOUS
    <3> HIDE DEF rows
    <3> QED BY <1>1, <1>4, <2>1, <3>2, <3>3, <3>4, SummaryWritten
  <2> QED BY <1>4, <2>2, <2>3
<1> QED BY <1>2, <1>3, <1>4 DEF inputs, Stop

LEMMA FixturesChangeKeeps ==
  ASSUME ConfInv, FixturesChange
  PROVE  ConfInv'
<1>1. /\ pc = "idle" /\ changes < MaxChanges /\ changes' = changes + 1
      /\ fixtures' \in FixtureDirs
      /\ UNCHANGED <<dir, told, summary, run, pc, index, reports, exit>>
  BY DEF FixturesChange, outputs
<1>2. fixtures' \in FixtureDir /\ changes' \in 0..MaxChanges
  BY <1>1, ConformanceAssumption DEF ConfInv, TypeOK
<1>3. TypeOK'
  BY <1>1, <1>2 DEF ConfInv, TypeOK
<1>4. BodyIsOfCase' /\ LoopIsOver'
  BY <1>1 DEF BodyIsOfCase, LoopIsOver, InLoopBody, AfterLoop
<1>5. LateChecksFollow' /\ SummaryIsTrue'
  BY <1>1 DEF ConfInv, LateChecksFollow, SummaryIsTrue, Listed
<1> QED BY <1>1, <1>3, <1>4, <1>5 DEF ConfInv

LEMMA CallerClearsKeeps ==
  ASSUME ConfInv, CallerClears
  PROVE  ConfInv'
<1>1. dir' \in [Cases -> Directory]
  BY DEF inputs, CallerClears, Absent, Directory
<1>2. summary' \in Summary
  <2>1. NoSummary \in Summary
    BY DEF NoSummary, Summary
  <2> QED BY <2>1 DEF inputs, ConfInv, TypeOK, CallerClears
<1>3. TypeOK'
  BY <1>1, <1>2 DEF inputs, ConfInv, TypeOK, CallerClears
<1>4. BodyIsOfCase' /\ LoopIsOver'
  BY DEF inputs, CallerClears, BodyIsOfCase, LoopIsOver, InLoopBody, AfterLoop
<1>5. LateChecksFollow'
  BY DEF inputs, ConfInv, LateChecksFollow, CallerClears
<1>6. SummaryIsTrue'
  <2>1. SummaryIsTrue /\ fixtures' = fixtures
    BY DEF inputs, ConfInv, CallerClears
  <2>2. CASE summary' = summary
    BY <2>1, <2>2 DEF SummaryIsTrue, Listed
  <2>3. CASE summary' = NoSummary
    BY <2>3 DEF SummaryIsTrue, Listed, NoSummary
  <2> QED BY <2>2, <2>3 DEF inputs, CallerClears
<1> QED BY <1>3, <1>4, <1>5, <1>6 DEF inputs, ConfInv, CallerClears

LEMMA StepKeeps ==
  ASSUME ConfInv, [Next]_vars
  PROVE  ConfInv'
<1>1. CASE UNCHANGED vars
  <2>1. UNCHANGED <<fixtures, changes, dir, told, summary, run, pc, index, reports, exit>>
    BY <1>1 DEF inputs, vars, outputs
  <2> QED BY <2>1, LoopStands
          DEF ConfInv, TypeOK, BodyIsOfCase, LoopIsOver, LateChecksFollow, SummaryIsTrue, Listed
<1>2. CASE Step
  <2>1. CASE WriteSummary
    BY <2>1, SummaryWritten DEF WriteSummary, Exit
  <2> QED BY <1>2, <2>1, ListFixturesKeeps, NextEntryKeeps, BeginCaseKeeps,
             PublishCaseKeeps, ReturnReportKeeps, CheckReportKeeps, CountReportsKeeps,
             SubstituteKeeps, CountDecisionsKeeps DEF Step
<1> QED BY <1>1, <1>2, StartKeeps, StopKeeps, FixturesChangeKeeps,
       CallerClearsKeeps DEF Next

(* Every reachable state satisfies the invariant.                          *)
THEOREM ConfCorrect == Spec => []ConfInv
<1>1. Init => ConfInv
  BY InitHolds
<1>2. ConfInv /\ [Next]_vars => ConfInv'
  BY StepKeeps
<1> QED BY <1>1, <1>2, PTL DEF Spec

-----------------------------------------------------------------------------
(* Every variable holds a value of its kind, whatever fixtures there are   *)
(* and however often the command is run.                                   *)
THEOREM TypeCorrect == Spec => []TypeOK
<1>1. ConfInv => TypeOK
  BY DEF ConfInv
<1> QED BY <1>1, ConfCorrect, PTL

(* Twelve accepted reports are one of each case, so the counts of 3, 4 and *)
(* 5 and the two files of the counterexample are as the code expects: it   *)
(* never ends with DECISION_COUNTS or RECEIPT_SUBSTITUTION.                *)
THEOREM LateChecksNeverFail == Spec => []LateChecksFollow
<1>1. ConfInv => LateChecksFollow
  BY DEF ConfInv
<1> QED BY <1>1, ConfCorrect, PTL

(* Every ci-summary.md, also of an earlier run on other fixtures, is true: *)
(* a whole one has a row for each of the twelve cases and the counts of 3, *)
(* 4 and 5 that it states; one cut off lists nothing that was not decided  *)
(* as the name of its fixture says.                                        *)
THEOREM SummariesAreTrue == Spec => []SummaryIsTrue
<1>1. ConfInv => SummaryIsTrue
  BY DEF ConfInv
<1> QED BY <1>1, ConfCorrect, PTL

-----------------------------------------------------------------------------
(* The step that tells success finds canonical fixtures and twelve         *)
(* directories of its own run.                                             *)
LEMMA FixturesAreCanonical ==
  ASSUME ConfInv, pc = "summary"
  PROVE  Canonical(fixtures)
<1>1. /\ \A c \in Cases : \E j \in DOMAIN reports : reports[j] = c
      /\ \A c \in Cases : /\ fixtures.outcome[c].decision = expectedDecision(c)
                          /\ fixtures.outcome[c].complete
  BY AllAccepted DEF AfterLoop
<1>2. /\ ReportsAreOfEntries
      /\ \A j \in DOMAIN reports : reports[j] \in Cases
      /\ index > Len(fixtures.entries)
  BY ReportFacts DEF ConfInv, LoopIsOver, AfterLoop
<1>3. \A k \in Jsons(fixtures) : k < index
  BY <1>2, FixtureFacts DEF ConfInv
<1>4. ASSUME NEW c
      PROVE  c \in Cases <=> \E k \in Jsons(fixtures) : fixtures.entries[k].name = c
  <2>1. ASSUME c \in Cases
        PROVE  \E k \in Jsons(fixtures) : fixtures.entries[k].name = c
    BY <1>1, <1>2, <2>1 DEF ReportsAreOfEntries
  <2>2. ASSUME NEW k \in Jsons(fixtures), fixtures.entries[k].name = c
        PROVE  c \in Cases
    BY <1>2, <1>3, <2>2 DEF ReportsAreOfEntries
  <2> QED BY <2>1, <2>2
<1>5. {fixtures.entries[k].name : k \in Jsons(fixtures)} = Cases
  BY <1>4
<1>6. \A c \in Cases : fixtures.outcome[c].classes \subseteq Classes
  <2>1. fixtures.outcome \in [Cases -> Outcome]
    BY DEF ConfInv, TypeOK, FixtureDir
  <2> QED BY <2>1 DEF Outcome
<1>7. \A c \in Classes : \E k \in DOMAIN reports : c \in fixtures.outcome[reports[k]].classes
  BY DEF ConfInv, LoopIsOver, ClassesSeen
<1>8. UNION {fixtures.outcome[c].classes : c \in Cases} = Classes
  <2>1. ASSUME NEW x \in Classes
        PROVE  x \in UNION {fixtures.outcome[c].classes : c \in Cases}
    BY <1>2, <1>7
  <2>2. ASSUME NEW x \in UNION {fixtures.outcome[c].classes : c \in Cases}
        PROVE  x \in Classes
    BY <1>6
  <2> QED BY <2>1, <2>2
<1> QED BY <1>1, <1>5, <1>8 DEF Canonical

(* Success is told only on canonical fixtures, when every directory holds  *)
(* the observation of this very run, for any number of earlier runs and    *)
(* whatever they have left.                                                *)
THEOREM SuccessEarned == Spec => SuccessIsOfThisRun
<1> DEFINE Told == exit # "succeeded" /\ exit' = "succeeded" =>
                     /\ Canonical(fixtures)
                     /\ \A c \in Cases : dir[c] = [state |-> "whole", by |-> run]
<1>1. ASSUME ConfInv, [Next]_vars
      PROVE  Told
  <2>1. CASE WriteSummary
    <3>1. pc = "summary"
      BY <2>1 DEF inputs, WriteSummary
    <3> QED BY <1>1, <3>1, FixturesAreCanonical, AllAccepted DEF AfterLoop, Own
  <2>2. CASE Step /\ ~WriteSummary
    <3>1. exit' # "succeeded" \/ exit' = exit
      BY <2>2 DEF inputs, Step, ListFixtures, NextEntry, BeginCase, PublishCase, ReturnReport,
                  CheckReport, CountReports, Substitute, CountDecisions, GoTo, Exit
    <3> QED BY <3>1
  <2>3. CASE Start \/ Stop \/ FixturesChange \/ CallerClears
    <3>1. exit' # "succeeded" \/ exit' = exit
      BY <2>3 DEF Start, Stop, FixturesChange, CallerClears, Exit
    <3> QED BY <3>1
  <2>4. CASE UNCHANGED vars
    BY <2>4 DEF inputs, vars
  <2> QED BY <1>1, <2>1, <2>2, <2>3, <2>4 DEF Next
<1>2. ConfInv /\ [Next]_vars => [Told]_vars
  BY <1>1
<1> HIDE DEF Told
<1>3. Spec => [][Told]_vars
  BY <1>2, ConfCorrect, PTL DEF Spec
<1> QED BY <1>3 DEF SuccessIsOfThisRun, Told

-----------------------------------------------------------------------------
(* What a directory is to the vault.  A step that leaves a directory, and  *)
(* the runs observed in it, alone is a stutter of its vault.               *)
LEMMA OtherVaults ==
  ASSUME NEW c \in Cases, HolderOf(c)' = HolderOf(c), ObservedIn(c)' = ObservedIn(c),
         told'[c] = told[c]
  PROVE  UNCHANGED Vault(c)!vars
BY DEF Vault!vars

LEMMA VaultsBegin ==
  ASSUME Init, NEW c \in Cases
  PROVE  Vault(c)!Init
<1>1. HolderOf(c) = Nobody
  BY DEF Init, HolderOf, Absent
<1>2. ObservedIn(c) = {}
  BY DEF Init, ObservedIn
<1> QED BY <1>1, <1>2 DEF Vault!Init, Init

(* A step outside the body of the loop uses no directory, except that the  *)
(* caller clears all.                                                      *)
LEMMA NothingObserved ==
  ASSUME NEW c \in Cases, UNCHANGED <<dir, told>>,
         pc \notin {"observe", "return"}, pc' \notin {"observe", "return"}
  PROVE  UNCHANGED Vault(c)!vars
<1>1. HolderOf(c)' = HolderOf(c)
  BY DEF HolderOf
<1>2. ObservedIn(c)' = {} /\ ObservedIn(c) = {}
  BY DEF ObservedIn
<1> QED BY <1>1, <1>2, OtherVaults

(* Of the directories of other cases nothing changes.                      *)
LEMMA OtherCaseUntouched ==
  ASSUME NEW c \in Cases, c # current,
         current' = current, dir'[c] = dir[c], told'[c] = told[c]
  PROVE  UNCHANGED Vault(c)!vars
<1>1. HolderOf(c)' = HolderOf(c)
  BY DEF HolderOf
<1>2. ObservedIn(c)' = {} /\ ObservedIn(c) = {}
  BY DEF ObservedIn
<1> QED BY <1>1, <1>2, OtherVaults

LEMMA BeginCaseUses ==
  ASSUME ConfInv, BeginCase, NEW c \in Cases
  PROVE  Vault(c)!Next \/ UNCHANGED Vault(c)!vars
<1>1. /\ current \in Cases /\ dir \in [Cases -> Directory] /\ pc = "begin"
      /\ run \in Runs
  BY DEF inputs, ConfInv, BodyIsOfCase, InLoopBody, TypeOK, BeginCase
<1>2. UNCHANGED <<fixtures, changes, told, run, index>> /\ current' = current
  BY DEF inputs, BeginCase, current
<1>3. CASE dir[current].state \notin {"absent", "empty"}
  BY <1>1, <1>2, <1>3, NothingObserved DEF inputs, BeginCase, Exit
<1>4. CASE dir[current].state \in {"absent", "empty"}
  <2>1. pc' = "observe" /\ dir' = [dir EXCEPT ![current].state = "empty"]
    BY <1>4 DEF inputs, BeginCase, GoTo
  <2>2. CASE c # current
    BY <1>1, <1>2, <2>1, <2>2, OtherCaseUntouched
  <2>3. CASE c = current
    <3>1. HolderOf(c) = Nobody /\ HolderOf(c)' = Nobody
      BY <1>1, <1>4, <2>1, <2>3 DEF HolderOf, Directory
    <3>2. ObservedIn(c) = {} /\ ObservedIn(c)' = {run}
      BY <1>1, <1>2, <2>1, <2>3 DEF ObservedIn
    <3>3. Vault(c)!Begin(run)
      BY <1>2, <3>1, <3>2 DEF Vault!Begin
    <3> QED BY <1>1, <3>3 DEF Vault!Next
  <2> QED BY <2>2, <2>3
<1> QED BY <1>3, <1>4

LEMMA PublishCaseUses ==
  ASSUME ConfInv, PublishCase, NEW c \in Cases
  PROVE  Vault(c)!Next \/ UNCHANGED Vault(c)!vars
<1>1. /\ current \in Cases /\ dir \in [Cases -> Directory] /\ pc = "observe"
      /\ run \in Runs /\ dir[current].state = "empty"
  BY DEF inputs, ConfInv, BodyIsOfCase, InLoopBody, TypeOK, PublishCase
<1>2. /\ UNCHANGED <<fixtures, changes, told, run, index>> /\ current' = current
      /\ pc' = "return" /\ dir' = [dir EXCEPT ![current] = Own]
  BY DEF inputs, PublishCase, current, GoTo, Own
<1>3. CASE c # current
  BY <1>1, <1>2, <1>3, OtherCaseUntouched
<1>4. CASE c = current
  <2>1. HolderOf(c) = Nobody
    BY <1>1, <1>4 DEF HolderOf
  <2>2. HolderOf(c)' = run
    <3>1. dir'[c] = Own
      BY <1>1, <1>2, <1>4
    <3> QED BY <3>1 DEF HolderOf, Own
  <2>3. ObservedIn(c) = {run} /\ ObservedIn(c)' = {run}
    BY <1>1, <1>2, <1>4 DEF ObservedIn
  <2>4. Vault(c)!Publish(run)
    BY <1>2, <2>1, <2>2, <2>3 DEF Vault!Publish
  <2> QED BY <1>1, <2>4 DEF Vault!Next
<1> QED BY <1>3, <1>4

LEMMA ReturnReportUses ==
  ASSUME ConfInv, ReturnReport, NEW c \in Cases
  PROVE  Vault(c)!Next \/ UNCHANGED Vault(c)!vars
<1>1. /\ current \in Cases /\ told \in [Cases -> SUBSET Runs] /\ pc = "return"
      /\ run \in Runs /\ dir[current] = Own
  BY DEF inputs, ConfInv, BodyIsOfCase, InLoopBody, TypeOK, ReturnReport
<1>2. /\ UNCHANGED <<fixtures, changes, dir, run, index>> /\ current' = current
      /\ pc' = "check" /\ told' = [told EXCEPT ![current] = @ \cup {run}]
  BY DEF inputs, ReturnReport, current, GoTo
<1>3. CASE c # current
  BY <1>1, <1>2, <1>3, OtherCaseUntouched
<1>4. CASE c = current
  <2>1. HolderOf(c) = run /\ HolderOf(c)' = run
    BY <1>1, <1>2, <1>4 DEF HolderOf, Own
  <2>2. ObservedIn(c) = {run} /\ ObservedIn(c)' = {}
    BY <1>1, <1>2, <1>4 DEF ObservedIn
  <2>3. told'[c] = told[c] \cup {run}
    BY <1>1, <1>2, <1>4
  <2>4. Vault(c)!Succeed(run)
    BY <2>1, <2>2, <2>3 DEF Vault!Succeed
  <2> QED BY <1>1, <2>4 DEF Vault!Next
<1> QED BY <1>3, <1>4

LEMMA StopUses ==
  ASSUME ConfInv, Stop, NEW c \in Cases
  PROVE  Vault(c)!Next \/ UNCHANGED Vault(c)!vars
<1>1. /\ pc' = "idle" /\ pc \in Steps /\ told' = told /\ run \in Runs
      /\ UNCHANGED <<fixtures, changes, run, index>> /\ current' = current
      /\ dir \in [Cases -> Directory]
  BY DEF inputs, ConfInv, TypeOK, Stop, Exit, outputs, current, Steps
<1>2. CASE pc \notin {"observe", "return"}
  <2>1. dir' = dir
    BY <1>2 DEF inputs, Stop, outputs
  <2> QED BY <1>1, <1>2, <2>1, NothingObserved
<1>3. CASE pc \in {"observe", "return"}
  <2>1. current \in Cases
    BY <1>3 DEF ConfInv, BodyIsOfCase, InLoopBody
  <2>2. \/ dir' = dir
        \/ /\ dir' = [dir EXCEPT ![current].state = "remains"]
           /\ dir[current].state = "empty"
    BY <1>3 DEF inputs, ConfInv, BodyIsOfCase, Stop, outputs
  <2>3. CASE c # current
    BY <1>1, <2>1, <2>2, <2>3, OtherCaseUntouched
  <2>4. CASE c = current
    <3>1. HolderOf(c)' = HolderOf(c)
      <4>1. CASE dir' = dir
        BY <4>1 DEF HolderOf
      <4>2. CASE /\ dir' = [dir EXCEPT ![current].state = "remains"]
                 /\ dir[current].state = "empty"
        BY <1>1, <2>1, <2>4, <4>2 DEF HolderOf, Directory
      <4> QED BY <2>2, <4>1, <4>2
    <3>2. ObservedIn(c) = {run} /\ ObservedIn(c)' = {}
      BY <1>1, <1>3, <2>4 DEF ObservedIn
    <3>3. Vault(c)!End(run)
      BY <1>1, <3>1, <3>2 DEF Vault!End
    <3> QED BY <1>1, <3>3 DEF Vault!Next
  <2> QED BY <2>3, <2>4
<1> QED BY <1>2, <1>3

LEMMA CallerClearsUses ==
  ASSUME ConfInv, CallerClears, NEW c \in Cases
  PROVE  Vault(c)!Next \/ UNCHANGED Vault(c)!vars
<1>1. ObservedIn(c) = {} /\ ObservedIn(c)' = {}
  BY DEF inputs, CallerClears, ObservedIn
<1>2. HolderOf(c)' = Nobody
  <2>1. dir'[c] = Absent
    BY DEF inputs, CallerClears
  <2> QED BY <2>1 DEF HolderOf, Absent
<1>3. Vault(c)!Clear
  BY <1>1, <1>2 DEF inputs, CallerClears, Vault!Clear
<1> QED BY <1>3 DEF Vault!Next

(* conformance uses the directory of every case as the vault allows it:    *)
(* an observation appears in a directory that holds none, is told of while *)
(* it is there, and is taken away only when no run uses the directory.     *)
THEOREM ConformanceUsesVaults == Spec => UsesVaults
<1> DEFINE Allowed == \A c \in Cases : Vault(c)!Next \/ UNCHANGED Vault(c)!vars
<1>1. ASSUME ConfInv, [Next]_vars
      PROVE  Allowed
  <2> SUFFICES ASSUME NEW c \in Cases
               PROVE  Vault(c)!Next \/ UNCHANGED Vault(c)!vars
    OBVIOUS
  <2>1. CASE Start \/ ListFixtures \/ NextEntry \/ CheckReport \/ CountReports
               \/ Substitute \/ CountDecisions \/ WriteSummary \/ FixturesChange
    <3>1. UNCHANGED <<dir, told>> /\ pc \notin {"observe", "return"}
          /\ pc' \notin {"observe", "return"}
      BY <2>1 DEF inputs, Start, ListFixtures, NextEntry, CheckReport, CountReports, Substitute,
                  CountDecisions, WriteSummary, FixturesChange, GoTo, Exit, outputs
    <3> QED BY <3>1, NothingObserved
  <2>2. CASE BeginCase \/ PublishCase \/ ReturnReport \/ Stop \/ CallerClears
    BY <1>1, <2>2, BeginCaseUses, PublishCaseUses, ReturnReportUses, StopUses,
       CallerClearsUses
  <2>3. CASE UNCHANGED vars
    <3>1. UNCHANGED <<fixtures, changes, dir, told, run, pc, index>>
      BY <2>3 DEF inputs, vars, outputs
    <3>2. HolderOf(c)' = HolderOf(c) /\ ObservedIn(c)' = ObservedIn(c)
      BY <3>1 DEF HolderOf, ObservedIn, current
    <3> QED BY <3>1, <3>2, OtherVaults
  <2> QED BY <1>1, <2>1, <2>2, <2>3 DEF Next, Step
<1>2. ConfInv /\ [Next]_vars => [Allowed]_vars
  BY <1>1
<1>3. Init => \A c \in Cases : Vault(c)!Init
  BY VaultsBegin
<1> HIDE DEF Allowed
<1>4. Spec => [][Allowed]_vars
  BY <1>2, ConfCorrect, PTL DEF Spec
<1>5. Spec => \A c \in Cases : Vault(c)!Init
  BY <1>3, PTL DEF Spec
<1> QED BY <1>4, <1>5 DEF UsesVaults, Allowed
=============================================================================
