----------------------------- MODULE Conformance -----------------------------
(***************************************************************************)
(* The conformance command (cmd/gooo-observer/main.go): it observes every  *)
(* fixture into a directory of its own, compares the decisions with the    *)
(* table of expectedDecision, checks what the twelve reports have in       *)
(* common and writes a summary.  It returns at the first thing that is not *)
(* as expected and leaves what it has published; the command may be run    *)
(* again, and the caller clears directories between the runs.              *)
(*                                                                         *)
(* observeFile is used as module ObservationVault promises it, which       *)
(* module Publication implements.  What it reports is a function of the    *)
(* fixture; fixtures change between runs, not during one.  A case id is    *)
(* known by its place in the order of the strings, the empty one being 0.  *)
(***************************************************************************)
EXTENDS Naturals, Sequences, FiniteSets

CONSTANTS
  FixtureDirs,   \* the fixture directories considered
  OtherCases,    \* case names that the table does not know
  MaxRuns,       \* how often the command is run
  MaxChanges     \* bound on the changes of the fixtures

ClosedCases  == {"closed-github-run", "closed-github-artifact", "closed-caller-input"}
UnknownCases == {"unknown-direct-missing", "unknown-dependency-blocked",
                 "unknown-stale", "unknown-ambiguous"}
RefutedCases == {"refuted-contradiction", "refuted-self-attestation",
                 "refuted-evaluator-digest", "refuted-evidence-digest",
                 "refuted-source-binding"}

Cases == ClosedCases \cup UnknownCases \cup RefutedCases

(* The table of expectedDecision.                                          *)
expectedDecision(c) ==
  CASE c \in ClosedCases  -> "CLOSED"
    [] c \in UnknownCases -> "UNKNOWN"
    [] c \in RefutedCases -> "REFUTED"

Decisions == {"CLOSED", "UNKNOWN", "REFUTED"}
Classes   == {"DIRECT_MISSING", "DEPENDENCY_BLOCKED", "STALE", "AMBIGUOUS"}

(* The entries of the fixture directory in the order of their names, and   *)
(* what observing them reports: the case id that the input gives itself,   *)
(* none when it does not decode, the decision, the classes of the UNKNOWN  *)
(* records, and whether all of these are complete.                         *)
Fixture == [kind: {"json", "other", "directory"}, name: Cases \cup OtherCases]

Outcome ==
  [caseID: Nat, decision: Decisions, classes: SUBSET Classes, complete: BOOLEAN]

FixtureDir == [entries: Seq(Fixture), outcome: [Cases -> Outcome]]

(* Two files of a directory do not have the same name.                     *)
Jsons(d) == {k \in DOMAIN d.entries : d.entries[k].kind = "json"}

ASSUME ConformanceAssumption ==
  /\ FixtureDirs \subseteq FixtureDir
  /\ \A d \in FixtureDirs : \A j, k \in Jsons(d) :
       d.entries[j].name = d.entries[k].name => j = k
  /\ OtherCases \cap Cases = {}
  /\ MaxRuns \in Nat \ {0}
  /\ MaxChanges \in Nat

Runs   == 1..MaxRuns
Nobody == 0

-----------------------------------------------------------------------------
VARIABLES
  fixtures,   \* the fixture directory
  changes,    \* how often it was changed
  dir,        \* the output directory of every case: what it holds, and of which run
  told,       \* the runs to which observeFile has returned a report of a case
  summary,    \* what ci-summary.md holds
  run,        \* the current or last run
  pc,         \* where it is
  index,      \* the entry it looks at
  reports,    \* the cases it has accepted
  exit        \* how it ended

outputs == <<dir, told, summary>>
inputs == <<fixtures, changes>>
vars == <<inputs, outputs, run, pc, index, reports, exit>>

Directory == [state: {"absent", "empty", "remains", "whole"}, by: Runs \cup {Nobody}]

Absent == [state |-> "absent", by |-> Nobody]

(* A row of the summary shows a case id and a decision; the model also     *)
(* knows of which fixture it is.  Two rows of one file are never the same. *)
Row == [case: Cases, caseID: Nat, decision: Decisions]

Summary ==
  [state: {"absent", "cut off", "whole"}, by: Runs \cup {Nobody}, rows: SUBSET Row]

NoSummary == [state |-> "absent", by |-> Nobody, rows |-> {}]

Steps == {"list", "entry", "begin", "observe", "return", "check",
          "substitute", "count", "summary"}

Ends == {"succeeded", "stopped", "UNEXPECTED_FIXTURE", "OUTPUT_DIRECTORY_NOT_EMPTY",
         "UNEXPECTED_DECISION", "UNKNOWN_RECORD_MISSING_REQUIRED_FIELD",
         "FIXTURE_COUNT", "RECEIPT_SUBSTITUTION", "DECISION_COUNTS",
         "MISSING_UNKNOWN_CLASS"}

Init ==
  /\ fixtures \in FixtureDirs
  /\ changes = 0
  /\ dir = [c \in Cases |-> Absent]
  /\ told = [c \in Cases |-> {}]
  /\ summary = NoSummary
  /\ run = Nobody
  /\ pc = "idle"
  /\ index = 1
  /\ reports = <<>>
  /\ exit = "none"

Exit(how) == pc' = "idle" /\ exit' = how

GoTo(step) == pc' = step /\ UNCHANGED exit

Start ==
  /\ pc = "idle"
  /\ run < MaxRuns
  /\ run' = run + 1
  /\ pc' = "list"
  /\ index' = 1
  /\ reports' = <<>>
  /\ exit' = "none"
  /\ UNCHANGED <<inputs, outputs>>

ListFixtures ==
  /\ pc = "list"
  /\ GoTo("entry")
  /\ UNCHANGED <<inputs, outputs, run, index, reports>>

current == fixtures.entries[index].name

(* Directories and other files are passed over, a name that the table does *)
(* not know ends the run.                                                  *)
NextEntry ==
  /\ pc = "entry"
  /\ index <= Len(fixtures.entries)
  /\ IF fixtures.entries[index].kind # "json"
     THEN index' = index + 1 /\ GoTo("entry")
     ELSE /\ UNCHANGED index
          /\ IF current \in Cases THEN GoTo("begin") ELSE Exit("UNEXPECTED_FIXTURE")
  /\ UNCHANGED <<inputs, outputs, run, reports>>

(* Slip: an observation that is there already is taken as it is.           *)
BeginCaseReused ==
  /\ pc = "begin"
  /\ IF dir[current].state = "whole"
     THEN GoTo("check") /\ UNCHANGED dir
     ELSE IF dir[current].state = "remains"
     THEN Exit("OUTPUT_DIRECTORY_NOT_EMPTY") /\ UNCHANGED dir
     ELSE GoTo("observe") /\ dir' = [dir EXCEPT ![current].state = "empty"]
  /\ UNCHANGED <<inputs, told, summary, run, index, reports>>

(* Slip: what is in the directory of the case is removed.                  *)
BeginCaseCleaning ==
  /\ pc = "begin"
  /\ GoTo("observe")
  /\ dir' = [dir EXCEPT ![current] = [state |-> "empty", by |-> Nobody]]
  /\ UNCHANGED <<inputs, told, summary, run, index, reports>>

(* observeFile: the directory of the case has to be empty, ...             *)
BeginCase ==
  /\ pc = "begin"
  /\ IF dir[current].state \in {"absent", "empty"}
     THEN GoTo("observe") /\ dir' = [dir EXCEPT ![current].state = "empty"]
     ELSE Exit("OUTPUT_DIRECTORY_NOT_EMPTY") /\ UNCHANGED dir
  /\ UNCHANGED <<inputs, told, summary, run, index, reports>>

(* ... the observation appears in it with its last file, ...               *)
PublishCase ==
  /\ pc = "observe"
  /\ dir' = [dir EXCEPT ![current] = [state |-> "whole", by |-> run]]
  /\ GoTo("return")
  /\ UNCHANGED <<inputs, told, summary, run, index, reports>>

(* ... and is verified before the report is returned.                      *)
ReturnReport ==
  /\ pc = "return"
  /\ told' = [told EXCEPT ![current] = @ \cup {run}]
  /\ GoTo("check")
  /\ UNCHANGED <<inputs, dir, summary, run, index, reports>>

(* Slip: the index is advanced by the loop and by its body.                *)
CheckReportTwice ==
  /\ pc = "check"
  /\ IF fixtures.outcome[current].decision # expectedDecision(current)
     THEN Exit("UNEXPECTED_DECISION") /\ UNCHANGED <<index, reports>>
     ELSE /\ reports' = Append(reports, current)
          /\ index' = index + 2
          /\ GoTo("entry")
  /\ UNCHANGED <<inputs, outputs, run>>

CheckReport ==
  /\ pc = "check"
  /\ LET outcome == fixtures.outcome[current]
     IN  IF outcome.decision # expectedDecision(current)
         THEN Exit("UNEXPECTED_DECISION") /\ UNCHANGED <<index, reports>>
         ELSE IF ~outcome.complete
         THEN Exit("UNKNOWN_RECORD_MISSING_REQUIRED_FIELD") /\ UNCHANGED <<index, reports>>
         ELSE /\ reports' = Append(reports, current)
              /\ index' = index + 1
              /\ GoTo("entry")
  /\ UNCHANGED <<inputs, outputs, run>>

(* Slip: the number of reports is not compared.                            *)
CountReportsNot ==
  /\ pc = "entry"
  /\ index > Len(fixtures.entries)
  /\ GoTo("substitute")
  /\ UNCHANGED <<inputs, outputs, run, index, reports>>

(* Slip: the summary is written before the reports are counted.            *)
CountReportsLate ==
  /\ pc = "entry"
  /\ index > Len(fixtures.entries)
  /\ GoTo("summary")
  /\ UNCHANGED <<inputs, outputs, run, index, reports>>

(* Slip: a fixture is missed.                                              *)
CountReportsEleven ==
  /\ pc = "entry"
  /\ index > Len(fixtures.entries)
  /\ IF Len(reports) = 11 THEN GoTo("substitute") ELSE Exit("FIXTURE_COUNT")
  /\ UNCHANGED <<inputs, outputs, run, index, reports>>

CountReports ==
  /\ pc = "entry"
  /\ index > Len(fixtures.entries)
  /\ IF Len(reports) = 12 THEN GoTo("substitute") ELSE Exit("FIXTURE_COUNT")
  /\ UNCHANGED <<inputs, outputs, run, index, reports>>

(* verifyReceiptSubstitutionCounterexample: the manifest of one case and   *)
(* the receipt of another are read back and have to be refused, because    *)
(* the manifest records the digest of the receipt beside it.               *)
Substitute ==
  /\ pc = "substitute"
  /\ LET target     == dir["closed-github-run"]
         substitute == dir["refuted-contradiction"]
     IN  IF target.state = "whole" /\ substitute.state = "whole"
         THEN GoTo("count") ELSE Exit("RECEIPT_SUBSTITUTION")
  /\ UNCHANGED <<inputs, outputs, run, index, reports>>

Accepted(decision) ==
  Cardinality({k \in DOMAIN reports :
                 fixtures.outcome[reports[k]].decision = decision})

ClassesSeen ==
  UNION {fixtures.outcome[reports[k]].classes : k \in DOMAIN reports}

(* Slip: it is enough that some class of UNKNOWN was seen.                 *)
CountDecisionsSomeClass ==
  /\ pc = "count"
  /\ IF ClassesSeen = {} THEN Exit("MISSING_UNKNOWN_CLASS") ELSE GoTo("summary")
  /\ UNCHANGED <<inputs, outputs, run, index, reports>>

(* The artifact kinds of every report are those of baseReport.             *)
CountDecisions ==
  /\ pc = "count"
  /\ IF Accepted("CLOSED") # 3 \/ Accepted("UNKNOWN") # 4 \/ Accepted("REFUTED") # 5
     THEN Exit("DECISION_COUNTS")
     ELSE IF ~(Classes \subseteq ClassesSeen)
     THEN Exit("MISSING_UNKNOWN_CLASS")
     ELSE GoTo("summary")
  /\ UNCHANGED <<inputs, outputs, run, index, reports>>

(* What a run prints of the reports it has accepted.                       *)
Rows ==
  {[case |-> reports[k], caseID |-> fixtures.outcome[reports[k]].caseID,
    decision |-> fixtures.outcome[reports[k]].decision] : k \in DOMAIN reports}

Summarise(state, rows) == summary' = [state |-> state, by |-> run, rows |-> rows]

(* Slip: the reports are kept by their case ids.                           *)
WriteSummaryById ==
  /\ pc = "summary"
  /\ Summarise("whole", {CHOOSE r \in Rows : r.caseID = id : id \in {r.caseID : r \in Rows}})
  /\ Exit("succeeded")
  /\ UNCHANGED <<inputs, dir, told, run, index, reports>>

WriteSummary ==
  /\ pc = "summary"
  /\ Summarise("whole", Rows)
  /\ Exit("succeeded")
  /\ UNCHANGED <<inputs, dir, told, run, index, reports>>

(* The reports are sorted by their case ids before they are printed, so    *)
(* what a file that is cut off shows are the first rows in that order;     *)
(* those of one id are in any order.                                       *)
SummaryCutOff ==
  \E last \in {r.caseID : r \in Rows} :
    \E some \in SUBSET {r \in Rows : r.caseID = last} :
      Summarise("cut off", {r \in Rows : r.caseID < last} \cup some)

(* A system call fails or the run is killed.  What the current observation *)
(* or the summary has so far stays.                                        *)
Stop ==
  /\ pc \in Steps
  /\ Exit("stopped")
  /\ \/ UNCHANGED outputs
     \/ /\ pc = "observe"
        /\ dir' = [dir EXCEPT ![current].state = "remains"]
        /\ UNCHANGED <<told, summary>>
     \/ /\ pc = "summary"
        /\ SummaryCutOff \/ Summarise("whole", Rows)
        /\ UNCHANGED <<dir, told>>
  /\ UNCHANGED <<inputs, run, index, reports>>

(* Between runs the fixtures are edited, added or removed ...              *)
FixturesChange ==
  /\ pc = "idle"
  /\ changes < MaxChanges
  /\ changes' = changes + 1
  /\ fixtures' \in FixtureDirs
  /\ UNCHANGED <<outputs, run, pc, index, reports, exit>>

(* ... and the caller removes the output directory, or only what the last  *)
(* run has left of the cases.                                              *)
CallerClears ==
  /\ pc = "idle"
  /\ dir' = [c \in Cases |-> Absent]
  /\ summary' \in {summary, NoSummary}
  /\ UNCHANGED <<inputs, told, run, pc, index, reports, exit>>

Step ==
  \/ ListFixtures \/ NextEntry
  \/ BeginCase \/ PublishCase \/ ReturnReport \/ CheckReport
  \/ CountReports \/ Substitute \/ CountDecisions \/ WriteSummary

Next ==
  \/ Start \/ Step \/ Stop
  \/ FixturesChange \/ CallerClears

Spec == Init /\ [][Next]_vars

(* A run goes on until it exits; nobody has to start it or to clear.       *)
FairSpec == Spec /\ WF_vars(Step)

-----------------------------------------------------------------------------
(* Properties.                                                             *)

(* Every variable holds a value of its kind; the loop looks at no entry    *)
(* behind the last.                                                        *)
TypeOK ==
  /\ fixtures \in FixtureDir
  /\ changes \in 0..MaxChanges
  /\ dir \in [Cases -> Directory]
  /\ told \in [Cases -> SUBSET Runs]
  /\ summary \in Summary
  /\ run \in Runs \cup {Nobody}
  /\ pc \in {"idle"} \cup Steps
  /\ index \in Nat \ {0}
  /\ pc # "idle" => index <= Len(fixtures.entries) + 1
  /\ reports \in Seq(Cases)
  /\ exit \in {"none"} \cup Ends

(* What a fixture directory has to be: the twelve cases, each with the     *)
(* decision its name says, and together all classes of UNKNOWN.            *)
Canonical(d) ==
  /\ {d.entries[k].name : k \in Jsons(d)} = Cases
  /\ \A c \in Cases : /\ d.outcome[c].decision = expectedDecision(c)
                      /\ d.outcome[c].complete
  /\ UNION {d.outcome[c].classes : c \in Cases} = Classes

(* Success is told only when the fixtures are canonical and all twelve     *)
(* directories hold observations of this very run: nothing that an earlier *)
(* run has left, whole or not, is taken for a result of this one.          *)
SuccessIsOfThisRun ==
  [][exit # "succeeded" /\ exit' = "succeeded" =>
       /\ Canonical(fixtures)
       /\ \A c \in Cases : dir[c] = [state |-> "whole", by |-> run]]_vars

(* When a run has accepted twelve reports, the counts of 3, 4 and 5 follow *)
(* from the table, and the counterexample finds its two files: these late  *)
(* checks never fail.                                                      *)
LateChecksFollow == exit \notin {"DECISION_COUNTS", "RECEIPT_SUBSTITUTION"}

(* A whole summary has a row for every case, and the 3, 4 and 5 that it    *)
(* states as fixed text are those of its rows, whatever case ids the       *)
(* fixtures give themselves: some may be equal, or empty.  One that is cut *)
(* off says nothing wrong.  Both stay true when the fixtures change and    *)
(* later runs fail, as nothing takes a summary back.                       *)
Listed(decision) == Cardinality({r \in summary.rows : r.decision = decision})

SummaryIsTrue ==
  /\ summary.state = "whole" =>
       /\ {r.case : r \in summary.rows} = Cases
       /\ Listed("CLOSED") = 3 /\ Listed("UNKNOWN") = 4 /\ Listed("REFUTED") = 5
  /\ \A r \in summary.rows : r.decision = expectedDecision(r.case)

(* A run on cleared directories and canonical fixtures succeeds unless it  *)
(* is stopped.                                                             *)
CleanRunSucceeds ==
  pc = "list" /\ Canonical(fixtures) /\ (\A c \in Cases : dir[c] = Absent)
    ~> exit \in {"succeeded", "stopped"}

(* conformance uses the directory of every case as the vault allows it.    *)
ObservedIn(c) ==
  IF pc \in {"observe", "return"} /\ current = c THEN {run} ELSE {}

HolderOf(c) == IF dir[c].state = "whole" THEN dir[c].by ELSE Nobody

Vault(c) == INSTANCE ObservationVault
  WITH holder <- HolderOf(c), running <- ObservedIn(c), told <- told[c]

UsesVaults ==
  /\ \A c \in Cases : Vault(c)!Init
  /\ [][\A c \in Cases : Vault(c)!Next \/ UNCHANGED Vault(c)!vars]_vars
=============================================================================
