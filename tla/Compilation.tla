----------------------------- MODULE Compilation -----------------------------
(***************************************************************************)
(* LoadDenominator, CompileSource and GenerateGo (internal/observer/       *)
(* compile.go): how one contract and one source become the activities that *)
(* are built into the observer, one step per loop iteration, and           *)
(* validateMeta (evaluate.go), which compares those activities with a      *)
(* contract again when the observer runs.                                  *)
(*                                                                         *)
(* Abstractions.  The 12 cells of the code are 3 * Share of them, 4 being  *)
(* the Share.  A string is known by its value; an identifier by whether it *)
(* carries the prefix that activityIDForCell trims, and the rest.  A line  *)
(* of the source is known by what it starts with and what parseAttributes  *)
(* (module Attributes) makes of it.                                        *)
(***************************************************************************)
EXTENDS Naturals, Sequences, FiniteSets

CONSTANTS
  Share,    \* the cells of every proof choice and of every indicator class
  Names,    \* what identifiers consist of, without their prefix
  Texts,    \* the other strings of contracts and sources
  Inputs,   \* the contracts and sources considered, in pairs
  RunContracts   \* the contracts that may be there when the observer runs

CellCount == 3 * Share

ProofChoices     == {"FOUNDATION", "COHERENCE", "REGRESSION"}
IndicatorClasses == {"DRIVER", "OUTCOME", "GUARDRAIL"}

ArtifactKinds ==
  {"observation-manifest.json", "claims.ndjson", "evidence.ndjson",
   "transitions.ndjson", "observer-receipt.json", "observer-report.md"}

CellPrefix     == "gooo.cell.semantic-observer."
ActivityPrefix == "gooo://semantic-observer/activity/"

CellId     == {"", CellPrefix} \X (Names \cup {""})
ActivityId == {"", ActivityPrefix} \X (Names \cup {""})
NoId       == <<"", "">>
NoError    == ""

Text == Texts \cup {""}

-----------------------------------------------------------------------------
(* The contract.  The name of a balance is its choice among the proofs and *)
(* its class among the indicator classes.                                  *)

Balance == [name: Text, total: Nat]

Cell ==
  [ordinal: Nat, id: CellId, activity: Text, proofChoice: Text,
   indicatorClass: Text, metricID: Text, metricPath: Text, artifact: Text,
   evaluator: Text]

Denominator ==
  [decodes: BOOLEAN, schema: BOOLEAN, total: Nat, proofs: Seq(Balance),
   indicatorClasses: Seq(Balance), cells: Seq(Cell)]

(* The source: what parseAttributes returns for a line that starts with    *)
(* "activity ", an absent attribute being the empty string.                *)
Attributes ==
  [id: ActivityId, name: Text, activity: Text, proofChoice: Text,
   indicatorClass: Text, metricID: Text, metricPath: Text, artifact: Text,
   evaluator: Text]

Line == [kind: {"header", "activity", "other"}, parses: BOOLEAN, attrs: Attributes]

ASSUME CompilationAssumption ==
  /\ Share \in Nat \ {0}
  /\ ProofChoices \cup IndicatorClasses \subseteq Texts
  /\ Inputs \subseteq Denominator \X Seq(Line)
  /\ \A i \in Inputs : i[2] # <<>>
  /\ RunContracts \subseteq Denominator
  /\ "" \notin Names \cup Texts

-----------------------------------------------------------------------------
(* Slip: a balance may be given twice.                                     *)
validBalanceRepeated(values, expected) ==
  /\ Len(values) = Cardinality(expected)
  /\ \A k \in DOMAIN values : values[k].total = Share /\ values[k].name \in expected

(* One entry of the right total for every expected name.                   *)
validBalance(values, expected) ==
  /\ Len(values) = Cardinality(expected)
  /\ \A k \in DOMAIN values :
       /\ values[k].total = Share
       /\ values[k].name \in expected
       /\ \A j \in 1..(k - 1) : values[j].name # values[k].name

contractError(d) ==
  IF ~d.decodes THEN "MALFORMED_DENOMINATOR"
  ELSE IF ~d.schema THEN "INVALID_DENOMINATOR_SCHEMA"
  ELSE IF d.total # CellCount \/ Len(d.cells) # CellCount
       THEN "DENOMINATOR_MUST_HAVE_EXACTLY_12_CELLS"
  ELSE IF ~validBalance(d.proofs, ProofChoices) THEN "UNBALANCED_PROOF_CHOICES"
  ELSE IF ~validBalance(d.indicatorClasses, IndicatorClasses)
       THEN "UNBALANCED_INDICATOR_CLASSES"
  ELSE NoError

(* The prefix of the cell is trimmed where there is one.                   *)
activityIDForCell(id) == <<ActivityPrefix, id[2]>>

(* Slip: the metric path is not compared.                                  *)
nodeBindsAnyPath(node, cell) ==
  /\ node.id = activityIDForCell(cell.id) /\ node.activity = cell.activity
  /\ node.proofChoice = cell.proofChoice
  /\ node.indicatorClass = cell.indicatorClass
  /\ node.metricID = cell.metricID
  /\ node.artifact = cell.artifact /\ node.evaluator = cell.evaluator

(* CompileSource compares every node with the cell at its position ...     *)
nodeBinds(node, cell) ==
  /\ node.id = activityIDForCell(cell.id) /\ node.activity = cell.activity
  /\ node.proofChoice = cell.proofChoice
  /\ node.indicatorClass = cell.indicatorClass
  /\ node.metricID = cell.metricID /\ node.metricPath = cell.metricPath
  /\ node.artifact = cell.artifact /\ node.evaluator = cell.evaluator

(* Slip: the metric id is written twice.                                   *)
generatedActivityTwice(node) ==
  [id |-> node.id, activity |-> node.activity, name |-> node.name,
   proofChoice |-> node.proofChoice, indicatorClass |-> node.indicatorClass,
   metricID |-> node.metricID, metricPath |-> node.metricID,
   artifact |-> node.artifact, evaluator |-> node.evaluator]

(* ... GenerateGo writes everything of a node but its line ...             *)
generatedActivity(node) ==
  [id |-> node.id, activity |-> node.activity, name |-> node.name,
   proofChoice |-> node.proofChoice, indicatorClass |-> node.indicatorClass,
   metricID |-> node.metricID, metricPath |-> node.metricPath,
   artifact |-> node.artifact, evaluator |-> node.evaluator]

(* Slip: the evaluator is not compared.                                    *)
activityBindsAnyEvaluator(activity, cell) ==
  /\ activity.id = activityIDForCell(cell.id) /\ activity.activity = cell.activity
  /\ activity.metricID = cell.metricID /\ activity.metricPath = cell.metricPath
  /\ activity.proofChoice = cell.proofChoice
  /\ activity.indicatorClass = cell.indicatorClass
  /\ activity.artifact = cell.artifact

(* ... and validateMeta compares every generated activity with the cell at *)
(* its position in the contract of the run.                                *)
activityBinds(activity, cell) ==
  /\ activity.id = activityIDForCell(cell.id) /\ activity.activity = cell.activity
  /\ activity.metricID = cell.metricID /\ activity.metricPath = cell.metricPath
  /\ activity.proofChoice = cell.proofChoice
  /\ activity.indicatorClass = cell.indicatorClass
  /\ activity.artifact = cell.artifact /\ activity.evaluator = cell.evaluator

-----------------------------------------------------------------------------
VARIABLES
  denominator,      \* the decoded contract
  source,           \* the lines of the source
  pc,               \* where the call is
  index,            \* the cell or line of the current loop
  seenIDs,          \* ids of the cells before it
  seenActivities,   \* their activities
  proofCounts,      \* how many of them have every proof choice
  indicatorCounts,  \* and every indicator class
  nodes,            \* the activities read from the source
  error             \* why the compilation was refused

input == <<denominator, source>>
seen  == <<seenIDs, seenActivities, proofCounts, indicatorCounts>>
vars  == <<input, pc, index, seen, nodes, error>>

ContractErrors ==
  {"MALFORMED_DENOMINATOR", "INVALID_DENOMINATOR_SCHEMA",
   "DENOMINATOR_MUST_HAVE_EXACTLY_12_CELLS", "UNBALANCED_PROOF_CHOICES",
   "UNBALANCED_INDICATOR_CLASSES", "INVALID_DENOMINATOR_CELL",
   "INVALID_OR_DUPLICATE_DENOMINATOR_CELL", "PROOF_CHOICES_MUST_EACH_HAVE_4_CELLS",
   "INDICATOR_CLASSES_MUST_EACH_HAVE_4_CELLS"}

SourceErrors ==
  {"GOOO_SOURCE_SCHEMA_HEADER_MISSING", "UNREADABLE_ATTRIBUTES",
   "INCOMPLETE_ACTIVITY_METADATA", "GOOO_SOURCE_MUST_DEFINE_EXACTLY_12_ACTIVITIES",
   "ACTIVITY_BINDING_MISMATCH"}

Errors == {NoError} \cup ContractErrors \cup SourceErrors

Steps == {"contract", "cells", "counts", "header", "lines", "bind", "returned"}

Init ==
  /\ \E i \in Inputs : denominator = i[1] /\ source = i[2]
  /\ pc = "contract"
  /\ index = 1
  /\ seenIDs = {}
  /\ seenActivities = {}
  /\ proofCounts = [t \in Text |-> 0]
  /\ indicatorCounts = [t \in Text |-> 0]
  /\ nodes = <<>>
  /\ error = NoError

(* On to the next step, or out with the reason.                            *)
Proceed(reason, step) ==
  /\ error' = reason
  /\ pc' = IF reason = NoError THEN step ELSE "returned"

(* LoadDenominator up to the loop of ValidateDenominator.                  *)
CheckContract ==
  /\ pc = "contract"
  /\ Proceed(contractError(denominator), "cells")
  /\ UNCHANGED <<input, index, seen, nodes>>

(* Slip: only the id of a cell has to be new.                              *)
cellErrorSharedActivity(cell) ==
  IF \/ cell.ordinal # index \/ cell.id = NoId
     \/ \E f \in {"activity", "metricID", "metricPath", "artifact", "evaluator"} : cell[f] = ""
  THEN "INVALID_DENOMINATOR_CELL"
  ELSE IF cell.artifact \notin ArtifactKinds \/ cell.id \in seenIDs
  THEN "INVALID_OR_DUPLICATE_DENOMINATOR_CELL"
  ELSE NoError

cellError(cell) ==
  IF \/ cell.ordinal # index
     \/ cell.id = NoId
     \/ \E f \in {"activity", "metricID", "metricPath", "artifact", "evaluator"} :
          cell[f] = ""
  THEN "INVALID_DENOMINATOR_CELL"
  ELSE IF \/ cell.artifact \notin ArtifactKinds
          \/ cell.id \in seenIDs
          \/ cell.activity \in seenActivities
  THEN "INVALID_OR_DUPLICATE_DENOMINATOR_CELL"
  ELSE NoError

CheckCell ==
  /\ pc = "cells"
  /\ index <= Len(denominator.cells)
  /\ LET cell == denominator.cells[index]
     IN  /\ Proceed(cellError(cell), "cells")
         /\ IF cellError(cell) = NoError
            THEN /\ seenIDs' = seenIDs \cup {cell.id}
                 /\ seenActivities' = seenActivities \cup {cell.activity}
                 /\ proofCounts' = [proofCounts EXCEPT ![cell.proofChoice] = @ + 1]
                 /\ indicatorCounts' =
                      [indicatorCounts EXCEPT ![cell.indicatorClass] = @ + 1]
            ELSE UNCHANGED seen
  /\ index' = index + 1
  /\ UNCHANGED <<input, nodes>>

(* Slip: the third proof choice is taken to be the rest.                   *)
countsErrorTwo ==
  IF \E c \in ProofChoices \ {"REGRESSION"} : proofCounts[c] # Share
  THEN "PROOF_CHOICES_MUST_EACH_HAVE_4_CELLS"
  ELSE IF \E c \in IndicatorClasses : indicatorCounts[c] # Share
  THEN "INDICATOR_CLASSES_MUST_EACH_HAVE_4_CELLS"
  ELSE NoError

countsError ==
  IF \E c \in ProofChoices : proofCounts[c] # Share
  THEN "PROOF_CHOICES_MUST_EACH_HAVE_4_CELLS"
  ELSE IF \E c \in IndicatorClasses : indicatorCounts[c] # Share
  THEN "INDICATOR_CLASSES_MUST_EACH_HAVE_4_CELLS"
  ELSE NoError

(* The end of ValidateDenominator.  CompileSource validates the same value *)
(* again, with the same answer.                                            *)
CheckCounts ==
  /\ pc = "cells"
  /\ index > Len(denominator.cells)
  /\ Proceed(countsError, "header")
  /\ UNCHANGED <<input, index, seen, nodes>>

(* Slip: lines counted from 0.                                             *)
CheckHeaderFromZero ==
  /\ pc = "header"
  /\ Proceed(IF source[1].kind = "header" THEN NoError
             ELSE "GOOO_SOURCE_SCHEMA_HEADER_MISSING", "lines")
  /\ index' = 0
  /\ UNCHANGED <<input, seen, nodes>>

CheckHeader ==
  /\ pc = "header"
  /\ Proceed(IF source[1].kind = "header" THEN NoError
             ELSE "GOOO_SOURCE_SCHEMA_HEADER_MISSING", "lines")
  /\ index' = 1
  /\ UNCHANGED <<input, seen, nodes>>

incomplete(attrs) ==
  \/ attrs.id = NoId
  \/ "" \in {attrs.activity, attrs.name, attrs.proofChoice, attrs.indicatorClass,
            attrs.metricID, attrs.metricPath, attrs.artifact, attrs.evaluator}

lineError(line) ==
  IF line.kind # "activity" THEN NoError
  ELSE IF ~line.parses THEN "UNREADABLE_ATTRIBUTES"
  ELSE IF incomplete(line.attrs) THEN "INCOMPLETE_ACTIVITY_METADATA"
  ELSE NoError

ReadLine ==
  /\ pc = "lines"
  /\ index <= Len(source)
  /\ LET line == source[index]
     IN  /\ Proceed(lineError(line), "lines")
         /\ nodes' = IF line.kind = "activity" /\ lineError(line) = NoError
                     THEN Append(nodes, line.attrs) ELSE nodes
  /\ index' = index + 1
  /\ UNCHANGED <<input, seen>>

(* Slip: a source may define more activities than there are cells.         *)
CountNodesAtLeast ==
  /\ pc = "lines"
  /\ index > Len(source)
  /\ Proceed(IF Len(nodes) >= CellCount THEN NoError
             ELSE "GOOO_SOURCE_MUST_DEFINE_EXACTLY_12_ACTIVITIES", "bind")
  /\ index' = 1
  /\ UNCHANGED <<input, seen, nodes>>

CountNodes ==
  /\ pc = "lines"
  /\ index > Len(source)
  /\ Proceed(IF Len(nodes) = CellCount THEN NoError
             ELSE "GOOO_SOURCE_MUST_DEFINE_EXACTLY_12_ACTIVITIES", "bind")
  /\ index' = 1
  /\ UNCHANGED <<input, seen, nodes>>

BindCell ==
  /\ pc = "bind"
  /\ index <= Len(denominator.cells)
  /\ Proceed(IF nodeBinds(nodes[index], denominator.cells[index]) THEN NoError
             ELSE "ACTIVITY_BINDING_MISMATCH", "bind")
  /\ index' = index + 1
  /\ UNCHANGED <<input, seen, nodes>>

(* The semantic IR and the generated Go are made of the nodes.             *)
EmitNodes ==
  /\ pc = "bind"
  /\ index > Len(denominator.cells)
  /\ pc' = "returned"
  /\ UNCHANGED <<input, index, seen, nodes, error>>

Returned ==
  /\ pc = "returned"
  /\ UNCHANGED vars

Next ==
  \/ CheckContract \/ CheckCell \/ CheckCounts
  \/ CheckHeader \/ ReadLine \/ CountNodes
  \/ BindCell \/ EmitNodes
  \/ Returned

Spec == Init /\ [][Next]_vars

-----------------------------------------------------------------------------
Compiled == pc = "returned" /\ error = NoError

(* What GenerateGo builds into the observer.                               *)
generated == [k \in DOMAIN nodes |-> generatedActivity(nodes[k])]

(* validateMeta on the contract d of a run: the counts, and every activity *)
(* at the position of its cell.  That the digests agree is in the module   *)
(* AuthorityChain.                                                         *)
validateMeta(d) ==
  /\ Len(generated) = CellCount
  /\ \A k \in DOMAIN d.cells :
       k \in DOMAIN generated /\ activityBinds(generated[k], d.cells[k])

-----------------------------------------------------------------------------
(* Properties.                                                             *)

(* Every variable holds a value of its kind; no loop starts before the     *)
(* first of its elements.                                                  *)
TypeOK ==
  /\ denominator \in Denominator
  /\ source \in Seq(Line)
  /\ pc \in Steps
  /\ index \in Nat \ {0}
  /\ seenIDs \subseteq CellId
  /\ seenActivities \subseteq Text
  /\ proofCounts \in [Text -> Nat]
  /\ indicatorCounts \in [Text -> Nat]
  /\ nodes \in Seq(Attributes)
  /\ error \in Errors

(* What the documents ask of a contract, without loops: cells numbered     *)
(* from 1, with ids and activities of their own, an artifact of the six,   *)
(* every proof choice and indicator class on its share of the cells.       *)
Distinct(cells, field) ==
  \A j, k \in DOMAIN cells : cells[j][field] = cells[k][field] => j = k

With(cells, field, value) == {k \in DOMAIN cells : cells[k][field] = value}

Balanced(values, expected) ==
  /\ Len(values) = Cardinality(expected)
  /\ {values[k] : k \in DOMAIN values} = [name: expected, total: {Share}]

WellFormed(d) ==
  /\ d.decodes /\ d.schema
  /\ d.total = CellCount /\ Len(d.cells) = CellCount
  /\ Balanced(d.proofs, ProofChoices)
  /\ Balanced(d.indicatorClasses, IndicatorClasses)
  /\ Distinct(d.cells, "id") /\ Distinct(d.cells, "activity")
  /\ \A k \in DOMAIN d.cells :
       LET cell == d.cells[k]
       IN  /\ cell.ordinal = k
           /\ cell.id # NoId
           /\ "" \notin {cell.activity, cell.metricID, cell.metricPath, cell.evaluator}
           /\ cell.artifact \in ArtifactKinds
           /\ cell.proofChoice \in ProofChoices
           /\ cell.indicatorClass \in IndicatorClasses
  /\ \A c \in ProofChoices : Cardinality(With(d.cells, "proofChoice", c)) = Share
  /\ \A c \in IndicatorClasses : Cardinality(With(d.cells, "indicatorClass", c)) = Share

(* The activity lines of a source up to a line; how many they are is the   *)
(* place of that line among them.                                          *)
ActivitiesUpTo(lines, i) == {j \in 1..i : lines[j].kind = "activity"}

PlaceOf(lines, i) == Cardinality(ActivitiesUpTo(lines, i))

(* What a line and a cell both say of an activity.                         *)
BoundFields ==
  {"activity", "proofChoice", "indicatorClass", "metricID", "metricPath",
   "artifact", "evaluator"}

Describes(attrs, cell) ==
  /\ attrs.id = <<ActivityPrefix, cell.id[2]>>
  /\ \A f \in BoundFields : attrs[f] = cell[f]

(* A source defines the activities of a contract when the activity lines,  *)
(* in their order, are those of the cells, in theirs.                      *)
Defines(lines, d) ==
  /\ lines[1].kind = "header"
  /\ PlaceOf(lines, Len(lines)) = CellCount
  /\ \A i \in ActivitiesUpTo(lines, Len(lines)) :
       /\ lines[i].parses
       /\ lines[i].attrs.name # ""
       /\ Describes(lines[i].attrs, d.cells[PlaceOf(lines, i)])

(* The loops with their sets, counters and early returns accept exactly    *)
(* the contracts and sources of that description.  That every proof choice *)
(* and indicator class of an accepted contract is a known one is checked   *)
(* by no line of the code: it follows from the counts.                     *)
AcceptsExactly ==
  pc = "returned" =>
    (error = NoError <=> WellFormed(denominator) /\ Defines(source, denominator))

(* Two cells that differ in their number and the prefix of their id only.  *)
SameCell(one, other) ==
  [one EXCEPT !.ordinal = other.ordinal, !.id[1] = other.id[1]] = other

(* What the observer accepts when it runs is the contract it was compiled  *)
(* from and no other: a contract with as many cells passes exactly when    *)
(* all its cells are those compiled.  The fields that say so are listed    *)
(* three times, at compile.go:126, in GenerateGo and at evaluate.go:214; a *)
(* field forgotten in any list, or written in the place of another, breaks *)
(* one of the directions.                                                  *)
AcceptsWhatWasCompiled ==
  Compiled =>
    \A d \in RunContracts \cup {denominator} :
      Len(d.cells) = CellCount =>
        (validateMeta(d) <=>
           \A k \in 1..CellCount : SameCell(d.cells[k], denominator.cells[k]))

-----------------------------------------------------------------------------
(* What the documents promise and the code does not keep.                  *)

(* README.md:34-36: every cell is bound one-to-one to an activity, a metric *)
(* and a path.  An activity is identified by its id and a metric by its    *)
(* own; neither is compared between cells.                                 *)
BoundOneToOne ==
  Compiled =>
    /\ Distinct(nodes, "id")
    /\ Distinct(nodes, "metricID")
    /\ Distinct(nodes, "metricPath")
=============================================================================
