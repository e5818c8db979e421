---------------------------- MODULE AuthorityChain ----------------------------
(***************************************************************************)
(* The chain from the Gooo source to a running observer, as files that     *)
(* change under the commands that read them:                               *)
(*   compile (cmd/gooo-observer/main.go) reads the source and the contract *)
(*     and writes the semantic IR and then the generated Go;               *)
(*   the Go toolchain builds the generated Go into the observer;           *)
(*   observe reads source, contract, IR, Go and evaluator, the contract a  *)
(*     second time, and validateMeta (internal/observer/evaluate.go)       *)
(*     compares what it read with what was built in.                       *)
(* People edit the three files that are written by hand at any time; a     *)
(* command may fail or be killed between any two of its steps.             *)
(*                                                                         *)
(* Abstractions.  A digest of bytes is those bytes (no collisions).  The   *)
(* content of a source or contract is a member of a set, known by the      *)
(* activities or cells that are compared (module Compilation says how they *)
(* are read).  What is absent, or does not decode, is the empty set.       *)
(***************************************************************************)
EXTENDS Naturals, Sequences

CONSTANTS
  Sources,       \* contents of main.gooo
  Contracts,     \* contents of the denominator contract
  Evaluators,    \* contents of evaluate.go
  Bindings,      \* what is compared of an activity or a cell
  ActivitiesOf,  \* the activities of every source
  CellsOf,       \* the cells of every contract
  Sound,         \* the contracts that pass every check but that of their length
  CellCount,     \* 12 in the code
  InTurn,        \* commands are run one after the other
  MaxEdits,      \* bound on the edits
  MaxStops       \* bound on the commands that stop early

ASSUME AuthorityAssumption ==
  /\ ActivitiesOf \in [Sources -> Seq(Bindings)]
  /\ CellsOf \in [Contracts -> Seq(Bindings)]
  /\ Sound \subseteq Contracts
  /\ CellCount \in Nat \ {0}
  /\ InTurn \in BOOLEAN
  /\ MaxEdits \in Nat /\ MaxStops \in Nat

-----------------------------------------------------------------------------
SemanticIR == [source: Sources, nodes: Seq(Bindings)]

GeneratedGo ==
  [source: Sources, semanticIR: SemanticIR, contract: Contracts,
   activities: Seq(Bindings)]

Binary == [generated: GeneratedGo, evaluator: Evaluators]

Optional(S) == {x \in SUBSET S : \A a, b \in x : a = b}

LoadDenominator(c) == c \in Sound /\ Len(CellsOf[c]) = CellCount

(* Slip: activities are looked up among the cells, whatever their place.   *)
CompileSourceUnordered(s, c) ==
  /\ LoadDenominator(c)
  /\ Len(ActivitiesOf[s]) = CellCount
  /\ \A k \in DOMAIN CellsOf[c] : \E j \in DOMAIN ActivitiesOf[s] :
       ActivitiesOf[s][j] = CellsOf[c][k]

(* The activities of the source are those of the cells, in their order.    *)
CompileSource(s, c) ==
  /\ LoadDenominator(c)
  /\ Len(ActivitiesOf[s]) = CellCount
  /\ \A k \in DOMAIN CellsOf[c] : ActivitiesOf[s][k] = CellsOf[c][k]

SemanticIRBytes(s) == [source |-> s, nodes |-> ActivitiesOf[s]]

GenerateGo(ir, c) ==
  [source |-> ir.source, semanticIR |-> ir, contract |-> c,
   activities |-> ir.nodes]

(* What every compile makes of a pair that it accepts.                     *)
GeneratedFrom(s, c) == GenerateGo(SemanticIRBytes(s), c)

NoError == ""

(* Slip: the cells are taken to follow from the digest of the contract.    *)
validateMetaByDigest(meta, built) ==
  IF \/ meta.source # {built.source}
     \/ meta.semanticIR # {built.semanticIR}
     \/ meta.contract # {built.contract}
     \/ Len(built.activities) # CellCount
  THEN "GENERATED_AUTHORITY_CHAIN_MISMATCH" ELSE NoError

CellsMismatch(d, built) ==
  \E k \in DOMAIN CellsOf[d] : built.activities[k] # CellsOf[d][k]

(* The digests of observeFile are of bytes that were just read and its     *)
(* paths are constants: its authority chain is never incomplete.           *)
validateMeta(meta, built) ==
  IF \/ meta.source # {built.source}
     \/ meta.semanticIR # {built.semanticIR}
     \/ meta.contract # {built.contract}
     \/ Len(built.activities) # CellCount
  THEN "GENERATED_AUTHORITY_CHAIN_MISMATCH"
  ELSE IF \E d \in meta.denominator : CellsMismatch(d, built)
  THEN "GENERATED_ACTIVITY_BINDING_MISMATCH"
  ELSE NoError

-----------------------------------------------------------------------------
VARIABLES
  disk,      \* what the five files hold
  binary,    \* the observer as it was last built
  compiler,  \* where compile is, and the source and contract it has read
  observer,  \* where the observation is, ...
  built,     \* ... the binary that runs it, ...
  meta,      \* ... what it has read, ...
  verdict,   \* ... and how it ended
  edits,     \* edits so far
  stops      \* commands stopped so far

observing == <<observer, built, meta, verdict>>
vars == <<disk, binary, compiler, observing, edits, stops>>

Disk ==
  [source: Sources, contract: Contracts, evaluator: Evaluators,
   semanticIR: Optional(SemanticIR), generatedGo: Optional(GeneratedGo)]

Compiler ==
  [pc: {"idle", "contract", "openIR", "writeIR", "openGo", "writeGo"},
   source: Optional(Sources), contract: Optional(Contracts)]

Meta ==
  [source: Optional(Sources), contract: Optional(Contracts),
   semanticIR: Optional(SemanticIR), generatedGo: SUBSET Optional(GeneratedGo),
   evaluator: Optional(Evaluators), denominator: Optional(Contracts)]

Unread ==
  [source |-> {}, contract |-> {}, semanticIR |-> {}, generatedGo |-> {},
   evaluator |-> {}, denominator |-> {}]

Resting == [pc |-> "idle", source |-> {}, contract |-> {}]

(* A checkout in which everything was compiled and built.                  *)
Init ==
  /\ \E s \in Sources, c \in Contracts, e \in Evaluators :
       /\ CompileSource(s, c)
       /\ disk = [source |-> s, contract |-> c, evaluator |-> e,
                  semanticIR |-> {SemanticIRBytes(s)},
                  generatedGo |-> {GeneratedFrom(s, c)}]
       /\ binary = [generated |-> GeneratedFrom(s, c), evaluator |-> e]
  /\ compiler = Resting
  /\ observer = "idle"
  /\ built = {}
  /\ meta = Unread
  /\ verdict = "none"
  /\ edits = 0
  /\ stops = 0

CompilerIdle == compiler.pc = "idle"
ObserverIdle == observer = "idle"

MayStart == InTurn => CompilerIdle /\ ObserverIdle

-----------------------------------------------------------------------------
(* An edit of one of the files that are written by hand.                   *)
Edit ==
  /\ edits < MaxEdits
  /\ edits' = edits + 1
  /\ \/ \E s \in Sources    : disk' = [disk EXCEPT !.source = s]
     \/ \E c \in Contracts  : disk' = [disk EXCEPT !.contract = c]
     \/ \E e \in Evaluators : disk' = [disk EXCEPT !.evaluator = e]
  /\ UNCHANGED <<binary, compiler, observing, stops>>

(* A generated file of another compile is checked out or merged.           *)
Checkout ==
  /\ edits < MaxEdits
  /\ edits' = edits + 1
  /\ \E s \in Sources, c \in Contracts :
       /\ CompileSource(s, c)
       /\ \/ disk' = [disk EXCEPT !.semanticIR = {SemanticIRBytes(s)}]
          \/ disk' = [disk EXCEPT !.generatedGo = {GeneratedFrom(s, c)}]
  /\ UNCHANGED <<binary, compiler, observing, stops>>

-----------------------------------------------------------------------------
(* compile.  It is a command of an observer: one that was built before can *)
(* be run whatever the generated Go holds now, `go run` needs generated Go *)
(* that builds.                                                            *)

CompileReadsSource ==
  /\ CompilerIdle
  /\ MayStart
  /\ compiler' = [Resting EXCEPT !.pc = "contract", !.source = {disk.source}]
  /\ UNCHANGED <<disk, binary, observing, edits, stops>>

(* LoadDenominator reads the contract once; CompileSource follows.         *)
CompileReadsContract ==
  /\ compiler.pc = "contract"
  /\ compiler' =
       IF \A s \in compiler.source : CompileSource(s, disk.contract)
       THEN [compiler EXCEPT !.pc = "openIR", !.contract = {disk.contract}]
       ELSE Resting
  /\ UNCHANGED <<disk, binary, observing, edits, stops>>

(* Slip: the generated Go is left alone when the IR is already there.      *)
OpenIRUnlessThere ==
  /\ compiler.pc = "openIR"
  /\ IF disk.semanticIR = {SemanticIRBytes(s) : s \in compiler.source}
     THEN /\ compiler' = Resting
          /\ UNCHANGED disk
     ELSE /\ compiler' = [compiler EXCEPT !.pc = "writeIR"]
          /\ disk' = [disk EXCEPT !.semanticIR = {}]
  /\ UNCHANGED <<binary, observing, edits, stops>>

(* writeFile, twice: the file is truncated and then written.               *)
OpenIR ==
  /\ compiler.pc = "openIR"
  /\ disk' = [disk EXCEPT !.semanticIR = {}]
  /\ compiler' = [compiler EXCEPT !.pc = "writeIR"]
  /\ UNCHANGED <<binary, observing, edits, stops>>

(* Slip: the two files are written under each other's name.                *)
WriteIRSwapped ==
  /\ compiler.pc = "writeIR"
  /\ disk' = [disk EXCEPT !.semanticIR =
                {GeneratedFrom(s, c) : s \in compiler.source, c \in compiler.contract}]
  /\ compiler' = [compiler EXCEPT !.pc = "openGo"]
  /\ UNCHANGED <<binary, observing, edits, stops>>

WriteIR ==
  /\ compiler.pc = "writeIR"
  /\ disk' = [disk EXCEPT !.semanticIR = {SemanticIRBytes(s) : s \in compiler.source}]
  /\ compiler' = [compiler EXCEPT !.pc = "openGo"]
  /\ UNCHANGED <<binary, observing, edits, stops>>

OpenGo ==
  /\ compiler.pc = "openGo"
  /\ disk' = [disk EXCEPT !.generatedGo = {}]
  /\ compiler' = [compiler EXCEPT !.pc = "writeGo"]
  /\ UNCHANGED <<binary, observing, edits, stops>>

(* Slip: the contract is digested when the Go is written, not when read.   *)
WriteGoLateDigest ==
  /\ compiler.pc = "writeGo"
  /\ disk' = [disk EXCEPT !.generatedGo =
                {GeneratedFrom(s, disk.contract) : s \in compiler.source}]
  /\ compiler' = Resting
  /\ UNCHANGED <<binary, observing, edits, stops>>

WriteGo ==
  /\ compiler.pc = "writeGo"
  /\ disk' = [disk EXCEPT !.generatedGo =
                {GeneratedFrom(s, c) : s \in compiler.source, c \in compiler.contract}]
  /\ compiler' = Resting
  /\ UNCHANGED <<binary, observing, edits, stops>>

(* An error or a kill; what is on the disk stays there.                    *)
CompileStops ==
  /\ compiler.pc \in {"openIR", "writeIR", "openGo", "writeGo"}
  /\ stops < MaxStops
  /\ stops' = stops + 1
  /\ compiler' = Resting
  /\ UNCHANGED <<disk, binary, observing, edits>>

CompileStep ==
  \/ CompileReadsContract
  \/ OpenIR \/ WriteIR \/ OpenGo \/ WriteGo

-----------------------------------------------------------------------------
(* go build: Go that is cut off anywhere does not build.                   *)
Build ==
  /\ MayStart
  /\ \E g \in disk.generatedGo :
       binary' = [generated |-> g, evaluator |-> disk.evaluator]
  /\ UNCHANGED <<disk, compiler, observing, edits, stops>>

-----------------------------------------------------------------------------
(* observe.                                                                *)

ObserveStarts ==
  /\ ObserverIdle
  /\ MayStart
  /\ observer' = "source"
  /\ built' = {binary}
  /\ meta' = Unread
  /\ verdict' = "none"
  /\ UNCHANGED <<disk, binary, compiler, edits, stops>>

Read(step, next, m) ==
  /\ observer = step
  /\ observer' = next
  /\ meta' = m
  /\ UNCHANGED <<disk, binary, compiler, built, verdict, edits, stops>>

ReadSource == Read("source", "contract", [meta EXCEPT !.source = {disk.source}])

ReadContract == Read("contract", "ir", [meta EXCEPT !.contract = {disk.contract}])

End(how) ==
  /\ observer' = "idle"
  /\ verdict' = how
  /\ built' = IF how = "failed" THEN {} ELSE built
  /\ meta' = IF how = "failed" THEN Unread ELSE meta
  /\ UNCHANGED <<disk, binary, compiler, edits>>

(* validateSemanticIR: an IR that does not decode, or has not the number   *)
(* of nodes, ends the command.                                             *)
validateSemanticIR(ir) == Len(ir.nodes) = CellCount

ReadIR ==
  \/ /\ \E ir \in disk.semanticIR : validateSemanticIR(ir)
     /\ Read("ir", "go", [meta EXCEPT !.semanticIR = disk.semanticIR])
  \/ /\ observer = "ir"
     /\ ~ \E ir \in disk.semanticIR : validateSemanticIR(ir)
     /\ End("failed")
     /\ UNCHANGED stops

(* The generated Go is digested, whatever it holds.                        *)
ReadGo == Read("go", "evaluator", [meta EXCEPT !.generatedGo = {disk.generatedGo}])

ReadEvaluator ==
  Read("evaluator", "denominator", [meta EXCEPT !.evaluator = {disk.evaluator}])

(* Slip: the contract is decoded again but not validated again.            *)
ReadDenominatorUnchecked ==
  Read("denominator", "judge", [meta EXCEPT !.denominator = {disk.contract}])

(* The contract is read again and has to be valid.                         *)
ReadDenominator ==
  \/ /\ LoadDenominator(disk.contract)
     /\ Read("denominator", "judge", [meta EXCEPT !.denominator = {disk.contract}])
  \/ /\ observer = "denominator"
     /\ ~LoadDenominator(disk.contract)
     /\ End("failed")
     /\ UNCHANGED stops

(* Observe: an error of validateMeta refutes every claim.                  *)
Judge ==
  /\ observer = "judge"
  /\ \E b \in built :
       End(IF validateMeta(meta, b.generated) = NoError THEN "admitted" ELSE "refuted")
  /\ UNCHANGED stops

ObserveStops ==
  /\ ~ObserverIdle
  /\ stops < MaxStops
  /\ stops' = stops + 1
  /\ End("failed")

ObserveStep ==
  \/ ReadSource \/ ReadContract \/ ReadIR \/ ReadGo \/ ReadEvaluator
  \/ ReadDenominator \/ Judge

-----------------------------------------------------------------------------
Next ==
  \/ Edit \/ Checkout
  \/ CompileReadsSource \/ CompileStep \/ CompileStops
  \/ Build
  \/ ObserveStarts \/ ObserveStep \/ ObserveStops

Spec == Init /\ [][Next]_vars

(* A command that was started goes on.  Nobody is assumed to start one.    *)
FairSpec == Spec /\ WF_vars(CompileStep) /\ WF_vars(ObserveStep)

-----------------------------------------------------------------------------
(* Properties.                                                             *)

(* Every file holds what is written under its name, and nobody reads or    *)
(* builds anything else.                                                   *)
TypeOK ==
  /\ disk \in Disk
  /\ binary \in Binary
  /\ compiler \in Compiler
  /\ observer \in {"idle", "source", "contract", "ir", "go", "evaluator",
                   "denominator", "judge"}
  /\ built \in Optional(Binary)
  /\ meta \in Meta
  /\ verdict \in {"none", "admitted", "refuted", "failed"}
  /\ edits \in 0..MaxEdits
  /\ stops \in 0..MaxStops

(* An observation whose authority is admitted has read one chain, whatever *)
(* was edited between its reads and wherever compiles were stopped: the IR *)
(* is that of the source, the contract compiles with the source, and the   *)
(* cells of the second reading of the contract are those of the contract   *)
(* whose digest was taken, although no line compares the two readings.     *)
AdmittedIsOneChain ==
  verdict = "admitted" =>
    \E s \in meta.source, c \in meta.contract, d \in meta.denominator :
      /\ meta.semanticIR = {SemanticIRBytes(s)}
      /\ CompileSource(s, c)
      /\ CellsOf[d] = CellsOf[c]

(* validateMeta takes the activity at the position of every cell of a      *)
(* contract that may have been replaced since the observer was built: the  *)
(* position is always there.                                               *)
IndexIsInRange ==
  observer = "judge" =>
    \A b \in built, d \in meta.denominator :
      DOMAIN CellsOf[d] \subseteq DOMAIN b.generated.activities

(* Somebody runs compile and an observation again and again, and builds    *)
(* the observer of what compile has written.                               *)
CommandsAreRun ==
  /\ []<><<CompileReadsSource>>_vars
  /\ []<>(binary.generated \in disk.generatedGo)
  /\ []<><<ObserveStarts>>_vars

(* A stopped compile does no lasting harm: if the commands are run again   *)
(* and again, and the edits leave a source and a contract that compile,    *)
(* observations are admitted again and again.  It takes compile itself:    *)
(* scripts/conformance.sh stops at its tests while the chain is broken     *)
(* (observer_test.go:87) and does not get to its compile.                  *)
ChainHeals ==
  CommandsAreRun /\ <>[]CompileSource(disk.source, disk.contract)
    => []<>(verdict = "admitted")
=============================================================================
