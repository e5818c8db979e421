---------------------------- MODULE AuthorityProofs ----------------------------
(***************************************************************************)
(* Proofs about AuthorityChain: any sources, contracts and evaluators, any *)
(* number of cells, of edits and of commands that stop early, commands     *)
(* that run at the same time included.                                     *)
(***************************************************************************)
EXTENDS AuthorityChain, TLAPS

-----------------------------------------------------------------------------
(* What the commands read and write.                                       *)

LEMMA OptionalOfOne ==
  ASSUME NEW S
  PROVE  {} \in Optional(S) /\ \A x \in S : {x} \in Optional(S)
BY DEF Optional

(* The bytes that a compile writes are an IR and a generated file.         *)
LEMMA SemanticIRType ==
  ASSUME NEW s \in Sources
  PROVE  SemanticIRBytes(s) \in SemanticIR
BY AuthorityAssumption DEF SemanticIRBytes, SemanticIR

LEMMA GeneratedType ==
  ASSUME NEW s \in Sources, NEW c \in Contracts
  PROVE  GeneratedFrom(s, c) \in GeneratedGo
<1>1. SemanticIRBytes(s) \in SemanticIR /\ SemanticIRBytes(s).nodes \in Seq(Bindings)
  BY SemanticIRType DEF SemanticIR
<1> QED BY <1>1 DEF GeneratedFrom, GenerateGo, GeneratedGo, SemanticIRBytes

(* One source and one contract make one IR and one generated file.         *)
WrittenIR(S)    == {SemanticIRBytes(s) : s \in S}
WrittenGo(S, C) == {GeneratedFrom(s, c) : s \in S, c \in C}

LEMMA WrittenOptional ==
  ASSUME NEW S, S \in Optional(Sources), NEW C, C \in Optional(Contracts)
  PROVE  /\ WrittenIR(S) \in Optional(SemanticIR)
         /\ WrittenGo(S, C) \in Optional(GeneratedGo)
<1> USE DEF WrittenIR, WrittenGo
<1>1. S \subseteq Sources /\ C \subseteq Contracts
  BY DEF Optional
<1>2. (\A a, b \in S : a = b) /\ (\A a, b \in C : a = b)
  BY DEF Optional
<1>3. {SemanticIRBytes(s) : s \in S} \subseteq SemanticIR
  BY <1>1, SemanticIRType
<1>4. {GeneratedFrom(s, c) : s \in S, c \in C} \subseteq GeneratedGo
  BY <1>1, GeneratedType
<1>5. \A a, b \in {SemanticIRBytes(s) : s \in S} : a = b
  BY <1>2
<1>6. \A a, b \in {GeneratedFrom(s, c) : s \in S, c \in C} : a = b
  BY <1>2
<1> QED BY <1>3, <1>4, <1>5, <1>6 DEF Optional

-----------------------------------------------------------------------------
(* Types.                                                                  *)

Places == {"idle", "source", "contract", "ir", "go", "evaluator", "denominator", "judge"}

(* What an observation that goes on leaves of its types, ...               *)
LEMMA ReadType ==
  ASSUME TypeOK, NEW step, NEW next \in Places, NEW m \in Meta, Read(step, next, m)
  PROVE  TypeOK'
BY DEF TypeOK, Read, Places

(* ... and one that ends.                                                  *)
LEMMA EndType ==
  ASSUME TypeOK, NEW how \in {"admitted", "refuted", "failed"}, End(how),
         stops' \in 0..MaxStops
  PROVE  TypeOK'
<1>1. Unread \in Meta /\ {} \in Optional(Binary)
  BY OptionalOfOne DEF Unread, Meta
<1>2. built' \in Optional(Binary)
  BY <1>1 DEF TypeOK, End
<1>3. meta' \in Meta
  BY <1>1 DEF TypeOK, End
<1> QED BY <1>2, <1>3 DEF TypeOK, End

LEMMA InitType == Init => TypeOK
<1> SUFFICES ASSUME Init PROVE TypeOK
  OBVIOUS
<1> USE DEF Init
<1>1. PICK s \in Sources, c \in Contracts, e \in Evaluators :
        /\ disk = [source |-> s, contract |-> c, evaluator |-> e,
                   semanticIR |-> {SemanticIRBytes(s)},
                   generatedGo |-> {GeneratedFrom(s, c)}]
        /\ binary = [generated |-> GeneratedFrom(s, c), evaluator |-> e]
  OBVIOUS
<1>2. disk \in Disk
  BY <1>1, SemanticIRType, GeneratedType, OptionalOfOne DEF Disk
<1>3. binary \in Binary
  BY <1>1, GeneratedType DEF Binary
<1>4. compiler \in Compiler
  BY OptionalOfOne DEF Resting, Compiler
<1>5. built \in Optional(Binary)
  BY OptionalOfOne
<1>6. meta \in Meta
  BY OptionalOfOne DEF Unread, Meta
<1>7. edits \in 0..MaxEdits /\ stops \in 0..MaxStops
  BY AuthorityAssumption
<1> QED BY <1>2, <1>3, <1>4, <1>5, <1>6, <1>7 DEF TypeOK

LEMMA EditType == TypeOK /\ (Edit \/ Checkout) => TypeOK'
<1> SUFFICES ASSUME TypeOK, Edit \/ Checkout PROVE TypeOK'
  OBVIOUS
<1>1. edits' \in 0..MaxEdits
  BY AuthorityAssumption DEF TypeOK, Edit, Checkout
<1>2. disk' \in Disk
  <2>1. CASE Edit
    BY <2>1 DEF TypeOK, Edit, Disk
  <2>2. CASE Checkout
    <3>1. PICK s \in Sources, c \in Contracts :
            \/ disk' = [disk EXCEPT !.semanticIR = {SemanticIRBytes(s)}]
            \/ disk' = [disk EXCEPT !.generatedGo = {GeneratedFrom(s, c)}]
      BY <2>2 DEF Checkout
    <3>2. {SemanticIRBytes(s)} \in Optional(SemanticIR)
      BY SemanticIRType, OptionalOfOne
    <3>3. {GeneratedFrom(s, c)} \in Optional(GeneratedGo)
      BY GeneratedType, OptionalOfOne
    <3> QED BY <3>1, <3>2, <3>3 DEF TypeOK, Disk
  <2> QED BY <2>1, <2>2
<1>3. UNCHANGED <<binary, compiler, observer, built, meta, verdict, stops>>
  BY DEF Edit, Checkout, observing
<1> QED BY <1>1, <1>2, <1>3 DEF TypeOK

LEMMA CompilerType ==
  TypeOK /\ (CompileReadsSource \/ CompileStep \/ CompileStops) => TypeOK'
<1> SUFFICES ASSUME TypeOK, CompileReadsSource \/ CompileStep \/ CompileStops
             PROVE  TypeOK'
  OBVIOUS
<1>1. UNCHANGED <<binary, observer, built, meta, verdict, edits>>
  BY DEF CompileReadsSource, CompileStep, CompileReadsContract, OpenIR, WriteIR,
         OpenGo, WriteGo, CompileStops, observing
<1>2. stops' \in 0..MaxStops
  BY AuthorityAssumption
  DEF TypeOK, CompileReadsSource, CompileStep, CompileReadsContract, OpenIR, WriteIR,
      OpenGo, WriteGo, CompileStops
<1>3. Resting \in Compiler
  BY OptionalOfOne DEF Resting, Compiler
<1>4. compiler' \in Compiler
  <2>1. CASE CompileReadsSource
    BY <1>3, <2>1, OptionalOfOne DEF TypeOK, CompileReadsSource, Compiler, Disk
  <2>2. CASE CompileReadsContract
    BY <1>3, <2>2, OptionalOfOne DEF TypeOK, CompileReadsContract, Compiler, Disk
  <2>3. CASE OpenIR \/ WriteIR \/ OpenGo
    BY <2>3 DEF TypeOK, OpenIR, WriteIR, OpenGo, Compiler
  <2>4. CASE WriteGo \/ CompileStops
    BY <1>3, <2>4 DEF WriteGo, CompileStops
  <2> QED BY <2>1, <2>2, <2>3, <2>4 DEF CompileStep
<1>5. disk' \in Disk
  <2>1. CASE CompileReadsSource \/ CompileReadsContract \/ CompileStops
    BY <2>1 DEF TypeOK, CompileReadsSource, CompileReadsContract, CompileStops
  <2>2. CASE OpenIR \/ OpenGo
    BY <2>2, OptionalOfOne DEF TypeOK, OpenIR, OpenGo, Disk
  <2>3. compiler.source \in Optional(Sources) /\ compiler.contract \in Optional(Contracts)
    BY DEF TypeOK, Compiler
  <2>4. /\ WrittenIR(compiler.source) \in Optional(SemanticIR)
        /\ WrittenGo(compiler.source, compiler.contract) \in Optional(GeneratedGo)
    BY <2>3, WrittenOptional
  <2>5. CASE WriteIR
    <3>1. disk' = [disk EXCEPT !.semanticIR = WrittenIR(compiler.source)]
      BY <2>5 DEF WriteIR, WrittenIR
    <3> QED BY <2>4, <3>1 DEF TypeOK, Disk
  <2>6. CASE WriteGo
    <3>1. disk' = [disk EXCEPT !.generatedGo =
                     WrittenGo(compiler.source, compiler.contract)]
      BY <2>6 DEF WriteGo, WrittenGo
    <3> QED BY <2>4, <3>1 DEF TypeOK, Disk
  <2> QED BY <2>1, <2>2, <2>5, <2>6 DEF CompileStep
<1> QED BY <1>1, <1>2, <1>4, <1>5 DEF TypeOK

LEMMA BuildType == TypeOK /\ Build => TypeOK'
<1> SUFFICES ASSUME TypeOK, Build PROVE TypeOK'
  OBVIOUS
<1>1. disk.generatedGo \subseteq GeneratedGo /\ disk.evaluator \in Evaluators
  BY DEF TypeOK, Disk, Optional
<1>2. binary' \in Binary
  BY <1>1 DEF Build, Binary
<1>3. UNCHANGED <<disk, compiler, observer, built, meta, verdict, edits, stops>>
  BY DEF Build, observing
<1> QED BY <1>2, <1>3 DEF TypeOK

LEMMA ObserverType ==
  TypeOK /\ (ObserveStarts \/ ObserveStep \/ ObserveStops) => TypeOK'
<1> SUFFICES ASSUME TypeOK, ObserveStarts \/ ObserveStep \/ ObserveStops
             PROVE  TypeOK'
  OBVIOUS
<1>1. CASE ObserveStarts
  <2>1. built' \in Optional(Binary)
    BY <1>1, OptionalOfOne DEF TypeOK, ObserveStarts
  <2>2. meta' \in Meta
    BY <1>1, OptionalOfOne DEF ObserveStarts, Unread, Meta
  <2> QED BY <1>1, <2>1, <2>2 DEF TypeOK, ObserveStarts
<1>2. /\ [meta EXCEPT !.source = {disk.source}] \in Meta
      /\ [meta EXCEPT !.contract = {disk.contract}] \in Meta
      /\ [meta EXCEPT !.semanticIR = disk.semanticIR] \in Meta
      /\ [meta EXCEPT !.evaluator = {disk.evaluator}] \in Meta
      /\ [meta EXCEPT !.denominator = {disk.contract}] \in Meta
  BY OptionalOfOne DEF TypeOK, Meta, Disk
<1>3. [meta EXCEPT !.generatedGo = {disk.generatedGo}] \in Meta
  BY DEF TypeOK, Meta, Disk
<1>4. CASE ReadSource
  BY <1>2, <1>4, ReadType DEF ReadSource, Places
<1>5. CASE ReadContract
  BY <1>2, <1>5, ReadType DEF ReadContract, Places
<1>6. CASE ReadGo
  BY <1>3, <1>6, ReadType DEF ReadGo, Places
<1>7. CASE ReadEvaluator
  BY <1>2, <1>7, ReadType DEF ReadEvaluator, Places
<1>8. stops \in 0..MaxStops
  BY DEF TypeOK
<1>9. CASE ReadIR
  <2>1. CASE Read("ir", "go", [meta EXCEPT !.semanticIR = disk.semanticIR])
    BY <1>2, <2>1, ReadType DEF Places
  <2>2. CASE End("failed") /\ UNCHANGED stops
    BY <1>8, <2>2, EndType
  <2> QED BY <1>9, <2>1, <2>2 DEF ReadIR
<1>10. CASE ReadDenominator
  <2>1. CASE Read("denominator", "judge", [meta EXCEPT !.denominator = {disk.contract}])
    BY <1>2, <2>1, ReadType DEF Places
  <2>2. CASE End("failed") /\ UNCHANGED stops
    BY <1>8, <2>2, EndType
  <2> QED BY <1>10, <2>1, <2>2 DEF ReadDenominator
<1>11. CASE Judge
  <2>1. End("admitted") \/ End("refuted")
    BY <1>11 DEF Judge
  <2>2. UNCHANGED stops
    BY <1>11 DEF Judge
  <2> QED BY <1>8, <2>1, <2>2, EndType
<1>12. CASE ObserveStops
  <2>1. stops' \in 0..MaxStops
    BY <1>8, <1>12, AuthorityAssumption DEF ObserveStops
  <2> QED BY <1>12, <2>1, EndType DEF ObserveStops
<1> QED BY <1>1, <1>4, <1>5, <1>6, <1>7, <1>9, <1>10, <1>11, <1>12 DEF ObserveStep

LEMMA NextType == TypeOK /\ [Next]_vars => TypeOK'
<1> SUFFICES ASSUME TypeOK, [Next]_vars PROVE TypeOK'
  OBVIOUS
<1>1. CASE UNCHANGED vars
  BY <1>1 DEF TypeOK, vars, observing
<1>2. CASE Next
  BY <1>2, EditType, CompilerType, BuildType, ObserverType DEF Next
<1> QED BY <1>1, <1>2

(* Every file holds what is written under its name, however the commands   *)
(* interleave and wherever they stop.                                      *)
THEOREM TypeCorrect == Spec => []TypeOK
<1>1. Init => TypeOK
  BY InitType
<1>2. TypeOK /\ [Next]_vars => TypeOK'
  BY NextType
<1> QED BY <1>1, <1>2, PTL DEF Spec

-----------------------------------------------------------------------------
(* The inductive invariant.                                                *)

(* A generated file is that of a source and a contract that compile.       *)
Generated(g) ==
  \E s \in Sources, c \in Contracts : CompileSource(s, c) /\ g = GeneratedFrom(s, c)

GeneratedOnly ==
  /\ \A g \in disk.generatedGo : Generated(g)
  /\ Generated(binary.generated)
  /\ \A b \in built : Generated(b.generated)

(* What compile has read compiles while it is written.                     *)
CompilesWhatIsWritten ==
  compiler.pc \in {"openIR", "writeIR", "openGo", "writeGo"} =>
    \A s \in compiler.source, c \in compiler.contract : CompileSource(s, c)

(* The contract is judged by after it was validated ...                    *)
JudgesValidContract ==
  observer = "judge" =>
    \E d \in Contracts : meta.denominator = {d} /\ LoadDenominator(d)

(* ... and an admission is of one chain until the next observation starts. *)
AdmissionRests ==
  verdict = "admitted" => ObserverIdle /\ AdmittedIsOneChain

ChainInv ==
  /\ TypeOK
  /\ GeneratedOnly
  /\ CompilesWhatIsWritten
  /\ JudgesValidContract
  /\ AdmissionRests

LEMMA InitChain == Init => ChainInv
<1> SUFFICES ASSUME Init PROVE ChainInv
  OBVIOUS
<1>1. TypeOK
  BY InitType
<1>2. PICK s \in Sources, c \in Contracts :
        /\ CompileSource(s, c)
        /\ disk.generatedGo = {GeneratedFrom(s, c)}
        /\ binary.generated = GeneratedFrom(s, c)
  BY DEF Init
<1>3. GeneratedOnly
  BY <1>2 DEF Init, GeneratedOnly, Generated
<1>4. CompilesWhatIsWritten /\ JudgesValidContract /\ AdmissionRests
  BY DEF Init, Resting, CompilesWhatIsWritten, JudgesValidContract, AdmissionRests
<1> QED BY <1>1, <1>3, <1>4 DEF ChainInv

(* What is generated has an activity, that of the cell, for every cell of  *)
(* a valid contract.                                                       *)
LEMMA GeneratedActivities ==
  ASSUME NEW g, Generated(g)
  PROVE  \E s \in Sources, c \in Contracts :
           /\ CompileSource(s, c)
           /\ g.source = s /\ g.contract = c
           /\ g.semanticIR = SemanticIRBytes(s)
           /\ g.activities = ActivitiesOf[s]
           /\ Len(g.activities) = CellCount
BY DEF Generated, GeneratedFrom, GenerateGo, SemanticIRBytes, CompileSource

LEMMA GeneratedBySteps ==
  ChainInv /\ [Next]_vars => GeneratedOnly'
<1> SUFFICES ASSUME ChainInv, [Next]_vars PROVE GeneratedOnly'
  OBVIOUS
<1> USE DEF ChainInv
<1>1. \A g \in disk'.generatedGo : Generated(g)
  <2>1. CASE disk'.generatedGo \subseteq disk.generatedGo
    BY <2>1 DEF GeneratedOnly
  <2>2. CASE Edit
    BY <2>1, <2>2 DEF Edit, TypeOK, Disk
  <2>3. CASE Checkout
    <3>1. PICK s \in Sources, c \in Contracts :
            /\ CompileSource(s, c)
            /\ \/ disk' = [disk EXCEPT !.semanticIR = {SemanticIRBytes(s)}]
               \/ disk' = [disk EXCEPT !.generatedGo = {GeneratedFrom(s, c)}]
      BY <2>3 DEF Checkout
    <3>2. \/ disk'.generatedGo = disk.generatedGo
          \/ disk'.generatedGo = {GeneratedFrom(s, c)}
      BY <3>1 DEF TypeOK, Disk
    <3> QED BY <2>1, <3>1, <3>2 DEF Generated
  <2>4. CASE CompileStep
    <3>1. CASE CompileReadsContract
      BY <2>1, <3>1 DEF CompileReadsContract
    <3>2. CASE OpenIR \/ WriteIR \/ OpenGo
      BY <2>1, <3>2 DEF OpenIR, WriteIR, OpenGo, TypeOK, Disk
    <3>3. CASE WriteGo
      <4>1. disk'.generatedGo =
              {GeneratedFrom(s, c) : s \in compiler.source, c \in compiler.contract}
        BY <3>3 DEF WriteGo, TypeOK, Disk
      <4>2. \A s \in compiler.source, c \in compiler.contract :
              s \in Sources /\ c \in Contracts /\ CompileSource(s, c)
        BY <3>3 DEF WriteGo, CompilesWhatIsWritten, TypeOK, Compiler, Optional
      <4> QED BY <4>1, <4>2 DEF Generated
    <3> QED BY <2>4, <3>1, <3>2, <3>3 DEF CompileStep
  <2>5. CASE UNCHANGED disk
    BY <2>1, <2>5
  <2>6. CASE CompileReadsSource \/ CompileStops \/ Build \/ ObserveStarts \/ ObserveStops
    BY <2>5, <2>6 DEF CompileReadsSource, CompileStops, Build, ObserveStarts, ObserveStops,
                      End
  <2>7. CASE ObserveStep
    BY <2>5, <2>7 DEF ObserveStep, ReadSource, ReadContract, ReadIR, ReadGo, ReadEvaluator,
                      ReadDenominator, Judge, Read, End
  <2> QED BY <2>2, <2>3, <2>4, <2>5, <2>6, <2>7 DEF Next, vars
<1>2. Generated(binary'.generated)
  <2>1. CASE Build
    BY <2>1 DEF Build, GeneratedOnly
  <2>2. CASE UNCHANGED binary
    BY <2>2 DEF GeneratedOnly
  <2>3. Build \/ UNCHANGED binary
    BY DEF Next, vars, Edit, Checkout, CompileReadsSource, CompileStep, CompileStops,
           CompileReadsContract, OpenIR, WriteIR, OpenGo, WriteGo, ObserveStarts,
           ObserveStops, ObserveStep, ReadSource, ReadContract, ReadIR, ReadGo,
           ReadEvaluator, ReadDenominator, Judge, Read, End
  <2> QED BY <2>1, <2>2, <2>3
<1>3. \A b \in built' : Generated(b.generated)
  <2>1. built' \in {built, {}, {binary}}
    BY DEF Next, vars, observing, Edit, Checkout, CompileReadsSource, CompileStep,
           CompileStops, CompileReadsContract, OpenIR, WriteIR, OpenGo, WriteGo, Build,
           ObserveStarts, ObserveStops, ObserveStep, ReadSource, ReadContract, ReadIR,
           ReadGo, ReadEvaluator, ReadDenominator, Judge, Read, End
  <2> QED BY <2>1 DEF GeneratedOnly
<1> QED BY <1>1, <1>2, <1>3 DEF GeneratedOnly

LEMMA CompiledBySteps ==
  ChainInv /\ [Next]_vars => CompilesWhatIsWritten'
<1> SUFFICES ASSUME ChainInv, [Next]_vars PROVE CompilesWhatIsWritten'
  OBVIOUS
<1> USE DEF ChainInv
<1>1. CASE CompileReadsContract
  BY <1>1 DEF CompileReadsContract, CompilesWhatIsWritten, TypeOK, Compiler, Resting
<1>2. CASE OpenIR \/ WriteIR \/ OpenGo
  BY <1>2 DEF OpenIR, WriteIR, OpenGo, CompilesWhatIsWritten, TypeOK, Compiler
<1>3. CASE CompileReadsSource \/ WriteGo \/ CompileStops
  <2>1. compiler'.pc \in {"idle", "contract"}
    <3>1. CASE CompileReadsSource
      BY <3>1 DEF CompileReadsSource, Resting
    <3>2. compiler' = Resting => compiler'.pc = "idle"
      BY DEF Resting
    <3>3. WriteGo \/ CompileStops => compiler' = Resting
      BY DEF WriteGo, CompileStops
    <3> QED BY <1>3, <3>1, <3>2, <3>3
  <2> QED BY <2>1 DEF CompilesWhatIsWritten
<1>4. CASE UNCHANGED compiler
  BY <1>4 DEF CompilesWhatIsWritten
<1>5. CASE Edit \/ Checkout \/ Build \/ ObserveStarts \/ ObserveStops \/ ObserveStep
  BY <1>4, <1>5 DEF Edit, Checkout, Build, ObserveStarts, ObserveStops, ObserveStep,
     ReadSource, ReadContract, ReadIR, ReadGo, ReadEvaluator, ReadDenominator, Judge,
     Read, End
<1> QED BY <1>1, <1>2, <1>3, <1>4, <1>5 DEF Next, CompileStep, vars

(* An observation judges with the binary it runs; when it admits, what it  *)
(* has read is what that binary was generated from.                        *)
LEMMA JudgeAdmits ==
  ASSUME ChainInv, Judge, verdict' = "admitted"
  PROVE  AdmittedIsOneChain'
<1> USE DEF ChainInv
<1>1. PICK b \in built :
        End(IF validateMeta(meta, b.generated) = NoError THEN "admitted" ELSE "refuted")
  BY DEF Judge
<1>2. validateMeta(meta, b.generated) = NoError /\ meta' = meta
  BY <1>1 DEF End
<1>3. PICK d \in Contracts : meta.denominator = {d} /\ LoadDenominator(d)
  BY DEF Judge, JudgesValidContract
<1>4. /\ meta.source = {b.generated.source}
      /\ meta.semanticIR = {b.generated.semanticIR}
      /\ meta.contract = {b.generated.contract}
      /\ ~CellsMismatch(d, b.generated)
  BY <1>2, <1>3 DEF validateMeta, NoError
<1>5. PICK s \in Sources, c \in Contracts :
        /\ CompileSource(s, c)
        /\ b.generated.source = s /\ b.generated.contract = c
        /\ b.generated.semanticIR = SemanticIRBytes(s)
        /\ b.generated.activities = ActivitiesOf[s]
  BY <1>1, GeneratedActivities DEF GeneratedOnly
<1>6. CellsOf[d] = CellsOf[c]
  <2>1. CellsOf[d] \in Seq(Bindings) /\ CellsOf[c] \in Seq(Bindings)
    BY AuthorityAssumption
  <2>2. Len(CellsOf[d]) = CellCount /\ Len(CellsOf[c]) = CellCount
    BY <1>3, <1>5 DEF CompileSource, LoadDenominator
  <2>3. DOMAIN CellsOf[d] = DOMAIN CellsOf[c]
    BY <2>1, <2>2
  <2>4. \A k \in DOMAIN CellsOf[d] : CellsOf[d][k] = CellsOf[c][k]
    BY <1>4, <1>5, <2>3 DEF CellsMismatch, CompileSource
  <2> QED BY <2>1, <2>2, <2>3, <2>4
<1>7. \E t \in meta.source, e \in meta.contract, f \in meta.denominator :
        /\ meta.semanticIR = {SemanticIRBytes(t)}
        /\ CompileSource(t, e)
        /\ CellsOf[f] = CellsOf[e]
  BY <1>3, <1>4, <1>5, <1>6
<1> QED BY <1>2, <1>7 DEF AdmittedIsOneChain

LEMMA ObservedBySteps ==
  ChainInv /\ [Next]_vars => JudgesValidContract' /\ AdmissionRests'
<1> SUFFICES ASSUME ChainInv, [Next]_vars
             PROVE  JudgesValidContract' /\ AdmissionRests'
  OBVIOUS
<1> USE DEF ChainInv
<1>1. CASE UNCHANGED observing
  BY <1>1 DEF observing, JudgesValidContract, AdmissionRests, AdmittedIsOneChain,
              ObserverIdle
<1>2. CASE ObserveStarts
  BY <1>2 DEF ObserveStarts, JudgesValidContract, AdmissionRests
<1>3. CASE ReadSource \/ ReadContract \/ ReadGo \/ ReadEvaluator
  BY <1>3 DEF ReadSource, ReadContract, ReadGo, ReadEvaluator, Read, JudgesValidContract,
              AdmissionRests, ObserverIdle
<1>4. CASE End("failed")
  BY <1>4 DEF End, JudgesValidContract, AdmissionRests
<1>5. CASE ReadIR
  BY <1>4, <1>5 DEF ReadIR, Read, JudgesValidContract, AdmissionRests, ObserverIdle
<1>6. CASE ReadDenominator
  <2>1. CASE LoadDenominator(disk.contract)
             /\ Read("denominator", "judge", [meta EXCEPT !.denominator = {disk.contract}])
    <3>1. disk.contract \in Contracts
      BY DEF TypeOK, Disk
    <3>2. meta'.denominator = {disk.contract}
      BY <2>1 DEF Read, TypeOK, Meta
    <3>3. JudgesValidContract'
      BY <2>1, <3>1, <3>2 DEF JudgesValidContract
    <3>4. AdmissionRests'
      BY <2>1 DEF Read, AdmissionRests, ObserverIdle
    <3> QED BY <3>3, <3>4
  <2> QED BY <1>4, <1>6, <2>1 DEF ReadDenominator
<1>7. CASE Judge
  <2>1. observer' = "idle"
    BY <1>7 DEF Judge, End
  <2> QED BY <1>7, <2>1, JudgeAdmits DEF JudgesValidContract, AdmissionRests, ObserverIdle
<1>8. CASE Edit \/ Checkout \/ CompileReadsSource \/ CompileStep \/ CompileStops \/ Build
  BY <1>1, <1>8 DEF Edit, Checkout, CompileReadsSource, CompileStep, CompileReadsContract,
     OpenIR, WriteIR, OpenGo, WriteGo, CompileStops, Build
<1> QED BY <1>1, <1>2, <1>3, <1>4, <1>5, <1>6, <1>7, <1>8
        DEF Next, ObserveStep, ObserveStops, vars

(* The inductive invariant of the chain.                                   *)
THEOREM ChainInvariant == Spec => []ChainInv
<1>1. Init => ChainInv
  BY InitChain
<1>2. ChainInv /\ [Next]_vars => ChainInv'
  BY NextType, GeneratedBySteps, CompiledBySteps, ObservedBySteps DEF ChainInv
<1> QED BY <1>1, <1>2, PTL DEF Spec

(* An admitted observation has read one chain, for any files, any number   *)
(* of edits and stops, and whatever runs beside it: the two readings of    *)
(* the contract carry the same cells.                                      *)
THEOREM OneChainAdmitted == Spec => []AdmittedIsOneChain
<1>1. ChainInv => AdmittedIsOneChain
  BY DEF ChainInv, AdmissionRests, AdmittedIsOneChain
<1> QED BY <1>1, ChainInvariant, PTL

(* validateMeta indexes the generated activities within their bounds, for  *)
(* any number of cells.                                                    *)
THEOREM IndicesInRange == Spec => []IndexIsInRange
<1>1. ChainInv => IndexIsInRange
  <2> SUFFICES ASSUME ChainInv, observer = "judge", NEW b \in built,
                      NEW d \in meta.denominator
               PROVE  DOMAIN CellsOf[d] \subseteq DOMAIN b.generated.activities
    BY DEF IndexIsInRange
  <2>1. d \in Contracts /\ LoadDenominator(d)
    BY DEF ChainInv, JudgesValidContract
  <2>2. CellsOf[d] \in Seq(Bindings) /\ Len(CellsOf[d]) = CellCount
    BY <2>1, AuthorityAssumption DEF LoadDenominator
  <2>3. PICK s \in Sources : /\ b.generated.activities = ActivitiesOf[s]
                             /\ Len(b.generated.activities) = CellCount
    BY GeneratedActivities DEF ChainInv, GeneratedOnly
  <2>4. b.generated.activities \in Seq(Bindings)
    BY <2>3, AuthorityAssumption
  <2> QED BY <2>2, <2>3, <2>4
<1> QED BY <1>1, ChainInvariant, PTL
=============================================================================
