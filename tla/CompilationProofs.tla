--------------------------- MODULE CompilationProofs ---------------------------
(***************************************************************************)
(* Proofs about Compilation: any share, so any number of cells, and any    *)
(* contracts and sources.                                                  *)
(***************************************************************************)
EXTENDS Compilation, TLAPS, SequenceTheorems, FunctionTheorems, FiniteSetTheorems

-----------------------------------------------------------------------------
(* Types.                                                                  *)

LEMMA ShareType == Share \in Nat /\ Share > 0 /\ CellCount \in Nat /\ CellCount = 3 * Share
<1>1. Share \in Nat \ {0}
  BY CompilationAssumption, Zenon
<1> QED BY <1>1 DEF CellCount

LEMMA ErrorTypes ==
  /\ contractError(denominator) \in Errors
  /\ \A cell : cellError(cell) \in Errors
  /\ countsError \in Errors
  /\ \A line : lineError(line) \in Errors
<1> USE DEF Errors, ContractErrors, SourceErrors
<1>1. contractError(denominator) \in Errors
  BY DEF contractError
<1>2. ASSUME NEW cell PROVE cellError(cell) \in Errors
  BY DEF cellError
<1>3. countsError \in Errors
  BY DEF countsError
<1>4. ASSUME NEW line PROVE lineError(line) \in Errors
  BY DEF lineError
<1> QED BY <1>1, <1>2, <1>3, <1>4

LEMMA InitType == Init => TypeOK
<1> SUFFICES ASSUME Init PROVE TypeOK
  OBVIOUS
<1>1. PICK i \in Inputs : denominator = i[1] /\ source = i[2]
  BY DEF Init
<1>2. i \in Denominator \X Seq(Line)
  BY CompilationAssumption
<1>3. denominator \in Denominator /\ source \in Seq(Line)
  BY <1>1, <1>2
<1>4. proofCounts \in [Text -> Nat] /\ indicatorCounts \in [Text -> Nat]
  BY DEF Init
<1> QED BY <1>3, <1>4 DEF Init, TypeOK, Steps, Errors

(* The parts of an accepted cell that are remembered.                      *)
LEMMA CellTypes ==
  ASSUME TypeOK, index \in DOMAIN denominator.cells
  PROVE  denominator.cells[index] \in Cell
BY DEF TypeOK, Denominator

LEMMA LineTypes ==
  ASSUME TypeOK, index \in DOMAIN source
  PROVE  source[index] \in Line /\ source[index].attrs \in Attributes
<1>1. source[index] \in Line
  BY ElementOfSeq DEF TypeOK
<1> QED BY <1>1 DEF Line

LEMMA InRange ==
  ASSUME NEW S, NEW s \in Seq(S), NEW i \in Nat \ {0}, i <= Len(s)
  PROVE  i \in DOMAIN s
OBVIOUS

LEMMA CheckCellType == TypeOK /\ CheckCell => TypeOK'
<1> SUFFICES ASSUME TypeOK, CheckCell PROVE TypeOK'
  OBVIOUS
<1> DEFINE cell == denominator.cells[index]
<1>1. denominator.cells \in Seq(Cell) /\ index \in Nat \ {0}
  BY DEF TypeOK, Denominator
<1>2. cell \in Cell
  BY <1>1, InRange, CellTypes DEF CheckCell
<1>3. /\ cell.id \in CellId
      /\ cell.activity \in Text /\ cell.proofChoice \in Text /\ cell.indicatorClass \in Text
  BY <1>2 DEF Cell
<1>4. /\ Proceed(cellError(cell), "cells")
      /\ IF cellError(cell) = NoError
         THEN /\ seenIDs' = seenIDs \cup {cell.id}
              /\ seenActivities' = seenActivities \cup {cell.activity}
              /\ proofCounts' = [proofCounts EXCEPT ![cell.proofChoice] = @ + 1]
              /\ indicatorCounts' = [indicatorCounts EXCEPT ![cell.indicatorClass] = @ + 1]
         ELSE UNCHANGED seen
      /\ index' = index + 1
      /\ UNCHANGED <<input, nodes>>
  BY DEF CheckCell
<1> HIDE DEF cell
<1>5. seenIDs' \subseteq CellId /\ seenActivities' \subseteq Text
  BY <1>3, <1>4 DEF TypeOK, seen
<1>6. proofCounts' \in [Text -> Nat] /\ indicatorCounts' \in [Text -> Nat]
  BY <1>3, <1>4 DEF TypeOK, seen
<1>7. error' \in Errors /\ pc' \in Steps
  BY <1>4, ErrorTypes DEF Proceed, Steps
<1> QED BY <1>1, <1>4, <1>5, <1>6, <1>7 DEF TypeOK, input

LEMMA ReadLineType == TypeOK /\ ReadLine => TypeOK'
<1> SUFFICES ASSUME TypeOK, ReadLine PROVE TypeOK'
  OBVIOUS
<1> DEFINE line == source[index]
<1>1. source \in Seq(Line) /\ index \in Nat \ {0}
  BY DEF TypeOK
<1>2. line.attrs \in Attributes
  BY <1>1, InRange, LineTypes DEF ReadLine
<1>3. /\ Proceed(lineError(line), "lines")
      /\ nodes' = IF line.kind = "activity" /\ lineError(line) = NoError
                  THEN Append(nodes, line.attrs) ELSE nodes
      /\ index' = index + 1
      /\ UNCHANGED <<input, seen>>
  BY DEF ReadLine
<1> HIDE DEF line
<1>4. nodes' \in Seq(Attributes)
  BY <1>2, <1>3 DEF TypeOK
<1>5. error' \in Errors /\ pc' \in Steps
  BY <1>3, ErrorTypes DEF Proceed, Steps
<1> QED BY <1>1, <1>3, <1>4, <1>5 DEF TypeOK, input, seen

LEMMA NextType == TypeOK /\ [Next]_vars => TypeOK'
<1> SUFFICES ASSUME TypeOK, [Next]_vars PROVE TypeOK'
  OBVIOUS
<1>1. CASE CheckContract
  BY <1>1, ErrorTypes DEF TypeOK, CheckContract, Proceed, Steps, input, seen
<1>2. CASE CheckCell
  BY <1>2, CheckCellType
<1>3. CASE CheckCounts
  BY <1>3, ErrorTypes DEF TypeOK, CheckCounts, Proceed, Steps, input, seen
<1>4. CASE CheckHeader
  BY <1>4 DEF TypeOK, CheckHeader, Proceed, Steps, Errors, SourceErrors, input, seen
<1>5. CASE ReadLine
  BY <1>5, ReadLineType
<1>6. CASE CountNodes
  BY <1>6 DEF TypeOK, CountNodes, Proceed, Steps, Errors, SourceErrors, input, seen
<1>7. CASE BindCell
  BY <1>7 DEF TypeOK, BindCell, Proceed, Steps, Errors, SourceErrors, input, seen
<1>8. CASE EmitNodes
  BY <1>8 DEF TypeOK, EmitNodes, Steps, input, seen
<1>9. CASE Returned \/ UNCHANGED vars
  BY <1>9 DEF TypeOK, Returned, vars, input, seen
<1> QED BY <1>1, <1>2, <1>3, <1>4, <1>5, <1>6, <1>7, <1>8, <1>9 DEF Next

(* The loops keep to their kinds of values, for any input.                 *)
THEOREM TypeCorrect == Spec => []TypeOK
<1>1. Init => TypeOK
  BY InitType
<1>2. TypeOK /\ [Next]_vars => TypeOK'
  BY NextType
<1> QED BY <1>1, <1>2, PTL DEF Spec

-----------------------------------------------------------------------------
(* What was compiled, and nothing else, is accepted when it runs.          *)

(* Behind the first check there are CellCount cells, and while nodes are   *)
(* bound as many nodes, of which those before the index are bound.         *)
BindInv ==
  /\ TypeOK
  /\ pc \notin {"contract", "returned"} \/ Compiled =>
       Len(denominator.cells) = CellCount
  /\ pc = "bind" \/ Compiled => Len(nodes) = CellCount
  /\ pc = "bind" =>
       \A k \in 1..(index - 1) :
         k <= CellCount => nodeBinds(nodes[k], denominator.cells[k])
  /\ Compiled =>
       \A k \in 1..CellCount : nodeBinds(nodes[k], denominator.cells[k])
  /\ pc # "returned" => error = NoError

LEMMA InitBind == Init => BindInv
<1> SUFFICES ASSUME Init PROVE BindInv
  OBVIOUS
<1>1. TypeOK
  BY InitType
<1> QED BY <1>1 DEF Init, BindInv, Compiled

LEMMA NextBind == BindInv /\ [Next]_vars => BindInv'
<1> SUFFICES ASSUME BindInv, [Next]_vars PROVE BindInv'
  OBVIOUS
<1>1. TypeOK'
  BY NextType DEF BindInv
<1>2. CASE CheckContract
  <2>1. contractError(denominator) = NoError => Len(denominator.cells) = CellCount
    BY ZenonT(30) DEF contractError, NoError
  <2> QED BY <1>1, <1>2, <2>1 DEF BindInv, CheckContract, Proceed, Compiled, input, NoError
<1>3. CASE CheckCell \/ CheckCounts \/ CheckHeader \/ ReadLine
  <2>1. /\ denominator' = denominator
        /\ pc \notin {"contract", "returned"}
        /\ pc' \notin {"contract", "bind"}
        /\ pc' # "returned" <=> error' = NoError
    BY <1>3 DEF CheckCell, CheckCounts, CheckHeader, ReadLine, Proceed, input
  <2> QED BY <1>1, <2>1 DEF BindInv, Compiled
<1>4. CASE CountNodes
  <2>1. /\ UNCHANGED <<denominator, nodes>> /\ index' = 1
        /\ Len(denominator.cells) = CellCount
    BY <1>4 DEF BindInv, CountNodes, input
  <2>2. CASE Len(nodes) = CellCount
    <3>1. pc' = "bind" /\ error' = NoError
      BY <1>4, <2>2 DEF CountNodes, Proceed
    <3>2. 1..(index' - 1) = {}
      BY <2>1
    <3> QED BY <1>1, <2>1, <2>2, <3>1, <3>2 DEF BindInv, Compiled
  <2>3. CASE Len(nodes) # CellCount
    <3>1. pc' = "returned" /\ error' # NoError
      BY <1>4, <2>3 DEF CountNodes, Proceed, NoError
    <3> QED BY <1>1, <3>1 DEF BindInv, Compiled
  <2> QED BY <2>2, <2>3
<1>5. CASE BindCell
  <2>1. /\ Len(denominator.cells) = CellCount /\ Len(nodes) = CellCount
        /\ index \in Nat \ {0}
        /\ UNCHANGED <<denominator, nodes>>
        /\ index' = index + 1
    BY <1>5 DEF BindInv, TypeOK, BindCell, input
  <2>2. CASE nodeBinds(nodes[index], denominator.cells[index])
    <3>1. pc' = "bind" /\ error' = NoError
      BY <1>5, <2>2 DEF BindCell, Proceed
    <3>2. \A k \in 1..index : k <= CellCount => nodeBinds(nodes[k], denominator.cells[k])
      <4>1. \A k \in 1..index : k = index \/ k \in 1..(index - 1)
        BY <2>1
      <4> QED BY <1>5, <2>2, <4>1 DEF BindInv, BindCell
    <3>3. \A k \in 1..(index' - 1) :
            k <= CellCount => nodeBinds(nodes'[k], denominator'.cells[k])
      BY <2>1, <3>2
    <3> QED BY <1>1, <2>1, <3>1, <3>3 DEF BindInv, Compiled
  <2>3. CASE ~nodeBinds(nodes[index], denominator.cells[index])
    <3>1. pc' = "returned" /\ error' # NoError
      BY <1>5, <2>3 DEF BindCell, Proceed, NoError
    <3> QED BY <1>1, <3>1 DEF BindInv, Compiled
  <2> QED BY <2>2, <2>3
<1>6. CASE EmitNodes
  <2>1. /\ Len(denominator.cells) = CellCount /\ Len(nodes) = CellCount
        /\ index \in Nat \ {0} /\ index > CellCount /\ CellCount \in Nat
        /\ error = NoError
    BY <1>6, ShareType DEF BindInv, TypeOK, EmitNodes
  <2>2. \A k \in 1..CellCount : nodeBinds(nodes[k], denominator.cells[k])
    <3>1. \A k \in 1..CellCount : k \in 1..(index - 1) /\ k <= CellCount
      BY <2>1
    <3> QED BY <1>6, <3>1 DEF BindInv, EmitNodes
  <2>3. UNCHANGED <<denominator, nodes, error>> /\ pc' = "returned"
    BY <1>6 DEF EmitNodes, input
  <2> QED BY <1>1, <2>1, <2>2, <2>3 DEF BindInv, Compiled
<1>7. CASE Returned \/ UNCHANGED vars
  <2>1. UNCHANGED <<denominator, nodes, error, pc, index>>
    BY <1>7 DEF Returned, vars, input
  <2> QED BY <1>1, <2>1 DEF BindInv, Compiled
<1> QED BY <1>2, <1>3, <1>4, <1>5, <1>6, <1>7 DEF Next

(* A node is bound to a cell when it says of the activity what the cell    *)
(* says: the list of compile.go:126 leaves out no field.                   *)
LEMMA BindsDescribed ==
  ASSUME NEW attrs, NEW cell
  PROVE  nodeBinds(attrs, cell) <=> Describes(attrs, cell)
BY DEF nodeBinds, Describes, BoundFields, activityIDForCell

(* Neither does the list of evaluate.go:214, and GenerateGo writes every   *)
(* field in its place.                                                     *)
LEMMA GeneratedDescribed ==
  ASSUME NEW node, NEW cell
  PROVE  activityBinds(generatedActivity(node), cell) <=> Describes(node, cell)
BY DEF activityBinds, generatedActivity, Describes, BoundFields, activityIDForCell

LEMMA PairMoved ==
  ASSUME NEW S, NEW T, NEW p \in S \X T, NEW q \in S \X T
  PROVE  [p EXCEPT ![1] = q[1]] = q <=> p[2] = q[2]
OBVIOUS

(* Cells that are the same but for their number and the prefix of their id *)
(* agree on all that an activity says of them, and the other way round.    *)
LEMMA SameCellFields ==
  ASSUME NEW one \in Cell, NEW other \in Cell
  PROVE  SameCell(one, other)
           <=> one.id[2] = other.id[2] /\ \A f \in BoundFields : one[f] = other[f]
<1> DEFINE moved == [one EXCEPT !.ordinal = other.ordinal, !.id[1] = other.id[1]]
<1>1. one.id \in CellId /\ other.id \in CellId
  BY DEF Cell
<1>2. /\ moved.ordinal = other.ordinal
      /\ moved.id = [one.id EXCEPT ![1] = other.id[1]]
      /\ \A f \in BoundFields : moved[f] = one[f]
      /\ moved.artifact = one.artifact /\ moved.evaluator = one.evaluator
  BY DEF Cell, BoundFields
<1>3. PICK S, T : CellId = S \X T
  BY DEF CellId
<1>4. [one.id EXCEPT ![1] = other.id[1]] = other.id <=> one.id[2] = other.id[2]
  BY <1>1, <1>3, PairMoved
<1>5. moved.id = other.id <=> one.id[2] = other.id[2]
  BY <1>2, <1>4
<1>6. ASSUME moved = other
      PROVE  one.id[2] = other.id[2] /\ \A f \in BoundFields : one[f] = other[f]
  BY <1>2, <1>5, <1>6
<1>7. ASSUME one.id[2] = other.id[2], \A f \in BoundFields : one[f] = other[f]
      PROVE  moved = other
  <2> DEFINE Fields == {"ordinal", "id"} \cup BoundFields
  <2>1. other = [f \in Fields |-> other[f]]
    BY DEF Cell, BoundFields
  <2>2. one = [f \in Fields |-> one[f]]
    BY DEF Cell, BoundFields
  <2>3. DOMAIN moved = DOMAIN one /\ DOMAIN one = Fields
    BY <2>2
  <2>4. moved = [f \in Fields |-> moved[f]]
    BY <2>3
  <2>5. \A f \in Fields : moved[f] = other[f]
    BY <1>2, <1>5, <1>7
  <2> HIDE DEF Fields, moved
  <2> QED BY <2>1, <2>4, <2>5
<1> QED BY <1>6, <1>7 DEF SameCell

(* Once a source has been compiled, a contract with as many cells passes   *)
(* validateMeta when the observer runs exactly when all its cells are      *)
(* those it was compiled from, whatever the contracts and the sources:     *)
(* compile.go:126, GenerateGo and evaluate.go:214 list the same fields.    *)
THEOREM CompiledIsAccepted == Spec => []AcceptsWhatWasCompiled
<1>1. BindInv => AcceptsWhatWasCompiled
  <2> SUFFICES ASSUME BindInv, Compiled, NEW d \in RunContracts \cup {denominator},
                      Len(d.cells) = CellCount
               PROVE  validateMeta(d) <=>
                        \A k \in 1..CellCount : SameCell(d.cells[k], denominator.cells[k])
    BY DEF AcceptsWhatWasCompiled
  <2>1. /\ denominator.cells \in Seq(Cell) /\ nodes \in Seq(Attributes)
        /\ Len(denominator.cells) = CellCount /\ Len(nodes) = CellCount
    BY DEF BindInv, TypeOK, Denominator
  <2>2. d.cells \in Seq(Cell)
    BY CompilationAssumption DEF BindInv, TypeOK, Denominator
  <2>3. /\ DOMAIN d.cells = 1..CellCount /\ DOMAIN generated = 1..CellCount
        /\ Len(generated) = CellCount
    BY <2>1, <2>2, ShareType DEF generated
  <2>4. validateMeta(d) <=> \A k \in 1..CellCount : activityBinds(generated[k], d.cells[k])
    BY <2>3 DEF validateMeta
  <2>5. ASSUME NEW k \in 1..CellCount
        PROVE  activityBinds(generated[k], d.cells[k])
                 <=> SameCell(d.cells[k], denominator.cells[k])
    <3>1. generated[k] = generatedActivity(nodes[k])
      BY <2>1 DEF generated
    <3>2. Describes(nodes[k], denominator.cells[k])
      BY BindsDescribed DEF BindInv
    <3>3. activityBinds(generated[k], d.cells[k]) <=> Describes(nodes[k], d.cells[k])
      BY <3>1, GeneratedDescribed
    <3>4. d.cells[k] \in Cell /\ denominator.cells[k] \in Cell
      BY <2>1, <2>2, ElementOfSeq
    <3>5. SameCell(d.cells[k], denominator.cells[k])
            <=> /\ d.cells[k].id[2] = denominator.cells[k].id[2]
                /\ \A f \in BoundFields : d.cells[k][f] = denominator.cells[k][f]
      BY <3>4, SameCellFields
    <3>6. Describes(nodes[k], d.cells[k])
            <=> /\ d.cells[k].id[2] = denominator.cells[k].id[2]
                /\ \A f \in BoundFields : d.cells[k][f] = denominator.cells[k][f]
      BY <3>2 DEF Describes
    <3> QED BY <3>3, <3>5, <3>6
  <2> QED BY <2>4, <2>5
<1>2. Init => BindInv
  BY InitBind
<1>3. BindInv /\ [Next]_vars => BindInv'
  BY NextBind
<1> QED BY <1>1, <1>2, <1>3, PTL DEF Spec

-----------------------------------------------------------------------------
(* The loops accept exactly what the documents ask for.  Along the cells   *)
(* the sets and the counters are what has been read of the contract; along *)
(* the lines the nodes are the activity lines, each at its place; and a    *)
(* refusal is given only to what is not to be accepted.                    *)

(* A cell that the loop lets pass, given those before it.                  *)
CellSound(cells, k) ==
  /\ cells[k].ordinal = k /\ cells[k].id # NoId
  /\ \A f \in {"activity", "metricID", "metricPath", "artifact", "evaluator"} :
       cells[k][f] # ""
  /\ cells[k].artifact \in ArtifactKinds
  /\ \A j \in 1..(k - 1) : /\ cells[j].id # cells[k].id
                           /\ cells[j].activity # cells[k].activity

Uses(cells, field, value, n) == {k \in 1..n : cells[k][field] = value}

CellsRead(cells, n) ==
  /\ \A k \in 1..n : CellSound(cells, k)
  /\ seenIDs = {cells[k].id : k \in 1..n}
  /\ seenActivities = {cells[k].activity : k \in 1..n}
  /\ \A t \in Text :
       /\ proofCounts[t] = Cardinality(Uses(cells, "proofChoice", t, n))
       /\ indicatorCounts[t] = Cardinality(Uses(cells, "indicatorClass", t, n))

LinesRead(lines, n, read) ==
  /\ Len(read) = PlaceOf(lines, n)
  /\ \A i \in ActivitiesUpTo(lines, n) :
       /\ lines[i].parses /\ ~incomplete(lines[i].attrs)
       /\ PlaceOf(lines, i) \in 1..Len(read)
       /\ read[PlaceOf(lines, i)] = lines[i].attrs
  /\ \A k \in 1..Len(read) : \E i \in ActivitiesUpTo(lines, n) : PlaceOf(lines, i) = k

ContractRead ==
  /\ pc \in {"contract", "cells", "header"} => nodes = <<>>
  /\ pc = "contract" => index = 1 /\ CellsRead(denominator.cells, 0)
  /\ pc = "cells" => /\ contractError(denominator) = NoError
                     /\ index <= Len(denominator.cells) + 1
                     /\ CellsRead(denominator.cells, index - 1)
  /\ pc \in {"header", "lines", "bind"} \/ Compiled => WellFormed(denominator)

SourceRead ==
  /\ pc \in {"lines", "bind"} \/ Compiled => source[1].kind = "header"
  /\ pc = "lines" => index <= Len(source) + 1 /\ LinesRead(source, index - 1, nodes)
  /\ pc = "bind" \/ Compiled => LinesRead(source, Len(source), nodes)

RefusedRightly ==
  pc = "returned" /\ error # NoError =>
    ~(WellFormed(denominator) /\ Defines(source, denominator))

AcceptInv == BindInv /\ ContractRead /\ SourceRead /\ RefusedRightly

-----------------------------------------------------------------------------
(* Counting.                                                               *)

(* The positions of a sequence, and a part of them.                        *)
LEMMA PartOfInterval ==
  ASSUME NEW n \in Nat, NEW S, S \subseteq 1..n
  PROVE  /\ IsFiniteSet(1..n) /\ Cardinality(1..n) = n
         /\ IsFiniteSet(S) /\ Cardinality(S) \in Nat /\ Cardinality(S) <= n
         /\ Cardinality(S) = n => S = 1..n
<1>1. IsFiniteSet(1..n) /\ Cardinality(1..n) = n
  <2>1. 1 \in Int /\ n \in Int
    OBVIOUS
  <2>2. IsFiniteSet(1..n) /\ Cardinality(1..n) = IF 1 > n THEN 0 ELSE n - 1 + 1
    BY <2>1, FS_Interval
  <2> QED BY <2>2
<1>2. IsFiniteSet(S) /\ Cardinality(S) <= n /\ (n = Cardinality(S) => 1..n = S)
  BY <1>1, FS_Subset
<1> QED BY <1>1, <1>2, FS_CardinalityType

(* One position more.                                                      *)
LEMMA CountNext ==
  ASSUME NEW n \in Nat \ {0}, NEW S, S \subseteq 1..n, NEW T, T = S \cap 1..(n - 1)
  PROVE  /\ n \in S => Cardinality(S) = Cardinality(T) + 1
         /\ n \notin S => Cardinality(S) = Cardinality(T)
         /\ Cardinality(T) \in Nat /\ Cardinality(S) \in Nat
<1>1. IsFiniteSet(T) /\ Cardinality(T) \in Nat /\ Cardinality(S) \in Nat
  <2>1. n - 1 \in Nat /\ T \subseteq 1..(n - 1)
    OBVIOUS
  <2> QED BY <2>1, PartOfInterval
<1> DEFINE before == 1..(n - 1)
<1>2. 1..n = before \cup {n} /\ n \notin before
  OBVIOUS
<1> HIDE DEF before
<1>3. T = S \cap before /\ S \subseteq before \cup {n}
  BY <1>2 DEF before
<1>4. CASE n \in S
  <2>1. S = T \cup {n} /\ n \notin T
    BY <1>4, <1>2, <1>3
  <2>2. Cardinality(T \cup {n}) = Cardinality(T) + 1
    BY <1>1, <2>1, FS_AddElement
  <2>3. Cardinality(S) = Cardinality(T) + 1
    BY <2>1, <2>2
  <2> QED BY <1>1, <1>4, <2>3
<1>5. CASE n \notin S
  <2>1. S = T
    BY <1>5, <1>3
  <2>2. Cardinality(S) = Cardinality(T)
    BY <2>1
  <2> QED BY <1>1, <1>5, <2>2
<1> QED BY <1>1, <1>4, <1>5

(* Three parts that share no element and together have as many as the     *)
(* whole leave nothing of it over.                                         *)
LEMMA ThreeParts ==
  ASSUME NEW n \in Nat, NEW A \in SUBSET (1..n), NEW B \in SUBSET (1..n),
         NEW C \in SUBSET (1..n),
         Cardinality(A) + Cardinality(B) + Cardinality(C) = n,
         A \cap B = {}, A \cap C = {}, B \cap C = {}
  PROVE  1..n = A \cup B \cup C
<1>1. /\ IsFiniteSet(A) /\ IsFiniteSet(B) /\ IsFiniteSet(C)
      /\ Cardinality(A) \in Nat /\ Cardinality(B) \in Nat /\ Cardinality(C) \in Nat
  BY PartOfInterval
<1>2. Cardinality({}) = 0
  BY FS_EmptySet
<1>3. IsFiniteSet(A \cup B) /\ Cardinality(A \cup B) = Cardinality(A) + Cardinality(B)
  <2>1. /\ IsFiniteSet(A \cup B)
        /\ Cardinality(A \cup B) = Cardinality(A) + Cardinality(B) - Cardinality(A \cap B)
    BY <1>1, FS_Union
  <2>2. Cardinality(A \cap B) = 0
    BY <1>2
  <2> QED BY <1>1, <2>1, <2>2
<1>4. Cardinality(A \cup B \cup C) = n
  <2>1. Cardinality((A \cup B) \cup C)
          = Cardinality(A \cup B) + Cardinality(C) - Cardinality((A \cup B) \cap C)
    BY <1>1, <1>3, FS_Union
  <2>2. (A \cup B) \cap C = {}
    OBVIOUS
  <2>3. Cardinality((A \cup B) \cap C) = 0
    BY <1>2, <2>2
  <2> QED BY <1>1, <1>3, <2>1, <2>3
<1>5. A \cup B \cup C \subseteq 1..n
  OBVIOUS
<1> QED BY <1>4, <1>5, PartOfInterval

-----------------------------------------------------------------------------
(* The contract before its cells.                                          *)

(* A list with one entry for every expected name has no name twice, and a  *)
(* list as long as the names that has no name twice has them all.          *)
LEMMA BalanceCheck ==
  ASSUME NEW values \in Seq(Balance), NEW expected, IsFiniteSet(expected)
  PROVE  validBalance(values, expected) <=> Balanced(values, expected)
<1> DEFINE n == Len(values)
           nameAt == [k \in 1..n |-> values[k].name]
<1>1. n \in Nat /\ DOMAIN values = 1..n /\ \A k \in 1..n : values[k] \in Balance
  BY LenProperties, ElementOfSeq
<1>2. IsFiniteSet(1..n) /\ Cardinality(1..n) = n
  BY <1>1, PartOfInterval
<1>3. ASSUME validBalance(values, expected)
      PROVE  Balanced(values, expected)
  <2>1. /\ n = Cardinality(expected)
        /\ \A k \in 1..n : /\ values[k].total = Share /\ values[k].name \in expected
                           /\ \A j \in 1..(k - 1) : values[j].name # values[k].name
    BY <1>1, <1>3 DEF validBalance
  <2>2. nameAt \in Injection(1..n, expected)
    <3>1. nameAt \in [1..n -> expected]
      BY <2>1
    <3>2. ASSUME NEW j \in 1..n, NEW k \in 1..n, nameAt[j] = nameAt[k]
          PROVE  j = k
      <4>1. values[j].name = values[k].name
        BY <3>2
      <4>2. j \in 1..(k - 1) \/ k \in 1..(j - 1) \/ j = k
        BY <1>1
      <4> QED BY <2>1, <4>1, <4>2
    <3> QED BY <3>1, <3>2 DEF Injection, IsInjective
  <2>3. nameAt \in Surjection(1..n, expected)
    BY <1>2, <2>1, <2>2, FS_Injection
  <2>4. \A x \in expected : \E k \in 1..n : values[k].name = x
    BY <2>3 DEF Surjection
  <2>5. {values[k] : k \in 1..n} = [name: expected, total: {Share}]
    <3>1. ASSUME NEW k \in 1..n
          PROVE  values[k] \in [name: expected, total: {Share}]
      <4>1. values[k] = [name |-> values[k].name, total |-> values[k].total]
        BY <1>1 DEF Balance
      <4>2. values[k].name \in expected /\ values[k].total = Share
        BY <2>1
      <4> QED BY <4>1, <4>2
    <3>2. ASSUME NEW b \in [name: expected, total: {Share}]
          PROVE  \E k \in 1..n : values[k] = b
      <4>1. PICK k \in 1..n : values[k].name = b.name
        BY <2>4
      <4>2. values[k].total = b.total
        BY <2>1
      <4>3. values[k] \in Balance
        BY <1>1
      <4> QED BY <4>1, <4>2, <4>3 DEF Balance
    <3> QED BY <3>1, <3>2
  <2> QED BY <1>1, <2>1, <2>5 DEF Balanced
<1>4. ASSUME Balanced(values, expected)
      PROVE  validBalance(values, expected)
  <2>1. /\ n = Cardinality(expected)
        /\ {values[k] : k \in 1..n} = [name: expected, total: {Share}]
    BY <1>1, <1>4 DEF Balanced
  <2>2. \A k \in 1..n : values[k] \in [name: expected, total: {Share}]
    BY <2>1
  <2>3. \A k \in 1..n : values[k].name \in expected /\ values[k].total = Share
    BY <2>2
  <2>4. nameAt \in Surjection(1..n, expected)
    <3>1. nameAt \in [1..n -> expected]
      BY <2>3
    <3>2. ASSUME NEW x \in expected
          PROVE  \E k \in 1..n : nameAt[k] = x
      <4>1. [name |-> x, total |-> Share] \in {values[k] : k \in 1..n}
        BY <2>1
      <4>2. PICK k \in 1..n : values[k] = [name |-> x, total |-> Share]
        BY <4>1
      <4> QED BY <4>2
    <3> QED BY <3>1, <3>2 DEF Surjection
  <2>5. nameAt \in Injection(1..n, expected)
    BY <1>2, <2>1, <2>4, FS_Surjection
  <2>6. \A k \in 1..n : \A j \in 1..(k - 1) : values[j].name # values[k].name
    <3> SUFFICES ASSUME NEW k \in 1..n, NEW j \in 1..(k - 1)
                 PROVE  values[j].name # values[k].name
      OBVIOUS
    <3>1. j \in 1..n /\ j # k
      BY <1>1
    <3>2. nameAt[j] # nameAt[k]
      BY <2>5, <3>1 DEF Injection, IsInjective
    <3> QED BY <3>1, <3>2
  <2> QED BY <1>1, <2>1, <2>3, <2>6 DEF validBalance
<1> QED BY <1>3, <1>4

LEMMA ThreeNames ==
  /\ IsFiniteSet(ProofChoices) /\ IsFiniteSet(IndicatorClasses)
<1>1. \A a, b, c : IsFiniteSet({a, b, c})
  <2> SUFFICES ASSUME NEW a, NEW b, NEW c PROVE IsFiniteSet({a, b, c})
    OBVIOUS
  <2>1. IsFiniteSet({a})
    BY FS_Singleton
  <2>2. IsFiniteSet({a} \cup {b})
    BY <2>1, FS_AddElement
  <2>3. IsFiniteSet(({a} \cup {b}) \cup {c})
    BY <2>2, FS_AddElement
  <2>4. {a, b, c} = ({a} \cup {b}) \cup {c}
    OBVIOUS
  <2> QED BY <2>3, <2>4
<1> QED BY <1>1 DEF ProofChoices, IndicatorClasses

LEMMA ContractCheck ==
  ASSUME NEW d \in Denominator
  PROVE  contractError(d) = NoError
           <=> /\ d.decodes /\ d.schema
               /\ d.total = CellCount /\ Len(d.cells) = CellCount
               /\ Balanced(d.proofs, ProofChoices)
               /\ Balanced(d.indicatorClasses, IndicatorClasses)
<1>1. /\ d.decodes \in BOOLEAN /\ d.schema \in BOOLEAN
      /\ d.proofs \in Seq(Balance) /\ d.indicatorClasses \in Seq(Balance)
  BY DEF Denominator
<1>2. /\ validBalance(d.proofs, ProofChoices) <=> Balanced(d.proofs, ProofChoices)
      /\ validBalance(d.indicatorClasses, IndicatorClasses)
           <=> Balanced(d.indicatorClasses, IndicatorClasses)
  BY <1>1, BalanceCheck, ThreeNames
<1>3. contractError(d) = NoError
        <=> /\ d.decodes /\ d.schema
            /\ d.total = CellCount /\ Len(d.cells) = CellCount
            /\ validBalance(d.proofs, ProofChoices)
            /\ validBalance(d.indicatorClasses, IndicatorClasses)
  BY <1>1, ZenonT(30) DEF contractError, NoError
<1> QED BY <1>2, <1>3

-----------------------------------------------------------------------------
(* The cells of the contract.                                              *)

(* Three values on a share of the cells each are the values of all cells.  *)
LEMMA NoOtherValue ==
  ASSUME NEW cells, NEW field, NEW a, NEW b, NEW c, a # b, a # c, b # c,
         Cardinality(Uses(cells, field, a, CellCount)) = Share,
         Cardinality(Uses(cells, field, b, CellCount)) = Share,
         Cardinality(Uses(cells, field, c, CellCount)) = Share
  PROVE  \A k \in 1..CellCount : cells[k][field] \in {a, b, c}
<1> DEFINE A == Uses(cells, field, a, CellCount)
           B == Uses(cells, field, b, CellCount)
           C == Uses(cells, field, c, CellCount)
<1>1. A \cap B = {} /\ A \cap C = {} /\ B \cap C = {}
  BY DEF Uses
<1>2. /\ A \in SUBSET (1..CellCount) /\ B \in SUBSET (1..CellCount)
      /\ C \in SUBSET (1..CellCount)
  BY DEF Uses
<1> HIDE DEF A, B, C
<1>3. Cardinality(A) = Share /\ Cardinality(B) = Share /\ Cardinality(C) = Share
  BY DEF A, B, C
<1>4. 1..CellCount = A \cup B \cup C
  <2>1. CellCount \in Nat /\ Cardinality(A) + Cardinality(B) + Cardinality(C) = CellCount
    BY <1>3, ShareType
  <2> QED BY <1>1, <1>2, <2>1, ThreeParts
<1> QED BY <1>4 DEF A, B, C, Uses

(* A contract of the right form is well formed when every cell passes and  *)
(* the counts are right: no more has to be asked of its choices.           *)
LEMMA WellFormedParts ==
  ASSUME NEW d \in Denominator, contractError(d) = NoError
  PROVE  /\ Len(d.cells) = CellCount /\ DOMAIN d.cells = 1..CellCount
         /\ WellFormed(d)
              <=> /\ \A k \in 1..CellCount : CellSound(d.cells, k)
                  /\ \A c \in ProofChoices :
                       Cardinality(Uses(d.cells, "proofChoice", c, CellCount)) = Share
                  /\ \A c \in IndicatorClasses :
                       Cardinality(Uses(d.cells, "indicatorClass", c, CellCount)) = Share
<1> DEFINE cells == d.cells
           Counts == /\ \A c \in ProofChoices :
                          Cardinality(Uses(cells, "proofChoice", c, CellCount)) = Share
                     /\ \A c \in IndicatorClasses :
                          Cardinality(Uses(cells, "indicatorClass", c, CellCount)) = Share
<1>1. /\ d.decodes /\ d.schema /\ d.total = CellCount /\ Len(cells) = CellCount
      /\ Balanced(d.proofs, ProofChoices) /\ Balanced(d.indicatorClasses, IndicatorClasses)
  BY ContractCheck
<1>2. cells \in Seq(Cell) /\ DOMAIN cells = 1..CellCount /\ CellCount \in Nat
  BY <1>1, ShareType, LenProperties DEF Denominator
<1>3. /\ \A c : With(cells, "proofChoice", c) = Uses(cells, "proofChoice", c, CellCount)
      /\ \A c : With(cells, "indicatorClass", c) = Uses(cells, "indicatorClass", c, CellCount)
  BY <1>2 DEF With, Uses
<1>4. (Distinct(cells, "id") /\ Distinct(cells, "activity"))
        <=> \A k \in 1..CellCount : \A j \in 1..(k - 1) :
              cells[j].id # cells[k].id /\ cells[j].activity # cells[k].activity
  <2>1. ASSUME Distinct(cells, "id"), Distinct(cells, "activity"),
               NEW k \in 1..CellCount, NEW j \in 1..(k - 1)
        PROVE  cells[j].id # cells[k].id /\ cells[j].activity # cells[k].activity
    <3>1. j \in 1..CellCount /\ j # k
      BY <1>2
    <3> QED BY <1>2, <2>1, <3>1 DEF Distinct
  <2>2. ASSUME \A k \in 1..CellCount : \A j \in 1..(k - 1) :
                 cells[j].id # cells[k].id /\ cells[j].activity # cells[k].activity,
               NEW j \in 1..CellCount, NEW k \in 1..CellCount,
               cells[j].id = cells[k].id \/ cells[j].activity = cells[k].activity
        PROVE  j = k
    <3>1. j \in 1..(k - 1) \/ k \in 1..(j - 1) \/ j = k
      BY <1>2
    <3> QED BY <2>2, <3>1
  <2>3. ASSUME \A k \in 1..CellCount : \A j \in 1..(k - 1) :
                 cells[j].id # cells[k].id /\ cells[j].activity # cells[k].activity
        PROVE  Distinct(cells, "id") /\ Distinct(cells, "activity")
    BY <1>2, <2>2, <2>3 DEF Distinct
  <2> QED BY <2>1, <2>3
<1>5. ASSUME Counts, NEW k \in 1..CellCount
      PROVE  cells[k].proofChoice \in ProofChoices
             /\ cells[k].indicatorClass \in IndicatorClasses
  <2>1. \A i \in 1..CellCount :
          cells[i]["proofChoice"] \in {"FOUNDATION", "COHERENCE", "REGRESSION"}
    BY <1>5, NoOtherValue DEF ProofChoices
  <2>2. \A i \in 1..CellCount :
          cells[i]["indicatorClass"] \in {"DRIVER", "OUTCOME", "GUARDRAIL"}
    BY <1>5, NoOtherValue DEF IndicatorClasses
  <2> QED BY <2>1, <2>2 DEF ProofChoices, IndicatorClasses
<1>6. "" \notin ArtifactKinds
  BY DEF ArtifactKinds
<1> DEFINE Plain(k) == /\ cells[k].ordinal = k /\ cells[k].id # NoId
                       /\ "" \notin {cells[k].activity, cells[k].metricID,
                                     cells[k].metricPath, cells[k].evaluator}
                       /\ cells[k].artifact \in ArtifactKinds
           Others(k) == \A j \in 1..(k - 1) : /\ cells[j].id # cells[k].id
                                              /\ cells[j].activity # cells[k].activity
<1>7. \A k \in 1..CellCount : CellSound(cells, k) <=> Plain(k) /\ Others(k)
  BY <1>6 DEF CellSound
<1>8. WellFormed(d) <=> /\ Distinct(cells, "id") /\ Distinct(cells, "activity")
                        /\ \A k \in 1..CellCount :
                             /\ Plain(k)
                             /\ cells[k].proofChoice \in ProofChoices
                             /\ cells[k].indicatorClass \in IndicatorClasses
                        /\ Counts
  BY <1>1, <1>2, <1>3 DEF WellFormed
<1> HIDE DEF Plain, Counts
<1>9. (Distinct(cells, "id") /\ Distinct(cells, "activity"))
        <=> \A k \in 1..CellCount : Others(k)
  BY <1>4
<1> HIDE DEF Others
<1>10. WellFormed(d) <=> (\A k \in 1..CellCount : CellSound(cells, k)) /\ Counts
  BY <1>5, <1>7, <1>8, <1>9
<1> QED BY <1>1, <1>2, <1>10 DEF Counts

(* The checks of one cell.                                                 *)
LEMMA CellCheck ==
  ASSUME NEW cells, index \in Nat \ {0}, CellsRead(cells, index - 1)
  PROVE  cellError(cells[index]) = NoError <=> CellSound(cells, index)
<1> DEFINE cell == cells[index]
<1>1. /\ cell.id \in seenIDs <=> \E j \in 1..(index - 1) : cells[j].id = cell.id
      /\ cell.activity \in seenActivities
           <=> \E j \in 1..(index - 1) : cells[j].activity = cell.activity
  BY DEF CellsRead
<1> DEFINE lacks == \/ cell.ordinal # index \/ cell.id = NoId
                    \/ \E f \in {"activity", "metricID", "metricPath", "artifact",
                                 "evaluator"} : cell[f] = ""
           repeats == \/ cell.artifact \notin ArtifactKinds
                      \/ cell.id \in seenIDs \/ cell.activity \in seenActivities
<1>2. cellError(cell) = IF lacks THEN "INVALID_DENOMINATOR_CELL"
                        ELSE IF repeats THEN "INVALID_OR_DUPLICATE_DENOMINATOR_CELL"
                        ELSE NoError
  BY DEF cellError
<1>3. CellSound(cells, index) <=> ~lacks /\ ~repeats
  BY <1>1 DEF CellSound
<1> HIDE DEF lacks, repeats, cell
<1>4. cellError(cell) = NoError <=> ~lacks /\ ~repeats
  BY <1>2 DEF NoError
<1> QED BY <1>3, <1>4 DEF cell

(* One cell more of a kind.                                                *)
LEMMA UsesNext ==
  ASSUME NEW cells, NEW field, NEW value, NEW n \in Nat \ {0}
  PROVE  /\ cells[n][field] = value =>
              Cardinality(Uses(cells, field, value, n))
                = Cardinality(Uses(cells, field, value, n - 1)) + 1
         /\ cells[n][field] # value =>
              Cardinality(Uses(cells, field, value, n))
                = Cardinality(Uses(cells, field, value, n - 1))
         /\ Cardinality(Uses(cells, field, value, n - 1)) \in Nat
<1> DEFINE S == Uses(cells, field, value, n)
           T == Uses(cells, field, value, n - 1)
<1>1. S \subseteq 1..n /\ (n \in S <=> cells[n][field] = value)
  BY DEF Uses
<1>2. T = S \cap 1..(n - 1)
  BY DEF Uses
<1> HIDE DEF S, T
<1>3. /\ n \in S => Cardinality(S) = Cardinality(T) + 1
      /\ n \notin S => Cardinality(S) = Cardinality(T)
      /\ Cardinality(T) \in Nat
  BY <1>1, <1>2, CountNext
<1> QED BY <1>1, <1>3 DEF S, T

-----------------------------------------------------------------------------
(* The lines of the source.                                                *)

LEMMA PlaceNext ==
  ASSUME NEW lines, NEW n \in Nat \ {0}
  PROVE  /\ lines[n].kind = "activity" => PlaceOf(lines, n) = PlaceOf(lines, n - 1) + 1
         /\ lines[n].kind # "activity" => PlaceOf(lines, n) = PlaceOf(lines, n - 1)
         /\ PlaceOf(lines, n - 1) \in Nat
<1> DEFINE S == ActivitiesUpTo(lines, n)
           T == ActivitiesUpTo(lines, n - 1)
<1>1. S \subseteq 1..n /\ (n \in S <=> lines[n].kind = "activity")
  BY DEF ActivitiesUpTo
<1>2. T = S \cap 1..(n - 1)
  BY DEF ActivitiesUpTo
<1> HIDE DEF S, T
<1>3. /\ n \in S => Cardinality(S) = Cardinality(T) + 1
      /\ n \notin S => Cardinality(S) = Cardinality(T)
      /\ Cardinality(T) \in Nat
  BY <1>1, <1>2, CountNext
<1> QED BY <1>1, <1>3 DEF S, T, PlaceOf

(* An activity line has its place among all of them.                       *)
LEMMA PlaceInRange ==
  ASSUME NEW lines, NEW n \in Nat, NEW i \in ActivitiesUpTo(lines, n)
  PROVE  PlaceOf(lines, i) \in 1..PlaceOf(lines, n)
<1> DEFINE S == ActivitiesUpTo(lines, n)
           T == ActivitiesUpTo(lines, i)
<1>1. /\ S \subseteq 1..n /\ T \subseteq S /\ i \in T /\ i \in Nat
  BY DEF ActivitiesUpTo
<1> HIDE DEF S, T
<1>2. IsFiniteSet(S) /\ Cardinality(S) \in Nat
  BY <1>1, PartOfInterval
<1>3. IsFiniteSet(T) /\ Cardinality(T) <= Cardinality(S)
  BY <1>1, <1>2, FS_Subset
<1>4. Cardinality(T) \in Nat
  BY <1>3, FS_CardinalityType
<1>5. Cardinality(T) # 0
  BY <1>1, <1>3, FS_EmptySet
<1> QED BY <1>2, <1>3, <1>4, <1>5 DEF S, T, PlaceOf

LEMMA NoLineRead ==
  ASSUME NEW lines
  PROVE  LinesRead(lines, 0, <<>>)
<1>1. ActivitiesUpTo(lines, 0) = {}
  BY DEF ActivitiesUpTo
<1>2. PlaceOf(lines, 0) = 0
  BY <1>1, FS_EmptySet DEF PlaceOf
<1>3. Len(<<>>) = 0 /\ 1..0 = {}
  OBVIOUS
<1> QED BY <1>1, <1>2, <1>3 DEF LinesRead

(* One line more.                                                          *)
LEMMA LinesNext ==
  ASSUME NEW lines, NEW n \in Nat \ {0}, NEW read \in Seq(Attributes),
         LinesRead(lines, n - 1, read)
  PROVE  /\ lines[n].kind # "activity" => LinesRead(lines, n, read)
         /\ /\ lines[n].kind = "activity" /\ lines[n].parses
            /\ lines[n].attrs \in Attributes /\ ~incomplete(lines[n].attrs)
            => LinesRead(lines, n, Append(read, lines[n].attrs))
<1>1. /\ Len(read) \in Nat /\ Len(read) = PlaceOf(lines, n - 1)
      /\ \A i \in ActivitiesUpTo(lines, n - 1) :
           /\ lines[i].parses /\ ~incomplete(lines[i].attrs)
           /\ PlaceOf(lines, i) \in 1..Len(read)
           /\ read[PlaceOf(lines, i)] = lines[i].attrs
      /\ \A k \in 1..Len(read) :
           \E i \in ActivitiesUpTo(lines, n - 1) : PlaceOf(lines, i) = k
  BY LenProperties DEF LinesRead
<1>2. CASE lines[n].kind # "activity"
  <2>1. ActivitiesUpTo(lines, n) = ActivitiesUpTo(lines, n - 1)
    <3>1. \A i \in 1..n : i \in 1..(n - 1) \/ i = n
      OBVIOUS
    <3>2. 1..(n - 1) \subseteq 1..n
      OBVIOUS
    <3> QED BY <1>2, <3>1, <3>2 DEF ActivitiesUpTo
  <2>2. PlaceOf(lines, n) = PlaceOf(lines, n - 1)
    BY <1>2, PlaceNext
  <2> QED BY <1>1, <1>2, <2>1, <2>2 DEF LinesRead
<1>3. CASE /\ lines[n].kind = "activity" /\ lines[n].parses
           /\ lines[n].attrs \in Attributes /\ ~incomplete(lines[n].attrs)
  <2> DEFINE m   == Len(read)
             new == Append(read, lines[n].attrs)
  <2>1. /\ Len(new) = m + 1 /\ new[m + 1] = lines[n].attrs
        /\ \A k \in 1..m : new[k] = read[k]
    BY <1>3, AppendProperties
  <2>2. PlaceOf(lines, n) = m + 1
    BY <1>1, <1>3, PlaceNext
  <2>3. /\ n \in ActivitiesUpTo(lines, n)
        /\ ActivitiesUpTo(lines, n - 1) \subseteq ActivitiesUpTo(lines, n)
        /\ \A i \in ActivitiesUpTo(lines, n) :
             i \in ActivitiesUpTo(lines, n - 1) \/ i = n
    <3>1. \A i \in 1..n : i \in 1..(n - 1) \/ i = n
      OBVIOUS
    <3>2. 1..(n - 1) \subseteq 1..n /\ n \in 1..n
      OBVIOUS
    <3> QED BY <1>3, <3>1, <3>2 DEF ActivitiesUpTo
  <2> HIDE DEF new
  <2>4. m \in Nat /\ 1..m \subseteq 1..(m + 1) /\ m + 1 \in 1..(m + 1)
        /\ \A k \in 1..(m + 1) : k \in 1..m \/ k = m + 1
    BY <1>1
  <2>5. ASSUME NEW i \in ActivitiesUpTo(lines, n)
        PROVE  /\ lines[i].parses /\ ~incomplete(lines[i].attrs)
               /\ PlaceOf(lines, i) \in 1..Len(new)
               /\ new[PlaceOf(lines, i)] = lines[i].attrs
    <3>1. CASE i \in ActivitiesUpTo(lines, n - 1)
      <4>1. /\ lines[i].parses /\ ~incomplete(lines[i].attrs)
            /\ PlaceOf(lines, i) \in 1..m /\ read[PlaceOf(lines, i)] = lines[i].attrs
        BY <1>1, <3>1
      <4> QED BY <2>1, <2>4, <4>1
    <3>2. CASE i = n
      BY <1>3, <2>1, <2>2, <2>4, <3>2
    <3> QED BY <2>3, <3>1, <3>2
  <2>6. ASSUME NEW k \in 1..Len(new)
        PROVE  \E i \in ActivitiesUpTo(lines, n) : PlaceOf(lines, i) = k
    <3>1. CASE k \in 1..m
      BY <1>1, <2>3, <3>1
    <3>2. CASE k = m + 1
      BY <2>2, <2>3, <3>2
    <3> QED BY <2>1, <2>4, <3>1, <3>2
  <2>7. LinesRead(lines, n, new)
    BY <2>1, <2>2, <2>5, <2>6 DEF LinesRead
  <2> QED BY <1>3, <2>7 DEF new
<1> QED BY <1>2, <1>3

(* The fields of a cell that a well-formed contract leaves no room for.    *)
LEMMA BoundIsComplete ==
  ASSUME NEW d, WellFormed(d), NEW k \in DOMAIN d.cells, NEW attrs,
         Describes(attrs, d.cells[k]), attrs.name # ""
  PROVE  ~incomplete(attrs)
<1> DEFINE cell == d.cells[k]
<1>1. /\ "" \notin {cell.activity, cell.metricID, cell.metricPath, cell.evaluator}
      /\ cell.artifact \in ArtifactKinds /\ cell.proofChoice \in ProofChoices
      /\ cell.indicatorClass \in IndicatorClasses
  BY DEF WellFormed
<1>2. "" \notin ArtifactKinds /\ "" \notin ProofChoices /\ "" \notin IndicatorClasses
  BY DEF ArtifactKinds, ProofChoices, IndicatorClasses
<1> HIDE DEF cell
<1>3. \A f \in BoundFields : cell[f] # ""
  BY <1>1, <1>2 DEF BoundFields
<1>4. /\ attrs.id = <<ActivityPrefix, cell.id[2]>>
      /\ \A f \in BoundFields : attrs[f] = cell[f]
  BY DEF Describes, cell
<1>5. attrs.id # NoId
  <2>1. ActivityPrefix # ""
    BY DEF ActivityPrefix
  <2>2. \A x : <<ActivityPrefix, x>> # NoId
    BY <2>1 DEF NoId
  <2> QED BY <1>4, <2>2
<1>6. \A f \in BoundFields \cup {"name"} : attrs[f] # ""
  BY <1>3, <1>4
<1> QED BY <1>5, <1>6 DEF incomplete, BoundFields

(* A source that defines the activities has no line that is refused.       *)
LEMMA DefinedIsComplete ==
  ASSUME NEW d \in Denominator, WellFormed(d), NEW lines \in Seq(Line), Defines(lines, d),
         NEW i \in ActivitiesUpTo(lines, Len(lines))
  PROVE  /\ lines[i].parses /\ ~incomplete(lines[i].attrs)
         /\ PlaceOf(lines, i) \in 1..CellCount
         /\ Describes(lines[i].attrs, d.cells[PlaceOf(lines, i)])
<1>1. /\ PlaceOf(lines, Len(lines)) = CellCount
      /\ lines[i].parses /\ lines[i].attrs.name # ""
      /\ Describes(lines[i].attrs, d.cells[PlaceOf(lines, i)])
  BY DEF Defines
<1>2. PlaceOf(lines, i) \in 1..CellCount
  BY <1>1, PlaceInRange, LenProperties
<1>3. DOMAIN d.cells = 1..CellCount
  <2>1. d.cells \in Seq(Cell) /\ Len(d.cells) = CellCount
    BY DEF WellFormed, Denominator
  <2> QED BY <2>1, LenProperties
<1> QED BY <1>1, <1>2, <1>3, BoundIsComplete

-----------------------------------------------------------------------------
(* The invariant is kept.                                                  *)

LEMMA NoCellRead ==
  ASSUME NEW cells, Init
  PROVE  CellsRead(cells, 0)
<1>1. 1..0 = {}
  OBVIOUS
<1>2. \A field, value : Cardinality(Uses(cells, field, value, 0)) = 0
  BY <1>1, FS_EmptySet DEF Uses
<1> QED BY <1>1, <1>2 DEF Init, CellsRead

LEMMA InitAccept == Init => AcceptInv
<1> SUFFICES ASSUME Init PROVE AcceptInv
  OBVIOUS
<1>1. BindInv /\ CellsRead(denominator.cells, 0)
  BY InitBind, NoCellRead
<1> QED BY <1>1 DEF Init, AcceptInv, ContractRead, SourceRead, RefusedRightly, Compiled

LEMMA CheckContractAccept ==
  ASSUME AcceptInv, CheckContract
  PROVE  ContractRead' /\ SourceRead' /\ RefusedRightly'
<1>1. /\ denominator \in Denominator /\ pc = "contract"
      /\ UNCHANGED <<denominator, source, index, nodes>>
      /\ UNCHANGED <<seenIDs, seenActivities, proofCounts, indicatorCounts>>
      /\ nodes = <<>> /\ index = 1 /\ CellsRead(denominator.cells, 0)
  BY DEF AcceptInv, BindInv, TypeOK, ContractRead, CheckContract, input, seen
<1>2. CellsRead(denominator.cells, 0)'
  BY <1>1 DEF CellsRead
<1>3. CASE contractError(denominator) = NoError
  <2>1. pc' = "cells" /\ error' = NoError
    BY <1>3 DEF CheckContract, Proceed
  <2>2. Len(denominator.cells) \in Nat
    BY <1>1, LenProperties DEF Denominator
  <2>3. ContractRead'
    BY <1>1, <1>2, <1>3, <2>1, <2>2 DEF ContractRead, Compiled
  <2> QED BY <2>1, <2>3 DEF SourceRead, RefusedRightly, Compiled
<1>4. CASE contractError(denominator) # NoError
  <2>1. pc' = "returned" /\ error' # NoError
    BY <1>4 DEF CheckContract, Proceed
  <2>2. ~WellFormed(denominator)
    BY <1>1, <1>4, ContractCheck DEF WellFormed
  <2> QED BY <1>1, <2>1, <2>2 DEF ContractRead, SourceRead, RefusedRightly, Compiled
<1> QED BY <1>3, <1>4

(* A cell that passes is remembered and counted.                           *)
LEMMA CellRemembered ==
  ASSUME TypeOK, CheckCell, NEW cells \in Seq(Cell), cells = denominator.cells,
         NEW n \in Nat \ {0}, n = index, CellsRead(cells, n - 1), CellSound(cells, n)
  PROVE  CellsRead(cells, n)'
<1> DEFINE cell == cells[n]
<1>1. /\ n \in 1..Len(cells) /\ cell \in Cell
      /\ \A k \in 1..n : k \in 1..(n - 1) \/ k = n
      /\ 1..(n - 1) \subseteq 1..n /\ n \in 1..n
  <2>1. n <= Len(cells) /\ Len(cells) \in Nat
    BY LenProperties DEF CheckCell
  <2>2. n \in 1..Len(cells)
    BY <2>1
  <2> QED BY <2>1, <2>2, ElementOfSeq
<1>2. cellError(cell) = NoError
  BY <1>1, CellCheck
<1>3. /\ seenIDs' = seenIDs \cup {cell.id}
      /\ seenActivities' = seenActivities \cup {cell.activity}
      /\ proofCounts' = [proofCounts EXCEPT ![cell.proofChoice] = @ + 1]
      /\ indicatorCounts' = [indicatorCounts EXCEPT ![cell.indicatorClass] = @ + 1]
  BY <1>2 DEF CheckCell
<1>4. /\ \A k \in 1..(n - 1) : CellSound(cells, k)
      /\ seenIDs = {cells[k].id : k \in 1..(n - 1)}
      /\ seenActivities = {cells[k].activity : k \in 1..(n - 1)}
      /\ \A t \in Text :
           /\ proofCounts[t] = Cardinality(Uses(cells, "proofChoice", t, n - 1))
           /\ indicatorCounts[t] = Cardinality(Uses(cells, "indicatorClass", t, n - 1))
  BY DEF CellsRead
<1>5. \A k \in 1..n : CellSound(cells, k)
  BY <1>1, <1>4
<1>6. /\ seenIDs' = {cells[k].id : k \in 1..n}
      /\ seenActivities' = {cells[k].activity : k \in 1..n}
  BY <1>1, <1>3, <1>4
<1>7. /\ proofCounts \in [Text -> Nat] /\ indicatorCounts \in [Text -> Nat]
      /\ cell.proofChoice \in Text /\ cell.indicatorClass \in Text
  BY <1>1 DEF TypeOK, Cell
<1>8. ASSUME NEW t \in Text
      PROVE  proofCounts'[t] = Cardinality(Uses(cells, "proofChoice", t, n))
  <2>1. /\ cells[n]["proofChoice"] = t =>
             Cardinality(Uses(cells, "proofChoice", t, n))
               = Cardinality(Uses(cells, "proofChoice", t, n - 1)) + 1
        /\ cells[n]["proofChoice"] # t =>
             Cardinality(Uses(cells, "proofChoice", t, n))
               = Cardinality(Uses(cells, "proofChoice", t, n - 1))
    BY UsesNext
  <2> QED BY <1>3, <1>4, <1>7, <2>1
<1>9. ASSUME NEW t \in Text
      PROVE  indicatorCounts'[t] = Cardinality(Uses(cells, "indicatorClass", t, n))
  <2>1. /\ cells[n]["indicatorClass"] = t =>
             Cardinality(Uses(cells, "indicatorClass", t, n))
               = Cardinality(Uses(cells, "indicatorClass", t, n - 1)) + 1
        /\ cells[n]["indicatorClass"] # t =>
             Cardinality(Uses(cells, "indicatorClass", t, n))
               = Cardinality(Uses(cells, "indicatorClass", t, n - 1))
    BY UsesNext
  <2> QED BY <1>3, <1>4, <1>7, <2>1
<1> QED BY <1>5, <1>6, <1>8, <1>9 DEF CellsRead

LEMMA CheckCellAccept ==
  ASSUME AcceptInv, CheckCell
  PROVE  ContractRead' /\ SourceRead' /\ RefusedRightly'
<1> DEFINE cells == denominator.cells
<1>1. /\ TypeOK /\ denominator \in Denominator /\ cells \in Seq(Cell) /\ pc = "cells"
      /\ index \in Nat \ {0} /\ index <= Len(cells) /\ Len(cells) \in Nat
      /\ contractError(denominator) = NoError /\ CellsRead(cells, index - 1)
      /\ nodes = <<>>
      /\ UNCHANGED <<denominator, source, nodes>> /\ index' = index + 1
  BY LenProperties DEF AcceptInv, BindInv, TypeOK, Denominator, ContractRead, CheckCell, input
<1>2. /\ Len(cells) = CellCount
      /\ WellFormed(denominator) => \A k \in 1..CellCount : CellSound(cells, k)
  BY <1>1, WellFormedParts
<1>3. cellError(cells[index]) = NoError <=> CellSound(cells, index)
  BY <1>1, CellCheck
<1>4. CASE CellSound(cells, index)
  <2>1. pc' = "cells" /\ error' = NoError
    BY <1>3, <1>4 DEF CheckCell, Proceed
  <2>2. PICK n \in Nat \ {0} : n = index
    BY <1>1
  <2>3. PICK cs \in Seq(Cell) : cs = denominator.cells
    BY <1>1
  <2>4. CellsRead(cs, n)'
    BY <1>1, <1>4, <2>2, <2>3, CellRemembered
  <2>5. /\ denominator'.cells = cs /\ index' - 1 = n
        /\ index' <= Len(denominator'.cells) + 1
        /\ contractError(denominator') = NoError
    BY <1>1, <2>2, <2>3
  <2>6. CellsRead(denominator.cells, index - 1)'
    BY <2>4, <2>5 DEF CellsRead
  <2>7. ContractRead'
    BY <1>1, <2>1, <2>5, <2>6 DEF ContractRead, Compiled
  <2> QED BY <2>1, <2>7 DEF SourceRead, RefusedRightly, Compiled
<1>5. CASE ~CellSound(cells, index)
  <2>1. pc' = "returned" /\ error' # NoError
    BY <1>3, <1>5 DEF CheckCell, Proceed
  <2>2. ~WellFormed(denominator)
    BY <1>1, <1>2, <1>5
  <2> QED BY <1>1, <2>1, <2>2 DEF ContractRead, SourceRead, RefusedRightly, Compiled
<1> QED BY <1>4, <1>5

LEMMA CheckCountsAccept ==
  ASSUME AcceptInv, CheckCounts
  PROVE  ContractRead' /\ SourceRead' /\ RefusedRightly'
<1> DEFINE cells == denominator.cells
<1>1. /\ denominator \in Denominator /\ pc = "cells"
      /\ index \in Nat \ {0} /\ index > Len(cells) /\ index <= Len(cells) + 1
      /\ Len(cells) \in Nat
      /\ contractError(denominator) = NoError /\ CellsRead(cells, index - 1)
      /\ nodes = <<>> /\ UNCHANGED <<denominator, source, nodes>>
  BY LenProperties DEF AcceptInv, BindInv, TypeOK, Denominator, ContractRead, CheckCounts, input
<1>2. index - 1 = Len(cells)
  BY <1>1
<1>3. /\ Len(cells) = CellCount
      /\ WellFormed(denominator)
           <=> /\ \A k \in 1..CellCount : CellSound(cells, k)
               /\ \A c \in ProofChoices :
                    Cardinality(Uses(cells, "proofChoice", c, CellCount)) = Share
               /\ \A c \in IndicatorClasses :
                    Cardinality(Uses(cells, "indicatorClass", c, CellCount)) = Share
  BY <1>1, WellFormedParts
<1>4. /\ \A k \in 1..CellCount : CellSound(cells, k)
      /\ \A t \in Text :
           /\ proofCounts[t] = Cardinality(Uses(cells, "proofChoice", t, CellCount))
           /\ indicatorCounts[t] = Cardinality(Uses(cells, "indicatorClass", t, CellCount))
  BY <1>1, <1>2, <1>3 DEF CellsRead
<1>5. ProofChoices \subseteq Text /\ IndicatorClasses \subseteq Text
  BY CompilationAssumption DEF Text
<1> HIDE DEF cells
<1>6. WellFormed(denominator)
        <=> /\ \A c \in ProofChoices : proofCounts[c] = Share
            /\ \A c \in IndicatorClasses : indicatorCounts[c] = Share
  BY <1>3, <1>4, <1>5
<1>7. countsError = NoError <=> WellFormed(denominator)
  BY <1>6 DEF countsError, NoError
<1>8. CASE WellFormed(denominator)
  <2>1. pc' = "header" /\ error' = NoError
    BY <1>7, <1>8 DEF CheckCounts, Proceed
  <2> QED BY <1>1, <1>8, <2>1 DEF ContractRead, SourceRead, RefusedRightly, Compiled
<1>9. CASE ~WellFormed(denominator)
  <2>1. pc' = "returned" /\ error' # NoError
    BY <1>7, <1>9 DEF CheckCounts, Proceed
  <2> QED BY <1>1, <1>9, <2>1 DEF ContractRead, SourceRead, RefusedRightly, Compiled
<1> QED BY <1>8, <1>9

LEMMA CheckHeaderAccept ==
  ASSUME AcceptInv, CheckHeader
  PROVE  ContractRead' /\ SourceRead' /\ RefusedRightly'
<1>1. /\ pc = "header" /\ nodes = <<>> /\ index' = 1
      /\ WellFormed(denominator) /\ Len(source) \in Nat
      /\ UNCHANGED <<denominator, source, nodes>>
  BY LenProperties DEF AcceptInv, BindInv, TypeOK, ContractRead, CheckHeader, input
<1>2. CASE source[1].kind = "header"
  <2>1. pc' = "lines" /\ error' = NoError
    BY <1>2 DEF CheckHeader, Proceed
  <2>2. index' - 1 = 0 /\ index' <= Len(source) + 1
    BY <1>1
  <2>3. LinesRead(source, 0, <<>>)
    BY NoLineRead
  <2>4. SourceRead'
    BY <1>1, <1>2, <2>1, <2>2, <2>3 DEF SourceRead, Compiled
  <2> QED BY <1>1, <2>1, <2>4 DEF ContractRead, RefusedRightly, Compiled
<1>3. CASE source[1].kind # "header"
  <2>1. pc' = "returned" /\ error' # NoError
    BY <1>3 DEF CheckHeader, Proceed, NoError
  <2>2. ~Defines(source, denominator)
    BY <1>3 DEF Defines
  <2> QED BY <1>1, <2>1, <2>2 DEF ContractRead, SourceRead, RefusedRightly, Compiled
<1> QED BY <1>2, <1>3

LEMMA ReadLineAccept ==
  ASSUME AcceptInv, ReadLine
  PROVE  ContractRead' /\ SourceRead' /\ RefusedRightly'
<1> DEFINE line == source[index]
<1>1. /\ denominator \in Denominator /\ source \in Seq(Line) /\ nodes \in Seq(Attributes)
      /\ pc = "lines" /\ index \in Nat \ {0} /\ index <= Len(source) /\ Len(source) \in Nat
      /\ WellFormed(denominator) /\ source[1].kind = "header"
      /\ LinesRead(source, index - 1, nodes)
      /\ UNCHANGED <<denominator, source>> /\ index' = index + 1
  BY LenProperties DEF AcceptInv, BindInv, TypeOK, ContractRead, SourceRead, ReadLine, input
<1>2. index \in 1..Len(source) /\ line \in Line
  <2>1. index \in 1..Len(source)
    BY <1>1
  <2> QED BY <1>1, <2>1, ElementOfSeq
<1>3. line.attrs \in Attributes /\ line.parses \in BOOLEAN
  BY <1>2 DEF Line
<1>4. /\ line.kind # "activity" => LinesRead(source, index, nodes)
      /\ line.kind = "activity" /\ line.parses /\ ~incomplete(line.attrs)
           => LinesRead(source, index, Append(nodes, line.attrs))
  BY <1>1, <1>3, LinesNext
<1>5. lineError(line) = NoError
        <=> line.kind # "activity" \/ (line.parses /\ ~incomplete(line.attrs))
  BY DEF lineError, NoError
<1>6. CASE lineError(line) = NoError
  <2>1. pc' = "lines" /\ error' = NoError
    BY <1>6 DEF ReadLine, Proceed
  <2>2. nodes' = IF line.kind = "activity" THEN Append(nodes, line.attrs) ELSE nodes
    BY <1>6 DEF ReadLine
  <2>3. LinesRead(source, index, nodes')
    <3>1. CASE line.kind = "activity"
      BY <1>4, <1>5, <1>6, <2>2, <3>1
    <3>2. CASE line.kind # "activity"
      BY <1>4, <2>2, <3>2
    <3> QED BY <3>1, <3>2
  <2>4. index' - 1 = index /\ index' <= Len(source) + 1
    BY <1>1
  <2>5. SourceRead'
    BY <1>1, <2>1, <2>3, <2>4 DEF SourceRead, Compiled
  <2> QED BY <1>1, <2>1, <2>5 DEF ContractRead, RefusedRightly, Compiled
<1>7. CASE lineError(line) # NoError
  <2>1. pc' = "returned" /\ error' # NoError
    BY <1>7 DEF ReadLine, Proceed
  <2>2. index \in ActivitiesUpTo(source, Len(source))
    BY <1>2, <1>5, <1>7 DEF ActivitiesUpTo
  <2>3. ~Defines(source, denominator)
    BY <1>1, <1>5, <1>7, <2>2, DefinedIsComplete
  <2> QED BY <1>1, <2>1, <2>3 DEF ContractRead, SourceRead, RefusedRightly, Compiled
<1> QED BY <1>6, <1>7

LEMMA CountNodesAccept ==
  ASSUME AcceptInv, CountNodes
  PROVE  ContractRead' /\ SourceRead' /\ RefusedRightly'
<1>1. /\ pc = "lines" /\ index \in Nat /\ index > Len(source) /\ index <= Len(source) + 1
      /\ Len(source) \in Nat
      /\ WellFormed(denominator) /\ source[1].kind = "header"
      /\ LinesRead(source, index - 1, nodes)
      /\ UNCHANGED <<denominator, source, nodes>>
  BY LenProperties DEF AcceptInv, BindInv, TypeOK, ContractRead, SourceRead, CountNodes, input
<1>2. index - 1 = Len(source)
  BY <1>1
<1>3. LinesRead(source, Len(source), nodes)
  BY <1>1, <1>2
<1>4. CASE Len(nodes) = CellCount
  <2>1. pc' = "bind" /\ error' = NoError
    BY <1>4 DEF CountNodes, Proceed
  <2> QED BY <1>1, <1>3, <2>1 DEF ContractRead, SourceRead, RefusedRightly, Compiled
<1>5. CASE Len(nodes) # CellCount
  <2>1. pc' = "returned" /\ error' # NoError
    BY <1>5 DEF CountNodes, Proceed, NoError
  <2>2. ~Defines(source, denominator)
    BY <1>3, <1>5 DEF Defines, LinesRead
  <2> QED BY <1>1, <2>1, <2>2 DEF ContractRead, SourceRead, RefusedRightly, Compiled
<1> QED BY <1>4, <1>5

LEMMA BindCellAccept ==
  ASSUME AcceptInv, BindCell
  PROVE  ContractRead' /\ SourceRead' /\ RefusedRightly'
<1> DEFINE cells == denominator.cells
<1>1. /\ pc = "bind" /\ index \in 1..CellCount /\ Len(nodes) = CellCount
      /\ WellFormed(denominator) /\ source[1].kind = "header"
      /\ LinesRead(source, Len(source), nodes)
      /\ UNCHANGED <<denominator, source, nodes>>
  <2>1. /\ pc = "bind" /\ index \in Nat \ {0} /\ index <= Len(cells)
        /\ Len(cells) = CellCount /\ Len(nodes) = CellCount
        /\ WellFormed(denominator) /\ source[1].kind = "header"
        /\ LinesRead(source, Len(source), nodes)
        /\ UNCHANGED <<denominator, source, nodes>>
    BY DEF AcceptInv, BindInv, TypeOK, ContractRead, SourceRead, BindCell, input
  <2> QED BY <2>1, ShareType
<1>2. CASE nodeBinds(nodes[index], cells[index])
  <2>1. pc' = "bind" /\ error' = NoError
    BY <1>2 DEF BindCell, Proceed
  <2> QED BY <1>1, <2>1 DEF ContractRead, SourceRead, RefusedRightly, Compiled
<1>3. CASE ~nodeBinds(nodes[index], cells[index])
  <2>1. pc' = "returned" /\ error' # NoError
    BY <1>3 DEF BindCell, Proceed, NoError
  <2>2. PICK i \in ActivitiesUpTo(source, Len(source)) : PlaceOf(source, i) = index
    BY <1>1 DEF LinesRead
  <2>3. nodes[index] = source[i].attrs
    BY <1>1, <2>2 DEF LinesRead
  <2>4. ~Defines(source, denominator)
    BY <1>3, <2>2, <2>3, BindsDescribed DEF Defines
  <2> QED BY <1>1, <2>1, <2>4 DEF ContractRead, SourceRead, RefusedRightly, Compiled
<1> QED BY <1>2, <1>3

LEMMA EmitNodesAccept ==
  ASSUME AcceptInv, EmitNodes
  PROVE  ContractRead' /\ SourceRead' /\ RefusedRightly'
<1>1. /\ pc = "bind" /\ error = NoError /\ pc' = "returned"
      /\ UNCHANGED <<denominator, source, nodes, error>>
  BY DEF AcceptInv, BindInv, EmitNodes, input
<1> QED BY <1>1 DEF AcceptInv, ContractRead, SourceRead, RefusedRightly, Compiled

LEMMA StutterAccept ==
  ASSUME AcceptInv, UNCHANGED vars
  PROVE  ContractRead' /\ SourceRead' /\ RefusedRightly'
<1>1. /\ UNCHANGED <<denominator, source, pc, index, nodes, error>>
      /\ UNCHANGED <<seenIDs, seenActivities, proofCounts, indicatorCounts>>
  BY DEF vars, input, seen
<1>2. CellsRead(denominator.cells, 0) => CellsRead(denominator.cells, 0)'
  BY <1>1 DEF CellsRead
<1>3. CellsRead(denominator.cells, index - 1) => CellsRead(denominator.cells, index - 1)'
  BY <1>1 DEF CellsRead
<1> QED BY <1>1, <1>2, <1>3
        DEF AcceptInv, ContractRead, SourceRead, RefusedRightly, Compiled

(* The loops keep what they have read, and refuse nothing that is to be    *)
(* accepted.                                                               *)
THEOREM AcceptInvariant == Spec => []AcceptInv
<1>1. AcceptInv /\ [Next]_vars => AcceptInv'
  <2> SUFFICES ASSUME AcceptInv, [Next]_vars PROVE AcceptInv'
    OBVIOUS
  <2>1. BindInv'
    BY NextBind DEF AcceptInv
  <2>2. ContractRead' /\ SourceRead' /\ RefusedRightly'
    BY CheckContractAccept, CheckCellAccept, CheckCountsAccept, CheckHeaderAccept,
       ReadLineAccept, CountNodesAccept, BindCellAccept, EmitNodesAccept, StutterAccept
    DEF Next, Returned
  <2> QED BY <2>1, <2>2 DEF AcceptInv
<1> QED BY <1>1, InitAccept, PTL DEF Spec

-----------------------------------------------------------------------------
LEMMA AcceptHolds == AcceptInv => AcceptsExactly
<1> SUFFICES ASSUME AcceptInv, pc = "returned"
             PROVE  error = NoError <=> WellFormed(denominator) /\ Defines(source, denominator)
  BY DEF AcceptsExactly
<1>1. error # NoError => ~(WellFormed(denominator) /\ Defines(source, denominator))
  BY DEF AcceptInv, RefusedRightly
<1>2. ASSUME error = NoError
      PROVE  WellFormed(denominator) /\ Defines(source, denominator)
  <2>1. /\ Compiled /\ WellFormed(denominator) /\ source[1].kind = "header"
        /\ LinesRead(source, Len(source), nodes)
        /\ Len(nodes) = CellCount
        /\ \A k \in 1..CellCount : nodeBinds(nodes[k], denominator.cells[k])
    BY <1>2 DEF AcceptInv, BindInv, ContractRead, SourceRead, Compiled
  <2>2. ASSUME NEW i \in ActivitiesUpTo(source, Len(source))
        PROVE  /\ source[i].parses /\ source[i].attrs.name # ""
               /\ Describes(source[i].attrs, denominator.cells[PlaceOf(source, i)])
    <3>1. /\ source[i].parses /\ ~incomplete(source[i].attrs)
          /\ PlaceOf(source, i) \in 1..CellCount
          /\ nodes[PlaceOf(source, i)] = source[i].attrs
      BY <2>1 DEF LinesRead
    <3>2. source[i].attrs["name"] # ""
      BY <3>1 DEF incomplete
    <3>3. Describes(nodes[PlaceOf(source, i)], denominator.cells[PlaceOf(source, i)])
      BY <2>1, <3>1, BindsDescribed
    <3> QED BY <3>1, <3>2, <3>3
  <2>3. Defines(source, denominator)
    BY <2>1, <2>2 DEF Defines, LinesRead
  <2> QED BY <2>1, <2>3
<1> QED BY <1>1, <1>2

(* CompileSource accepts exactly the contracts and sources that are well   *)
(* formed, for every share: the sets, the counters and the early returns   *)
(* leave nothing out and ask for nothing else (compile.go:30-132).         *)
THEOREM AcceptedExactly == Spec => []AcceptsExactly
BY AcceptInvariant, AcceptHolds, PTL
=====================
