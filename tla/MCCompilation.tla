---------------------------- MODULE MCCompilation ----------------------------
(* Small instances of Compilation: a contract of the right form with the   *)
(* source that defines its activities, and what one or two edits make of   *)
(* the contract, of the source or of both.                                 *)
EXTENDS Compilation, TLC

CONSTANTS Edits   \* how many edits of cells the contracts carry, 1 or 2

ProofOrder == <<"FOUNDATION", "COHERENCE", "REGRESSION">>
ClassOrder == <<"DRIVER", "OUTCOME", "GUARDRAIL">>

MCNames == {"n1", "n2", "n3", "n4", "n5", "n6", "n7", "n8", "n9", "n10", "n11", "n12"}
MCTexts ==
  MCNames \cup ProofChoices \cup IndicatorClasses \cup ArtifactKinds
    \cup {"observer.Observe", "WORD"}

nameOf(k) == "n" \o ToString(k)

(* The shipped contract: the proof choices in blocks, the classes in turn. *)
BaseCell(k) ==
  [ordinal |-> k, id |-> <<CellPrefix, nameOf(k)>>, activity |-> nameOf(k),
   proofChoice |-> ProofOrder[1 + ((k - 1) \div Share)],
   indicatorClass |-> ClassOrder[1 + ((k - 1) % 3)],
   metricID |-> nameOf(k), metricPath |-> nameOf(k),
   artifact |-> "claims.ndjson", evaluator |-> "observer.Observe"]

BalanceOf(order) == [k \in 1..3 |-> [name |-> order[k], total |-> Share]]

Base ==
  [decodes |-> TRUE, schema |-> TRUE, total |-> CellCount,
   proofs |-> BalanceOf(ProofOrder), indicatorClasses |-> BalanceOf(ClassOrder),
   cells |-> [k \in 1..CellCount |-> BaseCell(k)]]

(* The edits of one cell: a field taken from another cell, left empty or   *)
(* replaced.                                                               *)
CellEdits ==
  { <<"ordinal", 2>>, <<"id", NoId>>, <<"id", <<"", "n1">>>>, <<"id", <<CellPrefix, "n2">>>>,
    <<"activity", "">>, <<"activity", "n1">>,
    <<"proofChoice", "FOUNDATION">>, <<"proofChoice", "REGRESSION">>, <<"proofChoice", "WORD">>,
    <<"indicatorClass", "DRIVER">>, <<"indicatorClass", "WORD">>,
    <<"metricID", "n1">>, <<"metricPath", "n1">>, <<"metricPath", "">>,
    <<"artifact", "WORD">>, <<"artifact", "observer-report.md">>,
    <<"evaluator", "">>, <<"evaluator", "WORD">> }

Edited(d, k, e) == [d EXCEPT !.cells[k][e[1]] = e[2]]

OneEdit == {Edited(Base, k, e) : k \in 1..CellCount, e \in CellEdits}

TwoEdits ==
  {Edited(Edited(Base, ks[1], es[1]), ks[2], es[2]) :
     ks \in {p \in (1..CellCount) \X (1..CellCount) : p[1] < p[2]},
     es \in CellEdits \X CellEdits}

Swapped(s, j, k) == [s EXCEPT ![j] = s[k], ![k] = s[j]]

FormEdits ==
  { [Base EXCEPT !.decodes = FALSE], [Base EXCEPT !.schema = FALSE],
    [Base EXCEPT !.total = CellCount - 1],
    [Base EXCEPT !.cells = SubSeq(@, 1, CellCount - 1)],
    [Base EXCEPT !.cells = Swapped(@, 1, 2)],
    [Base EXCEPT !.proofs = Swapped(@, 1, 3)],
    [Base EXCEPT !.proofs[2] = Base.proofs[1]], [Base EXCEPT !.proofs = SubSeq(@, 1, 2)],
    [Base EXCEPT !.proofs[2].name = "FOUNDATION"],
    [Base EXCEPT !.proofs[2].total = Share + 1],
    [Base EXCEPT !.indicatorClasses[1].name = "FOUNDATION"],
    [Base EXCEPT !.indicatorClasses[3].name = ""] }

Contracts ==
  {Base} \cup OneEdit \cup FormEdits \cup (IF Edits = 1 THEN {} ELSE TwoEdits)

(* The source of a contract, and what one edit makes of it.                *)
AttributesOf(cell) ==
  [id |-> <<ActivityPrefix, cell.id[2]>>, name |-> "WORD", activity |-> cell.activity,
   proofChoice |-> cell.proofChoice, indicatorClass |-> cell.indicatorClass,
   metricID |-> cell.metricID, metricPath |-> cell.metricPath,
   artifact |-> cell.artifact, evaluator |-> cell.evaluator]

LineOf(kind, cell) == [kind |-> kind, parses |-> TRUE, attrs |-> AttributesOf(cell)]

Header == LineOf("header", BaseCell(1))
Other  == LineOf("other", BaseCell(1))

SourceOf(d) ==
  <<Header, Other>> \o [k \in DOMAIN d.cells |-> LineOf("activity", d.cells[k])]

SourceEdits(d) ==
  LET s == SourceOf(d)
      Of(k, f, v) == [s EXCEPT ![k].attrs[f] = v]
  IN  { <<Other>> \o s, Tail(s), Append(s, Other), Append(s, LineOf("activity", BaseCell(1))),
        SubSeq(s, 1, Len(s) - 1), Swapped(s, 3, 4) }
      \cup {[s EXCEPT ![k].parses = FALSE] : k \in 3..Len(s)}
      \cup {[s EXCEPT ![k].kind = "other"] : k \in 3..Len(s)}
      \cup {Of(k, "name", "") : k \in 3..Len(s)}
      \cup {Of(k, "id", NoId) : k \in 3..Len(s)}
      \cup {Of(k, "id", <<"", "n1">>) : k \in 3..Len(s)}
      \cup {Of(k, f, v) : k \in 3..Len(s), f \in BoundFields, v \in {"n2", ""}}

MCInputs ==
  {<<d, SourceOf(d)>> : d \in Contracts} \cup {<<Base, s>> : s \in SourceEdits(Base)}

(* The contract of a run may differ from the compiled one in any field.    *)
MCRunContracts == {Base} \cup OneEdit
=============================================================================
