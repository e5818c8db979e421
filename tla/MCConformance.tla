---------------------------- MODULE MCConformance ----------------------------
(* Small instances of Conformance: the canonical fixtures, and what one    *)
(* change makes of them; the last has a refuted fixture that does not      *)
(* decode and one with the case id of another.                             *)
EXTENDS Conformance

(* os.ReadDir sorts by name.                                               *)
Sorted ==
  <<"closed-caller-input", "closed-github-artifact", "closed-github-run",
    "refuted-contradiction", "refuted-evaluator-digest", "refuted-evidence-digest",
    "refuted-self-attestation", "refuted-source-binding",
    "unknown-ambiguous", "unknown-dependency-blocked", "unknown-direct-missing",
    "unknown-stale">>

MCOtherCases == {"other"}

ClassOf(c) ==
  CASE c = "unknown-ambiguous"          -> {"AMBIGUOUS"}
    [] c = "unknown-dependency-blocked" -> {"DEPENDENCY_BLOCKED"}
    [] c = "unknown-direct-missing"     -> {"DIRECT_MISSING"}
    [] c = "unknown-stale"              -> {"STALE"}
    [] OTHER                            -> {}

Json(c) == [kind |-> "json", name |-> c]

Shipped ==
  [entries |-> [k \in 1..12 |-> Json(Sorted[k])],
   outcome |-> [c \in Cases |->
                  [caseID |-> CHOOSE k \in 1..12 : Sorted[k] = c,
                   decision |-> expectedDecision(c),
                   classes |-> ClassOf(c), complete |-> TRUE]]]

WithEntry(kind, name) ==
  [Shipped EXCEPT !.entries = SubSeq(@, 1, 3) \o <<[kind |-> kind, name |-> name]>>
                                \o SubSeq(@, 4, 12)]

Changed ==
  { WithEntry("directory", "other"), WithEntry("other", "closed-github-run"),
    WithEntry("json", "other"),
    [Shipped EXCEPT !.entries = SubSeq(@, 1, 11)],
    [Shipped EXCEPT !.entries = Tail(@)],
    [Shipped EXCEPT !.entries[3].kind = "other"],
    [Shipped EXCEPT !.outcome["closed-caller-input"].decision = "REFUTED"],
    [Shipped EXCEPT !.outcome["unknown-stale"].decision = "CLOSED"],
    [Shipped EXCEPT !.outcome["unknown-stale"].complete = FALSE],
    [Shipped EXCEPT !.outcome["unknown-stale"].classes = {"AMBIGUOUS"}],
    [Shipped EXCEPT !.outcome["refuted-evidence-digest"].caseID = 1,
                    !.outcome["refuted-contradiction"].caseID = 0] }

MCFixtureDirs == {Shipped} \cup Changed
=============================================================================
