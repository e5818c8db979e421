--------------------------- MODULE MCAuthorityChain ---------------------------
(* Small instances of AuthorityChain: two sources and two contracts that   *)
(* differ in bytes but not in what is compared, a source and a contract    *)
(* with the same cells in another order, a contract with a cell too many   *)
(* and one that fails another check.                                       *)
EXTENDS AuthorityChain, TLC

CONSTANTS s1, s2, s3, c1, c2, c3, cLong, cUnsound, e1, e2, b1, b2

TwoSources   == {s1, s3}
MCSources    == {s1, s2, s3}
TwoContracts == {c1, c3}
MCContracts  == {c1, c2, c3, cLong, cUnsound}
MCEvaluators == {e1, e2}
OneEvaluator == {e1}
MCBindings   == {b1, b2}

MCActivitiesOf ==
  [s \in Sources |-> IF s = s3 THEN <<b2, b1>> ELSE <<b1, b2>>]

MCCellsOf ==
  [c \in Contracts |->
     IF c = c3 THEN <<b2, b1>> ELSE IF c = cLong THEN <<b1, b2, b2>> ELSE <<b1, b2>>]

MCSound == Contracts \ {cUnsound}
=============================================================================
