---------------------------- MODULE MCPublication ----------------------------
(* Small instances of Publication: two runs, of one case (or of two inputs *)
(* that do not decode, whose case id is empty) or of two, and a caller who *)
(* creates entries under some names.                                       *)
EXTENDS Publication, TLC

CONSTANTS r1, r2

MCRuns == {r1, r2}

DistinctCases == (r1 :> "case-1") @@ (r2 :> "case-2")
OneCase       == (r1 :> "case-1") @@ (r2 :> "case-1")

MCOtherNames   == {"notes"}
SomeNames      == {"notes", "evidence.ndjson", Manifest}
=============================================================================
