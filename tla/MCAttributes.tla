----------------------------- MODULE MCAttributes -----------------------------
(* Attributes on every text of up to MaxPieces pieces, a piece being one   *)
(* character or the beginning of an attribute.                             *)
EXTENDS Attributes, SequencesExt

CONSTANT MaxPieces

Pieces == {<<c>> : c \in Character} \cup {<<"k", Equals, Quote>>}

Written == UNION {{FlattenSeq(p) : p \in [1..n -> Pieces]} : n \in 1..MaxPieces}

MCInputs == {s \in Written : s[Len(s)] # Space}
=============================================================================
