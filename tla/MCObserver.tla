------------------------------ MODULE MCObserver ------------------------------
(* A small instance of Observer: the calls that the runs consider.         *)
EXTENDS Observer, FiniteSets

CONSTANTS c1, c2, c3,                \* claim ids
          e1, e2,                    \* evidence ids
          parent, child,             \* evaluator ids
          dParent, dChild, dA, dB, junk  \* digests, junk is malformed

MCClaimIds     == {c1, c2, c3}
MCEvidenceIds  == {e1, e2}
MCEvaluatorIds == {parent, child}
MCDigests      == {dParent, dChild, dA, dB}
MCDigestText   == MCDigests \cup {junk}
MCParts        == {"subject", "assertion"}

UpTo(S, n) == UNION {[1..m -> S] : m \in 0..n}

Calls(headers, claimLists, evidenceLists) ==
  [header: headers, claims: claimLists, evidence: evidenceLists]

Evaluator ==
  [id |-> parent, immutableTag |-> TRUE,
   releaseDigest |-> dParent, observedReleaseDigest |-> dParent]

SoundHeader ==
  [decodes |-> TRUE, contract |-> TRUE, metaError |-> NoError,
   escalates |-> FALSE, evaluator |-> Evaluator]

Said(id) ==
  [id |-> id, bound |-> TRUE, exactTuple |-> <<"subject", "assertion">>,
   evaluatorID |-> child, evaluatorDigest |-> dChild, selfAttestation |-> {}]

Attest(id, digest, decided) ==
  [evaluatorID |-> id, releaseDigest |-> digest, decided |-> decided]

Item(id, claimID) ==
  [id |-> id, claimID |-> claimID,
   sourceKind |-> "GITHUB_RUN", sourceRef |-> <<"run:", "uint64">>,
   evaluatorDigest |-> dParent, digest |-> dA, observedDigest |-> dA,
   observation |-> "SUPPORTS", availability |-> "AVAILABLE",
   freshness |-> "CURRENT", exactTuple |-> <<"subject", "assertion">>]

-----------------------------------------------------------------------------
(* Sound claims and evidence, told apart by what observeClaim tells apart. *)

SoundClaims ==
  {Said(c1), Said(c2),
   [Said(c1) EXCEPT !.selfAttestation = {Attest(child, dB, TRUE)}],
   [Said(c2) EXCEPT !.selfAttestation = {Attest(parent, dA, TRUE)}]}

(* The blocked item of c2 shares its identifier with the items of c1.      *)
SoundItems ==
  LET e == Item(e1, c1)
  IN  {e, [e EXCEPT !.observation = "CONTRADICTS"],
       [e EXCEPT !.observation = "UNKNOWN"],
       [e EXCEPT !.availability = "BLOCKED"],
       [e EXCEPT !.availability = "MISSING"],
       [e EXCEPT !.availability = "MISSING", !.freshness = "STALE"],
       [e EXCEPT !.exactTuple = <<"assertion", "subject">>],
       [Item(e1, c2) EXCEPT !.availability = "BLOCKED"],
       [Item(e2, c2) EXCEPT !.observation = "CONTRADICTS"],
       Item(e2, c2)}

SoundCalls == Calls({SoundHeader}, UpTo(SoundClaims, 2), UpTo(SoundItems, 3))

-----------------------------------------------------------------------------
(* Faults of claims and evidence, alone and together.                      *)

FaultyClaims ==
  {Said(c1), Said(c2), Said(NoId),
   [Said(c1) EXCEPT !.exactTuple = <<"assertion", "subject">>],
   [Said(c2) EXCEPT !.bound = FALSE],
   [Said(c2) EXCEPT !.exactTuple = <<>>],
   [Said(c2) EXCEPT !.evaluatorID = NoId, !.evaluatorDigest = junk],
   [Said(c2) EXCEPT !.evaluatorDigest = dParent],
   [Said(c1) EXCEPT !.selfAttestation = {Attest(child, dChild, FALSE)}],
   [Said(c2) EXCEPT !.selfAttestation = {Attest(NoId, junk, FALSE)}]}

FaultyItems ==
  {Item(e1, c1), Item(e2, c2), Item(e2, c3), Item(e2, NoId),
   [Item(e1, c2) EXCEPT !.observedDigest = dB],
   [Item(e1, c1) EXCEPT !.digest = junk, !.observedDigest = junk],
   [Item(e1, c1) EXCEPT !.evaluatorDigest = dChild],
   [Item(e1, c2) EXCEPT !.sourceKind = "BRANCH", !.sourceRef = <<"", "main">>],
   [Item(e1, c1) EXCEPT !.sourceRef = <<"artifact:", "uint64">>],
   [Item(e1, c1) EXCEPT !.observation = "ASSERTS"],
   [Item(e1, c1) EXCEPT !.availability = "CACHED"],
   [Item(e1, c1) EXCEPT !.freshness = "RECENT"],
   [Item(e1, c1) EXCEPT !.freshness = ""],
   [Item(e1, c1) EXCEPT !.exactTuple = <<>>],
   [Item(e1, c1) EXCEPT !.observation = "CONTRADICTS"]}

FaultyCalls == Calls({SoundHeader}, UpTo(FaultyClaims, 2), UpTo(FaultyItems, 2))

-----------------------------------------------------------------------------
(* Faults of the header before up to three claims that may share an id.    *)

AllHeaders ==
  {SoundHeader,
   [SoundHeader EXCEPT !.decodes = FALSE],
   [SoundHeader EXCEPT !.contract = FALSE],
   [SoundHeader EXCEPT !.metaError = "GENERATED_AUTHORITY_CHAIN_MISMATCH"],
   [SoundHeader EXCEPT !.escalates = TRUE],
   [SoundHeader EXCEPT !.escalates = TRUE, !.contract = FALSE],
   [SoundHeader EXCEPT !.evaluator.id = child],
   [SoundHeader EXCEPT !.evaluator.immutableTag = FALSE],
   [SoundHeader EXCEPT !.evaluator.observedReleaseDigest = dB]}

RepeatedClaims ==
  {Said(c1), Said(c2), Said(c3), Said(NoId),
   [Said(c1) EXCEPT !.exactTuple = <<"assertion", "subject">>],
   [Said(c2) EXCEPT !.selfAttestation = {Attest(child, dB, TRUE)}]}

PlainItems ==
  {Item(e1, c1), [Item(e1, c1) EXCEPT !.observation = "CONTRADICTS"],
   [Item(e2, c2) EXCEPT !.freshness = "STALE"]}

RefusedCalls == Calls(AllHeaders, UpTo(RepeatedClaims, 3), UpTo(PlainItems, 2))

-----------------------------------------------------------------------------
AllCalls == SoundCalls \cup FaultyCalls \cup RefusedCalls
=============================================================================
