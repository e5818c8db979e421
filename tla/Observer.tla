------------------------------- MODULE Observer -------------------------------
(***************************************************************************)
(* observer.Observe (internal/observer/evaluate.go): the evaluation of one *)
(* caller input, one step per loop iteration.  The call decodes the input, *)
(* checks its header, admits the claims and then the evidence in order,    *)
(* freezes what it knows about the authority, judges the claims in order   *)
(* and resolves the decision.                                              *)
(*                                                                         *)
(* Abstractions.  An identifier is a member of a constant set or NoId, the *)
(* empty string of Go.  A digest string is a member of DigestText; the     *)
(* members of Digests are those that validDigest accepts.  An error is its *)
(* reason string, NoError for nil.  A nil pointer is the empty set, any    *)
(* other pointer a singleton.  Titles, sequence numbers, wall time and     *)
(* memory metrics take no part in the evaluation and are left out.         *)
(***************************************************************************)
EXTENDS Naturals, Sequences

CONSTANTS
  ClaimIds,      \* non-empty claim identifiers
  EvidenceIds,   \* non-empty evidence identifiers
  EvaluatorIds,  \* non-empty evaluator identifiers
  DigestText,    \* strings found where a digest is expected
  Digests,       \* those of them that are well-formed sha256 digests
  Parts,         \* the components of exact tuples
  Inputs         \* the inputs of the calls considered

NoId    == ""
NoError == ""

StateUnverified == "UNVERIFIED"
StateSupported  == "SUPPORTED"
StateRefuted    == "REFUTED"
ClaimStateNames == {StateUnverified, StateSupported, StateRefuted}

DecisionClosed  == "CLOSED"
DecisionUnknown == "UNKNOWN"
DecisionRefuted == "REFUTED"
Pending         == "PENDING"   \* no report has been returned yet
DecisionNames   == {DecisionClosed, DecisionUnknown, DecisionRefuted}

-----------------------------------------------------------------------------
(* The decoded input.                                                      *)

SelfAttestation ==
  [evaluatorID: EvaluatorIds \cup {NoId}, releaseDigest: DigestText,
   decided: BOOLEAN]

(* bound: the subject is named and the assertion digest is well formed.    *)
Claim ==
  [id: ClaimIds \cup {NoId}, bound: BOOLEAN, exactTuple: Seq(Parts),
   evaluatorID: EvaluatorIds \cup {NoId}, evaluatorDigest: DigestText,
   selfAttestation: SUBSET SelfAttestation]

(* sourceRef: the prefix of the reference and what the rest of it parses as. *)
Evidence ==
  [id: EvidenceIds \cup {NoId}, claimID: ClaimIds \cup {NoId},
   sourceKind: STRING, sourceRef: STRING \X STRING,
   evaluatorDigest: DigestText, digest: DigestText, observedDigest: DigestText,
   observation: STRING, availability: STRING, freshness: STRING,
   exactTuple: Seq(Parts)]

(* immutableTag: the version is vN.N.N and the release tag equals it.      *)
EvaluatorReference ==
  [id: EvaluatorIds \cup {NoId}, immutableTag: BOOLEAN,
   releaseDigest: DigestText, observedReleaseDigest: DigestText]

(* What a call has beside claims and evidence: whether its bytes decode,   *)
(* whether schema and case id are right, what validateMeta says of the     *)
(* authority chain, whether a repository write, a local test run or a      *)
(* cross-project gate is requested, and the evaluator it names.            *)
MetaErrors ==
  {"INCOMPLETE_AUTHORITY_CHAIN", "GENERATED_AUTHORITY_CHAIN_MISMATCH",
   "GENERATED_ACTIVITY_BINDING_MISMATCH"}

Header ==
  [decodes: BOOLEAN, contract: BOOLEAN, metaError: MetaErrors \cup {NoError},
   escalates: BOOLEAN, evaluator: EvaluatorReference]

Input == [header: Header, claims: Seq(Claim), evidence: Seq(Evidence)]

ASSUME InputAssumption ==
  /\ Inputs \subseteq Input
  /\ Digests \subseteq DigestText
  /\ NoId \notin ClaimIds \cup EvidenceIds \cup EvaluatorIds

-----------------------------------------------------------------------------
(* Validation.  A chain of early returns is the first reason that is not   *)
(* NoError in the order of the code.                                       *)

First(ks) == CHOOSE k \in ks : \A j \in ks : k <= j

FirstReason(reasons) ==
  LET failed == {k \in DOMAIN reasons : reasons[k] # NoError}
  IN  IF failed = {} THEN NoError ELSE reasons[First(failed)]

FailIf(condition, reason) == IF condition THEN reason ELSE NoError

validDigest(d) == d \in Digests

(* Every accepted source kind fixes the prefix of the reference and the    *)
(* immutable identity that must follow it.                                 *)
SourceShape ==
  [GITHUB_RUN      |-> <<"run:", "uint64">>,
   GITHUB_ARTIFACT |-> <<"artifact:", "uint64">>,
   GIT_COMMIT      |-> <<"commit:", "hex40">>,
   CALLER_INPUT    |-> <<"caller:", "digest">>]

validSource(kind, reference) ==
  /\ kind \in DOMAIN SourceShape
  /\ reference = SourceShape[kind]

(* Slip: tuples compared without their order.                              *)
equalTupleUnordered(left, right) ==
  /\ Len(left) = Len(right)
  /\ {left[k] : k \in DOMAIN left} = {right[k] : k \in DOMAIN right}

equalTuple(left, right) ==
  /\ Len(left) = Len(right)
  /\ \A k \in DOMAIN left : left[k] = right[k]

validateEvaluator(reference) == FirstReason(<<
  FailIf(\/ reference.id = NoId
         \/ ~reference.immutableTag
         \/ ~validDigest(reference.releaseDigest)
         \/ ~validDigest(reference.observedReleaseDigest),
         "INVALID_IMMUTABLE_EVALUATOR_REFERENCE"),
  FailIf(reference.releaseDigest # reference.observedReleaseDigest,
         "EVALUATOR_DIGEST_MISMATCH")>>)

(* Contract, authority chain, authority request and evaluator, all of them *)
(* checked, in this order.                                                 *)
headerReason(header) == FirstReason(<<
  FailIf(~header.contract, "INVALID_INPUT_CONTRACT"),
  header.metaError,
  FailIf(header.escalates, "AUTHORITY_ESCALATION_REFUTED"),
  validateEvaluator(header.evaluator)>>)

(* Slip: the evaluator of the claim may be the evaluator that observes it. *)
validateClaimAnyEvaluator(claim, evaluator) == FirstReason(<<
  FailIf(\/ ~claim.bound \/ claim.exactTuple = <<>> \/ claim.evaluatorID = NoId
         \/ ~validDigest(claim.evaluatorDigest), "INVALID_CLAIM_EXACT_BINDING"),
  FailIf(\E a \in claim.selfAttestation : ~a.decided, "INVALID_SELF_ATTESTATION")>>)

validateClaim(claim, evaluator) == FirstReason(<<
  FailIf(\/ ~claim.bound
         \/ claim.exactTuple = <<>>
         \/ claim.evaluatorID = NoId
         \/ ~validDigest(claim.evaluatorDigest),
         "INVALID_CLAIM_EXACT_BINDING"),
  FailIf(\/ claim.evaluatorID = evaluator.id
         \/ claim.evaluatorDigest = evaluator.releaseDigest,
         "CLAIM_EVALUATOR_IDENTITY_COLLISION"),
  FailIf(\E a \in claim.selfAttestation : ~a.decided,
         "INVALID_SELF_ATTESTATION")>>)

(* Slip: what was observed is not compared with what was declared.         *)
validateEvidenceUncompared(evidence, evaluator) == FirstReason(<<
  FailIf(\/ evidence.id = NoId \/ evidence.claimID = NoId
         \/ ~validSource(evidence.sourceKind, evidence.sourceRef)
         \/ ~validDigest(evidence.digest) \/ ~validDigest(evidence.observedDigest)
         \/ "" \in {evidence.availability, evidence.freshness, evidence.observation},
         "INVALID_EVIDENCE_EXACT_BINDING"),
  FailIf(evidence.evaluatorDigest # evaluator.releaseDigest,
         "EVALUATOR_EVIDENCE_DIGEST_MISMATCH")>>)

validateEvidence(evidence, evaluator) == FirstReason(<<
  FailIf(\/ evidence.id = NoId \/ evidence.claimID = NoId
         \/ ~validSource(evidence.sourceKind, evidence.sourceRef)
         \/ ~validDigest(evidence.evaluatorDigest)
         \/ ~validDigest(evidence.digest) \/ ~validDigest(evidence.observedDigest)
         \/ "" \in {evidence.availability, evidence.freshness, evidence.observation},
         "INVALID_EVIDENCE_EXACT_BINDING"),
  FailIf(evidence.evaluatorDigest # evaluator.releaseDigest,
         "EVALUATOR_EVIDENCE_DIGEST_MISMATCH"),
  FailIf(evidence.digest # evidence.observedDigest, "EVIDENCE_DIGEST_MISMATCH"),
  FailIf(evidence.availability \notin {"AVAILABLE", "MISSING", "BLOCKED"},
         "INVALID_EVIDENCE_AVAILABILITY"),
  FailIf(evidence.freshness \notin {"CURRENT", "STALE", "UNKNOWN"},
         "INVALID_EVIDENCE_FRESHNESS"),
  FailIf(evidence.observation \notin {"SUPPORTS", "CONTRADICTS", "UNKNOWN"},
         "INVALID_EVIDENCE_OBSERVATION")>>)

-----------------------------------------------------------------------------
(* observeClaim: what the evidence bound to a claim says of it.  The scan  *)
(* sorts an item into the first class it fits and returns at the first     *)
(* decisive one.                                                           *)

Blocked(e) == e.availability = "BLOCKED"

Stale(e) == ~Blocked(e) /\ e.freshness = "STALE"

Ambiguous(e) ==
  /\ ~Blocked(e) /\ ~Stale(e)
  /\ \/ e.observation = "UNKNOWN"
     \/ e.availability = "MISSING"
     \/ e.freshness = "UNKNOWN"

Decisive(claim, e) ==
  /\ ~Blocked(e) /\ ~Stale(e) /\ ~Ambiguous(e)
  /\ equalTuple(e.exactTuple, claim.exactTuple)
  /\ e.observation \in {"CONTRADICTS", "SUPPORTS"}

(* A finding: the state of the claim, the reason of its transition and the *)
(* evidence cited, or the unknown record of a claim that keeps its state.  *)
Settled(state, reason, evidenceID) ==
  [state |-> state, reason |-> reason, cites |-> {evidenceID}, unknown |-> {}]

unknownRecord(reason, class, kind, id) ==
  [reason |-> reason, unknownClass |-> class, blockedBy |-> <<kind, id>>]

(* Slip: the state of the claim taken for the decision.                    *)
UnsettledAsUnknown(unknown) ==
  [state |-> DecisionUnknown, reason |-> NoError, cites |-> {}, unknown |-> {unknown}]

Unsettled(unknown) ==
  [state |-> StateUnverified, reason |-> NoError, cites |-> {},
   unknown |-> {unknown}]

observeClaim(claim, evidence) ==
  LET decisive  == {k \in DOMAIN evidence : Decisive(claim, evidence[k])}
      blocked   == {k \in DOMAIN evidence : Blocked(evidence[k])}
      stale     == {k \in DOMAIN evidence : Stale(evidence[k])}
      ambiguous == {k \in DOMAIN evidence : Ambiguous(evidence[k])}
      item(ks)  == evidence[First(ks)]
  IN  IF decisive # {} THEN
        IF item(decisive).observation = "CONTRADICTS"
        THEN Settled(StateRefuted, "EXPLICIT_CONTRADICTION", item(decisive).id)
        ELSE Settled(StateSupported, "EXACT_EVIDENCE_MATCH", item(decisive).id)
      ELSE Unsettled(
        CASE evidence = <<>> ->
               unknownRecord("CLAIM_EVIDENCE_MISSING", "DIRECT_MISSING",
                             "claim", claim.id)
          [] evidence # <<>> /\ blocked # {} ->
               unknownRecord("EVIDENCE_DEPENDENCY_BLOCKED", "DEPENDENCY_BLOCKED",
                             "evidence", item(blocked).id)
          [] evidence # <<>> /\ blocked = {} /\ stale # {} ->
               unknownRecord("EVIDENCE_STALE", "STALE",
                             "evidence", item(stale).id)
          [] evidence # <<>> /\ blocked = {} /\ stale = {} /\ ambiguous # {} ->
               unknownRecord("EVIDENCE_OBSERVATION_UNKNOWN", "AMBIGUOUS",
                             "evidence", item(ambiguous).id)
          [] OTHER ->
               unknownRecord("EVIDENCE_TUPLE_AMBIGUOUS", "AMBIGUOUS",
                             "claim", claim.id))

(* Slips: one record per reason; the latest record of a blocker.           *)
addUnknownByReason(records, unknown) ==
  IF \E k \in DOMAIN records : records[k].reason = unknown.reason
  THEN records
  ELSE Append(records, unknown)

addUnknownLatest(records, unknown) ==
  LET same == {k \in DOMAIN records : records[k].blockedBy = unknown.blockedBy}
  IN  IF same # {} THEN [records EXCEPT ![First(same)] = unknown]
      ELSE Append(records, unknown)

(* addUnknown: a record with the same reason and blocker is not repeated.  *)
addUnknown(records, unknown) ==
  IF \E k \in DOMAIN records : /\ records[k].reason = unknown.reason
                               /\ records[k].blockedBy = unknown.blockedBy
  THEN records
  ELSE Append(records, unknown)

-----------------------------------------------------------------------------
(* The report.                                                             *)

allSupported(states) ==
  /\ states # <<>>
  /\ \A k \in DOMAIN states : states[k].currentState = StateSupported

(* Slip: UNKNOWN before REFUTED.                                           *)
resolveDecisionUnknownFirst(refuted, unknownCount, supported) ==
  IF unknownCount > 0 THEN DecisionUnknown
  ELSE IF refuted THEN DecisionRefuted
  ELSE IF ~supported THEN DecisionUnknown
  ELSE DecisionClosed

resolveDecision(refuted, unknownCount, supported) ==
  IF refuted THEN DecisionRefuted
  ELSE IF unknownCount > 0 \/ ~supported THEN DecisionUnknown
  ELSE DecisionClosed

hasGlobalRefutation(refuted, reason) == refuted /\ reason # NoError

-----------------------------------------------------------------------------
(* The call.                                                               *)

VARIABLES
  pc,               \* the phase of Observe
  input,            \* the arguments of the call
  index,            \* the next element of the loop of this phase
  claims,           \* the records of claims.ndjson, in order
  claimByID,        \* the keys of the map of admitted claims
  evidenceByClaim,  \* the evidence bound to every claim id, in order
  hasRefuted,       \* some refutation was added ...
  refutedReason,    \* ... and the reason of the first one
  authorityRefuted, \* the two as they were before the first claim was judged
  authorityReason,
  transitions,      \* the records of transitions.ndjson, in order
  states,           \* the claim states of the report, in order
  unknowns,         \* the UNKNOWN records of the report
  decision,         \* the decision of the report
  reason            \* the reason of the report

loading == <<claims, claimByID, evidenceByClaim>>
refutation == <<hasRefuted, refutedReason>>
authority == <<authorityRefuted, authorityReason>>
judging == <<transitions, states, unknowns>>
report == <<decision, reason>>

vars == <<pc, input, index, loading, refutation, authority, judging, report>>

Init ==
  /\ pc = "decode"
  /\ input \in Inputs
  /\ index = 1
  /\ claims = <<>>
  /\ claimByID = {}
  /\ evidenceByClaim = [id \in ClaimIds \cup {NoId} |-> <<>>]
  /\ hasRefuted = FALSE
  /\ refutedReason = NoError
  /\ authorityRefuted = FALSE
  /\ authorityReason = NoError
  /\ transitions = <<>>
  /\ states = <<>>
  /\ unknowns = <<>>
  /\ decision = Pending
  /\ reason = NoError

(* Slip: the latest reason wins.                                           *)
addRefutationLatest(r) ==
  /\ hasRefuted' = (hasRefuted \/ r # NoError)
  /\ refutedReason' = IF r = NoError THEN refutedReason ELSE r

(* Called with NoError where the code does not call it: only the first     *)
(* reason is kept.                                                         *)
addRefutation(r) ==
  /\ hasRefuted' = (hasRefuted \/ r # NoError)
  /\ refutedReason' = IF hasRefuted THEN refutedReason ELSE r

(* Bytes that do not decode end the call with the default decision.        *)
RejectMalformed ==
  /\ pc = "decode"
  /\ ~input.header.decodes
  /\ pc' = "done"
  /\ decision' = DecisionRefuted
  /\ reason' = "MALFORMED_INPUT"
  /\ UNCHANGED <<input, index, loading, refutation, authority, judging>>

CheckHeader ==
  /\ pc = "decode"
  /\ input.header.decodes
  /\ addRefutation(headerReason(input.header))
  /\ pc' = "claims"
  /\ UNCHANGED <<input, index, loading, authority, judging, report>>

(* Slip: a claim that is not admitted is not recorded either.              *)
AdmitClaimUnrecorded ==
  /\ pc = "claims"
  /\ index <= Len(input.claims)
  /\ LET claim == input.claims[index]
         taken == claim.id = NoId \/ claim.id \in claimByID
     IN  /\ claims' = IF taken THEN claims
                      ELSE Append(claims, [claimID |-> claim.id,
                                           exactTuple |-> claim.exactTuple,
                                           state |-> StateUnverified])
         /\ claimByID' = IF taken THEN claimByID ELSE claimByID \cup {claim.id}
         /\ addRefutation(IF taken THEN "INVALID_OR_DUPLICATE_CLAIM"
                                   ELSE validateClaim(claim, input.header.evaluator))
  /\ index' = index + 1
  /\ UNCHANGED <<pc, input, evidenceByClaim, authority, judging, report>>

(* One iteration of the loop over the claims: the original is recorded     *)
(* whatever the checks say; an id that is empty or taken is not admitted.  *)
AdmitClaim ==
  /\ pc = "claims"
  /\ index <= Len(input.claims)
  /\ LET claim == input.claims[index]
         taken == claim.id = NoId \/ claim.id \in claimByID
     IN  /\ claims' = Append(claims, [claimID |-> claim.id,
                                      exactTuple |-> claim.exactTuple,
                                      state |-> StateUnverified])
         /\ claimByID' = IF taken THEN claimByID ELSE claimByID \cup {claim.id}
         /\ addRefutation(IF taken THEN "INVALID_OR_DUPLICATE_CLAIM"
                                   ELSE validateClaim(claim, input.header.evaluator))
  /\ index' = index + 1
  /\ UNCHANGED <<pc, input, evidenceByClaim, authority, judging, report>>

(* Slip: an input without claims is let through.                           *)
ClaimsAdmittedNone ==
  /\ pc = "claims"
  /\ index > Len(input.claims)
  /\ pc' = "evidence"
  /\ index' = 1
  /\ UNCHANGED <<input, loading, refutation, authority, judging, report>>

ClaimsAdmitted ==
  /\ pc = "claims"
  /\ index > Len(input.claims)
  /\ addRefutation(FailIf(input.claims = <<>>, "CLAIMS_REQUIRED"))
  /\ pc' = "evidence"
  /\ index' = 1
  /\ UNCHANGED <<input, loading, authority, judging, report>>

(* One iteration of the loop over the evidence: an invalid item is still   *)
(* bound to its claim, an item of no admitted claim is not.                *)
AdmitEvidence ==
  /\ pc = "evidence"
  /\ index <= Len(input.evidence)
  /\ LET item    == input.evidence[index]
         unbound == item.claimID = NoId \/ item.claimID \notin claimByID
     IN  /\ addRefutation(FirstReason(<<
              validateEvidence(item, input.header.evaluator),
              FailIf(unbound, "EVIDENCE_CLAIM_BINDING_MISMATCH")>>))
         /\ evidenceByClaim' =
              IF unbound THEN evidenceByClaim
              ELSE [evidenceByClaim EXCEPT ![item.claimID] = Append(@, item)]
  /\ index' = index + 1
  /\ UNCHANGED <<pc, input, claims, claimByID, authority, judging, report>>

(* What was refuted so far is the authority's; what follows is a claim's.  *)
EvidenceAdmitted ==
  /\ pc = "evidence"
  /\ index > Len(input.evidence)
  /\ authorityRefuted' = hasRefuted
  /\ authorityReason' = refutedReason
  /\ pc' = "judge"
  /\ index' = 1
  /\ UNCHANGED <<input, loading, refutation, judging, report>>

(* A self attestation by the evaluator of the claim itself.                *)
SelfAttests(claim) ==
  \E a \in claim.selfAttestation :
    a.evaluatorID = claim.evaluatorID \/ a.releaseDigest = claim.evaluatorDigest

(* The tail of an iteration of the judging loop: the state of the claim,   *)
(* and its transition when it leaves UNVERIFIED.                           *)
Conclude(claim, state, why, cites) ==
  /\ transitions' = IF state = StateUnverified THEN transitions
                    ELSE Append(transitions, [claimID |-> claim.id, to |-> state,
                                              cites |-> cites, reason |-> why])
  /\ states' = Append(states,
       [claimID |-> claim.id, currentState |-> state,
        transitionCount |-> IF state = StateUnverified THEN 0 ELSE 1])
  /\ index' = index + 1
  /\ UNCHANGED <<pc, input, loading, authority, report>>

RefuteSelfAttested ==
  /\ pc = "judge"
  /\ index <= Len(input.claims)
  /\ SelfAttests(input.claims[index])
  /\ Conclude(input.claims[index], StateRefuted, "SELF_ATTESTATION_REFUTED", {})
  /\ addRefutation("SELF_ATTESTATION_REFUTED")
  /\ UNCHANGED unknowns

(* Slip: the refutation as it is now, not as it was before judging.        *)
RefuteByAuthorityLive ==
  /\ pc = "judge"
  /\ index <= Len(input.claims)
  /\ ~SelfAttests(input.claims[index])
  /\ hasGlobalRefutation(hasRefuted, refutedReason)
  /\ Conclude(input.claims[index], StateRefuted, refutedReason, {})
  /\ UNCHANGED <<refutation, unknowns>>

RefuteByAuthority ==
  /\ pc = "judge"
  /\ index <= Len(input.claims)
  /\ ~SelfAttests(input.claims[index])
  /\ hasGlobalRefutation(authorityRefuted, authorityReason)
  /\ Conclude(input.claims[index], StateRefuted, authorityReason, {})
  /\ UNCHANGED <<refutation, unknowns>>

(* Slip: a contradicted claim does not refute the report.                  *)
JudgeByEvidenceQuietly ==
  /\ pc = "judge"
  /\ index <= Len(input.claims)
  /\ ~SelfAttests(input.claims[index])
  /\ ~hasGlobalRefutation(authorityRefuted, authorityReason)
  /\ LET claim   == input.claims[index]
         finding == observeClaim(claim, evidenceByClaim[claim.id])
     IN  /\ Conclude(claim, finding.state, finding.reason, finding.cites)
         /\ \/ finding.unknown = {} /\ UNCHANGED unknowns
            \/ \E u \in finding.unknown : unknowns' = addUnknown(unknowns, u)
  /\ UNCHANGED refutation

JudgeByEvidence ==
  /\ pc = "judge"
  /\ index <= Len(input.claims)
  /\ ~SelfAttests(input.claims[index])
  /\ ~hasGlobalRefutation(authorityRefuted, authorityReason)
  /\ LET claim   == input.claims[index]
         finding == observeClaim(claim, evidenceByClaim[claim.id])
     IN  /\ Conclude(claim, finding.state, finding.reason, finding.cites)
         /\ addRefutation(FailIf(finding.state = StateRefuted, finding.reason))
         /\ \/ finding.unknown = {} /\ UNCHANGED unknowns
            \/ \E u \in finding.unknown : unknowns' = addUnknown(unknowns, u)

Resolve ==
  /\ pc = "judge"
  /\ index > Len(input.claims)
  /\ LET outcome == resolveDecision(hasRefuted, Len(unknowns), allSupported(states))
     IN  /\ decision' = outcome
         /\ reason' = CASE outcome = DecisionRefuted -> refutedReason
                        [] outcome = DecisionClosed  -> "ALL_CLAIMS_SUPPORTED"
                        [] OTHER -> IF unknowns # <<>> THEN unknowns[1].reason
                                    ELSE "CLAIMS_REMAIN_UNVERIFIED"
  /\ pc' = "done"
  /\ UNCHANGED <<input, index, loading, refutation, authority, judging>>

Returned == pc = "done" /\ UNCHANGED vars

Next ==
  \/ RejectMalformed \/ CheckHeader
  \/ AdmitClaim \/ ClaimsAdmitted
  \/ AdmitEvidence \/ EvidenceAdmitted
  \/ RefuteSelfAttested \/ RefuteByAuthority \/ JudgeByEvidence
  \/ Resolve \/ Returned

Spec == Init /\ [][Next]_vars

-----------------------------------------------------------------------------
(* Properties.                                                             *)

(* The reasons: of a refuted authority, of a transition that a claim earns *)
(* for itself, of an UNKNOWN record.                                       *)
AuthorityReasons ==
  MetaErrors \cup
  {"INVALID_INPUT_CONTRACT", "AUTHORITY_ESCALATION_REFUTED",
   "INVALID_IMMUTABLE_EVALUATOR_REFERENCE", "EVALUATOR_DIGEST_MISMATCH",
   "INVALID_OR_DUPLICATE_CLAIM", "INVALID_CLAIM_EXACT_BINDING",
   "CLAIM_EVALUATOR_IDENTITY_COLLISION", "INVALID_SELF_ATTESTATION",
   "CLAIMS_REQUIRED", "INVALID_EVIDENCE_EXACT_BINDING",
   "EVALUATOR_EVIDENCE_DIGEST_MISMATCH", "EVIDENCE_DIGEST_MISMATCH",
   "INVALID_EVIDENCE_AVAILABILITY", "INVALID_EVIDENCE_FRESHNESS",
   "INVALID_EVIDENCE_OBSERVATION", "EVIDENCE_CLAIM_BINDING_MISMATCH"}

RefutationReasons ==
  AuthorityReasons \cup {"SELF_ATTESTATION_REFUTED", "EXPLICIT_CONTRADICTION"}

UnknownReasons ==
  {"CLAIM_EVIDENCE_MISSING", "EVIDENCE_DEPENDENCY_BLOCKED", "EVIDENCE_STALE",
   "EVIDENCE_OBSERVATION_UNKNOWN", "EVIDENCE_TUPLE_AMBIGUOUS"}

ClaimRecord ==
  [claimID: ClaimIds \cup {NoId}, exactTuple: Seq(Parts), state: {StateUnverified}]

Transition ==
  [claimID: ClaimIds \cup {NoId}, to: {StateSupported, StateRefuted},
   cites: SUBSET (EvidenceIds \cup {NoId}),
   reason: RefutationReasons \cup {"EXACT_EVIDENCE_MATCH"}]

ClaimState ==
  [claimID: ClaimIds \cup {NoId}, currentState: ClaimStateNames,
   transitionCount: {0, 1}]

Unknown ==
  [reason: UnknownReasons,
   unknownClass: {"DIRECT_MISSING", "DEPENDENCY_BLOCKED", "STALE", "AMBIGUOUS"},
   blockedBy: {"claim", "evidence"} \X (ClaimIds \cup EvidenceIds \cup {NoId})]

(* Every variable holds a value of the Go type it stands for, and every    *)
(* reason is one of those that the code knows where it is given.           *)
TypeOK ==
  /\ pc \in {"decode", "claims", "evidence", "judge", "done"}
  /\ input \in Input
  /\ index \in Nat \ {0}
  /\ claims \in Seq(ClaimRecord)
  /\ claimByID \in SUBSET ClaimIds
  /\ evidenceByClaim \in [ClaimIds \cup {NoId} -> Seq(Evidence)]
  /\ hasRefuted \in BOOLEAN
  /\ refutedReason \in RefutationReasons \cup {NoError}
  /\ authorityRefuted \in BOOLEAN
  /\ authorityReason \in RefutationReasons \cup {NoError}
  /\ transitions \in Seq(Transition)
  /\ states \in Seq(ClaimState)
  /\ unknowns \in Seq(Unknown)
  /\ decision \in DecisionNames \cup {Pending}
  /\ reason \in RefutationReasons \cup UnknownReasons \cup
       {NoError, "MALFORMED_INPUT", "ALL_CLAIMS_SUPPORTED", "CLAIMS_REMAIN_UNVERIFIED"}

(* What the documents ask of an input, read off the input alone: an        *)
(* immutable evaluator, claims bound to another one, and evidence whose    *)
(* source, digests and states can be told.                                 *)
Immutable(evaluator) ==
  /\ evaluator.id \in EvaluatorIds /\ evaluator.immutableTag
  /\ evaluator.releaseDigest \in Digests
  /\ evaluator.observedReleaseDigest = evaluator.releaseDigest

WellBound(claim, evaluator) ==
  /\ claim.id \in ClaimIds /\ claim.bound /\ claim.exactTuple # <<>>
  /\ claim.evaluatorID \in EvaluatorIds \ {evaluator.id}
  /\ claim.evaluatorDigest \in Digests \ {evaluator.releaseDigest}
  /\ \A a \in claim.selfAttestation : a.decided

WellObserved(e, evaluator) ==
  /\ e.id \in EvidenceIds
  /\ \E kind \in DOMAIN SourceShape :
       e.sourceKind = kind /\ e.sourceRef = SourceShape[kind]
  /\ e.evaluatorDigest \in Digests /\ e.evaluatorDigest = evaluator.releaseDigest
  /\ e.digest \in Digests /\ e.observedDigest = e.digest
  /\ e.availability \in {"AVAILABLE", "MISSING", "BLOCKED"}
  /\ e.freshness \in {"CURRENT", "STALE", "UNKNOWN"}
  /\ e.observation \in {"SUPPORTS", "CONTRADICTS", "UNKNOWN"}

(* The authority is at fault when any of it does not hold.                 *)
AuthorityFault ==
  LET header == input.header
      cs     == input.claims
      es     == input.evidence
  IN  \/ ~header.contract \/ header.metaError # NoError \/ header.escalates
      \/ ~Immutable(header.evaluator)
      \/ cs = <<>>
      \/ \E j, k \in DOMAIN cs : j # k /\ cs[j].id = cs[k].id
      \/ \E k \in DOMAIN cs : ~WellBound(cs[k], header.evaluator)
      \/ \E k \in DOMAIN es :
           \/ ~WellObserved(es[k], header.evaluator)
           \/ es[k].claimID \notin {cs[j].id : j \in DOMAIN cs}

(* A current and available item of evidence on exactly the claimed tuple.  *)
Speaks(e, claim, observation) ==
  /\ e.claimID = claim.id
  /\ e.availability = "AVAILABLE" /\ e.freshness = "CURRENT"
  /\ e.exactTuple = claim.exactTuple
  /\ e.observation = observation

HasEvidence(claim, observation) ==
  \E k \in DOMAIN input.evidence : Speaks(input.evidence[k], claim, observation)

(* A decision CLOSED is earned: nothing about the authority is at fault,   *)
(* no claim attests itself, and every claim has evidence of its own, with  *)
(* the digests of the declared evaluator, that supports its exact tuple.   *)
ClosedIsEarned ==
  decision = DecisionClosed =>
    /\ ~AuthorityFault
    /\ \A k \in DOMAIN input.claims :
         /\ ~SelfAttests(input.claims[k])
         /\ HasEvidence(input.claims[k], "SUPPORTS")

(* A fault of the authority, found while loading in whatever order, has    *)
(* refuted every claim judged so far, the ones judged before it included;  *)
(* without one, a claim answers only for its own attestation and evidence  *)
(* and the refutation of one claim never refutes another.                  *)
FaultsAreContained ==
  pc \in {"judge", "done"} /\ input.header.decodes =>
    \A k \in DOMAIN states :
      LET claim == input.claims[k]
      IN  CASE states[k].currentState = StateRefuted ->
                 \/ AuthorityFault
                 \/ SelfAttests(claim)
                 \/ HasEvidence(claim, "CONTRADICTS")
            [] states[k].currentState = StateSupported ->
                 /\ ~AuthorityFault /\ ~SelfAttests(claim)
                 /\ HasEvidence(claim, "SUPPORTS")
            [] OTHER ->
                 /\ ~AuthorityFault /\ ~SelfAttests(claim)
                 /\ ~HasEvidence(claim, "SUPPORTS")
                 /\ ~HasEvidence(claim, "CONTRADICTS")

(* The three streams replay the claim history: following the transitions   *)
(* from the original UNVERIFIED record of every judged claim gives the     *)
(* state the report shows for it, also when claims share an identifier.    *)
ReplayAgrees ==
  \A k \in DOMAIN states :
    LET moves == {t \in DOMAIN transitions :
                    transitions[t].claimID = states[k].claimID}
    IN  /\ k \in DOMAIN claims /\ claims[k].claimID = states[k].claimID
        /\ moves = {} => states[k].currentState = claims[k].state
        /\ \A t \in moves : transitions[t].to = states[k].currentState

(* A record that names the claim of this id or an item of its evidence.    *)
Explains(record, id) ==
  \/ record.blockedBy = <<"claim", id>>
  \/ \E j \in DOMAIN input.evidence :
       /\ input.evidence[j].claimID = id
       /\ record.blockedBy = <<"evidence", input.evidence[j].id>>

(* Every judged claim that stays UNVERIFIED is explained by an UNKNOWN     *)
(* record that names it or an item of its own evidence, although records   *)
(* with the same reason and blocker are merged across claims.              *)
UnverifiedIsExplained ==
  \A k \in DOMAIN states :
    states[k].currentState = StateUnverified =>
      \E u \in DOMAIN unknowns : Explains(unknowns[u], states[k].claimID)

(* The decision follows the precedence REFUTED > UNKNOWN > CLOSED over the *)
(* states that the report publishes beside it, so a reader of the counts   *)
(* and a reader of the decision never disagree; only a fault of the        *)
(* authority refutes a report that has no refuted claim.                   *)
DecisionFollowsStates ==
  decision # Pending =>
    LET shown == {states[k].currentState : k \in DOMAIN states}
    IN  /\ StateRefuted \in shown => decision = DecisionRefuted
        /\ decision = DecisionRefuted /\ input.header.decodes =>
             StateRefuted \in shown \/ input.claims = <<>>
        /\ decision = DecisionUnknown <=>
             StateUnverified \in shown /\ StateRefuted \notin shown
        /\ decision = DecisionClosed <=> shown = {StateSupported}

(* The reason of the first fault of the authority, read off the input in   *)
(* the order in which it is loaded: the header, the claims, whether there  *)
(* are any, the evidence.  Whatever comes later does not count.            *)
ClaimReason(k) ==
  LET claim == input.claims[k]
  IN  IF claim.id = NoId \/ \E j \in 1..(k - 1) : input.claims[j].id = claim.id
      THEN "INVALID_OR_DUPLICATE_CLAIM"
      ELSE validateClaim(claim, input.header.evaluator)

EvidenceReason(k) ==
  LET item == input.evidence[k]
  IN  FirstReason(<<
        validateEvidence(item, input.header.evaluator),
        FailIf(\A j \in DOMAIN input.claims : input.claims[j].id # item.claimID,
               "EVIDENCE_CLAIM_BINDING_MISMATCH")>>)

FirstFault == FirstReason(<<
  headerReason(input.header),
  FirstReason([k \in DOMAIN input.claims |-> ClaimReason(k)]),
  FailIf(input.claims = <<>>, "CLAIMS_REQUIRED"),
  FirstReason([k \in DOMAIN input.evidence |-> EvidenceReason(k)])>>)

(* The reason that a claim refuted for itself is refuted for.              *)
OwnReason(claim) ==
  IF SelfAttests(claim) THEN "SELF_ATTESTATION_REFUTED" ELSE "EXPLICIT_CONTRADICTION"

InState(state) == {k \in DOMAIN states : states[k].currentState = state}

(* The reason of a report is that of the earliest cause of its decision.   *)
(* Of many faults of the authority it is the first in loading order; when  *)
(* there is none, it is what refuted the first refuted claim, be it a self *)
(* attestation or a contradiction; without either, it is the reason of a   *)
(* record that explains the first claim left UNVERIFIED, and the fallback  *)
(* CLAIMS_REMAIN_UNVERIFIED is never used.                                 *)
ReasonIsTheFirst ==
  decision # Pending =>
    /\ ~input.header.decodes => reason = "MALFORMED_INPUT"
    /\ input.header.decodes /\ AuthorityFault => reason = FirstFault
    /\ input.header.decodes /\ ~AuthorityFault =>
         CASE InState(StateRefuted) # {} ->
                reason = OwnReason(input.claims[First(InState(StateRefuted))])
           [] InState(StateRefuted) = {} /\ InState(StateUnverified) # {} ->
                /\ unknowns # <<>> /\ reason = unknowns[1].reason
                /\ Explains(unknowns[1],
                            input.claims[First(InState(StateUnverified))].id)
           [] OTHER -> reason = "ALL_CLAIMS_SUPPORTED"

(* The streams and the refutation only grow: no step rewrites a record or  *)
(* drops it, clears a refutation or replaces its reason.                   *)
IsExtension(new, old) == Len(new) >= Len(old) /\ SubSeq(new, 1, Len(old)) = old

AppendOnly ==
  [][/\ IsExtension(claims', claims)
     /\ IsExtension(transitions', transitions)
     /\ IsExtension(states', states)
     /\ IsExtension(unknowns', unknowns)
     /\ hasRefuted => hasRefuted' /\ refutedReason' = refutedReason]_vars

-----------------------------------------------------------------------------
(* Observe implements the ledger of ClaimLedger.                           *)

ledgerOfCall ==
  [k \in 1..Len(claims) |->
     IF k <= Len(states) THEN states[k].currentState ELSE StateUnverified]

faultOfCall ==
  IF pc \in {"judge", "done"} THEN authorityRefuted ELSE hasRefuted

phaseOfCall ==
  CASE pc = "judge" -> "judging"
    [] pc = "done"  -> "published"
    [] OTHER        -> "registering"

Ledger == INSTANCE ClaimLedger
  WITH ledger <- ledgerOfCall, fault <- faultOfCall,
       phase <- phaseOfCall, verdict <- decision

(* Every step of Observe is one that the ledger allows: a claim enters as  *)
(* UNVERIFIED and leaves that state at most once, no claim survives a      *)
(* fault of the authority, and the decision is the verdict on the states   *)
(* published beside it.                                                    *)
ImplementsLedger == Ledger!Spec

-----------------------------------------------------------------------------
(* What the documents promise and the code does not keep.                  *)

(* README.md:21-23: a matching contradiction appends REFUTED, and REFUTED  *)
(* precedes every other decision.  The scan of observeClaim returns at the *)
(* first decisive item, so a contradiction behind a support is not seen.   *)
ContradictionRefutes ==
  decision # Pending /\ input.header.decodes =>
    \A k \in DOMAIN input.claims :
      HasEvidence(input.claims[k], "CONTRADICTS") => decision = DecisionRefuted
=============================================================================
