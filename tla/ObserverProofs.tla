---------------------------- MODULE ObserverProofs ----------------------------
(***************************************************************************)
(* Proofs about Observer for every set of inputs: every number of claims,  *)
(* every number of items of evidence, in every order.  First the types;    *)
(* then that a call of Observe keeps its flags, its records and its report *)
(* together, that its decision follows its states, that it only ever adds  *)
(* to its streams and that it implements the claim ledger.                 *)
(***************************************************************************)
EXTENDS Observer, TLAPS, SequenceTheorems, WellFoundedInduction

-----------------------------------------------------------------------------
(* The helpers.                                                            *)

(* A non-empty set of naturals has a first element: First is what the      *)
(* loops of the code stop at.                                              *)
LEMMA FirstIsLeast ==
  ASSUME NEW ks \in SUBSET Nat, ks # {}
  PROVE  /\ First(ks) \in ks
         /\ \A j \in ks : First(ks) <= j
<1> DEFINE less == {p \in Nat \X Nat : p[1] < p[2]}
<1>1. IsWellFoundedOn(less, Nat)
  BY NatLessThanWellFounded DEF OpToRel
<1>2. PICK x \in ks : \A y \in ks : <<y, x>> \notin less
  <2> HIDE DEF less
  <2> QED BY <1>1, WFMin
<1>3. ASSUME NEW y \in ks PROVE x <= y
  <2>1. x \in Nat /\ y \in Nat
    OBVIOUS
  <2>2. <<y, x>> \notin less
    BY <1>2
  <2> QED BY <2>1, <2>2 DEF less
<1> QED BY <1>2, <1>3 DEF First

(* A chain of early returns yields an error exactly when one of its checks *)
(* fails, and the error is that of a check.                                *)
LEMMA FirstReasonType ==
  ASSUME NEW S, NoError \in S, NEW reasons \in Seq(S)
  PROVE  /\ FirstReason(reasons) \in S
         /\ FirstReason(reasons) = NoError
              <=> \A k \in DOMAIN reasons : reasons[k] = NoError
<1> DEFINE failed == {k \in DOMAIN reasons : reasons[k] # NoError}
<1>1. DOMAIN reasons = 1..Len(reasons) /\ Len(reasons) \in Nat
  BY LenProperties
<1>2. failed \in SUBSET Nat /\ failed \subseteq 1..Len(reasons)
  BY <1>1
<1>3. failed = {} <=> \A k \in DOMAIN reasons : reasons[k] = NoError
  OBVIOUS
<1>4. FirstReason(reasons) = IF failed = {} THEN NoError ELSE reasons[First(failed)]
  BY DEF FirstReason
<1>5. \A k \in failed : reasons[k] \in S /\ reasons[k] # NoError
  BY <1>2, ElementOfSeq
<1> HIDE DEF failed
<1>6. CASE failed = {}
  BY <1>3, <1>4, <1>6
<1>7. CASE failed # {}
  <2>1. First(failed) \in failed
    BY <1>2, <1>7, FirstIsLeast
  <2>2. FirstReason(reasons) = reasons[First(failed)]
    BY <1>4, <1>7
  <2> QED BY <1>3, <1>5, <1>7, <2>1, <2>2
<1> QED BY <1>6, <1>7

(* The same for the chains of two, three, four and six checks of the code. *)
LEMMA FirstOfTwo ==
  ASSUME NEW S, NoError \in S, NEW a \in S, NEW b \in S
  PROVE  /\ FirstReason(<<a, b>>) \in S
         /\ FirstReason(<<a, b>>) = NoError
              <=> (a = NoError /\ b = NoError)
<1>1. <<a, b>> \in Seq(S) /\ DOMAIN <<a, b>> = {1, 2}
  OBVIOUS
<1>2. FirstReason(<<a, b>>) \in S
  BY <1>1, FirstReasonType
<1>3. FirstReason(<<a, b>>) = NoError
        <=> \A k \in {1, 2} : <<a, b>>[k] = NoError
  BY <1>1, FirstReasonType
<1> QED BY <1>2, <1>3

LEMMA FirstOfThree ==
  ASSUME NEW S, NoError \in S, NEW a \in S, NEW b \in S, NEW c \in S
  PROVE  /\ FirstReason(<<a, b, c>>) \in S
         /\ FirstReason(<<a, b, c>>) = NoError
              <=> (a = NoError /\ b = NoError /\ c = NoError)
<1>1. <<a, b, c>> \in Seq(S) /\ DOMAIN <<a, b, c>> = {1, 2, 3}
  OBVIOUS
<1>2. FirstReason(<<a, b, c>>) \in S
  BY <1>1, FirstReasonType
<1>3. FirstReason(<<a, b, c>>) = NoError
        <=> \A k \in {1, 2, 3} : <<a, b, c>>[k] = NoError
  BY <1>1, FirstReasonType
<1> QED BY <1>2, <1>3

LEMMA FirstOfFour ==
  ASSUME NEW S, NoError \in S, NEW a \in S, NEW b \in S, NEW c \in S, NEW d \in S
  PROVE  /\ FirstReason(<<a, b, c, d>>) \in S
         /\ FirstReason(<<a, b, c, d>>) = NoError
              <=> (a = NoError /\ b = NoError /\ c = NoError /\ d = NoError)
<1>1. <<a, b, c, d>> \in Seq(S) /\ DOMAIN <<a, b, c, d>> = {1, 2, 3, 4}
  OBVIOUS
<1>2. FirstReason(<<a, b, c, d>>) \in S
  BY <1>1, FirstReasonType
<1>3. FirstReason(<<a, b, c, d>>) = NoError
        <=> \A k \in {1, 2, 3, 4} : <<a, b, c, d>>[k] = NoError
  BY <1>1, FirstReasonType
<1> QED BY <1>2, <1>3

LEMMA FirstOfSix ==
  ASSUME NEW S, NoError \in S, NEW a \in S, NEW b \in S, NEW c \in S, NEW d \in S, NEW e \in S, NEW f \in S
  PROVE  /\ FirstReason(<<a, b, c, d, e, f>>) \in S
         /\ FirstReason(<<a, b, c, d, e, f>>) = NoError
              <=> (a = NoError /\ b = NoError /\ c = NoError /\ d = NoError /\ e = NoError /\ f = NoError)
<1>1. <<a, b, c, d, e, f>> \in Seq(S) /\ DOMAIN <<a, b, c, d, e, f>> = {1, 2, 3, 4, 5, 6}
  OBVIOUS
<1>2. FirstReason(<<a, b, c, d, e, f>>) \in S
  BY <1>1, FirstReasonType
<1>3. FirstReason(<<a, b, c, d, e, f>>) = NoError
        <=> \A k \in {1, 2, 3, 4, 5, 6} : <<a, b, c, d, e, f>>[k] = NoError
  BY <1>1, FirstReasonType
<1> QED BY <1>2, <1>3

(* What the validators answer, and that they accept exactly the references *)
(* the documents ask for.                                                  *)
Answers == AuthorityReasons \cup {NoError}

LEMMA EvaluatorCheck ==
  ASSUME NEW r \in EvaluatorReference
  PROVE  /\ validateEvaluator(r) \in Answers
         /\ validateEvaluator(r) = NoError <=> Immutable(r)
<1> DEFINE
      incomplete == \/ r.id = NoId \/ ~r.immutableTag
                    \/ ~validDigest(r.releaseDigest)
                    \/ ~validDigest(r.observedReleaseDigest)
      differs    == r.releaseDigest # r.observedReleaseDigest
      a == FailIf(incomplete, "INVALID_IMMUTABLE_EVALUATOR_REFERENCE")
      b == FailIf(differs, "EVALUATOR_DIGEST_MISMATCH")
<1>1. NoError \in Answers
  BY DEF Answers
<1>2. /\ a \in Answers /\ (a = NoError <=> ~incomplete)
      /\ b \in Answers /\ (b = NoError <=> ~differs)
  BY DEF FailIf, Answers, AuthorityReasons, NoError
<1>3. validateEvaluator(r) = FirstReason(<<a, b>>)
  BY DEF validateEvaluator
<1>4. Immutable(r) <=> ~incomplete /\ ~differs
  BY InputAssumption DEF Immutable, EvaluatorReference, validDigest
<1> HIDE DEF a, b, incomplete, differs
<1>5. /\ FirstReason(<<a, b>>) \in Answers
      /\ FirstReason(<<a, b>>) = NoError
           <=> (a = NoError /\ b = NoError)
  BY <1>1, <1>2, FirstOfTwo
<1> QED BY <1>2, <1>3, <1>4, <1>5

LEMMA HeaderCheck ==
  ASSUME NEW header \in Header
  PROVE  /\ headerReason(header) \in Answers
         /\ headerReason(header) = NoError
              <=> /\ header.contract /\ header.metaError = NoError /\ ~header.escalates
                  /\ Immutable(header.evaluator)
<1> DEFINE a == FailIf(~header.contract, "INVALID_INPUT_CONTRACT")
           b == header.metaError
           c == FailIf(header.escalates, "AUTHORITY_ESCALATION_REFUTED")
           d == validateEvaluator(header.evaluator)
<1>1. /\ header.evaluator \in EvaluatorReference
      /\ b \in Answers /\ NoError \in Answers
  BY DEF Header, Answers, AuthorityReasons
<1>2. /\ a \in Answers /\ (a = NoError <=> header.contract)
      /\ c \in Answers /\ (c = NoError <=> ~header.escalates)
  BY DEF FailIf, Answers, AuthorityReasons, NoError
<1>3. d \in Answers /\ (d = NoError <=> Immutable(header.evaluator))
  BY <1>1, EvaluatorCheck
<1>4. headerReason(header) = FirstReason(<<a, b, c, d>>)
  BY DEF headerReason
<1>5. b = NoError <=> header.metaError = NoError
  OBVIOUS
<1> HIDE DEF a, b, c, d
<1>6. /\ FirstReason(<<a, b, c, d>>) \in Answers
      /\ FirstReason(<<a, b, c, d>>) = NoError
           <=> (a = NoError /\ b = NoError /\ c = NoError /\ d = NoError)
  BY <1>1, <1>2, <1>3, FirstOfFour
<1> QED BY <1>2, <1>3, <1>4, <1>5, <1>6

LEMMA ClaimCheck ==
  ASSUME NEW claim \in Claim, NEW evaluator \in EvaluatorReference
  PROVE  /\ validateClaim(claim, evaluator) \in Answers
         /\ claim.id # NoId /\ validateClaim(claim, evaluator) = NoError
              <=> WellBound(claim, evaluator)
<1> DEFINE
      unbound  == \/ ~claim.bound \/ claim.exactTuple = <<>>
                  \/ claim.evaluatorID = NoId \/ ~validDigest(claim.evaluatorDigest)
      collides == \/ claim.evaluatorID = evaluator.id
                  \/ claim.evaluatorDigest = evaluator.releaseDigest
      silent   == \E x \in claim.selfAttestation : ~x.decided
      a == FailIf(unbound, "INVALID_CLAIM_EXACT_BINDING")
      b == FailIf(collides, "CLAIM_EVALUATOR_IDENTITY_COLLISION")
      c == FailIf(silent, "INVALID_SELF_ATTESTATION")
<1>1. NoError \in Answers
  BY DEF Answers
<1>2. /\ a \in Answers /\ (a = NoError <=> ~unbound)
      /\ b \in Answers /\ (b = NoError <=> ~collides)
      /\ c \in Answers /\ (c = NoError <=> ~silent)
  BY DEF FailIf, Answers, AuthorityReasons, NoError
<1>3. validateClaim(claim, evaluator) = FirstReason(<<a, b, c>>)
  BY DEF validateClaim
<1>4. WellBound(claim, evaluator)
        <=> claim.id # NoId /\ ~unbound /\ ~collides /\ ~silent
  BY InputAssumption DEF WellBound, Claim, validDigest
<1> HIDE DEF a, b, c, unbound, collides, silent
<1>5. /\ FirstReason(<<a, b, c>>) \in Answers
      /\ FirstReason(<<a, b, c>>) = NoError
           <=> (a = NoError /\ b = NoError /\ c = NoError)
  BY <1>1, <1>2, FirstOfThree
<1> QED BY <1>2, <1>3, <1>4, <1>5

LEMMA EvidenceCheck ==
  ASSUME NEW item \in Evidence, NEW evaluator \in EvaluatorReference
  PROVE  /\ validateEvidence(item, evaluator) \in Answers
         /\ validateEvidence(item, evaluator) = NoError
              <=> WellObserved(item, evaluator) /\ item.claimID # NoId
<1> DEFINE
      incomplete == \/ item.id = NoId \/ item.claimID = NoId
                    \/ ~validSource(item.sourceKind, item.sourceRef)
                    \/ ~validDigest(item.evaluatorDigest)
                    \/ ~validDigest(item.digest) \/ ~validDigest(item.observedDigest)
                    \/ "" \in {item.availability, item.freshness, item.observation}
      foreign    == item.evaluatorDigest # evaluator.releaseDigest
      differs    == item.digest # item.observedDigest
      noAvail    == item.availability \notin {"AVAILABLE", "MISSING", "BLOCKED"}
      noFresh    == item.freshness \notin {"CURRENT", "STALE", "UNKNOWN"}
      noObserved == item.observation \notin {"SUPPORTS", "CONTRADICTS", "UNKNOWN"}
      a == FailIf(incomplete, "INVALID_EVIDENCE_EXACT_BINDING")
      b == FailIf(foreign, "EVALUATOR_EVIDENCE_DIGEST_MISMATCH")
      c == FailIf(differs, "EVIDENCE_DIGEST_MISMATCH")
      d == FailIf(noAvail, "INVALID_EVIDENCE_AVAILABILITY")
      e == FailIf(noFresh, "INVALID_EVIDENCE_FRESHNESS")
      f == FailIf(noObserved, "INVALID_EVIDENCE_OBSERVATION")
<1>1. NoError \in Answers
  BY DEF Answers
<1>2. /\ a \in Answers /\ (a = NoError <=> ~incomplete)
      /\ b \in Answers /\ (b = NoError <=> ~foreign)
      /\ c \in Answers /\ (c = NoError <=> ~differs)
      /\ d \in Answers /\ (d = NoError <=> ~noAvail)
      /\ e \in Answers /\ (e = NoError <=> ~noFresh)
      /\ f \in Answers /\ (f = NoError <=> ~noObserved)
  BY DEF FailIf, Answers, AuthorityReasons, NoError
<1>3. validateEvidence(item, evaluator) = FirstReason(<<a, b, c, d, e, f>>)
  BY DEF validateEvidence
<1>4. WellObserved(item, evaluator) /\ item.claimID # NoId
        <=> /\ ~incomplete /\ ~foreign /\ ~differs
            /\ ~noAvail /\ ~noFresh /\ ~noObserved
  <2>1. item.id \in EvidenceIds <=> item.id # NoId
    BY InputAssumption DEF Evidence
  <2>2. validSource(item.sourceKind, item.sourceRef)
          <=> \E kind \in DOMAIN SourceShape :
                item.sourceKind = kind /\ item.sourceRef = SourceShape[kind]
    BY DEF validSource
  <2>3. ~noAvail /\ ~noFresh /\ ~noObserved
          => "" \notin {item.availability, item.freshness, item.observation}
    OBVIOUS
  <2>4. WellObserved(item, evaluator)
          <=> /\ item.id \in EvidenceIds
              /\ validSource(item.sourceKind, item.sourceRef)
              /\ item.evaluatorDigest \in Digests /\ ~foreign
              /\ item.digest \in Digests /\ ~differs
              /\ ~noAvail /\ ~noFresh /\ ~noObserved
    <3> HIDE DEF noAvail, noFresh, noObserved
    <3>1. /\ noAvail <=> item.availability \notin {"AVAILABLE", "MISSING", "BLOCKED"}
          /\ noFresh <=> item.freshness \notin {"CURRENT", "STALE", "UNKNOWN"}
          /\ noObserved
               <=> item.observation \notin {"SUPPORTS", "CONTRADICTS", "UNKNOWN"}
      BY DEF noAvail, noFresh, noObserved
    <3> QED BY <2>2, <3>1 DEF WellObserved
  <2> QED BY <2>1, <2>3, <2>4 DEF validDigest
<1> HIDE DEF a, b, c, d, e, f, incomplete, foreign, differs, noAvail, noFresh, noObserved
<1>5. /\ FirstReason(<<a, b, c, d, e, f>>) \in Answers
      /\ FirstReason(<<a, b, c, d, e, f>>) = NoError
           <=> (a = NoError /\ b = NoError /\ c = NoError /\ d = NoError /\ e = NoError /\ f = NoError)
  <2>1. /\ a \in Answers /\ b \in Answers /\ c \in Answers
        /\ d \in Answers /\ e \in Answers /\ f \in Answers
    BY <1>2
  <2> QED BY <1>1, <2>1, FirstOfSix
<1> QED BY <1>2, <1>3, <1>4, <1>5

(* observeClaim answers with a contradiction or a support that stands in   *)
(* the evidence, and otherwise, when no item is decisive, with an UNKNOWN. *)
LEMMA ObserveClaimAnswers ==
  ASSUME NEW claim \in Claim, NEW evidence \in Seq(Evidence)
  PROVE  \/ \E k \in DOMAIN evidence :
              /\ Decisive(claim, evidence[k])
              /\ evidence[k].observation = "CONTRADICTS"
              /\ observeClaim(claim, evidence) =
                   Settled(StateRefuted, "EXPLICIT_CONTRADICTION", evidence[k].id)
         \/ \E k \in DOMAIN evidence :
              /\ Decisive(claim, evidence[k])
              /\ evidence[k].observation = "SUPPORTS"
              /\ observeClaim(claim, evidence) =
                   Settled(StateSupported, "EXACT_EVIDENCE_MATCH", evidence[k].id)
         \/ /\ \A k \in DOMAIN evidence : ~Decisive(claim, evidence[k])
            /\ \E u \in Unknown : observeClaim(claim, evidence) = Unsettled(u)
<1> DEFINE decisive  == {k \in DOMAIN evidence : Decisive(claim, evidence[k])}
           blocked   == {k \in DOMAIN evidence : Blocked(evidence[k])}
           stale     == {k \in DOMAIN evidence : Stale(evidence[k])}
           ambiguous == {k \in DOMAIN evidence : Ambiguous(evidence[k])}
           first(ks) == evidence[First(ks)]
           missing   == unknownRecord("CLAIM_EVIDENCE_MISSING", "DIRECT_MISSING",
                                      "claim", claim.id)
           waiting   == unknownRecord("EVIDENCE_DEPENDENCY_BLOCKED",
                          "DEPENDENCY_BLOCKED", "evidence", first(blocked).id)
           old       == unknownRecord("EVIDENCE_STALE", "STALE",
                                      "evidence", first(stale).id)
           unclear   == unknownRecord("EVIDENCE_OBSERVATION_UNKNOWN", "AMBIGUOUS",
                                      "evidence", first(ambiguous).id)
           other     == unknownRecord("EVIDENCE_TUPLE_AMBIGUOUS", "AMBIGUOUS",
                                      "claim", claim.id)
<1>1. DOMAIN evidence \in SUBSET Nat
  BY LenProperties
<1>2. ASSUME NEW ks \in SUBSET DOMAIN evidence, ks # {}
      PROVE  First(ks) \in ks /\ first(ks) \in Evidence
  <2>1. ks \in SUBSET Nat
    BY <1>1
  <2>2. First(ks) \in ks
    <3> HIDE DEF first
    <3> QED BY <1>2, <2>1, FirstIsLeast
  <2>3. \A k \in DOMAIN evidence : evidence[k] \in Evidence
    BY LenProperties, ElementOfSeq
  <2> QED BY <2>2, <2>3
<1>3. ASSUME NEW id \in ClaimIds \cup EvidenceIds \cup {NoId}
      PROVE  /\ unknownRecord("CLAIM_EVIDENCE_MISSING", "DIRECT_MISSING",
                               "claim", id) \in Unknown
             /\ unknownRecord("EVIDENCE_TUPLE_AMBIGUOUS", "AMBIGUOUS",
                               "claim", id) \in Unknown
             /\ unknownRecord("EVIDENCE_DEPENDENCY_BLOCKED", "DEPENDENCY_BLOCKED",
                               "evidence", id) \in Unknown
             /\ unknownRecord("EVIDENCE_STALE", "STALE", "evidence", id) \in Unknown
             /\ unknownRecord("EVIDENCE_OBSERVATION_UNKNOWN", "AMBIGUOUS",
                               "evidence", id) \in Unknown
  BY DEF unknownRecord, Unknown, UnknownReasons
<1>4. CASE decisive # {}
  <2>1. PICK k \in decisive : k = First(decisive)
    BY <1>2, <1>4
  <2>2. evidence[k].observation \in {"CONTRADICTS", "SUPPORTS"}
    BY DEF Decisive
  <2>3. observeClaim(claim, evidence) =
          IF evidence[k].observation = "CONTRADICTS"
          THEN Settled(StateRefuted, "EXPLICIT_CONTRADICTION", evidence[k].id)
          ELSE Settled(StateSupported, "EXACT_EVIDENCE_MATCH", evidence[k].id)
    BY <1>4, <2>1 DEF observeClaim
  <2> QED BY <2>2, <2>3
<1>5. CASE decisive = {}
  <2>1. observeClaim(claim, evidence) = Unsettled(
          CASE evidence = <<>> -> missing
            [] evidence # <<>> /\ blocked # {} -> waiting
            [] evidence # <<>> /\ blocked = {} /\ stale # {} -> old
            [] evidence # <<>> /\ blocked = {} /\ stale = {} /\ ambiguous # {} -> unclear
            [] OTHER -> other)
    BY <1>5 DEF observeClaim
  <2>2. claim.id \in ClaimIds \cup {NoId}
    BY DEF Claim
  <2>3. \A e \in Evidence : e.id \in EvidenceIds \cup {NoId}
    BY DEF Evidence
  <2>4. missing \in Unknown /\ other \in Unknown
    BY <1>3, <2>2
  <2>5. /\ blocked # {} => waiting \in Unknown
        /\ stale # {} => old \in Unknown
        /\ ambiguous # {} => unclear \in Unknown
    BY <1>2, <1>3, <2>3
  <2> HIDE DEF blocked, stale, ambiguous, missing, waiting, old, unclear, other
  <2>6. \E u \in Unknown : observeClaim(claim, evidence) = Unsettled(u)
    BY <2>1, <2>4, <2>5
  <2> QED BY <1>5, <2>6
<1> QED BY <1>4, <1>5

-----------------------------------------------------------------------------
(* Type correctness.                                                       *)

LEMMA RefutationType ==
  ASSUME TypeOK, NEW r \in RefutationReasons \cup {NoError}, addRefutation(r)
  PROVE  /\ hasRefuted' \in BOOLEAN
         /\ refutedReason' \in RefutationReasons \cup {NoError}
BY DEF TypeOK, addRefutation

LEMMA ConcludeType ==
  ASSUME TypeOK, NEW claim \in Claim, NEW state \in ClaimStateNames,
         NEW why, NEW cites \in SUBSET (EvidenceIds \cup {NoId}),
         state # StateUnverified =>
           why \in RefutationReasons \cup {"EXACT_EVIDENCE_MATCH"},
         Conclude(claim, state, why, cites)
  PROVE  /\ transitions' \in Seq(Transition)
         /\ states' \in Seq(ClaimState)
         /\ index' \in Nat \ {0}
<1>1. claim.id \in ClaimIds \cup {NoId}
  BY DEF Claim
<1>2. states' \in Seq(ClaimState)
  <2> DEFINE new == [claimID |-> claim.id, currentState |-> state,
                     transitionCount |-> IF state = StateUnverified THEN 0 ELSE 1]
  <2>1. new \in ClaimState
    BY <1>1 DEF ClaimState
  <2>2. states \in Seq(ClaimState) /\ states' = Append(states, new)
    BY DEF TypeOK, Conclude
  <2> HIDE DEF new
  <2> QED BY <2>1, <2>2, AppendProperties
<1>3. transitions' \in Seq(Transition)
  <2> DEFINE new == [claimID |-> claim.id, to |-> state, cites |-> cites, reason |-> why]
  <2>1. CASE state = StateUnverified
    BY <2>1 DEF TypeOK, Conclude
  <2>2. CASE state # StateUnverified
    <3>1. new \in Transition
      BY <1>1, <2>2 DEF Transition, ClaimStateNames
    <3>2. transitions \in Seq(Transition) /\ transitions' = Append(transitions, new)
      BY <2>2 DEF TypeOK, Conclude
    <3> HIDE DEF new
    <3> QED BY <3>1, <3>2, AppendProperties
  <2> QED BY <2>1, <2>2
<1>4. index' \in Nat \ {0}
  BY DEF TypeOK, Conclude
<1> QED BY <1>2, <1>3, <1>4

LEMMA AddUnknownType ==
  ASSUME NEW records \in Seq(Unknown), NEW u \in Unknown
  PROVE  /\ addUnknown(records, u) \in Seq(Unknown)
         /\ addUnknown(records, u) # <<>>
<1>1. Append(records, u) \in Seq(Unknown) /\ Append(records, u) # <<>>
  BY AppendProperties
<1>2. CASE \E k \in DOMAIN records : /\ records[k].reason = u.reason
                                    /\ records[k].blockedBy = u.blockedBy
  <2>1. records # <<>>
    BY <1>2
  <2> QED BY <1>2, <2>1 DEF addUnknown
<1>3. CASE ~ \E k \in DOMAIN records : /\ records[k].reason = u.reason
                                      /\ records[k].blockedBy = u.blockedBy
  BY <1>1, <1>3 DEF addUnknown
<1> QED BY <1>2, <1>3

LEMMA InitType == Init => TypeOK
<1> SUFFICES ASSUME Init PROVE TypeOK
  OBVIOUS
<1>1. input \in Input
  BY InputAssumption DEF Init, Input
<1>2. /\ claims \in Seq(ClaimRecord)
      /\ transitions \in Seq(Transition)
      /\ states \in Seq(ClaimState)
      /\ unknowns \in Seq(Unknown)
  BY EmptySeq DEF Init
<1>3. evidenceByClaim \in [ClaimIds \cup {NoId} -> Seq(Evidence)]
  BY EmptySeq DEF Init
<1>4. /\ pc \in {"decode", "claims", "evidence", "judge", "done"}
      /\ index \in Nat \ {0}
      /\ claimByID \in SUBSET ClaimIds
  BY DEF Init
<1>8. hasRefuted \in BOOLEAN /\ authorityRefuted \in BOOLEAN
  BY Zenon DEF Init
<1>5. /\ refutedReason \in RefutationReasons \cup {NoError}
      /\ authorityReason \in RefutationReasons \cup {NoError}
  BY DEF Init
<1>6. decision \in DecisionNames \cup {Pending}
  BY DEF Init
<1>7. reason \in RefutationReasons \cup UnknownReasons \cup
       {NoError, "MALFORMED_INPUT", "ALL_CLAIMS_SUPPORTED", "CLAIMS_REMAIN_UNVERIFIED"}
  BY DEF Init
<1> QED BY <1>1, <1>2, <1>3, <1>4, <1>5, <1>6, <1>7, <1>8 DEF TypeOK

(* The groups of variables that the actions leave alone.                   *)
LEMMA Unchanged ==
  /\ UNCHANGED loading => UNCHANGED <<claims, claimByID, evidenceByClaim>>
  /\ UNCHANGED refutation => UNCHANGED <<hasRefuted, refutedReason>>
  /\ UNCHANGED authority => UNCHANGED <<authorityRefuted, authorityReason>>
  /\ UNCHANGED judging => UNCHANGED <<transitions, states, unknowns>>
  /\ UNCHANGED report => UNCHANGED <<decision, reason>>
BY DEF loading, refutation, authority, judging, report

LEMMA InputType ==
  ASSUME input \in Input
  PROVE  /\ input.claims \in Seq(Claim) /\ input.evidence \in Seq(Evidence)
         /\ input.header.evaluator \in EvaluatorReference
         /\ input.header.metaError \in Answers
         /\ \A k \in 1..Len(input.claims) : input.claims[k] \in Claim
         /\ \A k \in 1..Len(input.evidence) : input.evidence[k] \in Evidence
         /\ Len(input.claims) \in Nat /\ Len(input.evidence) \in Nat
<1>1. /\ input.header \in Header
      /\ input.claims \in Seq(Claim) /\ input.evidence \in Seq(Evidence)
  BY DEF Input
<1>2. /\ input.header.evaluator \in EvaluatorReference
      /\ input.header.metaError \in Answers
  BY <1>1 DEF Header, Answers, AuthorityReasons
<1> QED BY <1>1, <1>2, ElementOfSeq, LenProperties

LEMMA AnswersAreReasons == Answers \subseteq RefutationReasons \cup {NoError}
BY DEF Answers, RefutationReasons

LEMMA LoadingType ==
  ASSUME TypeOK
  PROVE  /\ RejectMalformed => TypeOK'
         /\ CheckHeader => TypeOK'
         /\ AdmitClaim => TypeOK'
         /\ ClaimsAdmitted => TypeOK'
         /\ AdmitEvidence => TypeOK'
         /\ EvidenceAdmitted => TypeOK'
<1>1. ASSUME RejectMalformed PROVE TypeOK'
  <2>1. decision' \in DecisionNames \cup {Pending}
    BY <1>1 DEF RejectMalformed, DecisionNames
  <2> QED BY <1>1, <2>1, Unchanged DEF TypeOK, RejectMalformed
<1>2. ASSUME CheckHeader PROVE TypeOK'
  <2>1. input.header \in Header
    BY DEF TypeOK, Input
  <2>2. addRefutation(headerReason(input.header))
    BY <1>2 DEF CheckHeader
  <2>3. headerReason(input.header) \in Answers
    BY <2>1, HeaderCheck
  <2>4. /\ hasRefuted' \in BOOLEAN
        /\ refutedReason' \in RefutationReasons \cup {NoError}
    BY <2>2, <2>3, RefutationType, AnswersAreReasons
  <2> QED BY <1>2, <2>4, Unchanged DEF TypeOK, CheckHeader
<1>3. ASSUME AdmitClaim PROVE TypeOK'
  <2> DEFINE claim == input.claims[index]
             taken == claim.id = NoId \/ claim.id \in claimByID
             new   == [claimID |-> claim.id, exactTuple |-> claim.exactTuple,
                       state |-> StateUnverified]
             r     == IF taken THEN "INVALID_OR_DUPLICATE_CLAIM"
                      ELSE validateClaim(claim, input.header.evaluator)
  <2>1. claim \in Claim
    BY <1>3, InputType DEF TypeOK, AdmitClaim
  <2>2. new \in ClaimRecord /\ claims' = Append(claims, new)
    BY <1>3, <2>1 DEF AdmitClaim, ClaimRecord, Claim
  <2>3. claims' \in Seq(ClaimRecord)
    <3> HIDE DEF new
    <3> QED BY <2>2, AppendProperties DEF TypeOK
  <2>4. claimByID' \in SUBSET ClaimIds
    BY <1>3, <2>1 DEF TypeOK, AdmitClaim, Claim
  <2>5. r \in RefutationReasons \cup {NoError}
    <3>1. "INVALID_OR_DUPLICATE_CLAIM" \in RefutationReasons
      BY DEF RefutationReasons, AuthorityReasons
    <3>2. validateClaim(claim, input.header.evaluator) \in Answers
      BY <2>1, InputType, ClaimCheck DEF TypeOK
    <3> HIDE DEF claim, taken
    <3> QED BY <3>1, <3>2, AnswersAreReasons
  <2>6. addRefutation(r)
    BY <1>3 DEF AdmitClaim
  <2> HIDE DEF r
  <2>7. /\ hasRefuted' \in BOOLEAN
        /\ refutedReason' \in RefutationReasons \cup {NoError}
    BY <2>5, <2>6, RefutationType
  <2> QED BY <1>3, <2>3, <2>4, <2>7, Unchanged DEF TypeOK, AdmitClaim
<1>4. ASSUME ClaimsAdmitted PROVE TypeOK'
  <2> DEFINE r == FailIf(input.claims = <<>>, "CLAIMS_REQUIRED")
  <2>1. r \in RefutationReasons \cup {NoError}
    BY DEF FailIf, RefutationReasons, AuthorityReasons
  <2>2. addRefutation(r)
    BY <1>4 DEF ClaimsAdmitted
  <2> HIDE DEF r
  <2>3. /\ hasRefuted' \in BOOLEAN
        /\ refutedReason' \in RefutationReasons \cup {NoError}
    BY <2>1, <2>2, RefutationType
  <2> QED BY <1>4, <2>3, Unchanged DEF TypeOK, ClaimsAdmitted
<1>5. ASSUME AdmitEvidence PROVE TypeOK'
  <2> DEFINE item    == input.evidence[index]
             unbound == item.claimID = NoId \/ item.claimID \notin claimByID
             a == validateEvidence(item, input.header.evaluator)
             b == FailIf(unbound, "EVIDENCE_CLAIM_BINDING_MISMATCH")
  <2>1. item \in Evidence
    BY <1>5, InputType DEF TypeOK, AdmitEvidence
  <2>2. a \in Answers /\ b \in Answers /\ NoError \in Answers
    <3>1. a \in Answers
      BY <2>1, InputType, EvidenceCheck DEF TypeOK
    <3>2. b \in Answers /\ NoError \in Answers
      BY DEF FailIf, Answers, AuthorityReasons
    <3> QED BY <3>1, <3>2
  <2>3. addRefutation(FirstReason(<<a, b>>))
    BY <1>5 DEF AdmitEvidence
  <2>4. evidenceByClaim' \in [ClaimIds \cup {NoId} -> Seq(Evidence)]
    <3>1. evidenceByClaim \in [ClaimIds \cup {NoId} -> Seq(Evidence)]
      BY DEF TypeOK
    <3>2. item.claimID \in ClaimIds \cup {NoId}
      BY <2>1 DEF Evidence
    <3>3. Append(evidenceByClaim[item.claimID], item) \in Seq(Evidence)
      BY <2>1, <3>1, <3>2, AppendProperties
    <3>4. \/ evidenceByClaim' = evidenceByClaim
          \/ evidenceByClaim' = [evidenceByClaim EXCEPT ![item.claimID] =
                                   Append(evidenceByClaim[item.claimID], item)]
      BY <1>5 DEF AdmitEvidence
    <3> HIDE DEF item
    <3> QED BY <3>1, <3>2, <3>3, <3>4
  <2> HIDE DEF a, b
  <2>5. FirstReason(<<a, b>>) \in Answers
    BY <2>2, FirstOfTwo
  <2>6. /\ hasRefuted' \in BOOLEAN
        /\ refutedReason' \in RefutationReasons \cup {NoError}
    BY <2>3, <2>5, RefutationType, AnswersAreReasons
  <2> QED BY <1>5, <2>4, <2>6, Unchanged DEF TypeOK, AdmitEvidence
<1>6. ASSUME EvidenceAdmitted PROVE TypeOK'
  BY <1>6, Unchanged DEF TypeOK, EvidenceAdmitted
<1> QED BY <1>1, <1>2, <1>3, <1>4, <1>5, <1>6

LEMMA JudgingType ==
  ASSUME TypeOK
  PROVE  /\ RefuteSelfAttested => TypeOK'
         /\ RefuteByAuthority => TypeOK'
         /\ JudgeByEvidence => TypeOK'
         /\ Resolve => TypeOK'
<1> USE Unchanged
<1>1. ASSUME NEW state, NEW why, NEW cites,
             Conclude(input.claims[index], state, why, cites)
      PROVE  UNCHANGED <<pc, input, claims, claimByID, evidenceByClaim,
                         authorityRefuted, authorityReason, decision, reason>>
  BY <1>1 DEF Conclude
<1>2. ASSUME RefuteSelfAttested PROVE TypeOK'
  <2>1. input.claims[index] \in Claim
    BY <1>2, InputType DEF TypeOK, RefuteSelfAttested
  <2>2. /\ Conclude(input.claims[index], StateRefuted, "SELF_ATTESTATION_REFUTED", {})
        /\ addRefutation("SELF_ATTESTATION_REFUTED")
        /\ unknowns' = unknowns
    BY <1>2 DEF RefuteSelfAttested
  <2>3. "SELF_ATTESTATION_REFUTED" \in RefutationReasons
    BY DEF RefutationReasons
  <2>4. /\ transitions' \in Seq(Transition)
        /\ states' \in Seq(ClaimState)
        /\ index' \in Nat \ {0}
    <3>1. StateRefuted \in ClaimStateNames
      BY DEF ClaimStateNames
    <3> QED BY <2>1, <2>2, <2>3, <3>1, ConcludeType
  <2>5. /\ hasRefuted' \in BOOLEAN
        /\ refutedReason' \in RefutationReasons \cup {NoError}
    BY <2>2, <2>3, RefutationType
  <2> QED BY <1>1, <2>2, <2>4, <2>5 DEF TypeOK
<1>3. ASSUME RefuteByAuthority PROVE TypeOK'
  <2>1. input.claims[index] \in Claim
    BY <1>3, InputType DEF TypeOK, RefuteByAuthority
  <2>2. /\ Conclude(input.claims[index], StateRefuted, authorityReason, {})
        /\ unknowns' = unknowns
        /\ UNCHANGED <<hasRefuted, refutedReason>>
    BY <1>3 DEF RefuteByAuthority
  <2>3. authorityReason \in RefutationReasons
    BY <1>3 DEF TypeOK, RefuteByAuthority, hasGlobalRefutation
  <2>4. /\ transitions' \in Seq(Transition)
        /\ states' \in Seq(ClaimState)
        /\ index' \in Nat \ {0}
    <3>1. StateRefuted \in ClaimStateNames
      BY DEF ClaimStateNames
    <3> QED BY <2>1, <2>2, <2>3, <3>1, ConcludeType
  <2> QED BY <1>1, <2>2, <2>4 DEF TypeOK
<1>4. ASSUME JudgeByEvidence PROVE TypeOK'
  <2> DEFINE claim   == input.claims[index]
             own     == evidenceByClaim[claim.id]
             finding == observeClaim(claim, own)
  <2>1. claim \in Claim /\ own \in Seq(Evidence)
    <3>3. index <= Len(input.claims)
      BY <1>4 DEF JudgeByEvidence
    <3>1. claim \in Claim
      BY <3>3, InputType DEF TypeOK
    <3>2. claim.id \in ClaimIds \cup {NoId}
      BY <3>1 DEF Claim
    <3> QED BY <3>1, <3>2 DEF TypeOK
  <2>2. /\ Conclude(claim, finding.state, finding.reason, finding.cites)
        /\ addRefutation(FailIf(finding.state = StateRefuted, finding.reason))
        /\ \/ finding.unknown = {} /\ unknowns' = unknowns
           \/ \E u \in finding.unknown : unknowns' = addUnknown(unknowns, u)
    BY <1>4 DEF JudgeByEvidence
  <2>3. /\ finding.state \in ClaimStateNames
        /\ finding.cites \in SUBSET (EvidenceIds \cup {NoId})
        /\ finding.unknown \in SUBSET Unknown
        /\ finding.state # StateUnverified =>
             finding.reason \in RefutationReasons \cup {"EXACT_EVIDENCE_MATCH"}
        /\ finding.state = StateRefuted => finding.reason \in RefutationReasons
    <3> HIDE DEF claim, own
    <3>1. CASE \E k \in DOMAIN own :
                 finding = Settled(StateRefuted, "EXPLICIT_CONTRADICTION", own[k].id)
      <4>1. PICK k \in DOMAIN own :
                 finding = Settled(StateRefuted, "EXPLICIT_CONTRADICTION", own[k].id)
        BY <3>1
      <4>2. own[k].id \in EvidenceIds \cup {NoId}
        <5>1. own[k] \in Evidence
          BY <2>1, LenProperties, ElementOfSeq
        <5> QED BY <5>1 DEF Evidence
      <4> QED BY <4>1, <4>2 DEF Settled, ClaimStateNames, RefutationReasons
    <3>2. CASE \E k \in DOMAIN own :
                 finding = Settled(StateSupported, "EXACT_EVIDENCE_MATCH", own[k].id)
      <4>1. PICK k \in DOMAIN own :
                 finding = Settled(StateSupported, "EXACT_EVIDENCE_MATCH", own[k].id)
        BY <3>2
      <4>2. own[k].id \in EvidenceIds \cup {NoId}
        <5>1. own[k] \in Evidence
          BY <2>1, LenProperties, ElementOfSeq
        <5> QED BY <5>1 DEF Evidence
      <4> QED BY <4>1, <4>2 DEF Settled, ClaimStateNames, StateSupported, StateRefuted
    <3>3. CASE \E u \in Unknown : finding = Unsettled(u)
      BY <3>3 DEF Unsettled, ClaimStateNames, StateUnverified, StateRefuted
    <3> QED BY <2>1, <3>1, <3>2, <3>3, ObserveClaimAnswers
  <2> HIDE DEF claim, finding
  <2>4. /\ transitions' \in Seq(Transition)
        /\ states' \in Seq(ClaimState)
        /\ index' \in Nat \ {0}
    BY <2>1, <2>2, <2>3, ConcludeType
  <2>5. FailIf(finding.state = StateRefuted, finding.reason)
          \in RefutationReasons \cup {NoError}
    BY <2>3 DEF FailIf
  <2>6. /\ hasRefuted' \in BOOLEAN
        /\ refutedReason' \in RefutationReasons \cup {NoError}
    BY <2>2, <2>5, RefutationType
  <2>7. unknowns' \in Seq(Unknown)
    BY <2>2, <2>3, AddUnknownType DEF TypeOK
  <2>8. UNCHANGED <<pc, input, claims, claimByID, evidenceByClaim,
                    authorityRefuted, authorityReason, decision, reason>>
    BY <1>1, <2>2 DEF claim
  <2> QED BY <2>4, <2>6, <2>7, <2>8 DEF TypeOK
<1>5. ASSUME Resolve PROVE TypeOK'
  <2> DEFINE outcome == resolveDecision(hasRefuted, Len(unknowns), allSupported(states))
  <2>1. outcome \in DecisionNames
    BY DEF resolveDecision, DecisionNames
  <2>2. decision' \in DecisionNames \cup {Pending}
    BY <1>5, <2>1 DEF Resolve
  <2>3. unknowns # <<>> => unknowns[1].reason \in UnknownReasons
    <3>1. ASSUME unknowns # <<>> PROVE unknowns[1] \in Unknown
      BY <3>1, EmptySeq, LenProperties, ElementOfSeq DEF TypeOK
    <3> QED BY <3>1 DEF Unknown
  <2>4. reason' = CASE outcome = DecisionRefuted -> refutedReason
                    [] outcome = DecisionClosed  -> "ALL_CLAIMS_SUPPORTED"
                    [] OTHER -> IF unknowns # <<>> THEN unknowns[1].reason
                                ELSE "CLAIMS_REMAIN_UNVERIFIED"
    BY <1>5 DEF Resolve
  <2>5. refutedReason \in RefutationReasons \cup {NoError}
    BY DEF TypeOK
  <2>6. reason' \in {refutedReason, unknowns[1].reason,
                     "ALL_CLAIMS_SUPPORTED", "CLAIMS_REMAIN_UNVERIFIED"}
    <3> HIDE DEF outcome
    <3>1. CASE outcome = DecisionRefuted
      BY <2>4, <3>1
    <3>2. CASE outcome = DecisionClosed
      BY <2>4, <3>2 DEF DecisionClosed, DecisionRefuted
    <3>3. CASE outcome # DecisionRefuted /\ outcome # DecisionClosed
      BY <2>4, <3>3
    <3> QED BY <3>1, <3>2, <3>3
  <2>7. reason' \in RefutationReasons \cup UnknownReasons \cup
          {NoError, "MALFORMED_INPUT", "ALL_CLAIMS_SUPPORTED", "CLAIMS_REMAIN_UNVERIFIED"}
    <3>1. CASE unknowns = <<>>
      <4>1. reason' \in {refutedReason, "ALL_CLAIMS_SUPPORTED", "CLAIMS_REMAIN_UNVERIFIED"}
        <5> HIDE DEF outcome
        <5>1. CASE outcome = DecisionRefuted
          BY <2>4, <5>1
        <5>2. CASE outcome = DecisionClosed
          BY <2>4, <5>2 DEF DecisionClosed, DecisionRefuted
        <5>3. CASE outcome # DecisionRefuted /\ outcome # DecisionClosed
          BY <2>4, <3>1, <5>3
        <5> QED BY <5>1, <5>2, <5>3
      <4> QED BY <2>5, <4>1
    <3>2. CASE unknowns # <<>>
      BY <2>3, <2>5, <2>6, <3>2
    <3> QED BY <3>1, <3>2
  <2> QED BY <1>5, <2>2, <2>7 DEF TypeOK, Resolve
<1> QED BY <1>2, <1>3, <1>4, <1>5

(* Type correctness: whatever the input, every variable keeps its type and *)
(* every reason is one of those that the code knows.                       *)
THEOREM TypeCorrect == Spec => []TypeOK
<1>1. TypeOK /\ [Next]_vars => TypeOK'
  <2> SUFFICES ASSUME TypeOK, [Next]_vars PROVE TypeOK'
    OBVIOUS
  <2>1. CASE UNCHANGED vars
    BY <2>1, Unchanged DEF vars, TypeOK
  <2>2. CASE Returned
    BY <2>2, Unchanged DEF Returned, vars, TypeOK
  <2> QED BY <2>1, <2>2, LoadingType, JudgingType DEF Next
<1> QED BY <1>1, InitType, PTL DEF Spec

-----------------------------------------------------------------------------
(* The inductive invariant.  hasRefuted and the number of unknowns, which  *)
(* decide, are redundant once the claims are judged: what they say can be  *)
(* read off the states.  That is what DecisionFollowsStates needs, and it  *)
(* is kept only together with where the loops stand and with what has been *)
(* written before the claims are judged.                                   *)

Loading == pc \in {"decode", "claims", "evidence"}

Judged == pc = "judge" \/ (pc = "done" /\ input.header.decodes)

Some(state) == \E k \in 1..Len(states) : states[k].currentState = state

All(state) == \A k \in 1..Len(states) : states[k].currentState = state

NothingJudged ==
  Loading => /\ states = <<>> /\ transitions = <<>> /\ unknowns = <<>>
             /\ decision = Pending /\ authorityRefuted = FALSE

Fresh == pc = "decode" => claims = <<>> /\ index = 1 /\ hasRefuted = FALSE

Positions ==
  /\ pc = "claims" => Len(claims) = index - 1 /\ index <= Len(input.claims) + 1
  /\ pc = "evidence" => Len(claims) = Len(input.claims)
  /\ pc = "judge" => /\ Len(claims) = Len(input.claims)
                     /\ Len(states) = index - 1 /\ index <= Len(input.claims) + 1
  /\ pc = "done" /\ input.header.decodes =>
       Len(claims) = Len(input.claims) /\ Len(states) = Len(input.claims)

ReasonsGiven ==
  /\ hasRefuted <=> refutedReason # NoError
  /\ authorityRefuted <=> authorityReason # NoError

NoClaimsIsAFault ==
  input.claims = <<>> => /\ pc = "evidence" => hasRefuted
                         /\ Judged => authorityRefuted

FlagsAgree ==
  Judged => /\ authorityRefuted => All(StateRefuted)
            /\ hasRefuted <=> authorityRefuted \/ Some(StateRefuted)
            /\ unknowns # <<>> <=> Some(StateUnverified)

Answered ==
  /\ pc = "judge" => decision = Pending
  /\ pc \in {"claims", "evidence", "judge"} => input.header.decodes
  /\ pc = "done" /\ input.header.decodes =>
       decision = resolveDecision(hasRefuted, Len(unknowns), allSupported(states))
  /\ pc = "done" /\ ~input.header.decodes =>
       /\ decision = DecisionRefuted /\ claims = <<>> /\ states = <<>>
       /\ authorityRefuted = FALSE

CallInv ==
  /\ TypeOK
  /\ NothingJudged /\ Fresh /\ Positions /\ ReasonsGiven
  /\ NoClaimsIsAFault /\ FlagsAgree /\ Answered

-----------------------------------------------------------------------------
(* What a step of the judging loop does, whichever branch it takes.        *)

JudgeStep == RefuteSelfAttested \/ RefuteByAuthority \/ JudgeByEvidence

LEMMA RefutationKept ==
  ASSUME NEW r, addRefutation(r), hasRefuted \in BOOLEAN,
         hasRefuted <=> refutedReason # NoError
  PROVE  /\ hasRefuted' <=> hasRefuted \/ r # NoError
         /\ hasRefuted' <=> refutedReason' # NoError
         /\ hasRefuted => refutedReason' = refutedReason
BY DEF addRefutation

LEMMA AppendedState ==
  ASSUME states \in Seq(ClaimState), NEW new \in ClaimState,
         states' = Append(states, new)
  PROVE  /\ Len(states') = Len(states) + 1
         /\ \A k \in 1..Len(states) : states'[k] = states[k]
         /\ states'[Len(states) + 1] = new
         /\ \A s : Some(s)' <=> Some(s) \/ new.currentState = s
         /\ \A s : All(s)' <=> All(s) /\ new.currentState = s
<1>1. /\ Len(states) \in Nat
      /\ Len(states') = Len(states) + 1
      /\ \A k \in 1..Len(states) : states'[k] = states[k]
      /\ states'[Len(states) + 1] = new
  BY AppendProperties, LenProperties
<1>2. 1..Len(states') = 1..Len(states) \cup {Len(states) + 1}
  BY <1>1
<1>3. ASSUME NEW s PROVE Some(s)' <=> Some(s) \/ new.currentState = s
  BY <1>1, <1>2 DEF Some
<1>4. ASSUME NEW s PROVE All(s)' <=> All(s) /\ new.currentState = s
  BY <1>1, <1>2 DEF All
<1> QED BY <1>1, <1>3, <1>4

LEMMA ConcludedState ==
  ASSUME NEW claim \in Claim, NEW state \in ClaimStateNames, NEW why, NEW cites,
         Conclude(claim, state, why, cites)
  PROVE  \E new \in ClaimState :
           new.currentState = state /\ new.claimID = claim.id
             /\ states' = Append(states, new)
<1> DEFINE new == [claimID |-> claim.id, currentState |-> state,
                   transitionCount |-> IF state = StateUnverified THEN 0 ELSE 1]
<1>1. claim.id \in ClaimIds \cup {NoId}
  BY DEF Claim
<1>2. new \in ClaimState /\ new.currentState = state /\ new.claimID = claim.id
  BY <1>1 DEF ClaimState
<1>3. states' = Append(states, new)
  BY DEF Conclude
<1> HIDE DEF new
<1> QED BY <1>2, <1>3

LEMMA Judgement ==
  ASSUME CallInv, JudgeStep
  PROVE  /\ pc = "judge" /\ index <= Len(input.claims)
         /\ index' = index + 1
         /\ UNCHANGED <<pc, input, claims, authorityRefuted, authorityReason, decision>>
         /\ hasRefuted' <=> refutedReason' # NoError
         /\ \E state \in ClaimStateNames :
              /\ \E new \in ClaimState :
                   new.currentState = state /\ states' = Append(states, new)
              /\ authorityRefuted => state = StateRefuted
              /\ hasRefuted' <=> hasRefuted \/ state = StateRefuted
              /\ unknowns' # <<>> <=> unknowns # <<>> \/ state = StateUnverified
<1> USE DEF JudgeStep
<1>1. /\ pc = "judge" /\ index <= Len(input.claims)
      /\ hasRefuted \in BOOLEAN /\ index \in Nat \ {0}
      /\ input.claims[index] \in Claim
  <2>1. pc = "judge" /\ index <= Len(input.claims)
    BY DEF RefuteSelfAttested, RefuteByAuthority, JudgeByEvidence
  <2> QED BY <2>1, InputType DEF CallInv, TypeOK
<1>2. /\ hasRefuted <=> refutedReason # NoError
      /\ authorityRefuted <=> authorityReason # NoError
      /\ authorityRefuted => hasRefuted
  BY <1>1 DEF CallInv, ReasonsGiven, FlagsAgree, Judged
<1>3. ASSUME NEW state, NEW why, NEW cites,
             Conclude(input.claims[index], state, why, cites)
      PROVE  /\ index' = index + 1
             /\ UNCHANGED <<pc, input, claims, authorityRefuted, authorityReason, decision>>
  BY <1>3, Unchanged DEF Conclude
<1>4. StateRefuted \in ClaimStateNames /\ StateRefuted # StateUnverified
  BY DEF ClaimStateNames, StateRefuted, StateUnverified
<1>5. CASE RefuteSelfAttested
  <2>1. /\ Conclude(input.claims[index], StateRefuted, "SELF_ATTESTATION_REFUTED", {})
        /\ addRefutation("SELF_ATTESTATION_REFUTED")
        /\ unknowns' = unknowns
    BY <1>5 DEF RefuteSelfAttested
  <2>2. hasRefuted' /\ refutedReason' # NoError
    BY <1>2, <2>1 DEF addRefutation, NoError
  <2> QED BY <1>1, <1>3, <1>4, <2>1, <2>2, ConcludedState
<1>6. CASE RefuteByAuthority
  <2>1. /\ Conclude(input.claims[index], StateRefuted, authorityReason, {})
        /\ authorityRefuted
        /\ UNCHANGED <<hasRefuted, refutedReason, unknowns>>
    BY <1>6, Unchanged DEF RefuteByAuthority, hasGlobalRefutation
  <2> QED BY <1>1, <1>2, <1>3, <1>4, <2>1, ConcludedState
<1>7. CASE JudgeByEvidence
  <2> DEFINE claim   == input.claims[index]
             own     == evidenceByClaim[claim.id]
             finding == observeClaim(claim, own)
  <2>1. claim \in Claim /\ own \in Seq(Evidence) /\ ~authorityRefuted
    <3>1. claim.id \in ClaimIds \cup {NoId}
      BY <1>1 DEF Claim
    <3>2. ~authorityRefuted
      BY <1>2, <1>7 DEF JudgeByEvidence, hasGlobalRefutation
    <3> QED BY <1>1, <3>1, <3>2 DEF CallInv, TypeOK
  <2>2. /\ Conclude(claim, finding.state, finding.reason, finding.cites)
        /\ addRefutation(FailIf(finding.state = StateRefuted, finding.reason))
        /\ \/ finding.unknown = {} /\ unknowns' = unknowns
           \/ \E u \in finding.unknown : unknowns' = addUnknown(unknowns, u)
    BY <1>7 DEF JudgeByEvidence
  <2>3. /\ index' = index + 1
        /\ UNCHANGED <<pc, input, claims, authorityRefuted, authorityReason, decision>>
    BY <1>3, <2>2
  <2>4. \/ \E u \in Unknown : finding = Unsettled(u)
        \/ \E id : finding = Settled(StateRefuted, "EXPLICIT_CONTRADICTION", id)
        \/ \E id : finding = Settled(StateSupported, "EXACT_EVIDENCE_MATCH", id)
    <3> HIDE DEF claim, own
    <3> QED BY <2>1, ObserveClaimAnswers
  <2> HIDE DEF claim, own, finding
  <2>5. /\ finding.state \in ClaimStateNames
        /\ finding.state = StateRefuted => finding.reason # NoError
        /\ finding.state = StateUnverified <=> finding.unknown # {}
        /\ finding.unknown \subseteq Unknown
    <3>1. CASE \E u \in Unknown : finding = Unsettled(u)
      BY <3>1 DEF Unsettled, ClaimStateNames, StateUnverified, StateRefuted
    <3>2. CASE \E id : finding = Settled(StateRefuted, "EXPLICIT_CONTRADICTION", id)
      BY <3>2 DEF Settled, ClaimStateNames, StateUnverified, StateRefuted, NoError
    <3>3. CASE \E id : finding = Settled(StateSupported, "EXACT_EVIDENCE_MATCH", id)
      BY <3>3 DEF Settled, ClaimStateNames, StateUnverified, StateSupported, StateRefuted
    <3> QED BY <2>4, <3>1, <3>2, <3>3
  <2>6. /\ hasRefuted' <=> hasRefuted \/ finding.state = StateRefuted
        /\ hasRefuted' <=> refutedReason' # NoError
    <3>1. FailIf(finding.state = StateRefuted, finding.reason) # NoError
            <=> finding.state = StateRefuted
      BY <2>5 DEF FailIf
    <3> QED BY <1>1, <1>2, <2>2, <3>1, RefutationKept
  <2>7. unknowns' # <<>> <=> unknowns # <<>> \/ finding.state = StateUnverified
    <3>1. unknowns \in Seq(Unknown)
      BY DEF CallInv, TypeOK
    <3>2. CASE finding.unknown = {} /\ unknowns' = unknowns
      BY <2>5, <3>2
    <3>3. CASE \E u \in finding.unknown : unknowns' = addUnknown(unknowns, u)
      BY <2>5, <3>1, <3>3, AddUnknownType
    <3> QED BY <2>2, <3>2, <3>3
  <2>8. \E new \in ClaimState :
          new.currentState = finding.state /\ states' = Append(states, new)
    BY <2>1, <2>2, <2>5, ConcludedState
  <2> QED BY <1>1, <2>1, <2>3, <2>5, <2>6, <2>7, <2>8
<1> QED BY <1>5, <1>6, <1>7

-----------------------------------------------------------------------------
(* The invariant is inductive.                                             *)

LEMMA InitInv == Init => CallInv
<1> SUFFICES ASSUME Init PROVE CallInv
  OBVIOUS
<1>1. /\ NothingJudged /\ Fresh /\ Positions /\ NoClaimsIsAFault
      /\ FlagsAgree /\ Answered
  BY DEF Init, NothingJudged, Fresh, Positions, NoClaimsIsAFault, FlagsAgree,
         Answered, Loading, Judged
<1>2. ReasonsGiven
  BY DEF Init, ReasonsGiven
<1> QED BY <1>1, <1>2, InitType DEF CallInv

(* While loading: what the judging loop works on has not been touched.     *)
LEMMA LoadingInv ==
  ASSUME CallInv, TypeOK',
         CheckHeader \/ AdmitClaim \/ ClaimsAdmitted \/ AdmitEvidence
  PROVE  CallInv'
<1> USE DEF CallInv
<1>1. /\ UNCHANGED <<input, states, transitions, unknowns, decision>>
      /\ UNCHANGED <<authorityRefuted, authorityReason>>
      /\ input.header.decodes
      /\ states = <<>> /\ transitions = <<>> /\ unknowns = <<>>
      /\ decision = Pending /\ authorityRefuted = FALSE
  BY Unchanged DEF CheckHeader, AdmitClaim, ClaimsAdmitted, AdmitEvidence,
         NothingJudged, Loading, Answered
<1>2. pc' \in {"claims", "evidence"}
  BY DEF CheckHeader, AdmitClaim, ClaimsAdmitted, AdmitEvidence
<1>3. NothingJudged' /\ Fresh' /\ FlagsAgree' /\ Answered'
  BY <1>1, <1>2 DEF NothingJudged, Fresh, FlagsAgree, Answered, Judged, Loading
<1>4. \E r : addRefutation(r)
  BY DEF CheckHeader, AdmitClaim, ClaimsAdmitted, AdmitEvidence
<1>5. hasRefuted \in BOOLEAN /\ (hasRefuted <=> refutedReason # NoError)
  BY DEF TypeOK, ReasonsGiven
<1>6. /\ hasRefuted' <=> refutedReason' # NoError
      /\ hasRefuted => hasRefuted'
  BY <1>4, <1>5, RefutationKept
<1>7. ReasonsGiven'
  BY <1>1, <1>6 DEF ReasonsGiven
<1>8. Len(input.claims) \in Nat /\ Len(claims) \in Nat /\ index \in Nat
  BY InputType, LenProperties DEF TypeOK
<1>9. Positions' /\ NoClaimsIsAFault'
  <2>1. CASE CheckHeader
    <3>1. claims' = <<>> /\ index' = 1 /\ pc' = "claims"
      BY <2>1, Unchanged DEF CheckHeader, Fresh
    <3>2. Len(claims') = index' - 1 /\ index' <= Len(input.claims) + 1
      BY <1>8, <3>1
    <3> QED BY <1>1, <3>1, <3>2 DEF Positions, NoClaimsIsAFault, Judged
  <2>2. CASE AdmitClaim
    <3>1. /\ \E new : claims' = Append(claims, new)
          /\ index <= Len(input.claims) /\ index' = index + 1
          /\ pc = "claims" /\ pc' = "claims"
      BY <2>2 DEF AdmitClaim
    <3>2. Len(claims') = Len(claims) + 1
      BY <3>1 DEF TypeOK
    <3>3. Len(claims') = index' - 1 /\ index' <= Len(input.claims) + 1
      BY <1>8, <3>1, <3>2 DEF Positions
    <3> QED BY <1>1, <3>1, <3>3 DEF Positions, NoClaimsIsAFault, Judged
  <2>3. CASE ClaimsAdmitted
    <3>1. /\ claims' = claims /\ index > Len(input.claims)
          /\ pc = "claims" /\ pc' = "evidence"
          /\ addRefutation(FailIf(input.claims = <<>>, "CLAIMS_REQUIRED"))
      BY <2>3, Unchanged DEF ClaimsAdmitted
    <3>2. Len(claims') = Len(input.claims)
      BY <1>8, <3>1 DEF Positions
    <3>3. input.claims = <<>> => hasRefuted'
      BY <1>5, <3>1 DEF addRefutation, FailIf, NoError
    <3> QED BY <1>1, <3>1, <3>2, <3>3 DEF Positions, NoClaimsIsAFault, Judged
  <2>4. CASE AdmitEvidence
    <3>1. claims' = claims /\ pc = "evidence" /\ pc' = "evidence"
      BY <2>4 DEF AdmitEvidence
    <3> QED BY <1>1, <1>6, <3>1 DEF Positions, NoClaimsIsAFault, Judged
  <2> QED BY <2>1, <2>2, <2>3, <2>4
<1> QED BY <1>3, <1>7, <1>9

(* The refutation is frozen before the first claim is judged.              *)
LEMMA FrozenInv ==
  ASSUME CallInv, TypeOK', EvidenceAdmitted
  PROVE  CallInv'
<1> USE DEF CallInv
<1>1. /\ pc = "evidence" /\ pc' = "judge" /\ index' = 1
      /\ authorityRefuted' = hasRefuted /\ authorityReason' = refutedReason
      /\ UNCHANGED <<input, claims, hasRefuted, refutedReason>>
      /\ UNCHANGED <<transitions, states, unknowns, decision>>
  BY Unchanged DEF EvidenceAdmitted
<1>2. states' = <<>> /\ unknowns' = <<>> /\ decision' = Pending /\ input'.header.decodes
  BY <1>1 DEF NothingJudged, Loading, Answered
<1>3. Len(input.claims) \in Nat
  BY InputType DEF TypeOK
<1>4. Positions'
  <2>1. Len(claims') = Len(input'.claims)
    BY <1>1 DEF Positions
  <2>2. Len(states') = index' - 1 /\ index' <= Len(input'.claims) + 1
    BY <1>1, <1>2, <1>3
  <2> QED BY <1>1, <2>1, <2>2 DEF Positions
<1>5. FlagsAgree'
  BY <1>1, <1>2 DEF FlagsAgree, Judged, All, Some
<1>6. ReasonsGiven' /\ NoClaimsIsAFault'
  BY <1>1 DEF ReasonsGiven, NoClaimsIsAFault, Judged
<1>7. NothingJudged' /\ Fresh' /\ Answered'
  BY <1>1, <1>2 DEF NothingJudged, Loading, Fresh, Answered
<1> QED BY <1>4, <1>5, <1>6, <1>7

LEMMA JudgingInv ==
  ASSUME CallInv, TypeOK', JudgeStep
  PROVE  CallInv'
<1> USE DEF CallInv
<1>1. /\ pc = "judge" /\ index <= Len(input.claims)
      /\ index' = index + 1
      /\ UNCHANGED <<pc, input, claims, authorityRefuted, authorityReason, decision>>
      /\ hasRefuted' <=> refutedReason' # NoError
  BY Judgement
<1>2. PICK state \in ClaimStateNames, new \in ClaimState :
        /\ new.currentState = state /\ states' = Append(states, new)
        /\ authorityRefuted => state = StateRefuted
        /\ hasRefuted' <=> hasRefuted \/ state = StateRefuted
        /\ unknowns' # <<>> <=> unknowns # <<>> \/ state = StateUnverified
  BY Judgement
<1>3. /\ Len(states') = Len(states) + 1
      /\ \A s : Some(s)' <=> Some(s) \/ state = s
      /\ \A s : All(s)' <=> All(s) /\ state = s
  BY <1>2, AppendedState DEF TypeOK
<1>4. FlagsAgree'
  BY <1>1, <1>2, <1>3 DEF FlagsAgree, Judged
<1>5. Len(input.claims) \in Nat /\ index \in Nat /\ Len(states) \in Nat
  BY InputType, LenProperties DEF TypeOK
<1>6. Positions'
  <2>1. Len(claims') = Len(input'.claims)
    BY <1>1 DEF Positions
  <2>2. Len(states') = index' - 1 /\ index' <= Len(input'.claims) + 1
    BY <1>1, <1>3, <1>5 DEF Positions
  <2> QED BY <1>1, <2>1, <2>2 DEF Positions
<1>7. ReasonsGiven'
  BY <1>1 DEF ReasonsGiven
<1>8. NoClaimsIsAFault' /\ NothingJudged' /\ Fresh' /\ Answered'
  BY <1>1 DEF NoClaimsIsAFault, Judged, NothingJudged, Loading, Fresh, Answered
<1> QED BY <1>4, <1>6, <1>7, <1>8

LEMMA ReportedInv ==
  ASSUME CallInv, TypeOK', RejectMalformed \/ Resolve
  PROVE  CallInv'
<1> USE DEF CallInv
<1>1. CASE RejectMalformed
  <2>1. /\ pc = "decode" /\ pc' = "done" /\ ~input.header.decodes
        /\ decision' = DecisionRefuted
        /\ UNCHANGED <<input, claims, states, unknowns>>
        /\ UNCHANGED <<hasRefuted, refutedReason, authorityRefuted, authorityReason>>
    BY <1>1, Unchanged DEF RejectMalformed
  <2>2. claims' = <<>> /\ states' = <<>> /\ authorityRefuted' = FALSE
    BY <2>1 DEF Fresh, NothingJudged, Loading
  <2> QED BY <2>1, <2>2 DEF NothingJudged, Fresh, Positions, ReasonsGiven,
               NoClaimsIsAFault, FlagsAgree, Answered, Loading, Judged
<1>2. CASE Resolve
  <2>1. /\ pc = "judge" /\ pc' = "done" /\ index > Len(input.claims)
        /\ decision' = resolveDecision(hasRefuted, Len(unknowns), allSupported(states))
        /\ UNCHANGED <<input, claims, states, unknowns>>
        /\ UNCHANGED <<hasRefuted, refutedReason, authorityRefuted, authorityReason>>
    BY <1>2, Unchanged DEF Resolve
  <2>2. Len(input.claims) \in Nat /\ index \in Nat
    BY InputType DEF TypeOK
  <2>3. Len(claims) = Len(input.claims) /\ Len(states) = Len(input.claims)
    BY <2>1, <2>2 DEF Positions
  <2>4. input.header.decodes
    BY <2>1 DEF Answered
  <2>5. Positions' /\ ReasonsGiven' /\ NoClaimsIsAFault' /\ NothingJudged' /\ Fresh'
    BY <2>1, <2>3 DEF Positions, ReasonsGiven, NoClaimsIsAFault, Judged,
       NothingJudged, Loading, Fresh
  <2>6. Answered'
    BY <2>1, <2>4 DEF Answered
  <2>7. FlagsAgree'
    BY <2>1 DEF FlagsAgree, Judged, Some, All
  <2> QED BY <2>5, <2>6, <2>7
<1> QED BY <1>1, <1>2

LEMMA StutterInv ==
  ASSUME CallInv, UNCHANGED vars
  PROVE  CallInv'
<1>1. /\ UNCHANGED <<pc, input, index, claims, claimByID, evidenceByClaim>>
      /\ UNCHANGED <<hasRefuted, refutedReason, authorityRefuted, authorityReason>>
      /\ UNCHANGED <<transitions, states, unknowns, decision, reason>>
  BY Unchanged DEF vars
<1>2. TypeOK' /\ NothingJudged' /\ Fresh' /\ Positions' /\ ReasonsGiven'
  BY <1>1 DEF CallInv, TypeOK, NothingJudged, Fresh, Positions, ReasonsGiven, Loading
<1>3. NoClaimsIsAFault' /\ FlagsAgree' /\ Answered'
  BY <1>1 DEF CallInv, NoClaimsIsAFault, FlagsAgree, Answered, Judged, Some, All
<1> QED BY <1>2, <1>3 DEF CallInv

(* The flags and the records of a call agree, for every input.             *)
THEOREM CallInvariant == Spec => []CallInv
<1>1. CallInv /\ [Next]_vars => CallInv'
  <2> SUFFICES ASSUME CallInv, [Next]_vars PROVE CallInv'
    OBVIOUS
  <2>1. CASE UNCHANGED vars \/ Returned
    BY <2>1, StutterInv DEF Returned
  <2>2. CASE Next /\ ~Returned
    <3>1. TypeOK'
      BY <2>2, LoadingType, JudgingType DEF Next, CallInv
    <3> QED BY <2>2, <3>1, LoadingInv, FrozenInv, JudgingInv, ReportedInv
            DEF Next, JudgeStep
  <2> QED BY <2>1, <2>2
<1> QED BY <1>1, InitInv, PTL DEF Spec

-----------------------------------------------------------------------------
(* The decision is a function of the states.                               *)

LEMMA DecisionOfStates ==
  ASSUME CallInv, Judged, Len(states) = Len(input.claims)
  PROVE  LET outcome == resolveDecision(hasRefuted, Len(unknowns), allSupported(states))
         IN  /\ outcome = IF authorityRefuted \/ Some(StateRefuted) THEN DecisionRefuted
                          ELSE IF Some(StateUnverified) THEN DecisionUnknown
                          ELSE DecisionClosed
             /\ outcome = DecisionClosed <=> states # <<>> /\ All(StateSupported)
             /\ states = <<>> <=> input.claims = <<>>
             /\ states = <<>> => authorityRefuted
<1> DEFINE outcome == resolveDecision(hasRefuted, Len(unknowns), allSupported(states))
<1> USE DEF CallInv
<1>1. /\ states \in Seq(ClaimState) /\ unknowns \in Seq(Unknown)
      /\ input.claims \in Seq(Claim) /\ hasRefuted \in BOOLEAN
  BY InputType DEF TypeOK
<1>2. /\ authorityRefuted => All(StateRefuted)
      /\ hasRefuted <=> authorityRefuted \/ Some(StateRefuted)
      /\ unknowns # <<>> <=> Some(StateUnverified)
  BY DEF FlagsAgree
<1>3. Len(unknowns) > 0 <=> unknowns # <<>>
  BY <1>1, EmptySeq, LenProperties
<1>4. states = <<>> <=> input.claims = <<>>
  BY <1>1, EmptySeq
<1>5. states = <<>> => authorityRefuted
  BY <1>4 DEF NoClaimsIsAFault
<1>6. allSupported(states) <=> states # <<>> /\ All(StateSupported)
  BY <1>1, LenProperties DEF allSupported, All
<1>7. \A k \in 1..Len(states) :
        states[k].currentState \in {StateUnverified, StateSupported, StateRefuted}
  <2>1. \A k \in 1..Len(states) : states[k] \in ClaimState
    BY <1>1, ElementOfSeq
  <2> QED BY <2>1 DEF ClaimState, ClaimStateNames
<1>8. StateSupported # StateRefuted /\ StateSupported # StateUnverified
      /\ StateUnverified # StateRefuted
  BY DEF StateSupported, StateRefuted, StateUnverified
<1>9. ~Some(StateRefuted) /\ ~Some(StateUnverified) <=> All(StateSupported)
  BY <1>7, <1>8 DEF Some, All
<1>10. DecisionClosed # DecisionRefuted /\ DecisionClosed # DecisionUnknown
  BY DEF DecisionClosed, DecisionRefuted, DecisionUnknown
<1>11. outcome = IF hasRefuted THEN DecisionRefuted
                 ELSE IF unknowns # <<>> \/ ~(states # <<>> /\ All(StateSupported))
                      THEN DecisionUnknown ELSE DecisionClosed
  BY <1>3, <1>6 DEF resolveDecision
<1>12. All(StateSupported) /\ states # <<>> => ~All(StateRefuted)
  <2>1. states # <<>> => 1 \in 1..Len(states)
    BY <1>1, EmptySeq, LenProperties
  <2> QED BY <1>8, <2>1 DEF All
<1> HIDE DEF outcome
<1>13. outcome = DecisionClosed <=> states # <<>> /\ All(StateSupported)
  BY <1>2, <1>9, <1>10, <1>11, <1>12
<1>14. outcome = IF authorityRefuted \/ Some(StateRefuted) THEN DecisionRefuted
                 ELSE IF Some(StateUnverified) THEN DecisionUnknown
                 ELSE DecisionClosed
  BY <1>2, <1>5, <1>9, <1>11
<1>15. /\ outcome = IF authorityRefuted \/ Some(StateRefuted) THEN DecisionRefuted
                    ELSE IF Some(StateUnverified) THEN DecisionUnknown
                    ELSE DecisionClosed
       /\ outcome = DecisionClosed <=> states # <<>> /\ All(StateSupported)
       /\ states = <<>> <=> input.claims = <<>>
       /\ states = <<>> => authorityRefuted
  BY <1>4, <1>5, <1>13, <1>14
<1> QED BY <1>15 DEF outcome

LEMMA DecisionHolds == CallInv => DecisionFollowsStates
<1> SUFFICES ASSUME CallInv, decision # Pending PROVE DecisionFollowsStates
  BY DEF DecisionFollowsStates
<1> DEFINE shown == {states[k].currentState : k \in DOMAIN states}
<1>1. states \in Seq(ClaimState) /\ DOMAIN states = 1..Len(states)
  BY LenProperties DEF CallInv, TypeOK
<1>2. \A s : s \in shown <=> Some(s)
  BY <1>1 DEF Some
<1>3. pc = "done"
  BY DEF CallInv, TypeOK, NothingJudged, Loading, Answered
<1>4. DecisionClosed # DecisionRefuted /\ DecisionClosed # DecisionUnknown
      /\ DecisionRefuted # DecisionUnknown
  BY DEF DecisionClosed, DecisionRefuted, DecisionUnknown
<1>5. CASE input.header.decodes
  <2>1. Judged /\ Len(states) = Len(input.claims)
    BY <1>3, <1>5 DEF CallInv, Positions, Judged
  <2>2. /\ decision = IF authorityRefuted \/ Some(StateRefuted) THEN DecisionRefuted
                      ELSE IF Some(StateUnverified) THEN DecisionUnknown
                      ELSE DecisionClosed
        /\ decision = DecisionClosed <=> states # <<>> /\ All(StateSupported)
        /\ states = <<>> <=> input.claims = <<>>
        /\ authorityRefuted => All(StateRefuted)
    BY <1>3, <1>5, <2>1, DecisionOfStates DEF CallInv, Answered, FlagsAgree
  <2>3. shown = {StateSupported} <=> states # <<>> /\ All(StateSupported)
    <3>1. states # <<>> <=> 1..Len(states) # {}
      <4>1. Len(states) \in Nat /\ (states = <<>> <=> Len(states) = 0)
        BY <1>1, EmptySeq, LenProperties
      <4> HIDE DEF shown
      <4>2. Len(states) # 0 => 1 \in 1..Len(states)
        BY <4>1
      <4>3. Len(states) = 0 => 1..Len(states) = {}
        BY <4>1
      <4> QED BY <4>1, <4>2, <4>3
    <3>2. All(StateSupported) <=> \A k \in DOMAIN states : states[k].currentState = StateSupported
      BY <1>1 DEF All
    <3>3. ASSUME shown = {StateSupported} PROVE states # <<>> /\ All(StateSupported)
      <4>1. \A k \in DOMAIN states : states[k].currentState \in shown
        OBVIOUS
      <4>2. StateSupported \in shown
        <5> HIDE DEF shown
        <5> QED BY <3>3
      <4>3. \E k \in DOMAIN states : states[k].currentState = StateSupported
        BY <4>2
      <4>4. \A k \in DOMAIN states : states[k].currentState = StateSupported
        <5> HIDE DEF shown
        <5> QED BY <3>3, <4>1
      <4> HIDE DEF shown
      <4> QED BY <1>1, <3>1, <3>2, <4>3, <4>4
    <3>4. ASSUME states # <<>>, All(StateSupported) PROVE shown = {StateSupported}
      BY <1>1, <3>1, <3>2, <3>4
    <3> QED BY <3>3, <3>4
  <2>4. /\ states # <<>> /\ All(StateRefuted) => Some(StateRefuted)
        /\ All(StateRefuted) => ~Some(StateUnverified)
    <3>1. states # <<>> => 1 \in 1..Len(states)
      BY <1>1, EmptySeq, LenProperties
    <3>2. StateRefuted # StateUnverified
      BY DEF StateRefuted, StateUnverified
    <3> QED BY <3>1, <3>2 DEF Some, All
  <2> HIDE DEF shown
  <2>5. /\ StateRefuted \in shown => decision = DecisionRefuted
        /\ decision = DecisionRefuted => StateRefuted \in shown \/ input.claims = <<>>
        /\ decision = DecisionUnknown <=>
             StateUnverified \in shown /\ StateRefuted \notin shown
        /\ decision = DecisionClosed <=> shown = {StateSupported}
    BY <1>2, <1>4, <2>2, <2>3, <2>4
  <2> QED BY <2>5 DEF DecisionFollowsStates, shown
<1>6. CASE ~input.header.decodes
  <2>1. decision = DecisionRefuted /\ states = <<>>
    BY <1>3, <1>6 DEF CallInv, Answered
  <2>2. shown = {}
    BY <2>1
  <2> HIDE DEF shown
  <2>3. /\ StateRefuted \in shown => decision = DecisionRefuted
        /\ decision = DecisionRefuted /\ input.header.decodes =>
             StateRefuted \in shown \/ input.claims = <<>>
        /\ decision = DecisionUnknown <=>
             StateUnverified \in shown /\ StateRefuted \notin shown
        /\ decision = DecisionClosed <=> shown = {StateSupported}
    BY <1>4, <1>6, <2>1, <2>2
  <2> QED BY <2>3 DEF DecisionFollowsStates, shown
<1> QED BY <1>5, <1>6

(* The published decision follows the published states with the precedence *)
(* REFUTED > UNKNOWN > CLOSED, for every input (evaluate.go:126).          *)
THEOREM DecisionCorrect == Spec => []DecisionFollowsStates
BY CallInvariant, DecisionHolds, PTL

-----------------------------------------------------------------------------
(* Sequences that grow.                                                    *)

LEMMA AppendExtends ==
  ASSUME NEW S, NEW s \in Seq(S), NEW e
  PROVE  IsExtension(Append(s, e), s)
<1> DEFINE T == S \cup {e}
           new == Append(s, e)
<1>1. s \in Seq(T) /\ e \in T
  <2>1. S \subseteq T /\ e \in T
    OBVIOUS
  <2>2. \A k \in 1..Len(s) : s[k] \in T
    BY <2>1, ElementOfSeq
  <2> HIDE DEF T
  <2> QED BY <2>1, <2>2, LenProperties
<1> HIDE DEF T
<1>2. /\ Len(s) \in Nat /\ Len(new) = Len(s) + 1
      /\ \A k \in 1..Len(s) : new[k] = s[k] /\ s[k] \in T
  BY <1>1, AppendProperties, LenProperties, ElementOfSeq
<1> HIDE DEF new
<1>3. /\ SubSeq(new, 1, Len(s)) \in Seq(T)
      /\ Len(SubSeq(new, 1, Len(s))) = Len(s)
      /\ \A k \in 1..Len(s) : SubSeq(new, 1, Len(s))[k] = new[k]
  <2>1. \A k \in 1..Len(s) : new[k] \in T
    BY <1>2
  <2>2. /\ SubSeq(new, 1, Len(s)) \in Seq(T)
        /\ Len(SubSeq(new, 1, Len(s))) = IF 1 <= Len(s) THEN Len(s) - 1 + 1 ELSE 0
        /\ \A k \in 1..(Len(s) - 1 + 1) : SubSeq(new, 1, Len(s))[k] = new[1 + k - 1]
    BY <1>2, <2>1, SubSeqProperties
  <2> QED BY <1>2, <2>2
<1>4. SubSeq(new, 1, Len(s)) = s
  BY <1>1, <1>2, <1>3, SeqEqual
<1> QED BY <1>2, <1>4 DEF IsExtension, new

LEMMA KeepExtends ==
  ASSUME NEW S, NEW s \in Seq(S)
  PROVE  IsExtension(s, s)
BY SubSeqFull, LenProperties DEF IsExtension

(* A judging step appends a state, and possibly a transition and a record. *)
LEMMA JudgingExtends ==
  ASSUME CallInv, JudgeStep
  PROVE  /\ \E new : states' = Append(states, new)
         /\ transitions' = transitions \/ \E new : transitions' = Append(transitions, new)
         /\ unknowns' = unknowns \/ \E new : unknowns' = Append(unknowns, new)
         /\ claims' = claims
         /\ \E r : addRefutation(r) \/ UNCHANGED <<hasRefuted, refutedReason>>
<1>1. ASSUME NEW claim, NEW state, NEW why, NEW cites, Conclude(claim, state, why, cites)
      PROVE  /\ \E new : states' = Append(states, new)
             /\ transitions' = transitions
                  \/ \E new : transitions' = Append(transitions, new)
             /\ claims' = claims
  BY <1>1, Unchanged DEF Conclude
<1>2. CASE RefuteSelfAttested
  BY <1>1, <1>2 DEF RefuteSelfAttested
<1>3. CASE RefuteByAuthority
  BY <1>1, <1>3, Unchanged DEF RefuteByAuthority
<1>4. CASE JudgeByEvidence
  <2>1. ASSUME NEW u, unknowns' = addUnknown(unknowns, u)
        PROVE  unknowns' = unknowns \/ \E new : unknowns' = Append(unknowns, new)
    BY <2>1 DEF addUnknown
  <2>2. PICK claim, state, why, cites, found, r :
          /\ Conclude(claim, state, why, cites)
          /\ addRefutation(r)
          /\ \/ UNCHANGED unknowns
             \/ \E u \in found : unknowns' = addUnknown(unknowns, u)
    BY <1>4 DEF JudgeByEvidence
  <2> QED BY <1>1, <2>1, <2>2
<1> QED BY <1>2, <1>3, <1>4 DEF JudgeStep

(* No step of a call rewrites a record, drops one, or replaces the reason  *)
(* of a refutation, for every input (evaluate.go:46-123).                  *)
THEOREM OnlyAppended == Spec => AppendOnly
<1> DEFINE Grows == /\ IsExtension(claims', claims)
                    /\ IsExtension(transitions', transitions)
                    /\ IsExtension(states', states)
                    /\ IsExtension(unknowns', unknowns)
                    /\ hasRefuted => hasRefuted' /\ refutedReason' = refutedReason
<1>1. CallInv /\ [Next]_vars => [Grows]_vars
  <2> SUFFICES ASSUME CallInv, Next PROVE Grows \/ UNCHANGED vars
    OBVIOUS
  <2>1. /\ claims \in Seq(ClaimRecord) /\ transitions \in Seq(Transition)
        /\ states \in Seq(ClaimState) /\ unknowns \in Seq(Unknown)
        /\ hasRefuted \in BOOLEAN /\ (hasRefuted <=> refutedReason # NoError)
    BY DEF CallInv, TypeOK, ReasonsGiven
  <2>2. /\ IsExtension(claims, claims) /\ IsExtension(transitions, transitions)
        /\ IsExtension(states, states) /\ IsExtension(unknowns, unknowns)
    BY <2>1, KeepExtends
  <2>3. ASSUME NEW r, addRefutation(r)
        PROVE  hasRefuted => hasRefuted' /\ refutedReason' = refutedReason
    BY <2>1, <2>3, RefutationKept
  <2>4. CASE RejectMalformed \/ EvidenceAdmitted \/ Resolve
    <3>1. /\ UNCHANGED <<claims, transitions, states, unknowns>>
          /\ UNCHANGED <<hasRefuted, refutedReason>>
      BY <2>4, Unchanged DEF RejectMalformed, EvidenceAdmitted, Resolve
    <3> QED BY <2>2, <3>1
  <2>5. CASE CheckHeader \/ ClaimsAdmitted \/ AdmitEvidence
    <3>1. UNCHANGED <<claims, transitions, states, unknowns>>
      BY <2>5, Unchanged DEF CheckHeader, ClaimsAdmitted, AdmitEvidence
    <3>2. \E r : addRefutation(r)
      BY <2>5 DEF CheckHeader, ClaimsAdmitted, AdmitEvidence
    <3> QED BY <2>2, <2>3, <3>1, <3>2
  <2>6. CASE AdmitClaim
    <3>1. /\ UNCHANGED <<transitions, states, unknowns>>
          /\ \E new : claims' = Append(claims, new)
          /\ \E r : addRefutation(r)
      BY <2>6, Unchanged DEF AdmitClaim
    <3> QED BY <2>1, <2>2, <2>3, <3>1, AppendExtends
  <2>7. CASE JudgeStep
    <3>1. /\ claims' = claims
          /\ \E new : states' = Append(states, new)
          /\ transitions' = transitions \/ \E new : transitions' = Append(transitions, new)
          /\ unknowns' = unknowns \/ \E new : unknowns' = Append(unknowns, new)
      BY <2>7, JudgingExtends
    <3>2. hasRefuted => hasRefuted' /\ refutedReason' = refutedReason
      <4>1. \E r : addRefutation(r) \/ UNCHANGED <<hasRefuted, refutedReason>>
        BY <2>7, JudgingExtends
      <4> QED BY <2>3, <4>1
    <3>3. IsExtension(states', states) /\ IsExtension(transitions', transitions)
      BY <2>1, <2>2, <3>1, AppendExtends
    <3>4. IsExtension(unknowns', unknowns)
      BY <2>1, <2>2, <3>1, AppendExtends
    <3> QED BY <2>2, <3>1, <3>2, <3>3, <3>4
  <2>8. CASE Returned
    BY <2>8 DEF Returned
  <2> QED BY <2>4, <2>5, <2>6, <2>7, <2>8 DEF Next, JudgeStep
<1> QED BY <1>1, CallInvariant, PTL DEF Spec, AppendOnly

-----------------------------------------------------------------------------
(* The ledger of a call.                                                   *)

(* The ledger that the records cs and the states ss stand for.             *)
LedgerOf(cs, ss) ==
  [k \in 1..Len(cs) |->
     IF k <= Len(ss) THEN ss[k].currentState ELSE StateUnverified]

LEMMA LedgerSequence ==
  ASSUME NEW cs \in Seq(ClaimRecord), NEW ss \in Seq(ClaimState), Len(ss) <= Len(cs)
  PROVE  /\ LedgerOf(cs, ss) \in Seq(ClaimStateNames)
         /\ Len(LedgerOf(cs, ss)) = Len(cs)
         /\ \A k \in 1..Len(cs) :
              LedgerOf(cs, ss)[k] = IF k <= Len(ss) THEN ss[k].currentState
                                    ELSE StateUnverified
<1>1. Len(cs) \in Nat /\ Len(ss) \in Nat
  BY LenProperties
<1>2. \A k \in 1..Len(ss) : ss[k].currentState \in ClaimStateNames
  <2>1. \A k \in 1..Len(ss) : ss[k] \in ClaimState
    BY ElementOfSeq
  <2> QED BY <2>1 DEF ClaimState
<1>3. StateUnverified \in ClaimStateNames
  BY DEF ClaimStateNames
<1>4. ASSUME NEW k \in 1..Len(cs)
      PROVE  (IF k <= Len(ss) THEN ss[k].currentState ELSE StateUnverified)
               \in ClaimStateNames
  BY <1>1, <1>2, <1>3
<1>5. /\ LedgerOf(cs, ss) \in [1..Len(cs) -> ClaimStateNames]
      /\ DOMAIN LedgerOf(cs, ss) = 1..Len(cs)
  BY <1>4 DEF LedgerOf
<1>6. LedgerOf(cs, ss) \in Seq(ClaimStateNames)
  BY <1>1, <1>5
<1>7. Len(LedgerOf(cs, ss)) = Len(cs)
  BY <1>1, <1>5, <1>6, LenProperties
<1> QED BY <1>6, <1>7 DEF LedgerOf

(* The same of the variables, before and after a step.                     *)
LEMMA LedgerOfVariables ==
  /\ ledgerOfCall = LedgerOf(claims, states)
  /\ ledgerOfCall' = LedgerOf(claims', states')
BY DEF ledgerOfCall, LedgerOf

LEMMA LedgerNow ==
  ASSUME CallInv, Len(states) <= Len(claims)
  PROVE  /\ ledgerOfCall \in Seq(ClaimStateNames)
         /\ Len(ledgerOfCall) = Len(claims)
         /\ DOMAIN ledgerOfCall = 1..Len(claims)
         /\ \A k \in 1..Len(claims) :
              ledgerOfCall[k] = IF k <= Len(states) THEN states[k].currentState
                                ELSE StateUnverified
<1>1. claims \in Seq(ClaimRecord) /\ states \in Seq(ClaimState)
  BY DEF CallInv, TypeOK
<1>2. /\ ledgerOfCall \in Seq(ClaimStateNames)
      /\ Len(ledgerOfCall) = Len(claims)
      /\ \A k \in 1..Len(claims) :
           ledgerOfCall[k] = IF k <= Len(states) THEN states[k].currentState
                             ELSE StateUnverified
  BY <1>1, LedgerSequence, LedgerOfVariables
<1>3. DOMAIN ledgerOfCall = 1..Len(claims)
  BY <1>2, LenProperties
<1> QED BY <1>2, <1>3

LEMMA LedgerStart == Init => Ledger!Init
<1> SUFFICES ASSUME Init PROVE Ledger!Init
  OBVIOUS
<1>1. CallInv /\ claims = <<>> /\ states = <<>> /\ pc = "decode"
      /\ hasRefuted = FALSE /\ decision = Pending
  BY InitInv DEF Init
<1>2. ledgerOfCall = <<>>
  <2>1. Len(claims) = 0 /\ Len(states) <= Len(claims)
    BY <1>1
  <2>2. ledgerOfCall \in Seq(ClaimStateNames) /\ Len(ledgerOfCall) = 0
    BY <1>1, <2>1, LedgerNow
  <2> QED BY <2>2, EmptySeq
<1>3. faultOfCall = FALSE /\ phaseOfCall = "registering"
  BY <1>1 DEF faultOfCall, phaseOfCall
<1> QED BY <1>1, <1>2, <1>3 DEF Ledger!Init, Pending

(* Loading: claims enter as UNVERIFIED and faults are found.               *)
LEMMA LoadingImplements ==
  ASSUME CallInv, CallInv',
         CheckHeader \/ AdmitClaim \/ ClaimsAdmitted \/ AdmitEvidence
  PROVE  [Ledger!Next]_(Ledger!vars)
<1>1. /\ pc \in {"decode", "claims", "evidence"} /\ pc' \in {"claims", "evidence"}
      /\ decision' = decision /\ states' = states
      /\ claims \in Seq(ClaimRecord) /\ Len(claims) \in Nat
      /\ states \in Seq(ClaimState) /\ Len(states) = 0
  <2>1. /\ pc \in {"decode", "claims", "evidence"} /\ pc' \in {"claims", "evidence"}
        /\ decision' = decision /\ states' = states
    BY Unchanged DEF CheckHeader, AdmitClaim, ClaimsAdmitted, AdmitEvidence
  <2>2. states = <<>>
    BY <2>1 DEF CallInv, NothingJudged, Loading
  <2>3. /\ claims \in Seq(ClaimRecord) /\ Len(claims) \in Nat
        /\ states \in Seq(ClaimState)
    BY LenProperties DEF CallInv, TypeOK
  <2> QED BY <2>1, <2>2, <2>3
<1>2. /\ phaseOfCall = "registering" /\ phaseOfCall' = "registering"
      /\ faultOfCall = hasRefuted /\ faultOfCall' = hasRefuted'
  BY <1>1 DEF phaseOfCall, faultOfCall
<1>3. hasRefuted \in BOOLEAN /\ hasRefuted' \in BOOLEAN /\ (hasRefuted => hasRefuted')
  <2>1. hasRefuted \in BOOLEAN /\ hasRefuted' \in BOOLEAN
        /\ (hasRefuted <=> refutedReason # NoError)
    BY DEF CallInv, TypeOK, ReasonsGiven
  <2>2. \E r : addRefutation(r)
    BY DEF CheckHeader, AdmitClaim, ClaimsAdmitted, AdmitEvidence
  <2> QED BY <2>1, <2>2, RefutationKept
<1>4. CASE claims' = claims
  <2>1. ledgerOfCall' = ledgerOfCall
    BY <1>1, <1>4 DEF ledgerOfCall
  <2>2. CASE hasRefuted' = hasRefuted
    BY <1>1, <1>2, <2>1, <2>2 DEF Ledger!vars
  <2>3. CASE hasRefuted'
    BY <1>1, <1>2, <2>1, <2>3 DEF Ledger!Next, Ledger!FindFault
  <2> QED BY <1>3, <2>2, <2>3
<1>5. CASE AdmitClaim
  <2>1. PICK new : claims' = Append(claims, new)
    BY <1>5 DEF AdmitClaim
  <2>2. Len(claims') = Len(claims) + 1 /\ Len(claims') \in Nat
    BY <1>1, <2>1
  <2>3. /\ ledgerOfCall \in Seq(ClaimStateNames) /\ Len(ledgerOfCall) = Len(claims)
        /\ \A k \in 1..Len(claims) : ledgerOfCall[k] = StateUnverified
    <3>1. Len(states) <= Len(claims) /\ \A k \in 1..Len(claims) : ~(k <= Len(states))
      BY <1>1
    <3> QED BY <3>1, LedgerNow
  <2>4. /\ ledgerOfCall' \in Seq(ClaimStateNames) /\ Len(ledgerOfCall') = Len(claims')
        /\ \A k \in 1..Len(claims') : ledgerOfCall'[k] = StateUnverified
    <3>1. Len(states') = 0 /\ Len(states') <= Len(claims')
      BY <1>1, <2>2
    <3>2. /\ ledgerOfCall' \in Seq(ClaimStateNames)
          /\ Len(ledgerOfCall') = Len(claims')
          /\ \A k \in 1..Len(claims') :
               ledgerOfCall'[k] = IF k <= Len(states') THEN states'[k].currentState
                                  ELSE StateUnverified
      BY <1>1, <2>2, <3>1, LedgerSequence, LedgerOfVariables DEF CallInv, TypeOK
    <3> QED BY <3>1, <3>2
  <2>5. ledgerOfCall' = Append(ledgerOfCall, StateUnverified)
    <3>1. StateUnverified \in ClaimStateNames
      BY DEF ClaimStateNames
    <3> DEFINE more == Append(ledgerOfCall, StateUnverified)
    <3>2. /\ more \in Seq(ClaimStateNames) /\ Len(more) = Len(claims) + 1
          /\ \A k \in 1..Len(claims) : more[k] = StateUnverified
          /\ more[Len(claims) + 1] = StateUnverified
      BY <2>3, <3>1, AppendProperties
    <3> HIDE DEF more
    <3>3. \A k \in 1..Len(claims') : more[k] = StateUnverified
      BY <1>1, <2>2, <3>2
    <3>4. ledgerOfCall' = more
      BY <2>2, <2>4, <3>2, <3>3, SeqEqual
    <3> QED BY <3>4 DEF more
  <2>6. faultOfCall' \in {faultOfCall, TRUE}
    BY <1>2, <1>3
  <2> QED BY <1>1, <1>2, <2>5, <2>6 DEF Ledger!Next, Ledger!Register, StateUnverified
<1>6. CASE CheckHeader \/ ClaimsAdmitted \/ AdmitEvidence
  <2>1. claims' = claims
    BY <1>6, Unchanged DEF CheckHeader, ClaimsAdmitted, AdmitEvidence
  <2> QED BY <1>4, <2>1
<1> QED BY <1>5, <1>6

(* The loops are done: what was found while loading is the fault.          *)
LEMMA OpeningImplements ==
  ASSUME CallInv, EvidenceAdmitted
  PROVE  Ledger!Next
<1>1. /\ pc = "evidence" /\ pc' = "judge" /\ authorityRefuted' = hasRefuted
      /\ UNCHANGED <<input, claims, states, decision>>
  BY Unchanged DEF EvidenceAdmitted
<1>2. /\ phaseOfCall = "registering" /\ phaseOfCall' = "judging"
      /\ faultOfCall' = faultOfCall /\ faultOfCall = hasRefuted
  BY <1>1 DEF phaseOfCall, faultOfCall
<1>3. ledgerOfCall' = ledgerOfCall
  BY <1>1, LedgerOfVariables
<1>4. ledgerOfCall = <<>> => hasRefuted
  <2>1. /\ claims \in Seq(ClaimRecord) /\ input.claims \in Seq(Claim)
        /\ states \in Seq(ClaimState)
    BY InputType DEF CallInv, TypeOK
  <2>2. Len(claims) = Len(input.claims) /\ states = <<>>
    BY <1>1 DEF CallInv, Positions, NothingJudged, Loading
  <2>3. Len(ledgerOfCall) = Len(claims)
    <3>1. Len(states) <= Len(claims)
      BY <2>1, <2>2, LenProperties
    <3> QED BY <3>1, LedgerNow
  <2>4. ledgerOfCall = <<>> => input.claims = <<>>
    BY <2>1, <2>2, <2>3, EmptySeq
  <2>5. input.claims = <<>> => hasRefuted
    BY <1>1 DEF CallInv, NoClaimsIsAFault
  <2> QED BY <2>4, <2>5
<1> QED BY <1>1, <1>2, <1>3, <1>4 DEF Ledger!Next, Ledger!Open

(* A judged claim settles, or stays UNVERIFIED.                            *)
LEMMA SettlingImplements ==
  ASSUME CallInv, JudgeStep
  PROVE  [Ledger!Next]_(Ledger!vars)
<1>1. /\ pc = "judge" /\ index <= Len(input.claims)
      /\ UNCHANGED <<pc, input, claims, authorityRefuted, decision>>
  BY Judgement
<1>2. PICK state \in ClaimStateNames, new \in ClaimState :
        /\ new.currentState = state /\ states' = Append(states, new)
        /\ authorityRefuted => state = StateRefuted
  BY Judgement
<1>3. /\ claims \in Seq(ClaimRecord) /\ states \in Seq(ClaimState)
      /\ Len(states) \in Nat /\ Len(claims) \in Nat
      /\ Len(states) + 1 <= Len(claims)
  <2>1. /\ claims \in Seq(ClaimRecord) /\ states \in Seq(ClaimState)
        /\ index \in Nat /\ Len(states) \in Nat /\ Len(claims) \in Nat
    BY LenProperties DEF CallInv, TypeOK
  <2>2. Len(claims) = Len(input.claims) /\ Len(states) = index - 1
    BY <1>1 DEF CallInv, Positions
  <2> QED BY <1>1, <2>1, <2>2
<1>4. /\ phaseOfCall = "judging" /\ phaseOfCall' = "judging"
      /\ faultOfCall = authorityRefuted /\ faultOfCall' = authorityRefuted
  BY <1>1 DEF phaseOfCall, faultOfCall
<1>5. /\ states' \in Seq(ClaimState) /\ Len(states') = Len(states) + 1
      /\ \A k \in 1..Len(states) : states'[k] = states[k]
      /\ states'[Len(states) + 1] = new
  BY <1>2, <1>3, AppendProperties
<1> DEFINE at == Len(states) + 1
<1>6. /\ ledgerOfCall \in Seq(ClaimStateNames) /\ Len(ledgerOfCall) = Len(claims)
      /\ \A k \in 1..Len(claims) :
           ledgerOfCall[k] = IF k <= Len(states) THEN states[k].currentState
                             ELSE StateUnverified
  <2>1. Len(states) <= Len(claims)
    BY <1>3
  <2> QED BY <2>1, LedgerNow
<1>7. /\ ledgerOfCall' \in Seq(ClaimStateNames) /\ Len(ledgerOfCall') = Len(claims)
      /\ \A k \in 1..Len(claims) :
           ledgerOfCall'[k] = IF k <= at THEN states'[k].currentState
                              ELSE StateUnverified
  BY <1>1, <1>3, <1>5, LedgerSequence, LedgerOfVariables
<1>8. at \in 1..Len(claims) /\ ledgerOfCall[at] = StateUnverified
  BY <1>3, <1>6
<1>9. ASSUME NEW k \in 1..Len(claims)
      PROVE  ledgerOfCall'[k] = IF k = at THEN state ELSE ledgerOfCall[k]
  <2>1. CASE k <= Len(states)
    <3>1. k \in 1..Len(states) /\ k # at /\ k <= at
      BY <1>3, <2>1
    <3> QED BY <1>5, <1>6, <1>7, <2>1, <3>1
  <2>2. CASE k = at
    BY <1>2, <1>3, <1>5, <1>7, <2>2
  <2>3. CASE k > at
    <3>1. ~(k <= Len(states)) /\ ~(k <= at) /\ k # at
      BY <1>3, <2>3
    <3> QED BY <1>6, <1>7, <3>1
  <2> QED BY <1>3, <2>1, <2>2, <2>3
<1>10. ledgerOfCall' = [ledgerOfCall EXCEPT ![at] = state]
  <2> DEFINE settled == [ledgerOfCall EXCEPT ![at] = state]
  <2>1. /\ settled \in Seq(ClaimStateNames) /\ Len(settled) = Len(claims)
        /\ \A k \in 1..Len(claims) :
             settled[k] = IF k = at THEN state ELSE ledgerOfCall[k]
    <3> HIDE DEF at
    <3> QED BY <1>2, <1>6, <1>8, ExceptSeq
  <2> HIDE DEF settled, at
  <2>2. \A k \in 1..Len(claims) : ledgerOfCall'[k] = settled[k]
    BY <1>9, <2>1
  <2>3. ledgerOfCall' = settled
    BY <1>7, <2>1, <2>2, SeqEqual
  <2> QED BY <2>3 DEF settled
<1> HIDE DEF at
<1>11. at \in DOMAIN ledgerOfCall
  BY <1>6, <1>8, LenProperties
<1>12. CASE state = StateUnverified
  <2>1. \A k \in 1..Len(claims) : ledgerOfCall'[k] = ledgerOfCall[k]
    BY <1>8, <1>9, <1>12
  <2>2. ledgerOfCall' = ledgerOfCall
    BY <1>6, <1>7, <2>1, SeqEqual
  <2> QED BY <1>1, <1>4, <2>2 DEF Ledger!vars
<1>13. CASE state # StateUnverified
  <2>1. state \in {"SUPPORTED", "REFUTED"}
    BY <1>2, <1>13 DEF ClaimStateNames, StateSupported, StateRefuted, StateUnverified
  <2>2. Ledger!Settle(at, state)
    BY <1>1, <1>2, <1>4, <1>8, <1>10
       DEF Ledger!Settle, StateUnverified, StateRefuted
  <2> QED BY <1>11, <2>1, <2>2 DEF Ledger!Next
<1> QED BY <1>12, <1>13

(* The report: a rejection without a ledger, or the verdict on it.         *)
LEMMA ReportImplements ==
  ASSUME CallInv, RejectMalformed \/ Resolve
  PROVE  Ledger!Next
<1>1. CASE RejectMalformed
  <2>1. /\ pc = "decode" /\ pc' = "done" /\ decision' = DecisionRefuted
        /\ UNCHANGED <<claims, states, hasRefuted, authorityRefuted>>
    BY <1>1, Unchanged DEF RejectMalformed
  <2>2. /\ claims = <<>> /\ states = <<>>
        /\ hasRefuted = FALSE /\ authorityRefuted = FALSE
    BY <2>1 DEF CallInv, Fresh, NothingJudged, Loading
  <2>3. /\ phaseOfCall = "registering" /\ phaseOfCall' = "published"
        /\ faultOfCall' = faultOfCall
    BY <2>1, <2>2 DEF phaseOfCall, faultOfCall
  <2>4. ledgerOfCall = <<>> /\ ledgerOfCall' = ledgerOfCall
    <3>1. Len(claims) = 0 /\ Len(states) <= Len(claims)
      BY <2>2
    <3>2. ledgerOfCall \in Seq(ClaimStateNames) /\ Len(ledgerOfCall) = 0
      BY <3>1, LedgerNow
    <3>3. ledgerOfCall' = ledgerOfCall
      BY <2>1, LedgerOfVariables
    <3> QED BY <3>2, <3>3, EmptySeq
  <2> QED BY <2>1, <2>3, <2>4 DEF Ledger!Next, Ledger!Reject, DecisionRefuted
<1>2. CASE Resolve
  <2> DEFINE shown == {ledgerOfCall[k] : k \in DOMAIN ledgerOfCall}
  <2>1. /\ pc = "judge" /\ pc' = "done" /\ index > Len(input.claims)
        /\ decision' = resolveDecision(hasRefuted, Len(unknowns), allSupported(states))
        /\ UNCHANGED <<claims, states, authorityRefuted>>
    BY <1>2, Unchanged DEF Resolve
  <2>2. /\ claims \in Seq(ClaimRecord) /\ states \in Seq(ClaimState)
        /\ Len(claims) = Len(input.claims) /\ Len(states) = Len(input.claims)
        /\ Len(states) \in Nat
    <3>1. /\ claims \in Seq(ClaimRecord) /\ states \in Seq(ClaimState)
          /\ Len(input.claims) \in Nat /\ index \in Nat /\ Len(states) \in Nat
      BY InputType, LenProperties DEF CallInv, TypeOK
    <3>2. /\ Len(claims) = Len(input.claims)
          /\ Len(states) = index - 1 /\ index <= Len(input.claims) + 1
      BY <2>1 DEF CallInv, Positions
    <3> QED BY <2>1, <3>1, <3>2
  <2>3. /\ phaseOfCall = "judging" /\ phaseOfCall' = "published"
        /\ faultOfCall = authorityRefuted /\ faultOfCall' = authorityRefuted
        /\ ledgerOfCall' = ledgerOfCall
    BY <2>1, LedgerOfVariables DEF phaseOfCall, faultOfCall
  <2>4. /\ DOMAIN ledgerOfCall = 1..Len(states)
        /\ \A k \in 1..Len(states) : ledgerOfCall[k] = states[k].currentState
    <3>1. /\ Len(states) = Len(claims) /\ Len(states) <= Len(claims)
          /\ \A k \in 1..Len(states) : k <= Len(states)
      BY <2>2
    <3> QED BY <3>1, LedgerNow
  <2>5. \A s : s \in shown <=> Some(s)
    BY <2>4 DEF Some
  <2>6. authorityRefuted => All(StateRefuted)
    BY <2>1 DEF CallInv, FlagsAgree, Judged
  <2>7. authorityRefuted => shown \subseteq {StateRefuted}
    BY <2>4, <2>6 DEF All
  <2> HIDE DEF shown
  <2>8. decision' = IF authorityRefuted \/ Some(StateRefuted) THEN DecisionRefuted
                    ELSE IF Some(StateUnverified) THEN DecisionUnknown
                    ELSE DecisionClosed
    BY <2>1, <2>2, DecisionOfStates DEF Judged
  <2>9. Ledger!Shown = shown
    BY DEF Ledger!Shown, shown
  <2>10. decision' = Ledger!Verdict
    BY <2>3, <2>5, <2>8, <2>9
       DEF Ledger!Verdict, StateRefuted, StateUnverified,
           DecisionRefuted, DecisionUnknown, DecisionClosed
  <2> QED BY <2>3, <2>7, <2>9, <2>10 DEF Ledger!Next, Ledger!Publish, StateRefuted
<1> QED BY <1>1, <1>2

LEMMA StutterImplements ==
  ASSUME UNCHANGED vars
  PROVE  UNCHANGED Ledger!vars
<1>1. UNCHANGED <<pc, claims, states, hasRefuted, authorityRefuted, decision>>
  BY Unchanged DEF vars
<1>2. phaseOfCall' = phaseOfCall /\ faultOfCall' = faultOfCall
      /\ ledgerOfCall' = ledgerOfCall
  BY <1>1, LedgerOfVariables DEF phaseOfCall, faultOfCall
<1> QED BY <1>1, <1>2 DEF Ledger!vars

(* Observe implements the claim ledger, for every input: claims enter      *)
(* UNVERIFIED and leave that state at most once, a fault of the authority  *)
(* refutes them all, and the verdict is that of the published states       *)
(* (evaluate.go:14-136).                                                   *)
THEOREM LedgerImplemented == Spec => ImplementsLedger
<1>1. CallInv /\ CallInv' /\ [Next]_vars => [Ledger!Next]_(Ledger!vars)
  <2> SUFFICES ASSUME CallInv, CallInv', [Next]_vars
               PROVE  [Ledger!Next]_(Ledger!vars)
    OBVIOUS
  <2>1. CASE UNCHANGED vars \/ Returned
    BY <2>1, StutterImplements DEF Returned
  <2>2. CASE CheckHeader \/ AdmitClaim \/ ClaimsAdmitted \/ AdmitEvidence
    BY <2>2, LoadingImplements
  <2>3. CASE EvidenceAdmitted
    BY <2>3, OpeningImplements
  <2>4. CASE JudgeStep
    BY <2>4, SettlingImplements
  <2>5. CASE RejectMalformed \/ Resolve
    BY <2>5, ReportImplements
  <2> QED BY <2>1, <2>2, <2>3, <2>4, <2>5 DEF Next, JudgeStep
<1>2. Init => Ledger!Init
  BY LedgerStart
<1> QED BY <1>1, <1>2, CallInvariant, PTL DEF Spec, ImplementsLedger, Ledger!Spec
=============================================================================
