------------------------------ MODULE FaultProofs ------------------------------
(***************************************************************************)
(* Proofs that Observe refutes exactly what it has a cause to refute, and  *)
(* closes only what was earned, for every input: every number of claims    *)
(* and of items of evidence, with faults anywhere among them.  Then that   *)
(* what a report publishes beside its decision agrees with it: the streams *)
(* replay to the states, every UNVERIFIED claim is explained, and the      *)
(* reason is that of the first refutation or of the first UNKNOWN record.  *)
(***************************************************************************)
EXTENDS ObserverProofs

-----------------------------------------------------------------------------
(* The inductive invariant.  FaultsAreContained speaks of the input, the   *)
(* code of what it has kept of it: the ids in a map, the evidence sorted   *)
(* by claim and one flag.  The invariant says what each of these stands    *)
(* for, at any point of the two loading loops and ever after.              *)

ClaimsRead ==
  IF pc = "decode" THEN 0
  ELSE IF pc = "claims" THEN index - 1 ELSE Len(input.claims)

EvidenceRead ==
  IF pc \in {"decode", "claims"} THEN 0
  ELSE IF pc = "evidence" THEN index - 1 ELSE Len(input.evidence)

Claimed(n, id) == \E k \in 1..n : input.claims[k].id = id

HeaderFault ==
  \/ ~input.header.contract \/ input.header.metaError # NoError
  \/ input.header.escalates \/ ~Immutable(input.header.evaluator)

ClaimFaultAt(k) ==
  \/ ~WellBound(input.claims[k], input.header.evaluator)
  \/ Claimed(k - 1, input.claims[k].id)

EvidenceFaultAt(k) ==
  \/ ~WellObserved(input.evidence[k], input.header.evaluator)
  \/ ~Claimed(Len(input.claims), input.evidence[k].claimID)

FaultRead ==
  \/ HeaderFault
  \/ pc \notin {"decode", "claims"} /\ input.claims = <<>>
  \/ \E k \in 1..ClaimsRead : ClaimFaultAt(k)
  \/ \E k \in 1..EvidenceRead : EvidenceFaultAt(k)

(* The keys of the map are the ids of the claims read.                     *)
IdsAdmitted == \A id \in ClaimIds : id \in claimByID <=> Claimed(ClaimsRead, id)

(* What is kept for a claim id is the evidence that was read and names it. *)
EvidenceSorted ==
  /\ \A id \in ClaimIds : \A j \in 1..Len(evidenceByClaim[id]) :
       \E k \in 1..EvidenceRead :
         evidenceByClaim[id][j] = input.evidence[k] /\ input.evidence[k].claimID = id
  /\ \A k \in 1..EvidenceRead :
       LET id == input.evidence[k].claimID
       IN  id \in claimByID =>
             \E j \in 1..Len(evidenceByClaim[id]) :
               evidenceByClaim[id][j] = input.evidence[k]

(* The flag is up exactly when a fault was read.                           *)
FaultsNoted ==
  /\ pc \in {"claims", "evidence"} => (hasRefuted <=> FaultRead)
  /\ pc \in {"judge", "done"} => (authorityRefuted <=> FaultRead)

FaultInv ==
  /\ CallInv
  /\ pc = "evidence" => index <= Len(input.evidence) + 1
  /\ input.header.decodes => IdsAdmitted /\ EvidenceSorted /\ FaultsNoted
  /\ FaultsAreContained

-----------------------------------------------------------------------------
(* What is said of the input alone stays as it is.                         *)
LEMMA SameInput ==
  ASSUME input' = input
  PROVE  /\ HeaderFault' <=> HeaderFault
         /\ AuthorityFault' <=> AuthorityFault
         /\ \A n, id : Claimed(n, id)' <=> Claimed(n, id)
         /\ \A k : ClaimFaultAt(k)' <=> ClaimFaultAt(k)
         /\ \A k : EvidenceFaultAt(k)' <=> EvidenceFaultAt(k)
         /\ \A claim, o : HasEvidence(claim, o)' <=> HasEvidence(claim, o)
<1>1. \A n, id : Claimed(n, id)' <=> Claimed(n, id)
  BY DEF Claimed
<1>2. \A k : ClaimFaultAt(k)' <=> ClaimFaultAt(k)
  BY <1>1 DEF ClaimFaultAt
<1>3. \A k : EvidenceFaultAt(k)' <=> EvidenceFaultAt(k)
  BY <1>1 DEF EvidenceFaultAt
<1>4. \A claim, o : HasEvidence(claim, o)' <=> HasEvidence(claim, o)
  BY DEF HasEvidence
<1>5. HeaderFault' <=> HeaderFault
  BY DEF HeaderFault
<1>6. AuthorityFault' <=> AuthorityFault
  BY DEF AuthorityFault
<1> QED BY <1>1, <1>2, <1>3, <1>4, <1>5, <1>6

LEMMA ClaimedNext ==
  ASSUME NEW n \in Nat \ {0}
  PROVE  \A id : Claimed(n, id) <=> Claimed(n - 1, id) \/ input.claims[n].id = id
<1>1. 1..n = 1..(n - 1) \cup {n}
  OBVIOUS
<1> QED BY <1>1 DEF Claimed

(* All that was read together is what the documents call a fault.          *)
LEMMA FaultOfInput ==
  ASSUME TypeOK, pc \in {"judge", "done"}
  PROVE  FaultRead <=> AuthorityFault
<1> DEFINE cs == input.claims
           es == input.evidence
<1>1. /\ DOMAIN cs = 1..Len(cs) /\ DOMAIN es = 1..Len(es)
      /\ Len(cs) \in Nat /\ Len(es) \in Nat
  BY InputType, LenProperties DEF TypeOK
<1>2. ClaimsRead = Len(cs) /\ EvidenceRead = Len(es)
  BY DEF ClaimsRead, EvidenceRead
<1>3. (\E k \in 1..Len(cs) : Claimed(k - 1, cs[k].id))
        <=> \E j, k \in DOMAIN cs : j # k /\ cs[j].id = cs[k].id
  <2>1. ASSUME NEW k \in 1..Len(cs), Claimed(k - 1, cs[k].id)
        PROVE  \E j, i \in DOMAIN cs : j # i /\ cs[j].id = cs[i].id
    <3>1. PICK j \in 1..(k - 1) : cs[j].id = cs[k].id
      BY <2>1 DEF Claimed
    <3>2. j \in DOMAIN cs /\ k \in DOMAIN cs /\ j # k
      BY <1>1
    <3> QED BY <3>1, <3>2
  <2>2. ASSUME NEW j \in DOMAIN cs, NEW k \in DOMAIN cs, j # k, cs[j].id = cs[k].id
        PROVE  \E i \in 1..Len(cs) : Claimed(i - 1, cs[i].id)
    <3>1. j \in 1..(k - 1) \/ k \in 1..(j - 1)
      BY <1>1, <2>2
    <3>2. Claimed(k - 1, cs[k].id) \/ Claimed(j - 1, cs[j].id)
      BY <2>2, <3>1 DEF Claimed
    <3> QED BY <1>1, <3>2
  <2> QED BY <2>1, <2>2
<1>4. (\E k \in 1..Len(cs) : ClaimFaultAt(k))
        <=> \/ \E k \in DOMAIN cs : ~WellBound(cs[k], input.header.evaluator)
            \/ \E j, k \in DOMAIN cs : j # k /\ cs[j].id = cs[k].id
  <2>1. (\E k \in 1..Len(cs) : ClaimFaultAt(k))
          <=> \/ \E k \in 1..Len(cs) : ~WellBound(cs[k], input.header.evaluator)
              \/ \E k \in 1..Len(cs) : Claimed(k - 1, cs[k].id)
    BY DEF ClaimFaultAt
  <2> HIDE DEF cs
  <2> QED BY <1>1, <1>3, <2>1
<1>5. \A k \in 1..Len(es) : EvidenceFaultAt(k)
        <=> \/ ~WellObserved(es[k], input.header.evaluator)
            \/ es[k].claimID \notin {cs[j].id : j \in DOMAIN cs}
  BY <1>1 DEF EvidenceFaultAt, Claimed
<1>6. FaultRead <=> \/ HeaderFault \/ cs = <<>>
                    \/ \E k \in 1..Len(cs) : ClaimFaultAt(k)
                    \/ \E k \in 1..Len(es) : EvidenceFaultAt(k)
  BY <1>2 DEF FaultRead
<1>7. AuthorityFault <=>
        \/ HeaderFault \/ cs = <<>>
        \/ \E j, k \in DOMAIN cs : j # k /\ cs[j].id = cs[k].id
        \/ \E k \in DOMAIN cs : ~WellBound(cs[k], input.header.evaluator)
        \/ \E k \in DOMAIN es :
             \/ ~WellObserved(es[k], input.header.evaluator)
             \/ es[k].claimID \notin {cs[j].id : j \in DOMAIN cs}
  BY DEF AuthorityFault, HeaderFault
<1> HIDE DEF cs, es
<1> QED BY <1>1, <1>4, <1>5, <1>6, <1>7

-----------------------------------------------------------------------------
(* The loading loops.                                                      *)

Loaded == IdsAdmitted /\ EvidenceSorted /\ FaultsNoted

LEMMA HeaderRead ==
  ASSUME FaultInv, CheckHeader
  PROVE  Loaded'
<1>1. /\ pc = "decode" /\ pc' = "claims" /\ index' = 1 /\ input' = input
      /\ claimByID' = claimByID /\ evidenceByClaim' = evidenceByClaim
      /\ hasRefuted = FALSE /\ IdsAdmitted /\ EvidenceSorted
  BY Unchanged DEF CheckHeader, FaultInv, CallInv, Fresh
<1>2. ClaimsRead = 0 /\ EvidenceRead = 0 /\ ClaimsRead' = 0 /\ EvidenceRead' = 0
  BY <1>1 DEF ClaimsRead, EvidenceRead
<1>3. IdsAdmitted' /\ EvidenceSorted'
  BY <1>1, <1>2, SameInput DEF IdsAdmitted, EvidenceSorted
<1>4. addRefutation(headerReason(input.header))
  BY DEF CheckHeader
<1>5. input.header \in Header
  BY DEF FaultInv, CallInv, TypeOK, Input
<1>6. headerReason(input.header) # NoError <=> HeaderFault
  BY <1>5, HeaderCheck DEF HeaderFault
<1>7. hasRefuted' <=> HeaderFault
  BY <1>1, <1>4, <1>6 DEF addRefutation
<1>8. FaultRead' <=> HeaderFault
  BY <1>1, <1>2, SameInput DEF FaultRead
<1> QED BY <1>1, <1>3, <1>7, <1>8 DEF Loaded, FaultsNoted

LEMMA ClaimRead ==
  ASSUME FaultInv, AdmitClaim
  PROVE  Loaded'
<1> DEFINE claim == input.claims[index]
           taken == claim.id = NoId \/ claim.id \in claimByID
           r == IF taken THEN "INVALID_OR_DUPLICATE_CLAIM"
                ELSE validateClaim(claim, input.header.evaluator)
<1>1. /\ pc = "claims" /\ pc' = "claims" /\ index' = index + 1
      /\ index \in Nat \ {0} /\ index <= Len(input.claims)
      /\ input' = input /\ evidenceByClaim' = evidenceByClaim
      /\ input.header.decodes /\ hasRefuted \in BOOLEAN
      /\ claimByID' = IF taken THEN claimByID ELSE claimByID \cup {claim.id}
      /\ addRefutation(r)
  BY DEF AdmitClaim, FaultInv, CallInv, TypeOK, Answered
<1>2. ClaimsRead = index - 1 /\ EvidenceRead = 0 /\ ClaimsRead' = index /\ EvidenceRead' = 0
  BY <1>1 DEF ClaimsRead, EvidenceRead
<1>3. IdsAdmitted /\ EvidenceSorted /\ FaultsNoted
  BY <1>1 DEF FaultInv
<1>4. claim \in Claim /\ claim.id \in ClaimIds \cup {NoId}
      /\ input.header.evaluator \in EvaluatorReference
  <2>1. claim \in Claim /\ input.header.evaluator \in EvaluatorReference
    BY <1>1, InputType DEF FaultInv, CallInv, TypeOK
  <2> QED BY <2>1 DEF Claim
<1> HIDE DEF claim
<1>5. \A id : Claimed(index, id) <=> Claimed(index - 1, id) \/ claim.id = id
  BY <1>1, ClaimedNext DEF claim
<1>6. NoId \notin ClaimIds
  BY InputAssumption
<1>7. \A id \in ClaimIds : id \in claimByID <=> Claimed(index - 1, id)
  BY <1>2, <1>3 DEF IdsAdmitted
<1>8. \A id \in ClaimIds : id \in claimByID' <=> Claimed(index, id)
  <2>1. claimByID' = IF taken THEN claimByID ELSE claimByID \cup {claim.id}
    BY <1>1
  <2>2. CASE taken
    BY <1>5, <1>6, <1>7, <2>1, <2>2
  <2>3. CASE ~taken
    <3>1. claimByID' = claimByID \cup {claim.id}
      BY <2>1, <2>3
    <3> QED BY <1>5, <1>7, <3>1
  <2> QED BY <2>2, <2>3
<1>9. IdsAdmitted'
  BY <1>1, <1>2, <1>8, SameInput DEF IdsAdmitted
<1>10. EvidenceSorted'
  BY <1>1, <1>2, <1>3 DEF EvidenceSorted
<1>11. r # NoError <=> ClaimFaultAt(index)
  <2>1. claim.id # NoId /\ validateClaim(claim, input.header.evaluator) = NoError
          <=> WellBound(claim, input.header.evaluator)
    BY <1>4, ClaimCheck
  <2>2. taken <=> claim.id = NoId \/ Claimed(index - 1, claim.id)
    BY <1>4, <1>6, <1>7
  <2>3. ClaimFaultAt(index) <=> \/ ~WellBound(claim, input.header.evaluator)
                                \/ Claimed(index - 1, claim.id)
    BY DEF ClaimFaultAt, claim
  <2>4. taken => r # NoError
    BY DEF NoError
  <2>5. ~taken => r = validateClaim(claim, input.header.evaluator)
    OBVIOUS
  <2> HIDE DEF taken, r
  <2> QED BY <2>1, <2>2, <2>3, <2>4, <2>5
<1> HIDE DEF r, taken
<1>12. hasRefuted' <=> hasRefuted \/ ClaimFaultAt(index)
  BY <1>1, <1>11 DEF addRefutation
<1>13. 1..index = 1..(index - 1) \cup {index}
  BY <1>1
<1>14. FaultRead' <=> FaultRead \/ ClaimFaultAt(index)
  BY <1>1, <1>2, <1>13, SameInput DEF FaultRead
<1>15. FaultsNoted'
  BY <1>1, <1>3, <1>12, <1>14 DEF FaultsNoted
<1> QED BY <1>9, <1>10, <1>15 DEF Loaded

LEMMA ClaimsEnd ==
  ASSUME FaultInv, ClaimsAdmitted
  PROVE  Loaded'
<1>1. /\ pc = "claims" /\ pc' = "evidence" /\ index' = 1
      /\ index \in Nat \ {0} /\ index > Len(input.claims)
      /\ input' = input /\ claimByID' = claimByID /\ evidenceByClaim' = evidenceByClaim
      /\ input.header.decodes /\ hasRefuted \in BOOLEAN
      /\ addRefutation(FailIf(input.claims = <<>>, "CLAIMS_REQUIRED"))
  BY Unchanged DEF ClaimsAdmitted, FaultInv, CallInv, TypeOK, Answered
<1>2. Len(input.claims) = index - 1
  BY <1>1, InputType DEF FaultInv, CallInv, Positions, TypeOK
<1>3. /\ ClaimsRead = index - 1 /\ EvidenceRead = 0
      /\ ClaimsRead' = index - 1 /\ EvidenceRead' = 0
  BY <1>1, <1>2 DEF ClaimsRead, EvidenceRead
<1>4. IdsAdmitted /\ EvidenceSorted /\ FaultsNoted
  BY <1>1 DEF FaultInv
<1>5. IdsAdmitted' /\ EvidenceSorted'
  BY <1>1, <1>3, <1>4, SameInput DEF IdsAdmitted, EvidenceSorted
<1>6. hasRefuted' <=> hasRefuted \/ input.claims = <<>>
  BY <1>1 DEF addRefutation, FailIf, NoError
<1>7. FaultRead' <=> FaultRead \/ input.claims = <<>>
  BY <1>1, <1>3, SameInput DEF FaultRead
<1> QED BY <1>1, <1>4, <1>5, <1>6, <1>7 DEF Loaded, FaultsNoted

LEMMA ItemSorted ==
  ASSUME FaultInv, AdmitEvidence
  PROVE  EvidenceSorted'
<1> DEFINE item    == input.evidence[index]
           unbound == item.claimID = NoId \/ item.claimID \notin claimByID
<1>1. /\ pc = "evidence" /\ pc' = "evidence" /\ index' = index + 1
      /\ index \in Nat \ {0} /\ index <= Len(input.evidence)
      /\ input' = input /\ claimByID' = claimByID /\ input.header.decodes
      /\ claimByID \in SUBSET ClaimIds /\ EvidenceSorted
  BY DEF AdmitEvidence, FaultInv, CallInv, TypeOK, Answered
<1>2. EvidenceRead = index - 1 /\ EvidenceRead' = index
  BY <1>1 DEF EvidenceRead
<1>3. item \in Evidence /\ evidenceByClaim \in [ClaimIds \cup {NoId} -> Seq(Evidence)]
  BY <1>1, InputType DEF FaultInv, CallInv, TypeOK
<1>4. evidenceByClaim' =
        IF unbound THEN evidenceByClaim
        ELSE [evidenceByClaim EXCEPT ![item.claimID] = Append(@, item)]
  BY DEF AdmitEvidence
<1> HIDE DEF item
<1>5. \A id \in ClaimIds :
        evidenceByClaim'[id] = IF ~unbound /\ id = item.claimID
                               THEN Append(evidenceByClaim[id], item)
                               ELSE evidenceByClaim[id]
  BY <1>3, <1>4
<1>6. ASSUME NEW id \in ClaimIds
      PROVE  /\ Len(evidenceByClaim[id]) \in Nat
             /\ Len(Append(evidenceByClaim[id], item)) = Len(evidenceByClaim[id]) + 1
             /\ \A j \in 1..Len(evidenceByClaim[id]) :
                  Append(evidenceByClaim[id], item)[j] = evidenceByClaim[id][j]
             /\ Append(evidenceByClaim[id], item)[Len(evidenceByClaim[id]) + 1] = item
  <2>1. evidenceByClaim[id] \in Seq(Evidence)
    BY <1>3
  <2> QED BY <1>3, <2>1, AppendProperties, LenProperties
<1>7. item = input.evidence[index] /\ index \in 1..index
      /\ \A k \in 1..(index - 1) : k \in 1..index
  BY <1>1 DEF item
<1>8. ASSUME NEW id \in ClaimIds, NEW j \in 1..Len(evidenceByClaim'[id])
      PROVE  \E k \in 1..index : /\ evidenceByClaim'[id][j] = input.evidence[k]
                                 /\ input.evidence[k].claimID = id
  <2>1. CASE j \in 1..Len(evidenceByClaim[id])
    <3>1. evidenceByClaim'[id][j] = evidenceByClaim[id][j]
      BY <1>5, <1>6, <2>1
    <3>2. \E k \in 1..(index - 1) : /\ evidenceByClaim[id][j] = input.evidence[k]
                                    /\ input.evidence[k].claimID = id
      BY <1>1, <1>2, <2>1 DEF EvidenceSorted
    <3> QED BY <1>7, <3>1, <3>2
  <2>2. CASE j \notin 1..Len(evidenceByClaim[id])
    <3>1. evidenceByClaim'[id] # evidenceByClaim[id]
      BY <2>2
    <3>2. id = item.claimID /\ evidenceByClaim'[id] = Append(evidenceByClaim[id], item)
      BY <1>5, <3>1
    <3>3. j = Len(evidenceByClaim[id]) + 1
      BY <1>6, <2>2, <3>2
    <3> QED BY <1>6, <1>7, <3>2, <3>3
  <2> QED BY <2>1, <2>2
<1>9. ASSUME NEW k \in 1..index, input.evidence[k].claimID \in claimByID
      PROVE  \E j \in 1..Len(evidenceByClaim'[input.evidence[k].claimID]) :
               evidenceByClaim'[input.evidence[k].claimID][j] = input.evidence[k]
  <2> DEFINE id == input.evidence[k].claimID
  <2>1. id \in ClaimIds
    BY <1>1, <1>9
  <2>2. CASE k \in 1..(index - 1)
    <3>1. PICK j \in 1..Len(evidenceByClaim[id]) :
            evidenceByClaim[id][j] = input.evidence[k]
      BY <1>1, <1>2, <1>9, <2>2 DEF EvidenceSorted
    <3> HIDE DEF id
    <3>2. evidenceByClaim'[id][j] = evidenceByClaim[id][j]
      BY <1>5, <1>6, <2>1
    <3>3. j \in 1..Len(evidenceByClaim'[id])
      <4>1. Len(evidenceByClaim'[id]) \in
              {Len(evidenceByClaim[id]), Len(evidenceByClaim[id]) + 1}
        BY <1>5, <1>6, <2>1
      <4>2. Len(evidenceByClaim[id]) \in Nat /\ j \in 1..Len(evidenceByClaim[id])
        BY <1>6, <2>1, <3>1
      <4> QED BY <4>1, <4>2
    <3> QED BY <3>1, <3>2, <3>3 DEF id
  <2>3. CASE k \notin 1..(index - 1)
    <3>1. k = index
      BY <1>1, <2>3
    <3>2. id = item.claimID /\ input.evidence[k] = item
      BY <1>7, <3>1
    <3>3. ~unbound
      BY <1>9, <2>1, <3>2, InputAssumption
    <3> HIDE DEF id
    <3>4. evidenceByClaim'[id] = Append(evidenceByClaim[id], item)
      BY <1>5, <2>1, <3>2, <3>3
    <3>5. Len(evidenceByClaim[id]) + 1 \in 1..Len(evidenceByClaim'[id])
      BY <1>6, <2>1, <3>4
    <3> QED BY <1>6, <2>1, <3>2, <3>4, <3>5 DEF id
  <2> QED BY <2>2, <2>3
<1> QED BY <1>1, <1>2, <1>8, <1>9 DEF EvidenceSorted

LEMMA ItemRead ==
  ASSUME FaultInv, AdmitEvidence
  PROVE  Loaded'
<1> DEFINE item    == input.evidence[index]
           id      == item.claimID
           unbound == id = NoId \/ id \notin claimByID
           a == validateEvidence(item, input.header.evaluator)
           b == FailIf(unbound, "EVIDENCE_CLAIM_BINDING_MISMATCH")
           r == FirstReason(<<a, b>>)
           n == Len(input.claims)
<1>1. /\ pc = "evidence" /\ pc' = "evidence" /\ index' = index + 1
      /\ index \in Nat \ {0} /\ index <= Len(input.evidence)
      /\ input' = input /\ claimByID' = claimByID /\ claims' = claims
      /\ input.header.decodes /\ hasRefuted \in BOOLEAN
      /\ addRefutation(r)
  BY DEF AdmitEvidence, FaultInv, CallInv, TypeOK, Answered
<1>2. ClaimsRead = n /\ ClaimsRead' = n /\ EvidenceRead = index - 1 /\ EvidenceRead' = index
  BY <1>1 DEF ClaimsRead, EvidenceRead
<1>3. IdsAdmitted /\ FaultsNoted
  BY <1>1 DEF FaultInv
<1>4. item \in Evidence /\ id \in ClaimIds \cup {NoId} /\ NoId \notin ClaimIds
      /\ input.header.evaluator \in EvaluatorReference
      /\ \A k \in 1..n : input.claims[k] \in Claim
  <2>1. item \in Evidence /\ input.header.evaluator \in EvaluatorReference
        /\ \A k \in 1..n : input.claims[k] \in Claim
    BY <1>1, InputType DEF FaultInv, CallInv, TypeOK
  <2> QED BY <2>1, InputAssumption DEF Evidence
<1> HIDE DEF item, n
<1>5. IdsAdmitted'
  BY <1>1, <1>2, <1>3, SameInput DEF IdsAdmitted, n
<1>6. a \in Answers /\ (a = NoError <=> /\ WellObserved(item, input.header.evaluator)
                                        /\ id # NoId)
  BY <1>4, EvidenceCheck
<1>7. b \in Answers /\ (b = NoError <=> ~unbound) /\ NoError \in Answers
  BY DEF FailIf, Answers, AuthorityReasons, NoError
<1> HIDE DEF a, b, unbound
<1>8. r = NoError <=> a = NoError /\ b = NoError
  BY <1>6, <1>7, FirstOfTwo
<1> HIDE DEF r
<1>9. hasRefuted' <=> hasRefuted \/ r # NoError
  BY <1>1 DEF addRefutation
<1>10. EvidenceFaultAt(index) <=> \/ ~WellObserved(item, input.header.evaluator)
                                  \/ ~Claimed(n, id)
  BY DEF EvidenceFaultAt, item, n
<1>11. 1..index = 1..(index - 1) \cup {index}
  BY <1>1
<1>12. FaultRead' <=> FaultRead \/ EvidenceFaultAt(index)
  BY <1>1, <1>2, <1>11, SameInput DEF FaultRead
<1>13. r # NoError \/ FaultRead <=> EvidenceFaultAt(index) \/ FaultRead
  <2>1. CASE id # NoId
    <3>1. unbound <=> ~Claimed(n, id)
      BY <1>2, <1>3, <1>4, <2>1 DEF IdsAdmitted, unbound
    <3> QED BY <1>6, <1>7, <1>8, <1>10, <2>1, <3>1
  <2>2. CASE id = NoId
    <3>1. r # NoError
      BY <1>6, <1>8, <2>2
    <3>2. ASSUME Claimed(n, id) PROVE FaultRead
      <4>1. PICK k \in 1..n : input.claims[k].id = NoId
        BY <2>2, <3>2 DEF Claimed
      <4>2. ~WellBound(input.claims[k], input.header.evaluator)
        BY <1>4, <4>1 DEF WellBound
      <4> QED BY <1>2, <4>2 DEF FaultRead, ClaimFaultAt
    <3> QED BY <1>10, <3>1, <3>2
  <2> QED BY <2>1, <2>2
<1>14. FaultsNoted'
  BY <1>1, <1>3, <1>9, <1>12, <1>13 DEF FaultsNoted
<1> QED BY <1>5, <1>14, ItemSorted DEF Loaded

(* From the end of the loading loops on nothing of it changes.             *)
LEMMA KeptAfterLoading ==
  ASSUME FaultInv, EvidenceAdmitted \/ JudgeStep \/ Resolve
  PROVE  Loaded' /\ pc' \in {"judge", "done"} /\ input' = input
         /\ input.header.decodes
<1>1. /\ pc \in {"evidence", "judge"} /\ pc' \in {"judge", "done"}
      /\ input' = input /\ claimByID' = claimByID /\ evidenceByClaim' = evidenceByClaim
      /\ pc = "judge" => authorityRefuted' = authorityRefuted
      /\ pc = "evidence" => authorityRefuted' = hasRefuted
                            /\ index > Len(input.evidence)
  BY Unchanged DEF EvidenceAdmitted, JudgeStep, RefuteSelfAttested,
     RefuteByAuthority, JudgeByEvidence, Conclude, Resolve
<1>2. input.header.decodes /\ IdsAdmitted /\ EvidenceSorted /\ FaultsNoted
      /\ (pc = "evidence" => index <= Len(input.evidence) + 1)
      /\ index \in Nat /\ Len(input.evidence) \in Nat
  <2>1. input.header.decodes
    BY <1>1 DEF FaultInv, CallInv, Answered
  <2> QED BY <2>1, InputType DEF FaultInv, CallInv, TypeOK
<1>3. ClaimsRead' = ClaimsRead /\ EvidenceRead' = EvidenceRead
  BY <1>1, <1>2 DEF ClaimsRead, EvidenceRead
<1>4. IdsAdmitted' /\ EvidenceSorted'
  BY <1>1, <1>2, <1>3, SameInput DEF IdsAdmitted, EvidenceSorted
<1>5. FaultRead' <=> FaultRead
  BY <1>1, <1>3, SameInput DEF FaultRead
<1> QED BY <1>1, <1>2, <1>4, <1>5 DEF Loaded, FaultsNoted

-----------------------------------------------------------------------------
(* The judging loop.                                                       *)

(* What a claim in some state has to answer for.                           *)
Caused(claim, state) ==
  CASE state = StateRefuted ->
         AuthorityFault \/ SelfAttests(claim) \/ HasEvidence(claim, "CONTRADICTS")
    [] state = StateSupported ->
         ~AuthorityFault /\ ~SelfAttests(claim) /\ HasEvidence(claim, "SUPPORTS")
    [] OTHER ->
         /\ ~AuthorityFault /\ ~SelfAttests(claim)
         /\ ~HasEvidence(claim, "SUPPORTS") /\ ~HasEvidence(claim, "CONTRADICTS")

LEMMA ContainedIsCaused ==
  ASSUME TypeOK
  PROVE  FaultsAreContained <=>
           (pc \in {"judge", "done"} /\ input.header.decodes =>
              \A k \in 1..Len(states) :
                Caused(input.claims[k], states[k].currentState))
<1>1. DOMAIN states = 1..Len(states)
  BY LenProperties DEF TypeOK
<1>2. FaultsAreContained <=>
        (pc \in {"judge", "done"} /\ input.header.decodes =>
           \A k \in DOMAIN states : Caused(input.claims[k], states[k].currentState))
  BY DEF FaultsAreContained, Caused
<1> QED BY <1>1, <1>2

LEMMA CausedNext ==
  ASSUME TypeOK', input' = input,
         \A k \in 1..Len(states') : Caused(input.claims[k], states'[k].currentState)
  PROVE  FaultsAreContained'
<1>1. DOMAIN states' = 1..Len(states')
  BY LenProperties DEF TypeOK
<1>2. /\ AuthorityFault' <=> AuthorityFault
      /\ \A claim, o : HasEvidence(claim, o)' <=> HasEvidence(claim, o)
  BY SameInput
<1>3. ASSUME NEW k \in DOMAIN states'
      PROVE  Caused(input.claims[k], states'[k].currentState)
  BY <1>1
<1> QED BY <1>2, <1>3 DEF FaultsAreContained, Caused

(* The scan hears the evidence that is the claim's, and nothing else, when *)
(* the authority is not at fault.                                          *)
LEMMA EvidenceHeard ==
  ASSUME FaultInv, pc = "judge", ~AuthorityFault,
         NEW claim, claim = input.claims[index], index <= Len(input.claims)
  PROVE  LET own == evidenceByClaim[claim.id]
         IN  /\ \A j \in DOMAIN own :
                  Decisive(claim, own[j]) => HasEvidence(claim, own[j].observation)
             /\ (\A j \in DOMAIN own : ~Decisive(claim, own[j])) =>
                  ~HasEvidence(claim, "SUPPORTS") /\ ~HasEvidence(claim, "CONTRADICTS")
<1> DEFINE own == evidenceByClaim[claim.id]
<1>1. /\ index \in 1..Len(input.claims) /\ claim \in Claim
      /\ DOMAIN input.claims = 1..Len(input.claims)
      /\ DOMAIN input.evidence = 1..Len(input.evidence)
      /\ \A k \in 1..Len(input.evidence) : input.evidence[k] \in Evidence
  BY InputType, LenProperties DEF FaultInv, CallInv, TypeOK
<1>2. IdsAdmitted /\ EvidenceSorted
      /\ ClaimsRead = Len(input.claims) /\ EvidenceRead = Len(input.evidence)
  BY DEF FaultInv, CallInv, Answered, ClaimsRead, EvidenceRead
<1>3. claim.id \in ClaimIds
  BY <1>1 DEF AuthorityFault, WellBound
<1>4. claim.id \in claimByID
  <2>1. Claimed(ClaimsRead, claim.id)
    BY <1>1, <1>2 DEF Claimed
  <2> QED BY <1>2, <1>3, <2>1 DEF IdsAdmitted
<1>5. own \in Seq(Evidence) /\ DOMAIN own = 1..Len(own)
  <2>1. own \in Seq(Evidence)
    BY <1>3 DEF FaultInv, CallInv, TypeOK
  <2> QED BY <2>1, LenProperties
<1>6. \A k \in 1..Len(input.evidence) :
        WellObserved(input.evidence[k], input.header.evaluator)
  BY <1>1 DEF AuthorityFault
<1>7. \A e \in Evidence : equalTuple(e.exactTuple, claim.exactTuple)
                            <=> e.exactTuple = claim.exactTuple
  <2>1. claim.exactTuple \in Seq(Parts)
    BY <1>1 DEF Claim
  <2>2. ASSUME NEW e \in Evidence
        PROVE  equalTuple(e.exactTuple, claim.exactTuple)
                 <=> e.exactTuple = claim.exactTuple
    <3>1. e.exactTuple \in Seq(Parts)
      BY DEF Evidence
    <3> DEFINE s == e.exactTuple
               t == claim.exactTuple
    <3>2. DOMAIN s = 1..Len(s) /\ DOMAIN t = 1..Len(t)
      BY <2>1, <3>1, LenProperties
    <3>3. s \in Seq(Parts) /\ t \in Seq(Parts)
      BY <2>1, <3>1
    <3> HIDE DEF s, t
    <3>4. Len(s) = Len(t) /\ (\A k \in 1..Len(s) : s[k] = t[k]) => s = t
      BY <3>3, SeqEqual
    <3>5. equalTuple(s, t) <=> s = t
      BY <3>2, <3>4 DEF equalTuple
    <3> QED BY <3>5 DEF s, t
  <2> QED BY <2>2
<1>8. ASSUME NEW e, WellObserved(e, input.header.evaluator), e \in Evidence,
             e.claimID = claim.id
      PROVE  /\ Decisive(claim, e) => Speaks(e, claim, e.observation)
             /\ Speaks(e, claim, "SUPPORTS") => Decisive(claim, e)
             /\ Speaks(e, claim, "CONTRADICTS") => Decisive(claim, e)
  <2>1. /\ e.availability \in {"AVAILABLE", "MISSING", "BLOCKED"}
        /\ e.freshness \in {"CURRENT", "STALE", "UNKNOWN"}
    BY <1>8 DEF WellObserved
  <2>2. equalTuple(e.exactTuple, claim.exactTuple) <=> e.exactTuple = claim.exactTuple
    BY <1>7, <1>8
  <2> QED BY <1>8, <2>1, <2>2 DEF Decisive, Speaks, Blocked, Stale, Ambiguous
<1>9. ASSUME NEW j \in DOMAIN own, Decisive(claim, own[j])
      PROVE  HasEvidence(claim, own[j].observation)
  <2>1. PICK k \in 1..Len(input.evidence) :
          own[j] = input.evidence[k] /\ input.evidence[k].claimID = claim.id
    BY <1>2, <1>3, <1>5 DEF EvidenceSorted
  <2> HIDE DEF own
  <2>2. Speaks(input.evidence[k], claim, input.evidence[k].observation)
    BY <1>1, <1>6, <1>8, <1>9, <2>1
  <2> QED BY <1>1, <2>1, <2>2 DEF HasEvidence
<1>10. ASSUME NEW o \in {"SUPPORTS", "CONTRADICTS"}, HasEvidence(claim, o)
       PROVE  \E j \in DOMAIN own : Decisive(claim, own[j])
  <2>1. PICK k \in 1..Len(input.evidence) : Speaks(input.evidence[k], claim, o)
    BY <1>1, <1>10 DEF HasEvidence
  <2>2. input.evidence[k].claimID = claim.id
    BY <2>1 DEF Speaks
  <2>3. \E j \in 1..Len(evidenceByClaim[input.evidence[k].claimID]) :
          evidenceByClaim[input.evidence[k].claimID][j] = input.evidence[k]
    BY <1>2, <1>4, <2>2 DEF EvidenceSorted
  <2>4. PICK j \in 1..Len(own) : own[j] = input.evidence[k]
    BY <2>2, <2>3
  <2> HIDE DEF own
  <2>5. Decisive(claim, input.evidence[k])
    BY <1>1, <1>6, <1>8, <2>1, <2>2
  <2> QED BY <1>5, <2>4, <2>5
<1>11. /\ \A j \in DOMAIN own :
            Decisive(claim, own[j]) => HasEvidence(claim, own[j].observation)
       /\ (\A j \in DOMAIN own : ~Decisive(claim, own[j])) =>
            ~HasEvidence(claim, "SUPPORTS") /\ ~HasEvidence(claim, "CONTRADICTS")
  <2> HIDE DEF own
  <2> QED BY <1>9, <1>10
<1> QED BY <1>11

LEMMA JudgedWithCause ==
  ASSUME FaultInv, JudgeStep
  PROVE  \E new \in ClaimState :
           /\ states' = Append(states, new)
           /\ Caused(input.claims[index], new.currentState)
<1> DEFINE claim == input.claims[index]
<1>1. /\ pc = "judge" /\ index <= Len(input.claims) /\ index \in Nat \ {0}
      /\ claim \in Claim /\ TypeOK
      /\ FaultsNoted /\ ReasonsGiven
  <2>1. pc = "judge" /\ index <= Len(input.claims)
    BY DEF JudgeStep, RefuteSelfAttested, RefuteByAuthority, JudgeByEvidence
  <2> QED BY <2>1, InputType DEF FaultInv, CallInv, TypeOK, Answered
<1>2. authorityRefuted <=> AuthorityFault
  BY <1>1, FaultOfInput DEF FaultsNoted
<1>3. /\ StateRefuted \in ClaimStateNames /\ StateRefuted # StateSupported
      /\ StateUnverified # StateRefuted /\ StateUnverified # StateSupported
  BY DEF ClaimStateNames, StateRefuted, StateSupported, StateUnverified
<1>4. CASE RefuteSelfAttested
  <2>1. /\ Conclude(claim, StateRefuted, "SELF_ATTESTATION_REFUTED", {})
        /\ SelfAttests(claim)
    BY <1>4 DEF RefuteSelfAttested
  <2> HIDE DEF claim
  <2>2. Caused(claim, StateRefuted)
    BY <1>3, <2>1 DEF Caused
  <2> QED BY <1>1, <1>3, <2>1, <2>2, ConcludedState DEF claim
<1>5. CASE RefuteByAuthority
  <2>1. /\ Conclude(claim, StateRefuted, authorityReason, {})
        /\ authorityRefuted
    BY <1>5 DEF RefuteByAuthority, hasGlobalRefutation
  <2> HIDE DEF claim
  <2>2. Caused(claim, StateRefuted)
    BY <1>2, <1>3, <2>1 DEF Caused
  <2> QED BY <1>1, <1>3, <2>1, <2>2, ConcludedState DEF claim
<1>6. CASE JudgeByEvidence
  <2> DEFINE own     == evidenceByClaim[claim.id]
             finding == observeClaim(claim, own)
  <2>1. /\ ~SelfAttests(claim) /\ ~authorityRefuted
        /\ Conclude(claim, finding.state, finding.reason, finding.cites)
    BY <1>1, <1>6 DEF JudgeByEvidence, hasGlobalRefutation, ReasonsGiven
  <2>2. own \in Seq(Evidence)
    <3>1. claim.id \in ClaimIds \cup {NoId}
      BY <1>1 DEF Claim
    <3> QED BY <1>1, <3>1 DEF TypeOK
  <2>3. ~AuthorityFault
    BY <1>2, <2>1
  <2>4. /\ \A j \in DOMAIN own :
             Decisive(claim, own[j]) => HasEvidence(claim, own[j].observation)
        /\ (\A j \in DOMAIN own : ~Decisive(claim, own[j])) =>
             ~HasEvidence(claim, "SUPPORTS") /\ ~HasEvidence(claim, "CONTRADICTS")
    BY <1>1, <2>3, EvidenceHeard
  <2> HIDE DEF claim, own
  <2>5. \/ \E k \in DOMAIN own :
             /\ Decisive(claim, own[k]) /\ own[k].observation = "CONTRADICTS"
             /\ finding = Settled(StateRefuted, "EXPLICIT_CONTRADICTION", own[k].id)
        \/ \E k \in DOMAIN own :
             /\ Decisive(claim, own[k]) /\ own[k].observation = "SUPPORTS"
             /\ finding = Settled(StateSupported, "EXACT_EVIDENCE_MATCH", own[k].id)
        \/ /\ \A k \in DOMAIN own : ~Decisive(claim, own[k])
           /\ \E u \in Unknown : finding = Unsettled(u)
    BY <1>1, <2>2, ObserveClaimAnswers
  <2> HIDE DEF finding
  <2>6. /\ finding.state \in ClaimStateNames
        /\ \/ finding.state = StateRefuted /\ HasEvidence(claim, "CONTRADICTS")
           \/ finding.state = StateSupported /\ HasEvidence(claim, "SUPPORTS")
           \/ /\ finding.state = StateUnverified
              /\ ~HasEvidence(claim, "SUPPORTS") /\ ~HasEvidence(claim, "CONTRADICTS")
    BY <2>4, <2>5 DEF Settled, Unsettled, ClaimStateNames
  <2>7. Caused(claim, finding.state)
    BY <1>3, <2>1, <2>3, <2>6 DEF Caused
  <2>8. \E new \in ClaimState : /\ new.currentState = finding.state
                                /\ states' = Append(states, new)
    BY <1>1, <2>1, <2>6, ConcludedState
  <2> QED BY <2>7, <2>8 DEF claim
<1> QED BY <1>4, <1>5, <1>6 DEF JudgeStep

-----------------------------------------------------------------------------
(* The invariant is inductive.                                             *)

LEMMA InitFault == Init => FaultInv
<1> SUFFICES ASSUME Init PROVE FaultInv
  OBVIOUS
<1>1. /\ pc = "decode" /\ claimByID = {}
      /\ \A id \in ClaimIds : evidenceByClaim[id] = <<>>
  BY DEF Init
<1>2. ClaimsRead = 0 /\ EvidenceRead = 0
  BY <1>1 DEF ClaimsRead, EvidenceRead
<1>3. IdsAdmitted /\ EvidenceSorted /\ FaultsNoted
  BY <1>1, <1>2 DEF IdsAdmitted, EvidenceSorted, FaultsNoted, Claimed
<1>4. FaultsAreContained
  BY <1>1 DEF FaultsAreContained
<1> QED BY <1>1, <1>3, <1>4, InitInv DEF FaultInv

LEMMA NextFault ==
  ASSUME FaultInv, Next, ~Returned, CallInv'
  PROVE  FaultInv'
<1> DEFINE Reads == CheckHeader \/ AdmitClaim \/ ClaimsAdmitted \/ AdmitEvidence
<1>1. CASE RejectMalformed
  <2>1. pc' = "done" /\ ~input'.header.decodes
    BY <1>1 DEF RejectMalformed
  <2>2. FaultsAreContained'
    BY <2>1 DEF FaultsAreContained
  <2> QED BY <2>1, <2>2 DEF FaultInv
<1>2. CASE Reads
  <2>1. Loaded'
    BY <1>2, HeaderRead, ClaimRead, ClaimsEnd, ItemRead
  <2>2. pc' \in {"claims", "evidence"}
    BY <1>2 DEF CheckHeader, AdmitClaim, ClaimsAdmitted, AdmitEvidence, FaultInv
  <2>3. FaultsAreContained'
    BY <2>2 DEF FaultsAreContained
  <2>4. pc' = "evidence" => index' <= Len(input'.evidence) + 1
    <3>1. /\ index \in Nat /\ Len(input.evidence) \in Nat /\ input' = input
      BY <1>2, InputType DEF FaultInv, CallInv, TypeOK,
         CheckHeader, AdmitClaim, ClaimsAdmitted, AdmitEvidence
    <3>2. \/ pc' = "claims"
          \/ index' = 1
          \/ index <= Len(input.evidence) /\ index' = index + 1
      BY <1>2 DEF CheckHeader, AdmitClaim, ClaimsAdmitted, AdmitEvidence
    <3> QED BY <3>1, <3>2
  <2> QED BY <2>1, <2>3, <2>4 DEF FaultInv, Loaded
<1>3. CASE EvidenceAdmitted \/ Resolve
  <2>1. Loaded' /\ pc' \in {"judge", "done"} /\ input' = input /\ input.header.decodes
    BY <1>3, KeptAfterLoading
  <2>2. /\ states' = states
        /\ pc = "judge" \/ states = <<>>
    BY <1>3, Unchanged DEF EvidenceAdmitted, Resolve, FaultInv, CallInv,
       NothingJudged, Loading
  <2>3. TypeOK /\ TypeOK'
    BY DEF FaultInv, CallInv
  <2>4. \A k \in 1..Len(states') : Caused(input.claims[k], states'[k].currentState)
    <3>1. CASE states = <<>>
      BY <2>2, <3>1
    <3>2. CASE pc = "judge"
      <4>1. \A k \in 1..Len(states) : Caused(input.claims[k], states[k].currentState)
        BY <2>1, <2>3, <3>2, ContainedIsCaused DEF FaultInv
      <4> QED BY <2>2, <4>1
    <3> QED BY <2>2, <3>1, <3>2
  <2>5. FaultsAreContained'
    BY <2>1, <2>3, <2>4, CausedNext
  <2> QED BY <2>1, <2>5 DEF FaultInv, Loaded
<1>4. CASE JudgeStep
  <2>1. Loaded' /\ pc' \in {"judge", "done"} /\ input' = input /\ input.header.decodes
    BY <1>4, KeptAfterLoading
  <2>2. TypeOK /\ TypeOK' /\ pc = "judge" /\ Len(states) = index - 1 /\ index \in Nat
    BY <1>4 DEF FaultInv, CallInv, Positions, TypeOK, JudgeStep,
       RefuteSelfAttested, RefuteByAuthority, JudgeByEvidence
  <2>3. PICK new \in ClaimState :
          /\ states' = Append(states, new)
          /\ Caused(input.claims[index], new.currentState)
    BY <1>4, JudgedWithCause
  <2>4. /\ Len(states') = Len(states) + 1
        /\ \A k \in 1..Len(states) : states'[k] = states[k]
        /\ states'[Len(states) + 1] = new
    BY <2>2, <2>3, AppendedState DEF TypeOK
  <2>5. \A k \in 1..Len(states) : Caused(input.claims[k], states[k].currentState)
    BY <2>1, <2>2, ContainedIsCaused DEF FaultInv
  <2>6. ASSUME NEW k \in 1..Len(states')
        PROVE  Caused(input.claims[k], states'[k].currentState)
    <3>1. k \in 1..Len(states) \/ k = index
      BY <2>2, <2>4
    <3>2. CASE k \in 1..Len(states)
      BY <2>4, <2>5, <3>2
    <3>3. CASE k = index
      BY <2>2, <2>3, <2>4, <3>3
    <3> QED BY <3>1, <3>2, <3>3
  <2>7. FaultsAreContained'
    BY <2>1, <2>2, <2>6, CausedNext
  <2>8. pc' = "judge"
    BY <1>4, Unchanged DEF JudgeStep, RefuteSelfAttested, RefuteByAuthority,
       JudgeByEvidence, Conclude
  <2> QED BY <2>1, <2>7, <2>8 DEF FaultInv, Loaded
<1> QED BY <1>1, <1>2, <1>3, <1>4 DEF Next, JudgeStep

LEMMA StutterFault ==
  ASSUME FaultInv, UNCHANGED vars
  PROVE  FaultInv'
<1>1. /\ UNCHANGED <<pc, input, index, claims, claimByID, evidenceByClaim>>
      /\ UNCHANGED <<hasRefuted, authorityRefuted, states>>
  BY Unchanged DEF vars
<1>2. ClaimsRead' = ClaimsRead /\ EvidenceRead' = EvidenceRead
  BY <1>1 DEF ClaimsRead, EvidenceRead
<1>3. FaultRead' <=> FaultRead
  BY <1>1, <1>2, SameInput DEF FaultRead
<1>4. IdsAdmitted => IdsAdmitted'
  BY <1>1, <1>2, SameInput DEF IdsAdmitted
<1>5. EvidenceSorted => EvidenceSorted'
  BY <1>1, <1>2 DEF EvidenceSorted
<1>6. FaultsNoted => FaultsNoted'
  BY <1>1, <1>3 DEF FaultsNoted
<1>7. FaultsAreContained => FaultsAreContained'
  BY <1>1, SameInput DEF FaultsAreContained
<1> QED BY <1>1, <1>4, <1>5, <1>6, <1>7, StutterInv DEF FaultInv

(* The invariant holds of every call, for every input.                     *)
THEOREM FaultInvariant == Spec => []FaultInv
<1>1. FaultInv /\ CallInv' /\ [Next]_vars => FaultInv'
  <2> SUFFICES ASSUME FaultInv, CallInv', [Next]_vars PROVE FaultInv'
    OBVIOUS
  <2>1. CASE UNCHANGED vars \/ Returned
    BY <2>1, StutterFault DEF Returned
  <2>2. CASE Next /\ ~Returned
    BY <2>2, NextFault
  <2> QED BY <2>1, <2>2
<1> QED BY <1>1, InitFault, CallInvariant, PTL DEF Spec

(* Every claim is refuted for a fault of the authority, found wherever in  *)
(* the input, and otherwise answers only for itself and its own evidence   *)
(* (evaluate.go:38-122).                                                   *)
THEOREM FaultsContained == Spec => []FaultsAreContained
<1>1. FaultInv => FaultsAreContained
  BY DEF FaultInv
<1> QED BY <1>1, FaultInvariant, PTL

LEMMA ClosedHolds == FaultInv => ClosedIsEarned
<1> SUFFICES ASSUME FaultInv, decision = DecisionClosed PROVE ClosedIsEarned
  BY DEF ClosedIsEarned
<1> USE DEF FaultInv
<1>1. /\ DecisionClosed # DecisionRefuted /\ DecisionClosed # Pending
      /\ StateSupported # StateRefuted
  BY DEF DecisionClosed, DecisionRefuted, Pending, StateSupported, StateRefuted
<1>2. pc = "done" /\ input.header.decodes
  BY <1>1 DEF CallInv, TypeOK, NothingJudged, Loading, Answered
<1>3. Judged /\ Len(states) = Len(input.claims) /\ TypeOK
  BY <1>2 DEF CallInv, Positions, Judged
<1>4. states # <<>> /\ All(StateSupported)
  BY <1>2, <1>3, DecisionOfStates DEF CallInv, Answered
<1>5. DOMAIN input.claims = 1..Len(states) /\ 1 \in 1..Len(states)
  <2>1. /\ states \in Seq(ClaimState) /\ input.claims \in Seq(Claim)
    BY <1>3, InputType DEF TypeOK
  <2> QED BY <1>3, <1>4, <2>1, EmptySeq, LenProperties
<1>6. \A k \in 1..Len(states) : Caused(input.claims[k], StateSupported)
  BY <1>2, <1>3, <1>4, ContainedIsCaused DEF All
<1>7. \A k \in 1..Len(states) :
        /\ ~AuthorityFault /\ ~SelfAttests(input.claims[k])
        /\ HasEvidence(input.claims[k], "SUPPORTS")
  BY <1>1, <1>6 DEF Caused
<1> QED BY <1>5, <1>7 DEF ClosedIsEarned

(* CLOSED is earned by every claim and by the authority, for every input   *)
(* (evaluate.go:126, allSupported).                                        *)
THEOREM ClosedEarned == Spec => []ClosedIsEarned
BY FaultInvariant, ClosedHolds, PTL

-----------------------------------------------------------------------------
(* The inductive invariant, beside FaultInv.  The records of the streams   *)
(* name their claims by id only; the invariant says which position of the  *)
(* input each of them is about, and how the reason that the code keeps in  *)
(* refutedReason can be found again in the transitions.                    *)

RecordsNamed ==
  /\ \A k \in 1..Len(claims) : claims[k].claimID = input.claims[k].id
  /\ \A k \in 1..Len(states) : states[k].claimID = input.claims[k].id

TransitionsOfStates ==
  \A t \in 1..Len(transitions) : \E k \in 1..Len(states) :
    /\ states[k].claimID = transitions[t].claimID
    /\ states[k].currentState = transitions[t].to

SettledHaveMoved ==
  \A k \in 1..Len(states) :
    states[k].currentState # StateUnverified =>
      \E t \in 1..Len(transitions) : transitions[t].claimID = states[k].claimID

ReasonReported ==
  /\ pc = "done" /\ ~input.header.decodes =>
       reason = "MALFORMED_INPUT"
  /\ pc = "done" /\ input.header.decodes =>
       reason = CASE decision = DecisionRefuted -> refutedReason
                  [] decision = DecisionClosed  -> "ALL_CLAIMS_SUPPORTED"
                  [] OTHER -> IF unknowns # <<>> THEN unknowns[1].reason
                              ELSE "CLAIMS_REMAIN_UNVERIFIED"

HistoryInv ==
  /\ RecordsNamed /\ TransitionsOfStates /\ SettledHaveMoved
  /\ UnverifiedIsExplained /\ ReasonReported

-----------------------------------------------------------------------------
(* The blocker of an UNKNOWN record: the claim, or an item of its evidence.*)
LEMMA UnsettledNames ==
  ASSUME NEW claim \in Claim, NEW evidence \in Seq(Evidence), NEW u,
         observeClaim(claim, evidence) = Unsettled(u)
  PROVE  \/ u.blockedBy = <<"claim", claim.id>>
         \/ \E k \in DOMAIN evidence : u.blockedBy = <<"evidence", evidence[k].id>>
<1> DEFINE decisive  == {k \in DOMAIN evidence : Decisive(claim, evidence[k])}
           blocked   == {k \in DOMAIN evidence : Blocked(evidence[k])}
           stale     == {k \in DOMAIN evidence : Stale(evidence[k])}
           ambiguous == {k \in DOMAIN evidence : Ambiguous(evidence[k])}
           first(ks) == evidence[First(ks)]
           missing   == unknownRecord("CLAIM_EVIDENCE_MISSING", "DIRECT_MISSING",
                                      "claim", claim.id)
           waiting   == unknownRecord("EVIDENCE_DEPENDENCY_BLOCKED",
                          "DEPENDENCY_BLOCKED", "evidence", first(blocked).id)
           old       == unknownRecord("EVIDENCE_STALE", "STALE",
                                      "evidence", first(stale).id)
           unclear   == unknownRecord("EVIDENCE_OBSERVATION_UNKNOWN", "AMBIGUOUS",
                                      "evidence", first(ambiguous).id)
           other     == unknownRecord("EVIDENCE_TUPLE_AMBIGUOUS", "AMBIGUOUS",
                                      "claim", claim.id)
           Named(v)  == \/ v.blockedBy = <<"claim", claim.id>>
                        \/ \E k \in DOMAIN evidence :
                             v.blockedBy = <<"evidence", evidence[k].id>>
<1>1. ASSUME NEW ks \in SUBSET DOMAIN evidence, ks # {}
      PROVE  First(ks) \in DOMAIN evidence
  <2>1. ks \in SUBSET Nat
    BY LenProperties
  <2> QED BY <1>1, <2>1, FirstIsLeast
<1>2. decisive = {}
  <2>1. ASSUME decisive # {}
        PROVE  \E state, why, id : observeClaim(claim, evidence) = Settled(state, why, id)
    BY <2>1 DEF observeClaim
  <2>2. \A state, why, id : Settled(state, why, id).cites # Unsettled(u).cites
    BY DEF Settled, Unsettled
  <2> QED BY <2>1, <2>2
<1>3. Unsettled(u) = Unsettled(
        CASE evidence = <<>> -> missing
          [] evidence # <<>> /\ blocked # {} -> waiting
          [] evidence # <<>> /\ blocked = {} /\ stale # {} -> old
          [] evidence # <<>> /\ blocked = {} /\ stale = {} /\ ambiguous # {} -> unclear
          [] OTHER -> other)
  BY <1>2 DEF observeClaim
<1>4. Named(missing) /\ Named(other)
  BY DEF unknownRecord
<1>5. /\ blocked # {} => Named(waiting)
      /\ stale # {} => Named(old)
      /\ ambiguous # {} => Named(unclear)
  BY <1>1 DEF unknownRecord
<1>6. \A v, w : Unsettled(v) = Unsettled(w) => v = w
  <2> SUFFICES ASSUME NEW v, NEW w, Unsettled(v) = Unsettled(w) PROVE v = w
    OBVIOUS
  <2>1. Unsettled(v).unknown = {v} /\ Unsettled(w).unknown = {w}
    BY DEF Unsettled
  <2>2. {v} = {w}
    BY <2>1
  <2> QED BY <2>2
<1> HIDE DEF Named, blocked, stale, ambiguous, missing, waiting, old, unclear, other
<1>7. u = CASE evidence = <<>> -> missing
            [] evidence # <<>> /\ blocked # {} -> waiting
            [] evidence # <<>> /\ blocked = {} /\ stale # {} -> old
            [] evidence # <<>> /\ blocked = {} /\ stale = {} /\ ambiguous # {} -> unclear
            [] OTHER -> other
  BY <1>3, <1>6
<1>8. Named(u)
  BY <1>4, <1>5, <1>7
<1> QED BY <1>8 DEF Named

-----------------------------------------------------------------------------
(* The five outcomes of a judging step, with all that it changes.          *)
BySelf(state, why, cites) ==
  /\ state = StateRefuted /\ why = "SELF_ATTESTATION_REFUTED"
  /\ SelfAttests(input.claims[index])
  /\ addRefutation(why) /\ unknowns' = unknowns

ByAuthority(state, why, cites) ==
  /\ state = StateRefuted /\ why = authorityReason /\ authorityRefuted
  /\ UNCHANGED <<hasRefuted, refutedReason, unknowns>>

BySupport(state, why, cites) ==
  /\ state = StateSupported /\ ~authorityRefuted
  /\ UNCHANGED <<hasRefuted, refutedReason, unknowns>>

ByContradiction(state, why, cites) ==
  /\ state = StateRefuted /\ why = "EXPLICIT_CONTRADICTION"
  /\ ~authorityRefuted /\ ~SelfAttests(input.claims[index])
  /\ addRefutation(why) /\ unknowns' = unknowns

ByNothing(state, why, cites) ==
  /\ state = StateUnverified /\ ~authorityRefuted
  /\ UNCHANGED <<hasRefuted, refutedReason>>
  /\ \E u \in Unknown : /\ Explains(u, input.claims[index].id)
                        /\ unknowns' = addUnknown(unknowns, u)

Outcome(state, why, cites) ==
  \/ BySelf(state, why, cites) \/ ByAuthority(state, why, cites)
  \/ BySupport(state, why, cites) \/ ByContradiction(state, why, cites)
  \/ ByNothing(state, why, cites)

LEMMA JudgingOutcome ==
  ASSUME FaultInv, JudgeStep
  PROVE  /\ pc = "judge" /\ index \in 1..Len(input.claims)
         /\ input.claims[index] \in Claim
         /\ input.header.decodes
         /\ \E state, why, cites :
              /\ state \in ClaimStateNames
              /\ Conclude(input.claims[index], state, why, cites)
              /\ Outcome(state, why, cites)
<1> DEFINE claim == input.claims[index]
<1>1. /\ pc = "judge" /\ index <= Len(input.claims) /\ index \in Nat \ {0}
      /\ Len(input.claims) \in Nat
      /\ claim \in Claim /\ TypeOK /\ ReasonsGiven /\ input.header.decodes
      /\ IdsAdmitted /\ EvidenceSorted
  <2>1. pc = "judge" /\ index <= Len(input.claims)
    BY DEF JudgeStep, RefuteSelfAttested, RefuteByAuthority, JudgeByEvidence
  <2> QED BY <2>1, InputType DEF FaultInv, CallInv, TypeOK, Answered
<1>2. /\ StateRefuted \in ClaimStateNames /\ StateSupported \in ClaimStateNames
      /\ StateUnverified \in ClaimStateNames
  BY DEF ClaimStateNames
<1>3. CASE RefuteSelfAttested
  <2>1. /\ Conclude(claim, StateRefuted, "SELF_ATTESTATION_REFUTED", {})
        /\ BySelf(StateRefuted, "SELF_ATTESTATION_REFUTED", {})
    BY <1>3 DEF RefuteSelfAttested, BySelf
  <2> QED BY <1>1, <1>2, <2>1 DEF Outcome
<1>4. CASE RefuteByAuthority
  <2>1. /\ Conclude(claim, StateRefuted, authorityReason, {})
        /\ ByAuthority(StateRefuted, authorityReason, {})
    BY <1>4, Unchanged DEF RefuteByAuthority, hasGlobalRefutation, ByAuthority
  <2> QED BY <1>1, <1>2, <2>1 DEF Outcome
<1>5. CASE JudgeByEvidence
  <2> DEFINE own     == evidenceByClaim[claim.id]
             finding == observeClaim(claim, own)
  <2>1. /\ ~authorityRefuted /\ ~SelfAttests(claim)
        /\ Conclude(claim, finding.state, finding.reason, finding.cites)
        /\ addRefutation(FailIf(finding.state = StateRefuted, finding.reason))
        /\ \/ finding.unknown = {} /\ UNCHANGED unknowns
           \/ \E u \in finding.unknown : unknowns' = addUnknown(unknowns, u)
    BY <1>1, <1>5 DEF JudgeByEvidence, hasGlobalRefutation, ReasonsGiven
  <2>2. own \in Seq(Evidence) /\ DOMAIN own = 1..Len(own)
    <3>1. claim.id \in ClaimIds \cup {NoId}
      BY <1>1 DEF Claim
    <3>2. own \in Seq(Evidence)
      BY <1>1, <3>1 DEF TypeOK
    <3> QED BY <3>2, LenProperties
  <2>3. ASSUME NEW k \in DOMAIN own
        PROVE  \E j \in DOMAIN input.evidence :
                 input.evidence[j].claimID = claim.id /\ own[k] = input.evidence[j]
    <3>1. claim.id \in ClaimIds
      <4>1. ~AuthorityFault
        BY <1>1, <2>1, FaultOfInput DEF FaultInv, FaultsNoted
      <4>2. DOMAIN input.claims = 1..Len(input.claims)
        BY <1>1, InputType, LenProperties DEF TypeOK
      <4> QED BY <1>1, <4>1, <4>2 DEF AuthorityFault, WellBound
    <3>2. EvidenceRead = Len(input.evidence)
      BY <1>1 DEF EvidenceRead
    <3>3. DOMAIN input.evidence = 1..Len(input.evidence)
      BY <1>1, InputType, LenProperties DEF TypeOK
    <3>4. k \in 1..Len(evidenceByClaim[claim.id])
      BY <2>2
    <3>5. PICK j \in 1..EvidenceRead :
            /\ evidenceByClaim[claim.id][k] = input.evidence[j]
            /\ input.evidence[j].claimID = claim.id
      BY <1>1, <3>1, <3>4 DEF EvidenceSorted
    <3> QED BY <3>2, <3>3, <3>5
  <2> HIDE DEF claim, own
  <2>4. \/ \E k \in DOMAIN own :
             finding = Settled(StateRefuted, "EXPLICIT_CONTRADICTION", own[k].id)
        \/ \E k \in DOMAIN own :
             finding = Settled(StateSupported, "EXACT_EVIDENCE_MATCH", own[k].id)
        \/ \E u \in Unknown : finding = Unsettled(u)
    BY <1>1, <2>2, ObserveClaimAnswers
  <2>5. ASSUME NEW u \in Unknown, finding = Unsettled(u)
        PROVE  Explains(u, claim.id)
    <3>1. \/ u.blockedBy = <<"claim", claim.id>>
          \/ \E k \in DOMAIN own : u.blockedBy = <<"evidence", own[k].id>>
      BY <1>1, <2>2, <2>5, UnsettledNames
    <3> QED BY <2>3, <3>1 DEF Explains
  <2> HIDE DEF finding
  <2>6. addRefutation(NoError) => UNCHANGED <<hasRefuted, refutedReason>>
    BY <1>1 DEF TypeOK, addRefutation, ReasonsGiven
  <2>7. ASSUME NEW id, finding = Settled(StateRefuted, "EXPLICIT_CONTRADICTION", id)
        PROVE  ByContradiction(finding.state, finding.reason, finding.cites)
    BY <2>1, <2>7 DEF Settled, FailIf, ByContradiction, claim
  <2>8. ASSUME NEW id, finding = Settled(StateSupported, "EXACT_EVIDENCE_MATCH", id)
        PROVE  BySupport(finding.state, finding.reason, finding.cites)
    <3>1. /\ finding.state = StateSupported /\ finding.cites = {id}
          /\ finding.unknown = {} /\ finding.state # StateRefuted
      BY <2>8 DEF Settled, StateSupported, StateRefuted
    <3> QED BY <2>1, <2>6, <3>1 DEF FailIf, BySupport
  <2>9. ASSUME NEW u \in Unknown, finding = Unsettled(u)
        PROVE  ByNothing(finding.state, finding.reason, finding.cites)
    <3>1. /\ finding.state = StateUnverified
          /\ finding.unknown = {u} /\ finding.state # StateRefuted
      BY <2>9 DEF Unsettled, StateUnverified, StateRefuted
    <3>2. UNCHANGED <<hasRefuted, refutedReason>>
      BY <2>1, <2>6, <3>1 DEF FailIf
    <3>3. unknowns' = addUnknown(unknowns, u)
      BY <2>1, <3>1
    <3>4. Explains(u, input.claims[index].id)
      BY <2>5, <2>9 DEF claim
    <3> QED BY <2>1, <3>1, <3>2, <3>3, <3>4 DEF ByNothing
  <2>10. Outcome(finding.state, finding.reason, finding.cites)
    BY <2>4, <2>7, <2>8, <2>9 DEF Outcome
  <2>11. finding.state \in ClaimStateNames
    BY <1>2, <2>4 DEF Settled, Unsettled
  <2> QED BY <1>1, <2>1, <2>10, <2>11 DEF claim
<1> QED BY <1>3, <1>4, <1>5 DEF JudgeStep

(* What the tail of an iteration writes.                                   *)
LEMMA ConcludedRecords ==
  ASSUME TypeOK, NEW claim, NEW state, NEW why, NEW cites,
         Conclude(claim, state, why, cites)
  PROVE  /\ Len(states) \in Nat /\ Len(states') = Len(states) + 1
         /\ \A k \in 1..Len(states) : states'[k] = states[k]
         /\ states'[Len(states) + 1].claimID = claim.id
         /\ states'[Len(states) + 1].currentState = state
         /\ Len(transitions) \in Nat
         /\ state = StateUnverified => transitions' = transitions
         /\ state # StateUnverified =>
              /\ Len(transitions') = Len(transitions) + 1
              /\ \A t \in 1..Len(transitions) : transitions'[t] = transitions[t]
              /\ transitions'[Len(transitions) + 1].claimID = claim.id
              /\ transitions'[Len(transitions) + 1].to = state
              /\ transitions'[Len(transitions) + 1].reason = why
              /\ transitions'[Len(transitions) + 1].cites = cites
         /\ UNCHANGED <<pc, input, claims, authorityRefuted, authorityReason,
                        decision, reason>>
<1>1. states \in Seq(ClaimState) /\ transitions \in Seq(Transition)
  BY DEF TypeOK
<1>2. /\ Len(states) \in Nat /\ Len(states') = Len(states) + 1
      /\ \A k \in 1..Len(states) : states'[k] = states[k]
      /\ states'[Len(states) + 1].claimID = claim.id
      /\ states'[Len(states) + 1].currentState = state
  <2> DEFINE new == [claimID |-> claim.id, currentState |-> state,
                     transitionCount |-> IF state = StateUnverified THEN 0 ELSE 1]
  <2>1. states' = Append(states, new)
    BY DEF Conclude
  <2>2. new.claimID = claim.id /\ new.currentState = state
    OBVIOUS
  <2> HIDE DEF new
  <2>3. Len(states) \in Nat
    BY <1>1, LenProperties
  <2> QED BY <1>1, <2>1, <2>2, <2>3
<1>3. Len(transitions) \in Nat
  BY <1>1, LenProperties
<1>4. state = StateUnverified => transitions' = transitions
  BY DEF Conclude
<1>5. ASSUME state # StateUnverified
      PROVE  /\ Len(transitions') = Len(transitions) + 1
             /\ \A t \in 1..Len(transitions) : transitions'[t] = transitions[t]
             /\ transitions'[Len(transitions) + 1].claimID = claim.id
             /\ transitions'[Len(transitions) + 1].to = state
             /\ transitions'[Len(transitions) + 1].reason = why
             /\ transitions'[Len(transitions) + 1].cites = cites
  <2> DEFINE new == [claimID |-> claim.id, to |-> state, cites |-> cites, reason |-> why]
  <2>1. transitions' = Append(transitions, new)
    BY <1>5 DEF Conclude
  <2>2. new.claimID = claim.id /\ new.to = state /\ new.reason = why /\ new.cites = cites
    OBVIOUS
  <2> HIDE DEF new
  <2> QED BY <1>1, <1>3, <2>1, <2>2
<1>6. UNCHANGED <<pc, input, claims, authorityRefuted, authorityReason, decision, reason>>
  BY Unchanged DEF Conclude
<1> QED BY <1>2, <1>3, <1>4, <1>5, <1>6

LEMMA AddUnknownKeeps ==
  ASSUME NEW records \in Seq(Unknown), NEW u \in Unknown
  PROVE  /\ Len(records) \in Nat /\ Len(addUnknown(records, u)) >= Len(records)
         /\ \A k \in 1..Len(records) : addUnknown(records, u)[k] = records[k]
         /\ \E k \in 1..Len(addUnknown(records, u)) :
              addUnknown(records, u)[k].blockedBy = u.blockedBy
<1>1. Len(records) \in Nat /\ DOMAIN records = 1..Len(records)
  BY LenProperties
<1>2. CASE \E k \in DOMAIN records : /\ records[k].reason = u.reason
                                    /\ records[k].blockedBy = u.blockedBy
  BY <1>1, <1>2 DEF addUnknown
<1>3. CASE ~ \E k \in DOMAIN records : /\ records[k].reason = u.reason
                                      /\ records[k].blockedBy = u.blockedBy
  <2>1. addUnknown(records, u) = Append(records, u)
    BY <1>3 DEF addUnknown
  <2>2. /\ Len(Append(records, u)) = Len(records) + 1
        /\ \A k \in 1..Len(records) : Append(records, u)[k] = records[k]
        /\ Append(records, u)[Len(records) + 1] = u
    BY <1>1, AppendProperties
  <2>3. Len(records) + 1 \in 1..Len(Append(records, u))
    BY <1>1, <2>2
  <2> QED BY <1>1, <2>1, <2>2, <2>3
<1> QED BY <1>2, <1>3

-----------------------------------------------------------------------------
(* The positions of the streams.                                           *)
LEMMA StreamPositions ==
  ASSUME CallInv
  PROVE  /\ Len(claims) \in Nat /\ Len(states) \in Nat /\ Len(transitions) \in Nat
         /\ Len(unknowns) \in Nat /\ Len(input.claims) \in Nat /\ index \in Nat \ {0}
         /\ Len(states) <= Len(claims) /\ Len(claims) <= Len(input.claims)
         /\ DOMAIN states = 1..Len(states) /\ DOMAIN claims = 1..Len(claims)
         /\ DOMAIN transitions = 1..Len(transitions)
         /\ DOMAIN unknowns = 1..Len(unknowns)
         /\ pc = "judge" => Len(states) = index - 1
<1>1. /\ claims \in Seq(ClaimRecord) /\ states \in Seq(ClaimState)
      /\ transitions \in Seq(Transition) /\ unknowns \in Seq(Unknown)
      /\ index \in Nat \ {0} /\ Len(input.claims) \in Nat
  BY InputType DEF CallInv, TypeOK
<1>2. /\ Len(claims) \in Nat /\ Len(states) \in Nat /\ Len(transitions) \in Nat
      /\ Len(unknowns) \in Nat
      /\ DOMAIN states = 1..Len(states) /\ DOMAIN claims = 1..Len(claims)
      /\ DOMAIN transitions = 1..Len(transitions) /\ DOMAIN unknowns = 1..Len(unknowns)
  BY <1>1, LenProperties
<1>3. pc \in {"decode", "claims", "evidence", "judge", "done"}
  BY DEF CallInv, TypeOK
<1>4. Len(<<>>) = 0
  OBVIOUS
<1>5. Len(states) <= Len(claims) /\ Len(claims) <= Len(input.claims)
  <2>1. CASE pc \in {"decode", "claims", "evidence"}
    <3>1. states = <<>>
      BY <2>1 DEF CallInv, NothingJudged, Loading
    <3>2. Len(states) = 0
      BY <1>4, <3>1
    <3>3. CASE pc = "decode"
      <4>1. claims = <<>>
        BY <3>3 DEF CallInv, Fresh
      <4>2. Len(claims) = 0
        BY <1>4, <4>1
      <4> QED BY <1>1, <3>2, <4>2
    <3>4. CASE pc \in {"claims", "evidence"}
      BY <1>1, <1>2, <3>2, <3>4 DEF CallInv, Positions
    <3> QED BY <2>1, <3>3, <3>4
  <2>2. CASE pc = "judge"
    BY <1>1, <1>2, <2>2 DEF CallInv, Positions
  <2>3. CASE pc = "done" /\ input.header.decodes
    BY <1>1, <1>2, <2>3 DEF CallInv, Positions
  <2>4. CASE pc = "done" /\ ~input.header.decodes
    <3>1. claims = <<>> /\ states = <<>>
      BY <2>4 DEF CallInv, Answered
    <3>2. Len(claims) = 0 /\ Len(states) = 0
      BY <1>4, <3>1
    <3> QED BY <1>1, <3>2
  <2> QED BY <1>3, <2>1, <2>2, <2>3, <2>4
<1> QED BY <1>1, <1>2, <1>5 DEF CallInv, Positions

-----------------------------------------------------------------------------
(* The invariant is kept.                                                  *)
LEMMA InitHistory ==
  ASSUME Init
  PROVE  HistoryInv
<1>1. /\ claims = <<>> /\ states = <<>> /\ transitions = <<>> /\ pc = "decode"
  BY DEF Init
<1>2. 1..Len(claims) = {} /\ 1..Len(states) = {} /\ 1..Len(transitions) = {}
      /\ DOMAIN states = {}
  BY <1>1
<1> QED BY <1>1, <1>2 DEF HistoryInv, RecordsNamed, TransitionsOfStates, SettledHaveMoved,
           UnverifiedIsExplained, ReasonReported

(* Before the first claim is judged there is nothing to keep but the names *)
(* of the claims.                                                          *)
LEMMA LoadingHistory ==
  ASSUME CallInv, CallInv', HistoryInv,
         RejectMalformed \/ CheckHeader \/ AdmitClaim \/ ClaimsAdmitted \/ AdmitEvidence
           \/ EvidenceAdmitted
  PROVE  HistoryInv'
<1>1. /\ pc \in {"decode", "claims", "evidence"}
      /\ UNCHANGED <<input, states, transitions, unknowns>>
  BY Unchanged DEF RejectMalformed, CheckHeader, AdmitClaim, ClaimsAdmitted, AdmitEvidence,
     EvidenceAdmitted
<1>2. /\ states' = <<>> /\ transitions' = <<>>
  BY <1>1 DEF CallInv, NothingJudged, Loading
<1>3. 1..Len(states') = {} /\ 1..Len(transitions') = {} /\ DOMAIN states' = {}
  BY <1>2
<1>4. \A k \in 1..Len(claims') : claims'[k].claimID = input.claims[k].id
  <2>1. CASE claims' = claims
    BY <2>1 DEF HistoryInv, RecordsNamed
  <2>2. CASE AdmitClaim
    <3> DEFINE new == [claimID |-> input.claims[index].id,
                       exactTuple |-> input.claims[index].exactTuple,
                       state |-> StateUnverified]
    <3>1. claims' = Append(claims, new) /\ Len(claims) = index - 1 /\ index \in Nat
      BY <2>2, StreamPositions DEF AdmitClaim, CallInv, Positions
    <3>2. new.claimID = input.claims[index].id
      OBVIOUS
    <3> HIDE DEF new
    <3>3. claims \in Seq(ClaimRecord)
      BY DEF CallInv, TypeOK
    <3>4. /\ Len(claims') = index /\ claims'[index] = new
          /\ \A k \in 1..(index - 1) : claims'[k] = claims[k]
      BY <3>1, <3>3
    <3>5. \A k \in 1..index : k \in 1..(index - 1) \/ k = index
      BY <3>1
    <3> QED BY <3>1, <3>2, <3>4, <3>5 DEF HistoryInv, RecordsNamed
  <2>3. claims' = claims \/ AdmitClaim
    BY Unchanged DEF RejectMalformed, CheckHeader, ClaimsAdmitted, AdmitEvidence,
       EvidenceAdmitted
  <2> QED BY <2>1, <2>2, <2>3
<1>5. RecordsNamed' /\ TransitionsOfStates' /\ SettledHaveMoved'
  BY <1>1, <1>3, <1>4 DEF RecordsNamed, TransitionsOfStates, SettledHaveMoved
<1>6. UnverifiedIsExplained'
  BY <1>3 DEF UnverifiedIsExplained
<1>7. ReasonReported'
  <2>1. CASE RejectMalformed
    BY <1>2, <2>1 DEF RejectMalformed, ReasonReported
  <2>2. CASE ~RejectMalformed
    <3>1. pc' # "done"
      BY <2>2 DEF CheckHeader, AdmitClaim, ClaimsAdmitted, AdmitEvidence, EvidenceAdmitted
    <3> QED BY <3>1 DEF ReasonReported
  <2> QED BY <2>1, <2>2
<1> QED BY <1>5, <1>6, <1>7 DEF HistoryInv

(* The streams after a judging step.                                       *)
LEMMA JudgingStreams ==
  ASSUME FaultInv, CallInv', HistoryInv, JudgeStep
  PROVE  RecordsNamed' /\ TransitionsOfStates' /\ SettledHaveMoved'
<1> DEFINE claim == input.claims[index]
           n     == Len(states)
           m     == Len(transitions)
<1>1. PICK state, why, cites : Conclude(claim, state, why, cites)
  BY JudgingOutcome
<1>2. /\ TypeOK /\ pc = "judge" /\ index \in Nat /\ n = index - 1 /\ m \in Nat
      /\ n \in Nat
  BY JudgingOutcome, StreamPositions DEF FaultInv, CallInv
<1>3. /\ Len(states') = n + 1
      /\ \A k \in 1..n : states'[k] = states[k]
      /\ states'[n + 1].claimID = claim.id /\ states'[n + 1].currentState = state
      /\ state = StateUnverified => transitions' = transitions
      /\ state # StateUnverified =>
           /\ Len(transitions') = m + 1
           /\ \A t \in 1..m : transitions'[t] = transitions[t]
           /\ transitions'[m + 1].claimID = claim.id /\ transitions'[m + 1].to = state
      /\ UNCHANGED <<input, claims>>
  BY <1>1, <1>2, ConcludedRecords
<1> HIDE DEF n, m
<1>4. \A k \in 1..Len(states') : k \in 1..n \/ k = n + 1
  BY <1>2, <1>3
<1>5. 1..n \subseteq 1..Len(states') /\ n + 1 \in 1..Len(states')
  BY <1>2, <1>3
<1>6. RecordsNamed'
  <2>1. \A k \in 1..n : states[k].claimID = input.claims[k].id
    BY DEF HistoryInv, RecordsNamed, n
  <2>2. states'[n + 1].claimID = input.claims[n + 1].id
    BY <1>2, <1>3
  <2>3. \A k \in 1..Len(states') : states'[k].claimID = input.claims[k].id
    BY <1>3, <1>4, <2>1, <2>2
  <2> QED BY <1>3, <2>3 DEF HistoryInv, RecordsNamed
<1>7. TransitionsOfStates'
  <2>1. ASSUME NEW t \in 1..m
        PROVE  \E k \in 1..Len(states') :
                 /\ states'[k].claimID = transitions[t].claimID
                 /\ states'[k].currentState = transitions[t].to
    <3>1. PICK k \in 1..n : /\ states[k].claimID = transitions[t].claimID
                            /\ states[k].currentState = transitions[t].to
      BY DEF HistoryInv, TransitionsOfStates, n, m
    <3> QED BY <1>3, <1>5, <3>1
  <2>2. CASE state = StateUnverified
    BY <1>3, <2>1, <2>2 DEF TransitionsOfStates, m
  <2>3. CASE state # StateUnverified
    <3>1. \A t \in 1..Len(transitions') : t \in 1..m \/ t = m + 1
      BY <1>2, <1>3, <2>3
    <3>2. \E k \in 1..Len(states') :
            /\ states'[k].claimID = transitions'[m + 1].claimID
            /\ states'[k].currentState = transitions'[m + 1].to
      BY <1>3, <1>5, <2>3
    <3> QED BY <1>3, <2>1, <2>3, <3>1, <3>2 DEF TransitionsOfStates
  <2> QED BY <2>2, <2>3
<1>8. SettledHaveMoved'
  <2>1. ASSUME NEW k \in 1..n, states[k].currentState # StateUnverified
        PROVE  \E t \in 1..m : transitions[t].claimID = states[k].claimID
    BY <2>1 DEF HistoryInv, SettledHaveMoved, n, m
  <2>2. CASE state = StateUnverified
    BY <1>3, <1>4, <2>1, <2>2 DEF SettledHaveMoved, m
  <2>3. CASE state # StateUnverified
    <3>1. 1..m \subseteq 1..Len(transitions') /\ m + 1 \in 1..Len(transitions')
      BY <1>2, <1>3, <2>3
    <3>2. ASSUME NEW k \in 1..n, states[k].currentState # StateUnverified
          PROVE  \E t \in 1..Len(transitions') : transitions'[t].claimID = states[k].claimID
      <4>1. PICK t \in 1..m : transitions[t].claimID = states[k].claimID
        BY <2>1, <3>2
      <4> QED BY <1>3, <2>3, <3>1, <4>1
    <3>3. transitions'[m + 1].claimID = states'[n + 1].claimID
      BY <1>3, <2>3
    <3> QED BY <1>3, <1>4, <3>1, <3>2, <3>3 DEF SettledHaveMoved
  <2> QED BY <2>2, <2>3
<1> QED BY <1>6, <1>7, <1>8

(* A claim that stays UNVERIFIED finds its record, added now or before for *)
(* another claim with the same blocker; no record is lost.                 *)
LEMMA ExplainedByRecords ==
  ASSUME CallInv
  PROVE  UnverifiedIsExplained <=>
           \A k \in 1..Len(states) :
             states[k].currentState = StateUnverified =>
               \E u \in 1..Len(unknowns) : Explains(unknowns[u], states[k].claimID)
BY StreamPositions DEF UnverifiedIsExplained, Explains

LEMMA JudgingExplains ==
  ASSUME FaultInv, CallInv', HistoryInv, JudgeStep
  PROVE  UnverifiedIsExplained'
<1> DEFINE claim == input.claims[index]
           n     == Len(states)
<1>1. PICK state, why, cites :
        Conclude(claim, state, why, cites) /\ Outcome(state, why, cites)
  BY JudgingOutcome
<1>2. /\ TypeOK /\ CallInv /\ n \in Nat
      /\ DOMAIN states' = 1..Len(states') /\ DOMAIN unknowns' = 1..Len(unknowns')
  <2>1. Len(states) \in Nat /\ TypeOK /\ CallInv
    BY StreamPositions DEF FaultInv, CallInv
  <2>2. states' \in Seq(ClaimState) /\ unknowns' \in Seq(Unknown)
    BY DEF CallInv, TypeOK
  <2> QED BY <2>1, <2>2, LenProperties
<1>3. /\ Len(states') = n + 1
      /\ \A k \in 1..n : states'[k] = states[k]
      /\ states'[n + 1].claimID = claim.id /\ states'[n + 1].currentState = state
      /\ UNCHANGED input
  BY <1>1, <1>2, ConcludedRecords
<1>4. /\ \A k \in 1..Len(unknowns) : k \in 1..Len(unknowns') /\ unknowns'[k] = unknowns[k]
      /\ state = StateUnverified =>
           \E u \in 1..Len(unknowns') : Explains(unknowns'[u], claim.id)
  <2>1. CASE unknowns' = unknowns /\ state # StateUnverified
    BY <2>1
  <2>2. CASE ByNothing(state, why, cites)
    <3>1. PICK u \in Unknown : Explains(u, claim.id) /\ unknowns' = addUnknown(unknowns, u)
      BY <2>2 DEF ByNothing
    <3>2. unknowns \in Seq(Unknown)
      BY <1>2 DEF TypeOK
    <3>3. /\ Len(unknowns) \in Nat /\ Len(unknowns') >= Len(unknowns)
          /\ Len(unknowns') \in Nat
          /\ \A k \in 1..Len(unknowns) : unknowns'[k] = unknowns[k]
          /\ \E k \in 1..Len(unknowns') : unknowns'[k].blockedBy = u.blockedBy
      <4>1. Len(unknowns') \in Nat
        BY LenProperties DEF CallInv, TypeOK
      <4> QED BY <3>1, <3>2, <4>1, AddUnknownKeeps
    <3> HIDE DEF claim
    <3>4. \A v : v.blockedBy = u.blockedBy => Explains(v, claim.id)
      BY <3>1 DEF Explains
    <3> QED BY <3>3, <3>4
  <2>3. \/ unknowns' = unknowns /\ state # StateUnverified
        \/ ByNothing(state, why, cites)
    BY <1>1 DEF Outcome, BySelf, ByAuthority, BySupport, ByContradiction,
       StateRefuted, StateSupported, StateUnverified
  <2> QED BY <2>1, <2>2, <2>3
<1> HIDE DEF n, claim
<1>5. ASSUME NEW k \in 1..Len(states'), states'[k].currentState = StateUnverified
      PROVE  \E u \in 1..Len(unknowns') : Explains(unknowns'[u], states'[k].claimID)
  <2>1. k \in 1..n \/ k = n + 1
    BY <1>2, <1>3
  <2>2. CASE k \in 1..n
    <3>1. \E u \in 1..Len(unknowns) : Explains(unknowns[u], states[k].claimID)
      <4>1. UnverifiedIsExplained
        BY DEF HistoryInv
      <4>2. k \in 1..Len(states) /\ states[k].currentState = StateUnverified
        BY <1>3, <1>5, <2>2 DEF n
      <4> QED BY <1>2, <4>1, <4>2, ExplainedByRecords
    <3> QED BY <1>3, <1>4, <2>2, <3>1
  <2>3. CASE k = n + 1
    BY <1>3, <1>4, <1>5, <2>3
  <2> QED BY <2>1, <2>2, <2>3
<1> QED BY <1>2, <1>3, <1>5 DEF UnverifiedIsExplained, Explains

LEMMA JudgingHistory ==
  ASSUME FaultInv, CallInv', HistoryInv, JudgeStep
  PROVE  HistoryInv'
<1>1. pc' = "judge"
  BY Unchanged DEF JudgeStep, RefuteSelfAttested, RefuteByAuthority, JudgeByEvidence, Conclude
<1>2. ReasonReported'
  BY <1>1 DEF ReasonReported
<1> QED BY <1>2, JudgingStreams, JudgingExplains DEF HistoryInv

LEMMA ResolveHistory ==
  ASSUME CallInv, HistoryInv, Resolve
  PROVE  HistoryInv'
<1>1. /\ UNCHANGED <<input, claims, transitions, states, unknowns>>
      /\ UNCHANGED <<hasRefuted, refutedReason, authorityRefuted, authorityReason>>
      /\ pc = "judge" /\ pc' = "done"
  BY Unchanged DEF Resolve
<1>2. input.header.decodes
  BY <1>1 DEF CallInv, Answered
<1>3. RecordsNamed' /\ TransitionsOfStates' /\ SettledHaveMoved'
  BY <1>1 DEF HistoryInv, RecordsNamed, TransitionsOfStates, SettledHaveMoved
<1>4. UnverifiedIsExplained'
  BY <1>1 DEF HistoryInv, UnverifiedIsExplained, Explains
<1>5. reason' = CASE decision' = DecisionRefuted -> refutedReason
                  [] decision' = DecisionClosed  -> "ALL_CLAIMS_SUPPORTED"
                  [] OTHER -> IF unknowns # <<>> THEN unknowns[1].reason
                              ELSE "CLAIMS_REMAIN_UNVERIFIED"
  BY DEF Resolve
<1>6. ReasonReported'
  BY <1>1, <1>2, <1>5 DEF ReasonReported
<1> QED BY <1>3, <1>4, <1>6 DEF HistoryInv

LEMMA StutterHistory ==
  ASSUME HistoryInv, UNCHANGED vars
  PROVE  HistoryInv'
<1>1. /\ UNCHANGED <<pc, input, claims, transitions, states, unknowns>>
      /\ UNCHANGED <<hasRefuted, refutedReason, authorityRefuted, authorityReason>>
      /\ UNCHANGED <<decision, reason>>
  BY Unchanged DEF vars
<1>2. RecordsNamed' /\ TransitionsOfStates' /\ SettledHaveMoved'
  BY <1>1 DEF HistoryInv, RecordsNamed, TransitionsOfStates, SettledHaveMoved
<1>3. UnverifiedIsExplained'
  BY <1>1 DEF HistoryInv, UnverifiedIsExplained, Explains
<1>4. ReasonReported'
  BY <1>1 DEF HistoryInv, ReasonReported
<1> QED BY <1>2, <1>3, <1>4 DEF HistoryInv

(* The streams and the records of a call agree, for every input.           *)
THEOREM HistoryInvariant == Spec => []HistoryInv
<1>1. FaultInv /\ HistoryInv /\ CallInv' /\ [Next]_vars => HistoryInv'
  <2> SUFFICES ASSUME FaultInv, HistoryInv, CallInv', [Next]_vars PROVE HistoryInv'
    OBVIOUS
  <2>1. CASE UNCHANGED vars \/ Returned
    BY <2>1, StutterHistory DEF Returned
  <2>2. CASE Next /\ ~Returned
    <3>1. CallInv
      BY DEF FaultInv
    <3> QED BY <2>2, <3>1, LoadingHistory, JudgingHistory, ResolveHistory
            DEF Next, JudgeStep
  <2> QED BY <2>1, <2>2
<1> QED BY <1>1, InitHistory, FaultInvariant, CallInvariant, PTL DEF Spec

-----------------------------------------------------------------------------
(* What follows from it.                                                   *)

(* Two judged claims with the same id have the same state: a duplicate id  *)
(* is a fault of the authority, which refutes both.                        *)
LEMMA SameIdSameState ==
  ASSUME FaultInv, HistoryInv,
         NEW j \in 1..Len(states), NEW k \in 1..Len(states),
         states[j].claimID = states[k].claimID
  PROVE  states[j].currentState = states[k].currentState
<1>1. CASE j = k
  BY <1>1
<1>2. CASE j # k
  <2>1. /\ Len(states) \in Nat /\ Len(states) <= Len(input.claims)
        /\ Len(input.claims) \in Nat /\ TypeOK
        /\ DOMAIN input.claims = 1..Len(input.claims)
    BY StreamPositions, InputType, LenProperties DEF FaultInv, CallInv, TypeOK
  <2>2. states # <<>>
    BY <2>1
  <2>3. pc \in {"judge", "done"} /\ input.header.decodes
    BY <2>2 DEF FaultInv, CallInv, NothingJudged, Loading, Answered, TypeOK
  <2>4. j \in DOMAIN input.claims /\ k \in DOMAIN input.claims
    BY <2>1
  <2>5. input.claims[j].id = input.claims[k].id
    BY DEF HistoryInv, RecordsNamed
  <2>6. AuthorityFault
    BY <1>2, <2>4, <2>5 DEF AuthorityFault
  <2>7. authorityRefuted
    BY <2>1, <2>3, <2>6, FaultOfInput DEF FaultInv, FaultsNoted
  <2>8. All(StateRefuted)
    BY <2>3, <2>7 DEF FaultInv, CallInv, FlagsAgree, Judged
  <2> QED BY <2>8 DEF All
<1> QED BY <1>1, <1>2

LEMMA ReplayHolds == FaultInv /\ HistoryInv => ReplayAgrees
<1> SUFFICES ASSUME FaultInv, HistoryInv PROVE ReplayAgrees
  OBVIOUS
<1>1. /\ DOMAIN states = 1..Len(states) /\ DOMAIN claims = 1..Len(claims)
      /\ DOMAIN transitions = 1..Len(transitions)
      /\ Len(states) \in Nat /\ Len(claims) \in Nat /\ Len(states) <= Len(claims)
      /\ claims \in Seq(ClaimRecord)
  BY StreamPositions DEF FaultInv, CallInv, TypeOK
<1>2. ASSUME NEW k \in 1..Len(states)
      PROVE  /\ k \in DOMAIN claims /\ claims[k].claimID = states[k].claimID
             /\ (\A t \in 1..Len(transitions) :
                   transitions[t].claimID # states[k].claimID)
                  => states[k].currentState = claims[k].state
             /\ \A t \in 1..Len(transitions) :
                  transitions[t].claimID = states[k].claimID
                    => transitions[t].to = states[k].currentState
  <2>1. k \in 1..Len(claims)
    BY <1>1
  <2>2. claims[k].claimID = states[k].claimID
    BY <2>1 DEF HistoryInv, RecordsNamed
  <2>3. claims[k].state = StateUnverified
    <3>1. claims[k] \in ClaimRecord
      BY <1>1, <2>1, ElementOfSeq
    <3> QED BY <3>1 DEF ClaimRecord
  <2>4. (\A t \in 1..Len(transitions) : transitions[t].claimID # states[k].claimID)
          => states[k].currentState = StateUnverified
    BY DEF HistoryInv, SettledHaveMoved
  <2>5. ASSUME NEW t \in 1..Len(transitions), transitions[t].claimID = states[k].claimID
        PROVE  transitions[t].to = states[k].currentState
    <3>1. PICK j \in 1..Len(states) : /\ states[j].claimID = transitions[t].claimID
                                      /\ states[j].currentState = transitions[t].to
      BY DEF HistoryInv, TransitionsOfStates
    <3> QED BY <2>5, <3>1, SameIdSameState
  <2> QED BY <1>1, <2>1, <2>2, <2>3, <2>4, <2>5
<1> QED BY <1>1, <1>2 DEF ReplayAgrees

(* Replaying the three streams gives the states of the report, also for    *)
(* claims that share an id (evaluate.go:85-123).                           *)
THEOREM StreamsReplay == Spec => []ReplayAgrees
BY FaultInvariant, HistoryInvariant, ReplayHolds, PTL

(* No claim stays UNVERIFIED without a record that says what it waits for, *)
(* although records are merged (evaluate.go:111-123 and addUnknown, 319-326).          *)
THEOREM UnverifiedExplained == Spec => []UnverifiedIsExplained
<1>1. HistoryInv => UnverifiedIsExplained
  BY DEF HistoryInv
<1> QED BY <1>1, HistoryInvariant, PTL

-----------------------------------------------------------------------------
(* The reason of the report.  ReasonInv follows the kept reason from the   *)
(* first fault that was read to the report: while the input is loaded it   *)
(* is that of the first fault of what has been read; while the claims are  *)
(* judged it is the frozen one, or that of the first claim refuted.        *)

ClaimsReason(n) == FirstReason([k \in 1..n |-> ClaimReason(k)])

ItemsReason(n) == FirstReason([k \in 1..n |-> EvidenceReason(k)])

NoClaimsReason ==
  IF pc \in {"decode", "claims"} THEN NoError
  ELSE FailIf(input.claims = <<>>, "CLAIMS_REQUIRED")

FaultReasonRead == FirstReason(<<
  headerReason(input.header), ClaimsReason(ClaimsRead),
  NoClaimsReason, ItemsReason(EvidenceRead)>>)

FirstFaultKept ==
  /\ pc \in {"claims", "evidence"} => refutedReason = FaultReasonRead
  /\ Judged => authorityReason = FirstFault

FirstAt(ss, k, state) ==
  /\ ss[k].currentState = state
  /\ \A j \in 1..(k - 1) : ss[j].currentState # state

FirstRefutationKept ==
  Judged =>
    /\ authorityRefuted => refutedReason = authorityReason
    /\ ~authorityRefuted =>
         \A k \in 1..Len(states) :
           FirstAt(states, k, StateRefuted) => refutedReason = OwnReason(input.claims[k])

FirstUnknownKept ==
  Judged /\ ~authorityRefuted =>
    \A k \in 1..Len(states) :
      FirstAt(states, k, StateUnverified) =>
        unknowns # <<>> /\ Explains(unknowns[1], input.claims[k].id)

ReasonInv == FirstFaultKept /\ FirstRefutationKept /\ FirstUnknownKept

(* What FirstReason finds.                                                 *)
LEMMA FirstReasonAt ==
  ASSUME NEW n \in Nat, NEW f, DOMAIN f = 1..n, NEW k \in 1..n, f[k] # NoError,
         \A j \in 1..(k - 1) : f[j] = NoError
  PROVE  FirstReason(f) = f[k]
<1> DEFINE failed == {j \in DOMAIN f : f[j] # NoError}
<1>1. failed \in SUBSET Nat /\ k \in failed
  OBVIOUS
<1>2. First(failed) \in failed /\ First(failed) <= k
  <2> HIDE DEF failed
  <2> QED BY <1>1, FirstIsLeast
<1>3. \A j \in failed : j \in Nat /\ j \notin 1..(k - 1)
  OBVIOUS
<1>4. \A j \in failed : j >= 1
  OBVIOUS
<1>5. First(failed) = k
  <2> HIDE DEF failed
  <2>1. First(failed) \in Nat /\ First(failed) >= 1 /\ First(failed) \notin 1..(k - 1)
    BY <1>2, <1>3, <1>4
  <2> QED BY <1>2, <2>1
<1>6. FirstReason(f) = IF failed = {} THEN NoError ELSE f[First(failed)]
  BY DEF FirstReason
<1> HIDE DEF failed
<1> QED BY <1>1, <1>5, <1>6

LEMMA NoFirstReason ==
  ASSUME NEW f, \A k \in DOMAIN f : f[k] = NoError
  PROVE  FirstReason(f) = NoError
BY DEF FirstReason

LEMMA FirstFailure ==
  ASSUME NEW n \in Nat, NEW f, DOMAIN f = 1..n, \E k \in 1..n : f[k] # NoError
  PROVE  \E k \in 1..n : f[k] # NoError /\ \A j \in 1..(k - 1) : f[j] = NoError
<1> DEFINE failed == {j \in 1..n : f[j] # NoError}
<1>1. failed \in SUBSET Nat /\ failed # {}
  OBVIOUS
<1>2. PICK k \in failed : \A j \in failed : k <= j
  <2> HIDE DEF failed
  <2> QED BY <1>1, FirstIsLeast
<1>3. k \in 1..n /\ f[k] # NoError
  OBVIOUS
<1>4. ASSUME NEW j \in 1..(k - 1) PROVE f[j] = NoError
  <2>1. j \in 1..n /\ ~(k <= j)
    BY <1>3
  <2> QED BY <1>2, <2>1
<1> QED BY <1>3, <1>4

(* One check more: the first reason stays, or the new check gives it.      *)
LEMMA FirstReasonNext ==
  ASSUME NEW n \in Nat, NEW f, NEW g, DOMAIN f = 1..n, DOMAIN g = 1..(n + 1),
         \A k \in 1..n : g[k] = f[k]
  PROVE  FirstReason(g) = IF FirstReason(f) # NoError THEN FirstReason(f) ELSE g[n + 1]
<1>1. CASE \A k \in 1..n : f[k] = NoError
  <2>1. FirstReason(f) = NoError
    BY <1>1, NoFirstReason
  <2>2. CASE g[n + 1] = NoError
    <3>1. \A k \in DOMAIN g : k \in 1..n \/ k = n + 1
      OBVIOUS
    <3>2. FirstReason(g) = NoError
      BY <1>1, <2>2, <3>1, NoFirstReason
    <3> QED BY <2>1, <2>2, <3>2
  <2>3. CASE g[n + 1] # NoError
    <3>1. n + 1 \in Nat /\ n + 1 \in 1..(n + 1) /\ 1..((n + 1) - 1) = 1..n
      OBVIOUS
    <3>2. FirstReason(g) = g[n + 1]
      BY <1>1, <2>3, <3>1, FirstReasonAt
    <3> QED BY <2>1, <3>2
  <2> QED BY <2>2, <2>3
<1>2. CASE \E k \in 1..n : f[k] # NoError
  <2>1. PICK k \in 1..n : f[k] # NoError /\ \A j \in 1..(k - 1) : f[j] = NoError
    BY <1>2, FirstFailure
  <2>2. FirstReason(f) = f[k]
    BY <2>1, FirstReasonAt
  <2>3. n + 1 \in Nat /\ k \in 1..(n + 1) /\ \A j \in 1..(k - 1) : j \in 1..n
    OBVIOUS
  <2>4. FirstReason(g) = g[k]
    BY <2>1, <2>3, FirstReasonAt
  <2> QED BY <2>1, <2>2, <2>4
<1> QED BY <1>1, <1>2

LEMMA FirstOfFourIs ==
  ASSUME NEW a, NEW b, NEW c, NEW d
  PROVE  FirstReason(<<a, b, c, d>>)
           = IF a # NoError THEN a ELSE IF b # NoError THEN b
             ELSE IF c # NoError THEN c ELSE d
<1> DEFINE f == <<a, b, c, d>>
<1>1. /\ DOMAIN f = 1..4 /\ f[1] = a /\ f[2] = b /\ f[3] = c /\ f[4] = d
      /\ 1..4 = {1, 2, 3, 4} /\ 4 \in Nat
      /\ 1..(1 - 1) = {} /\ 1..(2 - 1) = {1} /\ 1..(3 - 1) = {1, 2} /\ 1..(4 - 1) = {1, 2, 3}
  OBVIOUS
<1> HIDE DEF f
<1>2. CASE a # NoError
  <2>1. PICK n \in Nat, k \in Nat : n = 4 /\ k = 1
    OBVIOUS
  <2>2. /\ DOMAIN f = 1..n /\ k \in 1..n /\ f[k] # NoError
        /\ \A j \in 1..(k - 1) : f[j] = NoError
    BY <1>1, <1>2, <2>1
  <2>3. FirstReason(f) = f[k]
    BY <2>2, FirstReasonAt
  <2> QED BY <1>1, <1>2, <2>1, <2>3 DEF f
<1>3. CASE a = NoError /\ b # NoError
  <2>1. PICK n \in Nat, k \in Nat : n = 4 /\ k = 2
    OBVIOUS
  <2>2. /\ DOMAIN f = 1..n /\ k \in 1..n /\ f[k] # NoError
        /\ \A j \in 1..(k - 1) : f[j] = NoError
    BY <1>1, <1>3, <2>1
  <2>3. FirstReason(f) = f[k]
    BY <2>2, FirstReasonAt
  <2> QED BY <1>1, <1>3, <2>1, <2>3 DEF f
<1>4. CASE a = NoError /\ b = NoError /\ c # NoError
  <2>1. PICK n \in Nat, k \in Nat : n = 4 /\ k = 3
    OBVIOUS
  <2>2. /\ DOMAIN f = 1..n /\ k \in 1..n /\ f[k] # NoError
        /\ \A j \in 1..(k - 1) : f[j] = NoError
    BY <1>1, <1>4, <2>1
  <2>3. FirstReason(f) = f[k]
    BY <2>2, FirstReasonAt
  <2> QED BY <1>1, <1>4, <2>1, <2>3 DEF f
<1>5. CASE a = NoError /\ b = NoError /\ c = NoError /\ d # NoError
  <2>1. PICK n \in Nat, k \in Nat : n = 4 /\ k = 4
    OBVIOUS
  <2>2. /\ DOMAIN f = 1..n /\ k \in 1..n /\ f[k] # NoError
        /\ \A j \in 1..(k - 1) : f[j] = NoError
    BY <1>1, <1>5, <2>1
  <2>3. FirstReason(f) = f[k]
    BY <2>2, FirstReasonAt
  <2> QED BY <1>1, <1>5, <2>1, <2>3 DEF f
<1>6. CASE a = NoError /\ b = NoError /\ c = NoError /\ d = NoError
  <2>1. FirstReason(f) = NoError
    BY <1>1, <1>6, NoFirstReason
  <2> QED BY <1>6, <2>1 DEF f
<1> QED BY <1>2, <1>3, <1>4, <1>5, <1>6

LEMMA FirstOfTwoIs ==
  ASSUME NEW a, NEW b
  PROVE  FirstReason(<<a, b>>) = IF a # NoError THEN a ELSE b
<1> DEFINE f == <<a, b>>
<1>1. /\ DOMAIN f = 1..2 /\ f[1] = a /\ f[2] = b
      /\ 1..2 = {1, 2} /\ 2 \in Nat
      /\ 1..(1 - 1) = {} /\ 1..(2 - 1) = {1}
  OBVIOUS
<1> HIDE DEF f
<1>2. CASE a # NoError
  <2>1. PICK n \in Nat, k \in Nat : n = 2 /\ k = 1
    OBVIOUS
  <2>2. /\ DOMAIN f = 1..n /\ k \in 1..n /\ f[k] # NoError
        /\ \A j \in 1..(k - 1) : f[j] = NoError
    BY <1>1, <1>2, <2>1
  <2>3. FirstReason(f) = f[k]
    BY <2>2, FirstReasonAt
  <2> QED BY <1>1, <1>2, <2>1, <2>3 DEF f
<1>3. CASE a = NoError /\ b # NoError
  <2>1. PICK n \in Nat, k \in Nat : n = 2 /\ k = 2
    OBVIOUS
  <2>2. /\ DOMAIN f = 1..n /\ k \in 1..n /\ f[k] # NoError
        /\ \A j \in 1..(k - 1) : f[j] = NoError
    BY <1>1, <1>3, <2>1
  <2>3. FirstReason(f) = f[k]
    BY <2>2, FirstReasonAt
  <2> QED BY <1>1, <1>3, <2>1, <2>3 DEF f
<1>4. CASE a = NoError /\ b = NoError
  <2>1. FirstReason(f) = NoError
    BY <1>1, <1>4, NoFirstReason
  <2> QED BY <1>4, <2>1 DEF f
<1> QED BY <1>2, <1>3, <1>4

LEMMA SameReasons ==
  ASSUME input' = input
  PROVE  /\ headerReason(input.header)' = headerReason(input.header)
         /\ \A n : ClaimsReason(n)' = ClaimsReason(n)
         /\ \A n : ItemsReason(n)' = ItemsReason(n)
         /\ FirstFault' = FirstFault
         /\ \A u, id : Explains(u, id)' <=> Explains(u, id)
<1>1. \A k : ClaimReason(k)' = ClaimReason(k)
  BY DEF ClaimReason
<1>2. \A k : EvidenceReason(k)' = EvidenceReason(k)
  BY DEF EvidenceReason
<1>3. \A n : ClaimsReason(n)' = ClaimsReason(n)
  BY <1>1 DEF ClaimsReason
<1>4. \A n : ItemsReason(n)' = ItemsReason(n)
  BY <1>2 DEF ItemsReason
<1>5. FirstFault' = FirstFault
  BY <1>1, <1>2 DEF FirstFault
<1>6. \A u, id : Explains(u, id)' <=> Explains(u, id)
  BY DEF Explains
<1>7. headerReason(input.header)' = headerReason(input.header)
  OBVIOUS
<1> QED BY <1>3, <1>4, <1>5, <1>6, <1>7

LEMMA ReasonsNext ==
  ASSUME NEW n \in Nat \ {0}
  PROVE  /\ ClaimsReason(0) = NoError /\ ItemsReason(0) = NoError
         /\ ClaimsReason(n) = IF ClaimsReason(n - 1) # NoError THEN ClaimsReason(n - 1)
                              ELSE ClaimReason(n)
         /\ ItemsReason(n) = IF ItemsReason(n - 1) # NoError THEN ItemsReason(n - 1)
                             ELSE EvidenceReason(n)
<1>1. n - 1 \in Nat /\ (n - 1) + 1 = n /\ n \in 1..n /\ 1..0 = {}
      /\ \A k \in 1..(n - 1) : k \in 1..n
  OBVIOUS
<1>2. ClaimsReason(0) = NoError /\ ItemsReason(0) = NoError
  BY <1>1, NoFirstReason DEF ClaimsReason, ItemsReason
<1>3. ClaimsReason(n) = IF ClaimsReason(n - 1) # NoError THEN ClaimsReason(n - 1)
                        ELSE ClaimReason(n)
  <2> DEFINE f == [k \in 1..(n - 1) |-> ClaimReason(k)]
             g == [k \in 1..n |-> ClaimReason(k)]
  <2>1. /\ DOMAIN f = 1..(n - 1) /\ DOMAIN g = 1..((n - 1) + 1)
        /\ \A k \in 1..(n - 1) : g[k] = f[k]
        /\ g[(n - 1) + 1] = ClaimReason(n)
    BY <1>1
  <2>2. ClaimsReason(n) = FirstReason(g) /\ ClaimsReason(n - 1) = FirstReason(f)
    BY DEF ClaimsReason
  <2> HIDE DEF f, g
  <2> QED BY <1>1, <2>1, <2>2, FirstReasonNext
<1>4. ItemsReason(n) = IF ItemsReason(n - 1) # NoError THEN ItemsReason(n - 1)
                       ELSE EvidenceReason(n)
  <2> DEFINE f == [k \in 1..(n - 1) |-> EvidenceReason(k)]
             g == [k \in 1..n |-> EvidenceReason(k)]
  <2>1. /\ DOMAIN f = 1..(n - 1) /\ DOMAIN g = 1..((n - 1) + 1)
        /\ \A k \in 1..(n - 1) : g[k] = f[k]
        /\ g[(n - 1) + 1] = EvidenceReason(n)
    BY <1>1
  <2>2. ItemsReason(n) = FirstReason(g) /\ ItemsReason(n - 1) = FirstReason(f)
    BY DEF ItemsReason
  <2> HIDE DEF f, g
  <2> QED BY <1>1, <2>1, <2>2, FirstReasonNext
<1> QED BY <1>2, <1>3, <1>4

(* A loading step keeps the reason of the first fault of what was read.    *)
LEMMA LoadingReasons ==
  ASSUME FaultInv, ReasonInv,
         CheckHeader \/ AdmitClaim \/ ClaimsAdmitted \/ AdmitEvidence
  PROVE  refutedReason' = FaultReasonRead'
<1> DEFINE h == headerReason(input.header)
<1>1. /\ input' = input /\ input.header.decodes
      /\ index \in Nat \ {0} /\ Len(input.claims) \in Nat /\ Len(input.evidence) \in Nat
      /\ ReasonsGiven /\ hasRefuted \in BOOLEAN
      /\ pc = "decode" => hasRefuted = FALSE /\ index = 1
      /\ pc \in {"claims", "evidence"} => refutedReason = FaultReasonRead
      /\ pc \in {"claims", "evidence"} => IdsAdmitted
      /\ pc = "claims" => index <= Len(input.claims) + 1
  BY InputType DEF FaultInv, CallInv, TypeOK, Fresh, Positions, Answered, ReasonInv,
     FirstFaultKept, CheckHeader, AdmitClaim, ClaimsAdmitted, AdmitEvidence
<1>2. \A r : addRefutation(r) =>
        refutedReason' = IF refutedReason # NoError THEN refutedReason ELSE r
  BY <1>1 DEF addRefutation, ReasonsGiven
<1>3. FaultReasonRead
        = IF h # NoError THEN h
          ELSE IF ClaimsReason(ClaimsRead) # NoError THEN ClaimsReason(ClaimsRead)
          ELSE IF NoClaimsReason # NoError THEN NoClaimsReason
          ELSE ItemsReason(EvidenceRead)
  BY FirstOfFourIs DEF FaultReasonRead
<1>4. FaultReasonRead'
        = IF h # NoError THEN h
          ELSE IF ClaimsReason(ClaimsRead') # NoError THEN ClaimsReason(ClaimsRead')
          ELSE IF NoClaimsReason' # NoError THEN NoClaimsReason'
          ELSE ItemsReason(EvidenceRead')
  <2>1. FaultReasonRead' = FirstReason(<<h, ClaimsReason(ClaimsRead'),
                                         NoClaimsReason', ItemsReason(EvidenceRead')>>)
    BY <1>1 DEF FaultReasonRead, ClaimsReason, ItemsReason, ClaimReason, EvidenceReason
  <2> HIDE DEF h
  <2> QED BY <2>1, FirstOfFourIs
<1> HIDE DEF h
<1>5. CASE CheckHeader
  <2>1. pc' = "claims" /\ index' = 1 /\ addRefutation(h) /\ refutedReason = NoError
    BY <1>1, <1>5, Unchanged DEF CheckHeader, ReasonsGiven, h
  <2>2. ClaimsRead' = 0 /\ EvidenceRead' = 0 /\ NoClaimsReason' = NoError
    BY <2>1 DEF ClaimsRead, EvidenceRead, NoClaimsReason
  <2>3. ClaimsReason(0) = NoError /\ ItemsReason(0) = NoError
    BY <1>1, ReasonsNext
  <2>4. FaultReasonRead' = h
    BY <1>4, <2>2, <2>3
  <2> QED BY <1>2, <2>1, <2>4
<1>6. CASE AdmitClaim
  <2> DEFINE claim == input.claims[index]
             taken == claim.id = NoId \/ claim.id \in claimByID
             r     == IF taken THEN "INVALID_OR_DUPLICATE_CLAIM"
                      ELSE validateClaim(claim, input.header.evaluator)
  <2>1. pc = "claims" /\ pc' = "claims" /\ index' = index + 1 /\ addRefutation(r)
        /\ index <= Len(input.claims)
    BY <1>6 DEF AdmitClaim
  <2>2. /\ ClaimsRead = index - 1 /\ EvidenceRead = 0 /\ NoClaimsReason = NoError
        /\ ClaimsRead' = index /\ EvidenceRead' = 0 /\ NoClaimsReason' = NoError
    BY <1>1, <2>1 DEF ClaimsRead, EvidenceRead, NoClaimsReason
  <2>3. claim.id \in ClaimIds \cup {NoId} /\ claim.id \in claimByID => claim.id \in ClaimIds
    <3>1. claim \in Claim /\ claimByID \in SUBSET ClaimIds
      BY <1>1, <2>1, InputType DEF FaultInv, CallInv, TypeOK
    <3> QED BY <3>1 DEF Claim
  <2>4. r = ClaimReason(index)
    <3>1. claim \in Claim
      BY <1>1, <2>1, InputType DEF FaultInv, CallInv, TypeOK
    <3>2. claim.id \in ClaimIds \cup {NoId}
      BY <3>1 DEF Claim
    <3>3. claim.id # NoId =>
            (claim.id \in claimByID <=> \E j \in 1..(index - 1) : input.claims[j].id = claim.id)
      BY <1>1, <2>1, <2>2, <3>2 DEF IdsAdmitted, Claimed
    <3> QED BY <3>3 DEF ClaimReason
  <2> HIDE DEF r
  <2>5. /\ ItemsReason(0) = NoError
        /\ ClaimsReason(index) = IF ClaimsReason(index - 1) # NoError
                                 THEN ClaimsReason(index - 1) ELSE ClaimReason(index)
    BY <1>1, ReasonsNext
  <2>6. refutedReason = IF h # NoError THEN h ELSE ClaimsReason(index - 1)
    BY <1>1, <1>3, <2>1, <2>2, <2>5
  <2>7. FaultReasonRead' = IF h # NoError THEN h ELSE ClaimsReason(index)
    BY <1>4, <2>2, <2>5
  <2> QED BY <1>2, <2>1, <2>4, <2>5, <2>6, <2>7
<1>7. CASE ClaimsAdmitted
  <2> DEFINE r == FailIf(input.claims = <<>>, "CLAIMS_REQUIRED")
             n == Len(input.claims)
  <2>1. /\ pc = "claims" /\ pc' = "evidence" /\ index' = 1 /\ addRefutation(r)
        /\ index = n + 1
    BY <1>1, <1>7 DEF ClaimsAdmitted
  <2>2. /\ ClaimsRead = n /\ EvidenceRead = 0 /\ NoClaimsReason = NoError
        /\ ClaimsRead' = n /\ EvidenceRead' = 0 /\ NoClaimsReason' = r
    BY <1>1, <2>1 DEF ClaimsRead, EvidenceRead, NoClaimsReason
  <2> HIDE DEF r, n
  <2>3. ItemsReason(0) = NoError
    BY <1>1, ReasonsNext
  <2>4. refutedReason = IF h # NoError THEN h ELSE ClaimsReason(n)
    BY <1>1, <1>3, <2>1, <2>2, <2>3
  <2>5. FaultReasonRead' = IF h # NoError THEN h
                           ELSE IF ClaimsReason(n) # NoError THEN ClaimsReason(n) ELSE r
    BY <1>4, <2>2, <2>3
  <2> QED BY <1>2, <2>1, <2>4, <2>5
<1>8. CASE AdmitEvidence
  <2> DEFINE item    == input.evidence[index]
             id      == item.claimID
             unbound == id = NoId \/ id \notin claimByID
             a == validateEvidence(item, input.header.evaluator)
             b == FailIf(unbound, "EVIDENCE_CLAIM_BINDING_MISMATCH")
             c == FailIf(\A j \in DOMAIN input.claims : input.claims[j].id # id,
                         "EVIDENCE_CLAIM_BINDING_MISMATCH")
             n == Len(input.claims)
             N == NoClaimsReason
  <2>1. /\ pc = "evidence" /\ pc' = "evidence" /\ index' = index + 1
        /\ addRefutation(FirstReason(<<a, b>>)) /\ index <= Len(input.evidence)
    BY <1>8 DEF AdmitEvidence
  <2>2. /\ ClaimsRead = n /\ ClaimsRead' = n
        /\ EvidenceRead = index - 1 /\ EvidenceRead' = index
        /\ NoClaimsReason' = N
    BY <1>1, <2>1 DEF ClaimsRead, EvidenceRead, NoClaimsReason
  <2>3. item \in Evidence /\ input.header.evaluator \in EvaluatorReference
        /\ DOMAIN input.claims = 1..n
    BY <1>1, <2>1, InputType, LenProperties DEF FaultInv, CallInv, TypeOK
  <2>4. EvidenceReason(index) = FirstReason(<<a, c>>)
    BY DEF EvidenceReason
  <2>5. FirstReason(<<a, b>>) = EvidenceReason(index)
    <3>1. id \in ClaimIds \cup {NoId}
      BY <2>3 DEF Evidence
    <3>2. CASE id = NoId
      <4>1. a # NoError
        BY <2>3, <3>2, EvidenceCheck
      <4> HIDE DEF a, b, c
      <4>2. FirstReason(<<a, b>>) = a /\ FirstReason(<<a, c>>) = a
        BY <4>1, FirstOfTwoIs
      <4> QED BY <2>4, <4>2
    <3>3. CASE id # NoId
      <4>1. id \in claimByID <=> \E j \in 1..n : input.claims[j].id = id
        BY <1>1, <2>1, <2>2, <3>1, <3>3 DEF IdsAdmitted, Claimed
      <4>2. unbound <=> \A j \in DOMAIN input.claims : input.claims[j].id # id
        BY <2>3, <3>3, <4>1
      <4>3. b = c
        BY <4>2
      <4> QED BY <2>4, <4>3
    <3> QED BY <3>2, <3>3
  <2>6. ItemsReason(index) = IF ItemsReason(index - 1) # NoError
                             THEN ItemsReason(index - 1) ELSE EvidenceReason(index)
    BY <1>1, ReasonsNext
  <2> HIDE DEF n, N, a, b, c
  <2>7. refutedReason = IF h # NoError THEN h
                        ELSE IF ClaimsReason(n) # NoError THEN ClaimsReason(n)
                        ELSE IF N # NoError THEN N ELSE ItemsReason(index - 1)
    BY <1>1, <1>3, <2>1, <2>2 DEF N
  <2>8. FaultReasonRead' = IF h # NoError THEN h
                           ELSE IF ClaimsReason(n) # NoError THEN ClaimsReason(n)
                           ELSE IF N # NoError THEN N ELSE ItemsReason(index)
    BY <1>4, <2>2
  <2> QED BY <1>2, <2>1, <2>5, <2>6, <2>7, <2>8
<1> QED BY <1>5, <1>6, <1>7, <1>8

LEMMA FrozenReason ==
  ASSUME FaultInv, ReasonInv, EvidenceAdmitted
  PROVE  authorityReason' = FirstFault
<1>1. /\ pc = "evidence" /\ index = Len(input.evidence) + 1
      /\ authorityReason' = refutedReason /\ refutedReason = FaultReasonRead
      /\ Len(input.claims) \in Nat /\ Len(input.evidence) \in Nat
      /\ DOMAIN input.claims = 1..Len(input.claims)
      /\ DOMAIN input.evidence = 1..Len(input.evidence)
  BY InputType, LenProperties DEF FaultInv, CallInv, TypeOK, EvidenceAdmitted, ReasonInv,
     FirstFaultKept
<1>2. ClaimsRead = Len(input.claims) /\ EvidenceRead = Len(input.evidence)
  BY <1>1 DEF ClaimsRead, EvidenceRead
<1>3. FirstFault = FaultReasonRead
  BY <1>1, <1>2 DEF FirstFault, FaultReasonRead, NoClaimsReason, ClaimsReason, ItemsReason
<1> QED BY <1>1, <1>3

(* A judging step keeps the reason of the first claim refuted for itself   *)
(* and the first record, and sets them where there was none.               *)
LEMMA JudgingReasons ==
  ASSUME FaultInv, ReasonInv, CallInv', JudgeStep
  PROVE  FirstRefutationKept' /\ FirstUnknownKept'
<1> DEFINE claim == input.claims[index]
           n     == Len(states)
<1>1. PICK state, why, cites :
        /\ Conclude(claim, state, why, cites) /\ Outcome(state, why, cites)
        /\ state \in ClaimStateNames
  BY JudgingOutcome
<1>2. /\ TypeOK /\ CallInv /\ n \in Nat /\ index = n + 1 /\ pc = "judge" /\ Judged
      /\ hasRefuted \in BOOLEAN /\ authorityRefuted \in BOOLEAN
      /\ unknowns \in Seq(Unknown) /\ unknowns' \in Seq(Unknown)
      /\ ReasonsGiven /\ FlagsAgree
  <2>1. pc = "judge" /\ n \in Nat /\ Len(states) = index - 1 /\ index \in Nat
    BY StreamPositions, JudgingOutcome DEF FaultInv
  <2> QED BY <2>1 DEF FaultInv, CallInv, TypeOK, Judged
<1>3. /\ Len(states') = n + 1
      /\ \A k \in 1..n : states'[k] = states[k]
      /\ states'[n + 1].currentState = state
      /\ UNCHANGED <<input, authorityRefuted, authorityReason>>
  BY <1>1, <1>2, ConcludedRecords
<1>4. /\ StateRefuted # StateUnverified /\ StateRefuted # StateSupported
      /\ StateUnverified # StateSupported
  BY DEF StateRefuted, StateSupported, StateUnverified
<1>5. /\ authorityRefuted => refutedReason = authorityReason /\ hasRefuted
      /\ ~authorityRefuted => (hasRefuted <=> \E k \in 1..n : states[k].currentState = StateRefuted)
      /\ unknowns # <<>> <=> \E k \in 1..n : states[k].currentState = StateUnverified
      /\ ~authorityRefuted =>
           \A k \in 1..n : FirstAt(states, k, StateRefuted)
                             => refutedReason = OwnReason(input.claims[k])
      /\ ~authorityRefuted =>
           \A k \in 1..n : FirstAt(states, k, StateUnverified)
                             => unknowns # <<>> /\ Explains(unknowns[1], input.claims[k].id)
  <2>1. authorityRefuted => hasRefuted
    BY <1>2 DEF FlagsAgree
  <2> QED BY <1>2, <2>1 DEF FlagsAgree, Some, ReasonInv, FirstRefutationKept, FirstUnknownKept
<1> HIDE DEF n, claim
<1>6. ASSUME NEW s, NEW k \in 1..Len(states'), FirstAt(states', k, s)
      PROVE  \/ k \in 1..n /\ FirstAt(states, k, s)
             \/ k = n + 1 /\ state = s /\ \A j \in 1..n : states[j].currentState # s
  <2>1. k \in 1..n \/ k = n + 1
    BY <1>2, <1>3
  <2>2. CASE k \in 1..n
    <3>1. \A j \in 1..(k - 1) : j \in 1..n
      BY <1>2, <2>2
    <3> QED BY <1>3, <1>6, <2>2, <3>1 DEF FirstAt
  <2>3. CASE k = n + 1
    <3>1. 1..(k - 1) = 1..n
      BY <1>2, <2>3
    <3> QED BY <1>3, <1>6, <2>3, <3>1 DEF FirstAt
  <2> QED BY <2>1, <2>2, <2>3
<1>7. /\ hasRefuted => refutedReason' = refutedReason
      /\ ~hasRefuted /\ state = StateRefuted /\ ~authorityRefuted =>
           refutedReason' = OwnReason(claim)
      /\ ~hasRefuted /\ state # StateRefuted => refutedReason' = refutedReason
  <2>1. CASE BySelf(state, why, cites)
    BY <1>2, <2>1 DEF BySelf, addRefutation, OwnReason, claim
  <2>2. CASE ByContradiction(state, why, cites)
    BY <1>2, <2>2 DEF ByContradiction, addRefutation, OwnReason, claim
  <2>3. CASE ByAuthority(state, why, cites)
    BY <2>3 DEF ByAuthority
  <2>4. CASE BySupport(state, why, cites)
    BY <1>4, <2>4 DEF BySupport
  <2>5. CASE ByNothing(state, why, cites)
    BY <1>4, <2>5 DEF ByNothing
  <2> QED BY <1>1, <2>1, <2>2, <2>3, <2>4, <2>5 DEF Outcome
<1>8. FirstRefutationKept'
  <2>1. authorityRefuted' => refutedReason' = authorityReason'
    BY <1>3, <1>5, <1>7
  <2>2. ASSUME ~authorityRefuted', NEW k \in 1..Len(states'), FirstAt(states', k, StateRefuted)
        PROVE  refutedReason' = OwnReason(input'.claims[k])
    <3>1. CASE k \in 1..n /\ FirstAt(states, k, StateRefuted)
      <4>1. hasRefuted
        BY <1>3, <1>5, <2>2, <3>1 DEF FirstAt
      <4> QED BY <1>3, <1>5, <1>7, <2>2, <3>1, <4>1
    <3>2. CASE /\ k = n + 1 /\ state = StateRefuted
               /\ \A j \in 1..n : states[j].currentState # StateRefuted
      <4>1. ~hasRefuted
        BY <1>3, <1>5, <2>2, <3>2
      <4>2. claim = input'.claims[k]
        BY <1>2, <1>3, <3>2 DEF claim
      <4> QED BY <1>3, <1>7, <2>2, <3>2, <4>1, <4>2
    <3> QED BY <1>6, <2>2, <3>1, <3>2
  <2> QED BY <2>1, <2>2 DEF FirstRefutationKept
<1>9. /\ unknowns # <<>> => unknowns' # <<>> /\ unknowns'[1] = unknowns[1]
      /\ unknowns = <<>> /\ state = StateUnverified =>
           unknowns' # <<>> /\ Explains(unknowns'[1], claim.id)
  <2>1. CASE unknowns' = unknowns /\ state # StateUnverified
    BY <2>1
  <2>2. CASE ByNothing(state, why, cites)
    <3>1. PICK u \in Unknown : Explains(u, claim.id) /\ unknowns' = addUnknown(unknowns, u)
      BY <2>2 DEF ByNothing, claim
    <3>2. CASE unknowns = <<>>
      <4>1. unknowns' = <<u>>
        BY <3>1, <3>2 DEF addUnknown
      <4> QED BY <3>1, <3>2, <4>1
    <3>3. CASE unknowns # <<>>
      <4>1. Len(unknowns) \in Nat /\ Len(unknowns) >= 1
        BY <1>2, <3>3, EmptySeq, LenProperties
      <4>2. /\ Len(unknowns') >= Len(unknowns)
            /\ \A k \in 1..Len(unknowns) : unknowns'[k] = unknowns[k]
        BY <1>2, <3>1, AddUnknownKeeps
      <4>3. unknowns' # <<>>
        <5>1. Len(<<>>) = 0
          OBVIOUS
        <5> QED BY <4>1, <4>2, <5>1
      <4> QED BY <3>3, <4>1, <4>2, <4>3
    <3> QED BY <3>2, <3>3
  <2>3. \/ unknowns' = unknowns /\ state # StateUnverified
        \/ ByNothing(state, why, cites)
    BY <1>1, <1>4 DEF Outcome, BySelf, ByAuthority, BySupport, ByContradiction
  <2> QED BY <2>1, <2>2, <2>3
<1>10. FirstUnknownKept'
  <2>1. ASSUME ~authorityRefuted', NEW k \in 1..Len(states'),
               FirstAt(states', k, StateUnverified)
        PROVE  unknowns' # <<>> /\ Explains(unknowns'[1], input.claims[k].id)
    <3>1. CASE k \in 1..n /\ FirstAt(states, k, StateUnverified)
      BY <1>3, <1>5, <1>9, <2>1, <3>1
    <3>2. CASE /\ k = n + 1 /\ state = StateUnverified
               /\ \A j \in 1..n : states[j].currentState # StateUnverified
      <4>1. unknowns = <<>>
        BY <1>5, <3>2
      <4>2. claim = input.claims[k]
        BY <1>2, <3>2 DEF claim
      <4> QED BY <1>9, <3>2, <4>1, <4>2
    <3> QED BY <1>6, <2>1, <3>1, <3>2
  <2>2. \A u, id : Explains(u, id)' <=> Explains(u, id)
    BY <1>3, SameReasons
  <2>3. \A u, id : (Explains(u, id))' <=> Explains(u, id)
    BY <2>2
  <2> QED BY <1>3, <2>1, <2>2 DEF FirstUnknownKept, Explains
<1> QED BY <1>8, <1>10

LEMMA NextReasons ==
  ASSUME FaultInv, ReasonInv, CallInv', [Next]_vars
  PROVE  ReasonInv'
<1>1. CASE CheckHeader \/ AdmitClaim \/ ClaimsAdmitted \/ AdmitEvidence
  <2>1. pc' \in {"claims", "evidence"}
    BY <1>1 DEF CheckHeader, AdmitClaim, ClaimsAdmitted, AdmitEvidence
  <2>2. ~Judged'
    BY <2>1 DEF Judged
  <2> QED BY <1>1, <2>1, <2>2, LoadingReasons
          DEF ReasonInv, FirstFaultKept, FirstRefutationKept, FirstUnknownKept
<1>2. CASE RejectMalformed
  <2>1. pc' = "done" /\ ~input'.header.decodes
    BY <1>2 DEF RejectMalformed
  <2>2. ~Judged'
    BY <2>1 DEF Judged
  <2> QED BY <2>1, <2>2
          DEF ReasonInv, FirstFaultKept, FirstRefutationKept, FirstUnknownKept
<1>3. CASE EvidenceAdmitted
  <2>1. /\ pc' = "judge" /\ UNCHANGED <<input, hasRefuted, refutedReason, states>>
        /\ authorityReason' = refutedReason /\ states = <<>>
    BY <1>3, Unchanged DEF EvidenceAdmitted, FaultInv, CallInv, NothingJudged, Loading
  <2>2. 1..Len(states') = {}
    BY <2>1
  <2>3. authorityReason' = FirstFault'
    BY <1>3, <2>1, FrozenReason, SameReasons
  <2> QED BY <2>1, <2>2, <2>3
          DEF ReasonInv, FirstFaultKept, FirstRefutationKept, FirstUnknownKept
<1>4. CASE JudgeStep
  <2>1. /\ pc = "judge" /\ pc' = "judge" /\ UNCHANGED <<input, authorityReason>>
    BY <1>4, Unchanged DEF JudgeStep, RefuteSelfAttested, RefuteByAuthority, JudgeByEvidence,
       Conclude
  <2>2. authorityReason' = FirstFault'
    BY <2>1, SameReasons DEF ReasonInv, FirstFaultKept, Judged
  <2> QED BY <1>4, <2>1, <2>2, JudgingReasons DEF ReasonInv, FirstFaultKept
<1>5. CASE Resolve \/ Returned \/ UNCHANGED vars
  <2>1. /\ UNCHANGED <<input, index, states, unknowns>>
        /\ UNCHANGED <<hasRefuted, refutedReason, authorityRefuted, authorityReason>>
        /\ pc' = pc \/ (pc = "judge" /\ pc' = "done")
    BY <1>5, Unchanged DEF Resolve, Returned, vars
  <2>2. Judged' => Judged
    BY <2>1 DEF Judged
  <2>3. pc' \in {"claims", "evidence"} => refutedReason' = FaultReasonRead'
    <3>1. CASE pc' = pc
      <4>1. FaultReasonRead' = FaultReasonRead
        BY <2>1, <3>1 DEF FaultReasonRead, NoClaimsReason, ClaimsRead, EvidenceRead,
           ClaimsReason, ItemsReason, ClaimReason, EvidenceReason
      <4> QED BY <2>1, <3>1, <4>1 DEF ReasonInv, FirstFaultKept
    <3> QED BY <2>1, <3>1
  <2>4. FirstFault' = FirstFault /\ \A u, id : Explains(u, id)' <=> Explains(u, id)
    BY <2>1, SameReasons
  <2>5. FirstFaultKept'
    BY <2>1, <2>2, <2>3, <2>4 DEF ReasonInv, FirstFaultKept
  <2>6. FirstRefutationKept'
    BY <2>1, <2>2 DEF ReasonInv, FirstRefutationKept
  <2>7. FirstUnknownKept'
    BY <2>1, <2>2 DEF ReasonInv, FirstUnknownKept, Explains
  <2> QED BY <2>5, <2>6, <2>7 DEF ReasonInv
<1> QED BY <1>1, <1>2, <1>3, <1>4, <1>5 DEF Next, JudgeStep

(* The kept reason is that of the earliest cause, for every input.         *)
THEOREM ReasonInvariant == Spec => []ReasonInv
<1>1. Init => ReasonInv
  BY DEF Init, ReasonInv, FirstFaultKept, FirstRefutationKept, FirstUnknownKept, Judged
<1>2. FaultInv /\ ReasonInv /\ CallInv' /\ [Next]_vars => ReasonInv'
  BY NextReasons
<1> QED BY <1>1, <1>2, FaultInvariant, CallInvariant, PTL DEF Spec

LEMMA ReasonHolds == FaultInv /\ HistoryInv /\ ReasonInv => ReasonIsTheFirst
<1> SUFFICES ASSUME FaultInv, HistoryInv, ReasonInv, decision # Pending
             PROVE  ReasonIsTheFirst
  BY DEF ReasonIsTheFirst
<1>1. /\ DecisionRefuted # DecisionUnknown /\ DecisionRefuted # DecisionClosed
      /\ DecisionUnknown # DecisionClosed
      /\ StateRefuted # StateUnverified
  BY DEF DecisionRefuted, DecisionUnknown, DecisionClosed, StateRefuted, StateUnverified
<1>2. pc = "done" /\ CallInv /\ TypeOK
  BY DEF FaultInv, CallInv, TypeOK, NothingJudged, Loading, Answered
<1>3. CASE ~input.header.decodes
  BY <1>2, <1>3 DEF HistoryInv, ReasonReported, ReasonIsTheFirst
<1>4. CASE input.header.decodes
  <2>1. Judged /\ Len(states) = Len(input.claims)
    BY <1>2, <1>4 DEF CallInv, Positions, Judged
  <2>2. reason = CASE decision = DecisionRefuted -> refutedReason
                   [] decision = DecisionClosed  -> "ALL_CLAIMS_SUPPORTED"
                   [] OTHER -> IF unknowns # <<>> THEN unknowns[1].reason
                               ELSE "CLAIMS_REMAIN_UNVERIFIED"
    BY <1>2, <1>4 DEF HistoryInv, ReasonReported
  <2>3. decision = IF authorityRefuted \/ Some(StateRefuted) THEN DecisionRefuted
                   ELSE IF Some(StateUnverified) THEN DecisionUnknown
                   ELSE DecisionClosed
    BY <1>2, <1>4, <2>1, DecisionOfStates DEF CallInv, Answered
  <2>4. authorityRefuted <=> AuthorityFault
    BY <1>2, <1>4, FaultOfInput DEF FaultInv, FaultsNoted
  <2>5. AuthorityFault => reason = FirstFault
    BY <1>1, <2>1, <2>2, <2>3, <2>4 DEF ReasonInv, FirstFaultKept, FirstRefutationKept
  <2>6. ASSUME NEW s
        PROVE  /\ InState(s) = {} <=> ~Some(s)
               /\ InState(s) # {} =>
                    /\ First(InState(s)) \in 1..Len(states)
                    /\ FirstAt(states, First(InState(s)), s)
    <3>1. DOMAIN states = 1..Len(states) /\ Len(states) \in Nat
      BY <1>2, StreamPositions
    <3>2. InState(s) = {} <=> ~Some(s)
      BY <3>1 DEF InState, Some
    <3>3. ASSUME InState(s) # {}
          PROVE  /\ First(InState(s)) \in 1..Len(states)
                 /\ FirstAt(states, First(InState(s)), s)
      <4> DEFINE k == First(InState(s))
      <4>1. InState(s) \in SUBSET Nat
        BY <3>1 DEF InState
      <4>2. k \in InState(s) /\ \A j \in InState(s) : k <= j
        BY <3>3, <4>1, FirstIsLeast
      <4>3. k \in 1..Len(states) /\ states[k].currentState = s
        BY <3>1, <4>2 DEF InState
      <4> HIDE DEF k
      <4>4. ASSUME NEW j \in 1..(k - 1) PROVE states[j].currentState # s
        <5>1. j \in DOMAIN states /\ ~(k <= j)
          BY <3>1, <4>3
        <5> QED BY <4>2, <5>1 DEF InState
      <4> QED BY <4>3, <4>4 DEF FirstAt, k
    <3> QED BY <3>2, <3>3
  <2>7. CASE AuthorityFault
    BY <1>4, <2>5, <2>7 DEF ReasonIsTheFirst
  <2>8. CASE ~AuthorityFault /\ InState(StateRefuted) # {}
    <3>1. Some(StateRefuted)
      BY <2>6, <2>8
    <3>2. decision = DecisionRefuted
      BY <2>3, <3>1
    <3>3. reason = refutedReason
      BY <1>1, <2>2, <3>2
    <3>4. refutedReason = OwnReason(input.claims[First(InState(StateRefuted))])
      BY <2>1, <2>4, <2>6, <2>8 DEF ReasonInv, FirstRefutationKept
    <3> QED BY <1>4, <2>8, <3>3, <3>4 DEF ReasonIsTheFirst
  <2>9. CASE /\ ~AuthorityFault /\ InState(StateRefuted) = {}
             /\ InState(StateUnverified) # {}
    <3>1. /\ unknowns # <<>>
          /\ Explains(unknowns[1], input.claims[First(InState(StateUnverified))].id)
      BY <2>1, <2>4, <2>6, <2>9 DEF ReasonInv, FirstUnknownKept
    <3>2. decision = DecisionUnknown
      BY <2>3, <2>4, <2>6, <2>9
    <3>3. reason = unknowns[1].reason
      BY <1>1, <2>2, <3>1, <3>2
    <3> QED BY <1>4, <2>9, <3>1, <3>3 DEF ReasonIsTheFirst
  <2>10. CASE /\ ~AuthorityFault /\ InState(StateRefuted) = {}
              /\ InState(StateUnverified) = {}
    <3>1. decision = DecisionClosed
      BY <2>3, <2>4, <2>6, <2>10
    <3>2. reason = "ALL_CLAIMS_SUPPORTED"
      BY <1>1, <2>2, <3>1
    <3> QED BY <1>4, <2>10, <3>2 DEF ReasonIsTheFirst
  <2> QED BY <2>7, <2>8, <2>9, <2>10
<1> QED BY <1>3, <1>4

(* The reason of a report is that of the earliest cause of its decision,   *)
(* for every input: the first fault in loading order, else the first claim *)
(* refuted for itself, else the first claim left UNVERIFIED                *)
(* (evaluate.go:32-37, 89-90, 126-137).                                    *)
THEOREM ReasonCorrect == Spec => []ReasonIsTheFirst
BY FaultInvariant, HistoryInvariant, ReasonInvariant, ReasonHolds, PTL
=============================================================================
