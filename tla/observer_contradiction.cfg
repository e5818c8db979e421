CONSTANTS
  c1 = c1
  c2 = c2
  c3 = c3
  e1 = e1
  e2 = e2
  parent = parent
  child = child
  dParent = dParent
  dChild = dChild
  dA = dA
  dB = dB
  junk = junk
  ClaimIds <- MCClaimIds
  EvidenceIds <- MCEvidenceIds
  EvaluatorIds <- MCEvaluatorIds
  DigestText <- MCDigestText
  Digests <- MCDigests
  Parts <- MCParts
  Inputs <- SoundCalls
SPECIFICATION Spec
INVARIANTS
  ContradictionRefutes
