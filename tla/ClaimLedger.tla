----------------------------- MODULE ClaimLedger -----------------------------
(***************************************************************************)
(* What an observation promises, without saying how it is computed.  A     *)
(* ledger of claims is registered, every claim UNVERIFIED; once it is open *)
(* a claim may leave UNVERIFIED, once and for good; a fault found while    *)
(* registering refutes every claim; and the verdict published at the end   *)
(* is a function of the ledger that stands beside it.                      *)
(***************************************************************************)
EXTENDS Naturals, Sequences

VARIABLES
  ledger,   \* the states of the claims, in the order of registration
  fault,    \* whether the authority of the observation is at fault
  phase,    \* registering, judging or published
  verdict   \* PENDING, or the decision that was published

vars == <<ledger, fault, phase, verdict>>

Shown == {ledger[k] : k \in DOMAIN ledger}

Init ==
  /\ ledger = <<>>
  /\ fault = FALSE
  /\ phase = "registering"
  /\ verdict = "PENDING"

(* A claim enters the ledger; the same step may find a fault.              *)
Register ==
  /\ phase = "registering"
  /\ ledger' = Append(ledger, "UNVERIFIED")
  /\ fault' \in {fault, TRUE}
  /\ UNCHANGED <<phase, verdict>>

FindFault ==
  /\ phase = "registering"
  /\ fault' = TRUE
  /\ UNCHANGED <<ledger, phase, verdict>>

(* An observation of nothing is at fault.                                  *)
Open ==
  /\ phase = "registering"
  /\ ledger = <<>> => fault
  /\ phase' = "judging"
  /\ UNCHANGED <<ledger, fault, verdict>>

Settle(k, state) ==
  /\ phase = "judging"
  /\ ledger[k] = "UNVERIFIED"
  /\ fault => state = "REFUTED"
  /\ ledger' = [ledger EXCEPT ![k] = state]
  /\ UNCHANGED <<fault, phase, verdict>>

(* REFUTED > UNKNOWN > CLOSED.                                             *)
Verdict ==
  IF fault \/ "REFUTED" \in Shown THEN "REFUTED"
  ELSE IF "UNVERIFIED" \in Shown THEN "UNKNOWN"
  ELSE "CLOSED"

Publish ==
  /\ phase = "judging"
  /\ fault => Shown \subseteq {"REFUTED"}
  /\ phase' = "published"
  /\ verdict' = Verdict
  /\ UNCHANGED <<ledger, fault>>

(* What cannot be read is refuted without a ledger.                        *)
Reject ==
  /\ phase = "registering"
  /\ ledger = <<>>
  /\ phase' = "published"
  /\ verdict' = "REFUTED"
  /\ UNCHANGED <<ledger, fault>>

Next ==
  \/ Register \/ FindFault \/ Open
  \/ \E k \in DOMAIN ledger, state \in {"SUPPORTED", "REFUTED"} : Settle(k, state)
  \/ Publish \/ Reject

Spec == Init /\ [][Next]_vars
=============================================================================
