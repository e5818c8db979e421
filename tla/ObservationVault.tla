--------------------------- MODULE ObservationVault ---------------------------
(***************************************************************************)
(* What an output directory promises to its caller, without files.  It     *)
(* holds the whole observation of one run or none; an observation appears  *)
(* in one step and stays until the caller clears the directory; and a run  *)
(* that reports success has its own observation in the directory at that   *)
(* moment.                                                                 *)
(***************************************************************************)
CONSTANTS Runs, Nobody

VARIABLES
  holder,   \* the run whose observation the directory holds, or Nobody
  running,  \* the runs that have begun and not ended
  told      \* the runs that reported success

vars == <<holder, running, told>>

Init ==
  /\ holder = Nobody
  /\ running = {}
  /\ told = {}

Begin(r) ==
  /\ r \notin running
  /\ running' = running \cup {r}
  /\ UNCHANGED <<holder, told>>

Publish(r) ==
  /\ r \in running
  /\ holder = Nobody
  /\ holder' = r
  /\ UNCHANGED <<running, told>>

Succeed(r) ==
  /\ r \in running
  /\ holder = r
  /\ told' = told \cup {r}
  /\ running' = running \ {r}
  /\ UNCHANGED holder

(* A run that fails or is killed may have published before.                *)
End(r) ==
  /\ r \in running
  /\ running' = running \ {r}
  /\ UNCHANGED <<holder, told>>

Clear ==
  /\ running = {}
  /\ holder' = Nobody
  /\ UNCHANGED <<running, told>>

Next ==
  \/ \E r \in Runs : Begin(r) \/ Publish(r) \/ Succeed(r) \/ End(r)
  \/ Clear

Spec == Init /\ [][Next]_vars
=============================================================================
