---------------------------- MODULE Provisioning ----------------------------
(***************************************************************************)
(* What an organiser can rely on when stages get their live                *)
(* infrastructure: a stage is built once or not at all.  There is no way   *)
(* back from `ready', and none from `broken' either: a stage whose         *)
(* construction failed half-way cannot be built again.                     *)
(***************************************************************************)
CONSTANT Stages
VARIABLE state

Init == state = [s \in Stages |-> "bare"]

Move(s, from, to) == state[s] = from /\ state' = [state EXCEPT ![s] = to]

Next == \E s \in Stages :
  \/ Move(s, "bare", "building")
  \/ Move(s, "bare", "broken")
  \/ Move(s, "building", "ready")
  \/ Move(s, "building", "broken")

Spec == Init /\ [][Next]_state
=============================================================================
