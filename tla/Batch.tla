------------------------------- MODULE Batch -------------------------------
(***************************************************************************)
(* A batch of promises as its caller sees it: completions, one of which    *)
(* may report the batch as finished.                                       *)
(***************************************************************************)
EXTENDS ControlFlow

CONSTANT Lengths   \* the sizes a batch may have
VARIABLES
  length,          \* how many promises the batch has
  completed,       \* how many of them have completed
  finishes         \* how often finish() has run

Init == length \in Lengths /\ completed = 0 /\ finishes = 0

Complete ==
  /\ completed < length
  /\ completed' = completed + 1
  /\ finishes' = finishes + IF FinishesAt(length, completed') THEN 1 ELSE 0
  /\ UNCHANGED length

Spec == Init /\ [][Complete]_<<length, completed, finishes>>
=============================================================================
