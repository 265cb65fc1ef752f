---------------------------- MODULE ControlFlow ----------------------------
(***************************************************************************)
(* What src/src/shared/utils/controlFlow.utils.ts makes of a batch of      *)
(* promises.  Its callback `done' counts a promise twice unless the first  *)
(* count already reaches the length, so it is the completion in the middle *)
(* of an odd batch that reports the batch as finished, and none of an even *)
(* one.  Module Parallel shows that the code does just this.               *)
(***************************************************************************)
EXTENDS Integers

\* finish() runs on the c-th completion of a batch of n promises.
FinishesAt(n, c) == 2 * c = n + 1
=============================================================================
