-------------------------- MODULE ParallelTheorems --------------------------
(***************************************************************************)
(* Parallel implements Batch for batches of every size and with every      *)
(* concurrency.  The count of the closure runs at twice the completions,   *)
(* one less once it has met the length, and it meets the length at most    *)
(* once: from there on it is always above.                                 *)
(***************************************************************************)
EXTENDS Parallel, FiniteSetTheorems, TLAPS

\* Every completion is that of another promise of the batch.
Calls ==
  /\ length \in Nat /\ called \subseteq 1..length
  /\ completed = Cardinality(called)

\* How far the count has got.
Counts ==
  /\ processed \in Nat /\ completed \in Nat
  /\ \/ finishes = 0 /\ processed = 2 * completed
     \/ finishes = 1 /\ processed = 2 * completed - 1 /\ processed >= length

\* A promise that completes is one more, so that fewer were completed before.
LEMMA CallsStep ==
  ASSUME Calls, [Next]_vars
  PROVE  /\ Calls'
         /\ \A i \in 1..length : Done(i) => completed < length
<1>1. IsFiniteSet(1..length) /\ Cardinality(1..length) = length
  BY FS_Interval DEF Calls
<1>2. IsFiniteSet(called) /\ completed \in Nat
  BY <1>1, FS_Subset, FS_CardinalityType DEF Calls
<1>3. ASSUME NEW i \in 1..length, Done(i)
      PROVE  Calls' /\ completed < length
  <2>1. /\ called' = called \cup {i} /\ i \notin called
        /\ completed' = completed + 1 /\ length' = length
    BY <1>3 DEF Done
  <2>2. Cardinality(called \cup {i}) = completed + 1
    BY <1>2, <2>1, FS_AddElement DEF Calls
  <2>3. called \cup {i} \subseteq 1..length
    BY <1>3 DEF Calls
  <2>4. Cardinality(called \cup {i}) <= length
    BY <1>1, <2>3, FS_Subset
  <2> QED
    BY <1>2, <2>1, <2>2, <2>3, <2>4 DEF Calls
<1>4. ASSUME NEW i \in 1..length, Resolve(i)
      PROVE  Calls'
  BY <1>4 DEF Resolve, Calls
<1>5. ASSUME UNCHANGED vars
      PROVE  Calls'
  BY <1>5 DEF vars, Calls
<1> QED
  BY <1>3, <1>4, <1>5 DEF Next

\* The count keeps up, and a step that completes reports exactly when the
\* batch of the specification does.
LEMMA CountsStep ==
  ASSUME Calls, Counts, [Next]_vars
  PROVE  Counts' /\ [Report!Complete]_<<length, completed, finishes>>
<1>1. length \in Nat
  BY DEF Calls
<1>2. ASSUME NEW i \in 1..length, Done(i)
      PROVE  Counts' /\ Report!Complete
  <2>1. completed < length
    BY <1>2, CallsStep
  <2>2. /\ completed' = completed + 1 /\ length' = length
        /\ processed + 1 = length =>
             finishes' = finishes + 1 /\ processed' = processed + 1
        /\ processed + 1 # length =>
             finishes' = finishes /\ processed' = processed + 2
    BY <1>2 DEF Done, CountTwice
  <2>3. processed + 1 = length => finishes = 0 /\ length = 2 * completed + 1
    BY <1>1 DEF Counts
  <2>4. finishes = 0 /\ processed + 1 # length => 2 * (completed + 1) # length + 1
    BY <1>1 DEF Counts
  <2>5. finishes = 1 => 2 * (completed + 1) # length + 1
    BY <1>1 DEF Counts
  <2>6. FinishesAt(length, completed') <=> processed + 1 = length
    BY <1>1, <2>2, <2>3, <2>4, <2>5 DEF FinishesAt, Counts
  <2>7. Counts'
    BY <1>1, <2>2, <2>3 DEF Counts
  <2>8. Report!Complete
    BY <2>1, <2>2, <2>6 DEF Report!Complete, Report!FinishesAt, FinishesAt, Counts
  <2> QED
    BY <2>7, <2>8
<1>3. ASSUME NEW i \in 1..length, Resolve(i)
      PROVE  Counts' /\ UNCHANGED <<length, completed, finishes>>
  BY <1>3 DEF Resolve, Counts
<1>4. ASSUME UNCHANGED vars
      PROVE  Counts' /\ UNCHANGED <<length, completed, finishes>>
  BY <1>4 DEF vars, Counts
<1> QED
  BY <1>2, <1>3, <1>4 DEF Next

\* Whatever the size of the batch and the concurrency, finish() runs on the
\* completion in the middle of an odd batch and never for an even one: the
\* jobDone of createRooms (networkRoom.processor.ts) comes half-way or not at
\* all.
THEOREM Implements == Spec => Reports
<1>1. Init => Calls /\ Counts /\ Report!Init
  BY LengthsAssumption, FS_EmptySet DEF Init, Calls, Counts, Report!Init
<1>2. Calls /\ Counts /\ [Next]_vars
        => (Calls /\ Counts)' /\ [Report!Complete]_<<length, completed, finishes>>
  BY CallsStep, CountsStep
<1> QED
  BY <1>1, <1>2, PTL DEF Spec, Reports, Report!Spec

\* The window: running is what is attached and open, and the one that reports
\* is not taken off it.
Attached ==
  /\ index \in Nat /\ concurrency \in Nat /\ index <= length
  /\ running = index - completed + finishes /\ running <= concurrency

LEMMA AttachedStep ==
  ASSUME Calls, Counts, Attached, [Next]_vars
  PROVE  Attached'
<1>1. ASSUME NEW i \in 1..length, Done(i)
      PROVE  Attached'
  <2>1. /\ length' = length /\ concurrency' = concurrency
        /\ completed' = completed + 1
        /\ processed + 1 = length =>
             finishes' = finishes + 1 /\ running' = running /\ index' = index
        /\ processed + 1 # length =>
             LET more == Room(concurrency, running - 1, length, index) IN
             /\ finishes' = finishes
             /\ running' = running - 1 + more /\ index' = index + more
    BY <1>1 DEF Done, Spawn
  <2>2. /\ Room(concurrency, running - 1, length, index) \in Nat
        /\ Room(concurrency, running - 1, length, index) <= concurrency - (running - 1)
        /\ Room(concurrency, running - 1, length, index) <= length - index
    BY DEF Room, Attached, Calls, Counts
  <2> QED
    BY <2>1, <2>2 DEF Attached, Calls, Counts
<1>2. ASSUME NEW i \in 1..length, Resolve(i)
      PROVE  Attached'
  BY <1>2 DEF Resolve, Attached
<1>3. ASSUME UNCHANGED vars
      PROVE  Attached'
  BY <1>3 DEF vars, Attached
<1> QED
  BY <1>1, <1>2, <1>3 DEF Next

\* Whatever the size of the batch and the concurrency, parallel() attaches its
\* callback to no more open promises than the concurrency allows and to none
\* that the batch has not.
THEOREM WindowKept == Spec => []Window
<1>1. Init => Calls /\ Counts /\ Attached
  BY LengthsAssumption, ConcurrenciesAssumption, FS_EmptySet
  DEF Init, Calls, Counts, Attached, Bounded
<1>2. Calls /\ Counts /\ Attached /\ [Next]_vars => (Calls /\ Counts /\ Attached)'
  BY CallsStep, CountsStep, AttachedStep
<1>3. Calls /\ Counts /\ Attached => Window
  BY DEF Calls, Counts, Attached, Window
<1> QED
  BY <1>1, <1>2, <1>3, PTL DEF Spec
=============================================================================
