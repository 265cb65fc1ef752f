------------------------------ MODULE Parallel ------------------------------
(***************************************************************************)
(* parallel(promises, finish, concurrency) of controlFlow.utils.ts.  The   *)
(* promises run from the start; the function only chooses to which of them *)
(* its callback is attached.  One step is one turn of the event loop: a    *)
(* promise resolves, or `done' runs for an attached promise and spawns.    *)
(***************************************************************************)
EXTENDS ControlFlow, FiniteSets

CONSTANTS
  Lengths,       \* sizes a batch may have
  Concurrencies  \* third arguments, 0 for none
ASSUME LengthsAssumption == Lengths \subseteq Nat
ASSUME ConcurrenciesAssumption == Concurrencies \subseteq Nat

VARIABLES
  length, concurrency,
  running, processed, index,  \* the counters of the closure
  resolved,                   \* promises that have resolved
  completed,                  \* how often `done' has run
  called,                     \* promises whose `done' has run
  finishes                    \* how often finish() has run

vars == <<length, concurrency, running, processed, index, resolved, completed,
          called, finishes>>

\* Without a concurrency, or with too large a one, the batch runs whole.
Bounded(asked, n) == IF asked = 0 \/ asked > n THEN n ELSE asked

\* Mutants: a loop that ignores the concurrency, one that runs only once.
RoomForAll(c, r, n, i) == n - i
NoneLeft(c, r, n, i) == 0
\* The loop of spawn() attaches done to as many promises as the concurrency
\* leaves room for.
Room(c, r, n, i) == IF c - r < n - i THEN c - r ELSE n - i
Spawn(r) ==
  LET more == Room(concurrency, r, length, index) IN
  /\ running' = r + more
  /\ index' = index + more

Init ==
  /\ length \in Lengths
  /\ \E asked \in Concurrencies : concurrency = Bounded(asked, length)
  /\ running = concurrency /\ index = concurrency
  /\ processed = 0 /\ resolved = {} /\ completed = 0 /\ called = {}
  /\ finishes = 0

Resolve(i) ==
  /\ i \notin resolved
  /\ resolved' = resolved \cup {i}
  /\ UNCHANGED <<length, concurrency, running, processed, index, completed,
                 called, finishes>>

\* Mutant: a promise counted once.
CountOnce == processed + 1
\* running--, processed++ after the ++processed of the test.
CountTwice == processed + 2

Done(i) ==
  /\ i <= index /\ i \in resolved \ called
  /\ called' = called \cup {i} /\ completed' = completed + 1
  /\ IF processed + 1 = length
     THEN /\ finishes' = finishes + 1 /\ processed' = processed + 1
          /\ UNCHANGED <<running, index>>
     ELSE /\ UNCHANGED finishes /\ processed' = CountTwice
          /\ Spawn(running - 1)
  /\ UNCHANGED <<length, concurrency, resolved>>

Next == \E i \in 1..length : Resolve(i) \/ Done(i)

Spec == Init /\ [][Next]_vars /\ WF_vars(Next)

-----------------------------------------------------------------------------
\* Properties

\* The batch is reported on the completion in its middle, and an even batch
\* never: what NetworkRoom takes createRooms to do with its promises.
Report == INSTANCE Batch
Reports == Report!Spec

\* Never more than `concurrency' callbacks are attached to open promises ...
Window == index <= length /\ index - completed <= concurrency

\* ... and every promise of a batch of even size gets its callback, although
\* the batch is not reported.  An odd one with a small window may stop short.
EvenDrains == <>[](length % 2 = 0 => completed = length)
=============================================================================
