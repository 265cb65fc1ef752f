--------------------------- MODULE MCNetworkRoom ---------------------------
(***************************************************************************)
(* Instances of NetworkRoom for TLC.  Each budget lets the environment do  *)
(* only what the question of its run needs.                                *)
(***************************************************************************)
EXTENDS NetworkRoom, TLC

CONSTANTS s1, s2, s3, s4, r1, r2, r3, r4

\* Interchangeable things, where the initial state treats them alike.
AnyOne == Permutations(Sockets) \cup Permutations(Rooms) \cup Permutations(Workers)
AnyWorker == Permutations(Workers)

NoneSeated == [r \in Rooms |-> {}]
PairSeated == [NoneSeated EXCEPT ![r1] = {s1, s2}]
ThreeSeated == [NoneSeated EXCEPT ![r1] = {s1, s2, s3}]
RoomsSeated == [NoneSeated EXCEPT ![r1] = {s1, s2}, ![r2] = {s3}]

None == [use \in Uses |-> 0]
\* Sockets ask, ask again and change their mind, one disconnects.
SeatingBudget == [None EXCEPT !["request"] = 3, !["cancel"] = 1, !["disconnect"] = 1]
\* A room of two fills up to four and one more asks; two ask for the last place.
FillBudget == [None EXCEPT !["request"] = 3]
LastBudget == [None EXCEPT !["request"] = 2]
\* A guest leaves, and 270 seconds later clearExpiredRooms runs.
LeaveBudget == [None EXCEPT !["leave"] = 1, !["delay"] = 1]
\* Sockets of two rooms want another one, one of them gives up.
SwitchBudget == [None EXCEPT !["switch"] = 3, !["cancel"] = 1]
\* A batch of rooms, the 270 seconds of clearExpiredRooms, guests that leave
\* and the end of the intermission.
PoolBudget == [None EXCEPT !["request"] = 2, !["leave"] = 1, !["delay"] = 1,
                           !["end"] = 1]
\* A process dies, a key expires under its holder, a job takes too long.
FaultBudget == [None EXCEPT !["request"] = 2, !["slow"] = 1, !["crash"] = 1,
                            !["expire"] = 1]
\* One refusal of Twilio on the way.
ServeBudget == [None EXCEPT !["request"] = 3, !["error"] = 1]

Start(seated, budget) == [seated |-> seated, budget |-> budget]
SeatingStarts == {Start(NoneSeated, SeatingBudget)}
SwitchStarts == {Start(PairSeated, FillBudget), Start(ThreeSeated, LastBudget),
                 Start(RoomsSeated, LeaveBudget), Start(RoomsSeated, SwitchBudget)}
PoolStarts == {Start(NoneSeated, PoolBudget)}
FaultStarts == {Start(NoneSeated, FaultBudget)}
ServeStarts == {Start(NoneSeated, ServeBudget)}
=============================================================================
