---------------------------- MODULE NetworkRoom ----------------------------
(***************************************************************************)
(* The network rooms of one event (src/src/modules/networkRoom): sockets   *)
(* wait in a Redis list for a Twilio room, jobs of the Bull queue          *)
(* 'networkRoom' pair them up or seat them in a room that still has        *)
(* places, and sockets that already sit in a room ask to be switched.      *)
(*                                                                         *)
(* One step is one Redis command: a handler may be overtaken at each of    *)
(* its awaits by any handler of any process of the cluster.  `Workers' are *)
(* the slots in which Bull runs handlers.  Redis keys are variables, a     *)
(* Redis sorted set is the pair (listed, score) with score 0 for what is   *)
(* not listed, which is what ZINCRBY and the null test of ZSCORE make of a *)
(* missing member.                                                         *)
(***************************************************************************)
EXTENDS Integers, FiniteSets, SequencesExt, RedisList, ControlFlow

CONSTANTS
  Sockets,      \* socket ids; a reconnecting client is a new socket
  Rooms,        \* unique names that Twilio can give
  Workers,      \* slots in which a Bull handler runs
  Nobody,       \* the holder of a free lock
  NoRoom,
  FirstRooms,   \* rooms of the first createRooms: ceil(0.5 * members / 3)
  RepeatRooms,  \* rooms of a repeated one: ceil(0.2 * members / 3)
  PoolLow,      \* pool size under which rooms are requested (8)
  MaxAttempts,  \* attempts of a job (3)
  Starts        \* where behaviours start: the sockets that sit in each room,
                \* and a budget, how often the environment does each thing

Uses == {"request", "switch", "cancel", "disconnect", "leave", "error",
         "slow", "crash", "expire", "delay", "end"}

ASSUME RoomsAssumption ==
  NoRoom \notin Rooms /\ IsFiniteSet(Rooms) /\ IsFiniteSet(Sockets)
ASSUME StartsAssumption == \A start \in Starts :
  /\ start.seated \in [Rooms -> SUBSET Sockets] /\ start.budget \in [Uses -> Nat]
  /\ \A r \in Rooms : Cardinality(start.seated[r]) \in 0..3
ASSUME WorkersAssumption == Nobody \notin Workers /\ IsFiniteSet(Workers)
ASSUME SizesAssumption ==
  /\ FirstRooms \in Nat /\ RepeatRooms \in Nat /\ PoolLow \in Nat
  /\ MaxAttempts \in Nat \ {0}

VARIABLES
  queue,          \* event-E:queue, socket ids waiting for a room
  queueSwitch,    \* event-E:queueSwitch, [id, room] asking for another room
  listed, score,  \* event-E:rooms, the sorted set of rooms in use
  pool,           \* event-E:roomsTwilio, rooms created in advance
  threeLength,    \* event-E:twilioRoomThreeLength exists
  onIntermission, \* event-E:isOnIntermission exists
  lock,           \* holder of each redis-lock key
  jobs,           \* waiting and delayed jobs: <<name, attempt>> -> how many
  pc, job, loc,   \* per worker: next command, job it answers for, locals
  background,     \* createRoomAndSave promises nobody waits for any more
  timers,         \* pending setTimeout(120 s) callbacks of createRooms
  changed,        \* emitted 'changedQueuesOrRooms' not yet listened to
  switched,       \* emitted 'switchRoom' not yet listened to
  online, bound,  \* connected sockets; sockets with socket.eventId set
  current,        \* socket.currentRoom
  pushing,        \* requestRoom handlers between LREM and RPUSH, per socket
  switching,      \* the same for switchRoom: set of [id, room] entries
  created,        \* rooms Twilio has created
  guests,         \* sockets sent to a room that have not left it
  left,           \* what is left of the budget
  paired,         \* history: rooms created by getPairAndSwitchRoom
  tainted,        \* history: rooms whose score lost track of their guests
  disturbed,      \* history: waiters moved between LRANGE and LTRIM
  lost,           \* history: waiters trimmed away without being read
  displaced,      \* history: switch entries moved between LRANGE and LPOP
  skipped         \* history: switch entries popped for somebody else

lists   == <<queue, queueSwitch>>
zset    == <<listed, score>>
rooms   == <<listed, score, pool>>
flags   == <<threeLength, onIntermission>>
redis   == <<lists, rooms, flags>>
handlers == <<lock, jobs, pc, job, loc>>
emitted == <<changed, switched>>
pending == <<background, timers, emitted>>
gateway == <<online, bound, current, pushing, switching>>
twilio  == <<created, guests>>
roomHistory   == <<paired, tainted>>
waitHistory   == <<disturbed, lost>>
switchHistory == <<displaced, skipped>>
history == <<roomHistory, waitHistory, switchHistory>>
vars    == <<redis, handlers, pending, gateway, twilio, left, history>>

Names == {"createRooms", "createRoomsRepeat", "clearExpiredRooms",
          "findAvailableRooms", "sendRoomToPairs", "switchRoom"}
NoJob == <<"none", 0>>
JobSet == Names \X (1..MaxAttempts)

\* Mutant: the switch handler registered under the name of its job.
EntryByName == [createRooms |-> "createStart", createRoomsRepeat |-> "createStart",
                clearExpiredRooms |-> "clearPool", findAvailableRooms |-> "findLock",
                sendRoomToPairs |-> "pairsLock", switchRoom |-> "switchRoom"]
\* Where the handler of a job starts.
Entry == [createRooms |-> "createStart", createRoomsRepeat |-> "createStart",
          clearExpiredRooms |-> "clearPool", findAvailableRooms |-> "findLock",
          sendRoomToPairs |-> "pairsLock", switchRoom |-> "switchLock"]

\* The redis-lock key each handler waits for, and where it goes on with it.
LockKeys == {"switchRoomFindAvailableRooms", "sendRoomToPairs"}
KeyOf == [findLock |-> "switchRoomFindAvailableRooms",
          switchLock |-> "switchRoomFindAvailableRooms",
          pairsLock |-> "sendRoomToPairs"]
Locked == [findLock |-> "findQueue", switchLock |-> "switchLen",
           pairsLock |-> "pairsLen"]

FindPoints   == {"findQueue", "findRange", "findLen", "findScore", "findIncr",
                 "findPop", "findMore"}
PairsPoints  == {"pairsLen", "pairsRange", "pairsTrim", "pairsPool",
                 "pairsRoom", "pairsZadd"}
SwitchPoints == {"switchLen", "switchRange", "switchCreate", "switchZadd",
                 "switchQueue", "switchRooms", "switchTry", "switchScore",
                 "switchPop", "switchIncr", "switchAfter"}
Points == FindPoints \cup PairsPoints \cup SwitchPoints
          \cup {"createStart", "createOne", "clearPool", "clearRooms",
                "clearAgain", "findLock", "pairsLock", "switchLock",
                "idle", "hung"}

\* The commands a handler sends between taking the key and giving it back.
Inside(key) == IF key = "sendRoomToPairs" THEN PairsPoints
               ELSE FindPoints \cup SwitchPoints

\* The locals of a handler that has just started.
NoLoc == [room |-> NoRoom, ids |-> <<>>, n |-> 0, todo |-> 0, pops |-> 0,
          incs |-> 0, pair |-> FALSE, rooms |-> <<>>]

InitFrom(seated, budget) ==
  /\ queue = <<>> /\ queueSwitch = <<>> /\ pool = <<>>
  /\ listed = {r \in Rooms : seated[r] # {}}
  /\ score = [r \in Rooms |-> Cardinality(seated[r])]
  /\ threeLength = FALSE /\ onIntermission = TRUE
  /\ lock = [key \in LockKeys |-> Nobody]
  /\ jobs = [j \in JobSet |->
       IF j \in {<<"createRooms", 1>>, <<"clearExpiredRooms", 1>>} THEN 1 ELSE 0]
  /\ pc = [w \in Workers |-> "idle"]
  /\ job = [w \in Workers |-> NoJob]
  /\ loc = [w \in Workers |-> NoLoc]
  /\ background = 0 /\ timers = 0 /\ changed = 0 /\ switched = 0
  /\ online = Sockets /\ bound = {}
  /\ current = [s \in Sockets |-> NoRoom]
  /\ pushing = [s \in Sockets |-> 0] /\ switching = {}
  /\ created = listed /\ guests = seated
  /\ left = budget
  /\ paired = {} /\ tainted = {} /\ disturbed = 0 /\ lost = 0
  /\ displaced = 0 /\ skipped = 0

Init == \E start \in Starts : InitFrom(start.seated, start.budget)

-----------------------------------------------------------------------------
\* Helpers

Spend(use) == left[use] > 0 /\ left' = [left EXCEPT ![use] = @ - 1]

\* job names added to the queue at their first attempt
Adding(names) == [j \in JobSet |->
  jobs[j] + IF j[1] \in names /\ j[2] = 1 THEN 1 ELSE 0]

Goto(w, point) == pc' = [pc EXCEPT ![w] = point]
Bind(w, locals) == loc' = [loc EXCEPT ![w] = locals]

\* jobDone(): Bull removes the job and the slot is free again.
JobDone(w) ==
  /\ Goto(w, "idle") /\ Bind(w, NoLoc)
  /\ job' = [job EXCEPT ![w] = NoJob]

\* The handler returns without jobDone(): Bull waits until the job times out.
HangUp(w) ==
  /\ Goto(w, IF job[w] = NoJob THEN "idle" ELSE "hung") /\ Bind(w, NoLoc)
  /\ UNCHANGED job

\* Mutants: SET without NX, a job that takes no lock, an unlock() left out.
FreeAlways(key) == TRUE
FreeForPairs(key) == key = "sendRoomToPairs" \/ lock[key] = Nobody
KeepLocked(w, key) == UNCHANGED lock
\* redis-lock: SET NX succeeds on a free key, and unlock() deletes the key
\* unless the holder's five seconds are over.
Free(key) == lock[key] = Nobody
Unlock(w, key) ==
  lock' = [lock EXCEPT ![key] = IF @ = w THEN Nobody ELSE @]

RoomsKey == "switchRoomFindAvailableRooms"
PairsKey == "sendRoomToPairs"

\* ZINCRBY and ZADD list their member.
ZSet(r, value) ==
  /\ listed' = listed \cup {r}
  /\ score' = [score EXCEPT ![r] = value]

\* ZRANGEBYSCORE lo hi
InRange(lo, hi) == {r \in listed : lo <= score[r] /\ score[r] <= hi}

\* Mutants: the pair counted as one room, or not enough for a room.
PairAsOne == 1
MoreThanPair == Len(queue) > 2
\* sendRoomToPairs wants two waiters, and counts them as two.
PairScore == 2
EnoughForPair == Len(queue) >= 2

\* Mutants: a room read but not popped, a request that takes no lock, one
\* ZINCRBY for two sockets.
PoolKept == pool
RequestUnlocked == TRUE
CountPairOnce(moved) == IF moved > 0 THEN 1 ELSE 0
\* ZREMRANGEBYSCORE 0 0 of clearExpiredRooms, LPOP of the pool, ZINCRBY -1 of
\* the status callback, one ZINCRBY per socket moved.
Expired == InRange(0, 0)
PoolRest == Tail(pool)
CountLeaving(r) == ZSet(r, score[r] - 1)
CountMoved(moved) == moved

\* Two waiters pay for a room of their own; one alone needs company.
LowestScore(n) == IF n >= 2 THEN 0 ELSE 1
\* For two minutes rooms are filled up to three only.
HighestScore == IF threeLength THEN 2 ELSE 3
\* A Twilio room of type group-small has four places.
HasPlace(r) == score[r] < 4

\* Twilio creates a room under a name never used before.
TwilioCreate(r) == r \in Rooms \ created /\ created' = created \cup {r}

\* server.to(socketId).emit: a socket that is gone hears nothing.
SendRoom(ids, r) == guests' = [guests EXCEPT ![r] = @ \cup (ids \cap online)]

\* How many of the first two waiters are not among the others.
Outside(list, others) ==
  Cardinality({i \in DOMAIN First(list, 2) : list[i] \notin ToSet(others)})

\* How many of the two waiters at the head of the queue the command that
\* makes it `rest' takes away while some handler stands between LRANGE and
\* LTRIM: each lets one waiter slip under the LTRIM unread.
Disturb(rest) ==
  disturbed' = disturbed +
    IF \E w \in Workers : pc[w] = "pairsTrim"
    THEN Outside(queue, rest) ELSE 0

\* The same for the entries between the LRANGE and the LPOP of a switch.
Displace(rest) ==
  displaced' = displaced +
    IF \E w \in Workers : pc[w] \in {"switchCreate", "switchZadd", "switchScore",
                                    "switchPop"}
    THEN Len(queueSwitch) - Len(rest) ELSE 0

-----------------------------------------------------------------------------
\* Gateway

\* requestRoom takes the lock 'requestRoom', which no second handler holds
\* between its LREM and its RPUSH.
RequestLockFree == \A s \in Sockets : pushing[s] = 0

RequestRoom(s) ==
  /\ s \in online /\ RequestLockFree /\ Spend("request")
  /\ bound' = bound \cup {s}
  /\ queue' = LRem(queue, s) /\ Disturb(queue')
  /\ pushing' = [pushing EXCEPT ![s] = @ + 1]
  /\ UNCHANGED <<queueSwitch, rooms, flags, handlers, pending, online,
                 current, switching, twilio, roomHistory, lost,
                 switchHistory>>

PushRequest(s) ==
  /\ pushing[s] > 0
  /\ queue' = Append(queue, s)
  /\ pushing' = [pushing EXCEPT ![s] = @ - 1]
  /\ changed' = changed + 1
  /\ UNCHANGED <<queueSwitch, rooms, flags, handlers, background, timers,
                 switched, online, bound, current, switching, twilio, left,
                 history>>

\* switchRoom of the gateway, under the lock 'switchRoom': it remembers the
\* room the socket says it sits in, and leaves socket.eventId alone.
RequestSwitch(s, r) ==
  /\ s \in online /\ s \in guests[r] /\ switching = {} /\ Spend("switch")
  /\ current' = [current EXCEPT ![s] = r]
  /\ queueSwitch' = LRem(queueSwitch, [id |-> s, room |-> r])
  /\ Displace(queueSwitch')
  /\ switching' = {[id |-> s, room |-> r]}
  /\ UNCHANGED <<queue, rooms, flags, handlers, pending, online, bound,
                 pushing, twilio, roomHistory, waitHistory, skipped>>

PushSwitch(entry) ==
  /\ entry \in switching
  /\ queueSwitch' = Append(queueSwitch, entry)
  /\ switching' = switching \ {entry}
  /\ switched' = switched + 1
  /\ UNCHANGED <<queue, rooms, flags, handlers, background, timers, changed,
                 online, bound, current, pushing, twilio, left, history>>

\* The two LREMs of cancelRequest and handleDisconnect.
Withdraw(s) ==
  /\ queue' = LRem(queue, s) /\ Disturb(queue')
  /\ queueSwitch' = IF current[s] = NoRoom THEN queueSwitch
                    ELSE LRem(queueSwitch, [id |-> s, room |-> current[s]])
  /\ Displace(queueSwitch')

CancelRequest(s) ==
  /\ s \in online /\ Spend("cancel")
  /\ Withdraw(s)
  /\ UNCHANGED <<rooms, flags, handlers, pending, gateway, twilio,
                 roomHistory, lost, skipped>>

\* Only a socket that once called requestRoom is cleaned up.
Disconnect(s) ==
  /\ s \in online /\ Spend("disconnect")
  /\ online' = online \ {s}
  /\ IF s \in bound THEN Withdraw(s) ELSE UNCHANGED <<queue, queueSwitch, disturbed,
                                                    displaced>>
  /\ UNCHANGED <<rooms, flags, handlers, pending, bound, current, pushing,
                 switching, twilio, roomHistory, lost, skipped>>

\* Listeners of afterInit: LLEN, and a job when somebody waits.
OnChanged ==
  /\ changed > 0 /\ changed' = changed - 1
  /\ jobs' = IF queue = <<>> THEN jobs ELSE Adding({"findAvailableRooms"})
  /\ UNCHANGED <<redis, lock, pc, job, loc, background, timers, switched,
                 gateway, twilio, left, history>>

OnSwitch ==
  /\ switched > 0 /\ switched' = switched - 1
  /\ jobs' = IF queueSwitch = <<>> THEN jobs ELSE Adding({"switchRoom"})
  /\ UNCHANGED <<redis, lock, pc, job, loc, background, timers, changed,
                 gateway, twilio, left, history>>

\* roomStatus, the Twilio status callback: a guest has left its room.
RoomStatus(s, r) ==
  /\ s \in guests[r] /\ Spend("leave")
  /\ guests' = [guests EXCEPT ![r] = @ \ {s}]
  /\ CountLeaving(r)
  /\ changed' = changed + 1 /\ switched' = switched + 1
  /\ UNCHANGED <<lists, pool, flags, handlers, background, timers, gateway,
                 created, history>>

-----------------------------------------------------------------------------
\* Bull and redis-lock

\* A free slot takes a job; clearExpiredRooms only after its 270 seconds.
Take(w) ==
  /\ pc[w] = "idle"
  /\ \E j \in JobSet :
       /\ jobs[j] > 0
       /\ IF j[1] = "clearExpiredRooms" THEN Spend("delay") ELSE UNCHANGED left
       /\ jobs' = [jobs EXCEPT ![j] = @ - 1]
       /\ job' = [job EXCEPT ![w] = j]
       /\ Goto(w, Entry[j[1]])
  /\ UNCHANGED <<redis, lock, loc, pending, gateway, twilio, history>>

\* 100 seconds: Bull fails the job and queues it again while it has attempts.
\* A handler that merely was slow goes on running.
Timeout(w) ==
  /\ job[w] # NoJob
  /\ IF pc[w] = "hung" THEN UNCHANGED left ELSE Spend("slow")
  /\ LET again == <<job[w][1], job[w][2] + 1>> IN
       jobs' = [j \in JobSet |-> jobs[j] + IF j = again THEN 1 ELSE 0]
  /\ job' = [job EXCEPT ![w] = NoJob]
  /\ Goto(w, IF pc[w] = "hung" THEN "idle" ELSE pc[w])
  /\ UNCHANGED <<redis, lock, loc, pending, gateway, twilio, history>>

\* The process of the slot dies and main.ts forks another.  Bull finds the
\* stalled job and queues it again and the lock key stays until it expires;
\* timers, promises and emits of the process nobody has seen yet are gone.
Crash(w) ==
  /\ pc[w] # "idle" /\ Spend("crash")
  /\ jobs' = [j \in JobSet |-> jobs[j] + IF j = job[w] THEN 1 ELSE 0]
  /\ JobDone(w)
  /\ changed' \in 0..changed /\ switched' \in 0..switched
  /\ background' \in 0..background /\ timers' \in 0..timers
  /\ tainted' = tainted \cup
       IF pc[w] \in {"pairsZadd", "switchScore", "switchPop", "switchIncr"}
       THEN {loc[w].room} ELSE {}
  /\ UNCHANGED <<redis, lock, gateway, twilio, paired, waitHistory,
                 switchHistory>>

\* The key of a holder that died, or that needs more than five seconds.
Expire(key) ==
  /\ lock[key] # Nobody
  /\ IF pc[lock[key]] \in Inside(key) THEN Spend("expire") ELSE UNCHANGED left
  /\ lock' = [lock EXCEPT ![key] = Nobody]
  /\ UNCHANGED <<redis, jobs, pc, job, loc, pending, gateway, twilio,
                 history>>

Acquire(w) ==
  /\ pc[w] \in DOMAIN KeyOf
  /\ Free(KeyOf[pc[w]])
  /\ lock' = [lock EXCEPT ![KeyOf[pc[w]]] = w]
  /\ Goto(w, Locked[pc[w]])
  /\ UNCHANGED <<redis, jobs, job, loc, pending, gateway, twilio, left,
                 history>>

-----------------------------------------------------------------------------
\* findAvailableRooms: seat the first waiter in a room that has a place

FindQueue(w) ==
  /\ pc[w] = "findQueue"
  /\ Bind(w, [loc[w] EXCEPT !.n = Len(queue)])
  /\ Goto(w, "findRange")
  /\ UNCHANGED <<redis, lock, jobs, job, pending, gateway, twilio, left,
                 history>>

\* ZRANGEBYSCORE .. LIMIT 0 1; without a room the waiters are left to pairs.
FindRange(w) ==
  LET found == InRange(LowestScore(loc[w].n), HighestScore) IN
  /\ pc[w] = "findRange"
  /\ \/ /\ found = {}
        /\ jobs' = Adding({"sendRoomToPairs"})
        /\ JobDone(w) /\ Unlock(w, RoomsKey)
     \/ /\ \E r \in found :
             /\ \A other \in found : score[r] <= score[other]
             /\ Bind(w, [loc[w] EXCEPT !.room = r])
        /\ Goto(w, "findLen")
        /\ UNCHANGED <<jobs, job, lock>>
  /\ UNCHANGED <<redis, pending, gateway, twilio, left, history>>

\* LLEN, then ZSCORE: give up when nobody waits or the room has filled up.
FindCheck(w) ==
  /\ \/ /\ pc[w] = "findLen" /\ queue # <<>> /\ Goto(w, "findScore")
        /\ UNCHANGED <<job, loc, lock>>
     \/ /\ pc[w] = "findScore" /\ HasPlace(loc[w].room) /\ Goto(w, "findIncr")
        /\ UNCHANGED <<job, loc, lock>>
     \/ /\ \/ pc[w] = "findLen" /\ queue = <<>>
           \/ pc[w] = "findScore" /\ ~HasPlace(loc[w].room)
        /\ JobDone(w) /\ Unlock(w, RoomsKey)
  /\ UNCHANGED <<redis, jobs, pending, gateway, twilio, left, history>>

FindIncr(w) ==
  /\ pc[w] = "findIncr"
  /\ ZSet(loc[w].room, score[loc[w].room] + 1)
  /\ Goto(w, "findPop")
  /\ UNCHANGED <<lists, pool, flags, lock, jobs, job, loc, pending, gateway,
                 twilio, left, history>>

\* LPOP may find nobody: the place is counted all the same.
FindPop(w) ==
  /\ pc[w] = "findPop"
  /\ queue' = Rest(queue, 1) /\ Disturb(queue')
  /\ SendRoom(ToSet(First(queue, 1)), loc[w].room)
  /\ Goto(w, "findMore")
  /\ UNCHANGED <<queueSwitch, rooms, flags, lock, jobs, job, loc, pending,
                 gateway, created, left, roomHistory, lost, switchHistory>>

FindMore(w) ==
  /\ pc[w] = "findMore"
  /\ changed' = changed + IF queue = <<>> THEN 0 ELSE 1
  /\ JobDone(w) /\ Unlock(w, RoomsKey)
  /\ UNCHANGED <<redis, jobs, background, timers, switched, gateway, twilio,
                 left, history>>

-----------------------------------------------------------------------------
\* sendRoomToPairs: a new room for the first two waiters

PairsLen(w) ==
  /\ pc[w] = "pairsLen"
  /\ IF EnoughForPair THEN Goto(w, "pairsRange") /\ UNCHANGED <<job, loc, lock>>
     ELSE JobDone(w) /\ Unlock(w, PairsKey)
  /\ UNCHANGED <<redis, jobs, pending, gateway, twilio, left, history>>

\* LRANGE 0 1
PairsRange(w) ==
  LET ids == First(queue, 2) IN
  /\ pc[w] = "pairsRange"
  /\ Bind(w, [loc[w] EXCEPT !.ids = ids])
  /\ disturbed' = disturbed + (2 - Len(ids))
  /\ Goto(w, "pairsTrim")
  /\ UNCHANGED <<redis, lock, jobs, job, pending, gateway, twilio, left,
                 roomHistory, lost, switchHistory>>

\* LTRIM 2 -1 removes whoever is at the head by now.
PairsTrim(w) ==
  /\ pc[w] = "pairsTrim"
  /\ queue' = Rest(queue, 2)
  /\ lost' = lost + Outside(queue, loc[w].ids)
  /\ Goto(w, "pairsPool")
  /\ UNCHANGED <<queueSwitch, rooms, flags, lock, jobs, job, loc, pending,
                 gateway, twilio, left, roomHistory, disturbed,
                 switchHistory>>

\* requestToCreateNewRooms
PairsPool(w) ==
  /\ pc[w] = "pairsPool"
  /\ jobs' = IF Len(pool) < PoolLow
             THEN Adding({"createRoomsRepeat", "clearExpiredRooms"}) ELSE jobs
  /\ Goto(w, "pairsRoom")
  /\ UNCHANGED <<redis, lock, job, loc, pending, gateway, twilio, left,
                 history>>

\* LPOP of the pool, or a room created now, is sent to the sockets read.
PairsRoom(w) ==
  /\ pc[w] = "pairsRoom"
  /\ \E r \in Rooms :
       /\ \/ pool # <<>> /\ r = Head(pool) /\ pool' = PoolRest /\ UNCHANGED created
          \/ pool = <<>> /\ TwilioCreate(r) /\ UNCHANGED pool
       /\ SendRoom(ToSet(loc[w].ids), r)
       /\ Bind(w, [loc[w] EXCEPT !.room = r, !.ids = <<>>])
       /\ tainted' = tainted \cup ({r} \cap paired)
  /\ Goto(w, "pairsZadd")
  /\ UNCHANGED <<lists, zset, flags, lock, jobs, job, pending, gateway,
                 left, paired, waitHistory, switchHistory>>

\* Twilio refuses to create a room: the job hangs, its sockets are trimmed.
PairsError(w) ==
  /\ pc[w] = "pairsRoom" /\ pool = <<>> /\ Spend("error")
  /\ HangUp(w) /\ Unlock(w, PairsKey)
  /\ UNCHANGED <<redis, jobs, pending, gateway, twilio, history>>

PairsZadd(w) ==
  /\ pc[w] = "pairsZadd"
  /\ ZSet(loc[w].room, PairScore)
  /\ JobDone(w) /\ Unlock(w, PairsKey)
  /\ UNCHANGED <<lists, pool, flags, jobs, pending, gateway, twilio, left,
                 history>>

-----------------------------------------------------------------------------
\* switchRoom: swap two sockets of different rooms into a new one, or find
\* the first of the list another room

SwitchLen(w) ==
  /\ pc[w] = "switchLen"
  /\ Bind(w, [loc[w] EXCEPT !.n = Len(queueSwitch)])
  /\ Goto(w, "switchRange")
  /\ UNCHANGED <<redis, lock, jobs, job, pending, gateway, twilio, left,
                 history>>

\* Entries of the list that sit in another room than its first.
Elsewhere == {i \in DOMAIN queueSwitch : queueSwitch[i].room # queueSwitch[1].room}

\* LRANGE 0 -1.  ids is read from its end: the last socket from elsewhere is
\* moved first, then the head of the list.
SwitchRange(w) ==
  /\ pc[w] = "switchRange"
  /\ \/ /\ loc[w].n >= 2 /\ Elsewhere # {}
        /\ Bind(w, [loc[w] EXCEPT !.pair = TRUE, !.todo = 2,
             !.ids = <<queueSwitch[1].id, queueSwitch[Max(Elsewhere)].id>>])
        /\ displaced' = displaced + IF Max(Elsewhere) = 2 THEN 0 ELSE 1
        /\ Goto(w, "switchCreate") /\ UNCHANGED <<job, lock>>
     \/ /\ loc[w].n > 0 /\ ~(loc[w].n >= 2 /\ Elsewhere # {})
        /\ Goto(w, "switchQueue") /\ UNCHANGED <<job, loc, lock, displaced>>
     \/ /\ loc[w].n = 0
        /\ JobDone(w) /\ Unlock(w, RoomsKey) /\ UNCHANGED displaced
  /\ UNCHANGED <<redis, jobs, pending, gateway, twilio, left, roomHistory,
                 waitHistory, skipped>>

\* createRoomAndSave puts the new room into the pool as well.
SwitchCreate(w) ==
  /\ pc[w] = "switchCreate"
  /\ \E r \in Rooms :
       /\ TwilioCreate(r)
       /\ pool' = Append(pool, r)
       /\ paired' = paired \cup {r}
       /\ Bind(w, [loc[w] EXCEPT !.room = r])
  /\ Goto(w, "switchZadd")
  /\ UNCHANGED <<lists, zset, flags, lock, jobs, job, pending, gateway,
                 guests, left, tainted, waitHistory, switchHistory>>

SwitchZadd(w) ==
  /\ pc[w] = "switchZadd"
  /\ ZSet(loc[w].room, 0)
  /\ Goto(w, "switchScore")
  /\ UNCHANGED <<lists, pool, flags, lock, jobs, job, loc, pending, gateway,
                 twilio, left, history>>

SwitchQueue(w) ==
  /\ pc[w] = "switchQueue"
  /\ Bind(w, [loc[w] EXCEPT !.n = Len(queue)])
  /\ Goto(w, "switchRooms")
  /\ UNCHANGED <<redis, lock, jobs, job, pending, gateway, twilio, left,
                 history>>

\* ZRANGEBYSCORE .. 3, in the order of the scores.
SwitchRooms(w) ==
  LET found == InRange(LowestScore(loc[w].n), 3) IN
  /\ pc[w] = "switchRooms"
  /\ \E order \in [1..Cardinality(found) -> found] :
       /\ \A i, j \in DOMAIN order : i < j =>
            order[i] # order[j] /\ score[order[i]] <= score[order[j]]
       /\ Bind(w, [loc[w] EXCEPT !.rooms = order])
  /\ Goto(w, "switchTry")
  /\ UNCHANGED <<redis, lock, jobs, job, pending, gateway, twilio, left,
                 history>>

\* The loop of findRoomToSwitch: the first room that is not the one the head
\* of the list, read anew each time, sits in.
SwitchTry(w) ==
  LET found == loc[w].rooms
      fits  == queueSwitch # <<>> /\ Head(queueSwitch).room # Head(found) IN
  /\ pc[w] = "switchTry"
  /\ \/ /\ found = <<>>
        /\ JobDone(w) /\ Unlock(w, RoomsKey)
     \/ /\ found # <<>> /\ ~fits
        /\ Bind(w, [loc[w] EXCEPT !.rooms = Tail(found)])
        /\ UNCHANGED <<pc, job, lock>>
     \/ /\ found # <<>> /\ fits
        /\ Bind(w, [loc[w] EXCEPT !.room = Head(found), !.todo = 1,
                                  !.ids = <<Head(queueSwitch).id>>])
        /\ Goto(w, "switchScore") /\ UNCHANGED <<job, lock>>
  /\ UNCHANGED <<redis, jobs, pending, gateway, twilio, left, history>>

\* service.switchRoom, once per socket: ZSCORE and the message to the socket,
\* then LPOP of whoever heads the list, then ZINCRBY.  The two calls of a
\* pair share a connection, which keeps their commands in this order.
SwitchScore(w) ==
  LET l == loc[w]
      place == HasPlace(l.room)
      k == l.pops + IF place THEN 1 ELSE 0 IN
  /\ pc[w] = "switchScore" /\ l.todo > 0
  /\ IF place THEN SendRoom({l.ids[l.todo]}, l.room) ELSE UNCHANGED guests
  /\ Bind(w, [l EXCEPT !.todo = @ - 1, !.pops = k, !.incs = CountMoved(k)])
  /\ Goto(w, IF l.todo > 1 THEN "switchScore"
             ELSE IF k > 0 THEN "switchPop" ELSE "switchAfter")
  /\ UNCHANGED <<redis, lock, jobs, job, pending, gateway, created, left,
                 history>>

SwitchPop(w) ==
  LET l == loc[w]
      popped == First(queueSwitch, 1) IN
  /\ pc[w] = "switchPop"
  /\ queueSwitch' = Rest(queueSwitch, 1)
  /\ skipped' = skipped +
       Cardinality({i \in DOMAIN popped : popped[i].id \notin ToSet(l.ids)})
  /\ Bind(w, [l EXCEPT !.pops = @ - 1])
  /\ Goto(w, IF l.pops > 1 THEN "switchPop" ELSE "switchIncr")
  /\ UNCHANGED <<queue, rooms, flags, lock, jobs, job, pending, gateway,
                 twilio, left, roomHistory, waitHistory, displaced>>

SwitchIncr(w) ==
  LET l == loc[w] IN
  /\ pc[w] = "switchIncr"
  /\ ZSet(l.room, score[l.room] + 1)
  /\ Bind(w, [l EXCEPT !.incs = @ - 1])
  /\ Goto(w, IF l.incs > 1 THEN "switchIncr" ELSE "switchAfter")
  /\ UNCHANGED <<lists, pool, flags, lock, jobs, job, pending, gateway,
                 twilio, left, history>>

\* After a pair the handler returns without calling jobDone.
SwitchAfter(w) ==
  /\ pc[w] = "switchAfter"
  /\ IF loc[w].pair
     THEN HangUp(w) /\ UNCHANGED switched
     ELSE JobDone(w) /\ switched' = switched + IF queueSwitch = <<>> THEN 0 ELSE 1
  /\ Unlock(w, RoomsKey)
  /\ UNCHANGED <<redis, jobs, background, timers, changed, gateway, twilio,
                 left, history>>

-----------------------------------------------------------------------------
\* createRooms and clearExpiredRooms: the pool of rooms

\* The first createRooms limits rooms to three for two minutes and wakes the
\* waiters when they are over.  A batch of zero rooms never finishes.
CreateStart(w) ==
  LET first == job[w][1] = "createRooms"
      n == IF first THEN FirstRooms ELSE RepeatRooms IN
  /\ pc[w] = "createStart"
  /\ threeLength' = (threeLength \/ first)
  /\ timers' = timers + IF first THEN 1 ELSE 0
  /\ IF n = 0 THEN HangUp(w)
     ELSE /\ Bind(w, [loc[w] EXCEPT !.n = n, !.todo = n])
          /\ Goto(w, "createOne") /\ UNCHANGED job
  /\ UNCHANGED <<lists, rooms, onIntermission, lock, jobs, background,
                 emitted, gateway, twilio, left, history>>

\* One promise of createRoomAndSave, which tries until Twilio gives a room.
\* The promises left over when the batch is reported go on by themselves.
CreateOne(w) ==
  LET todo == loc[w].todo - 1 IN
  /\ pc[w] = "createOne"
  /\ \E r \in Rooms : TwilioCreate(r) /\ pool' = Append(pool, r)
  /\ IF FinishesAt(loc[w].n, loc[w].n - todo)
     THEN JobDone(w) /\ background' = background + todo
     ELSE /\ UNCHANGED background
          /\ IF todo = 0 THEN HangUp(w)
             ELSE Bind(w, [loc[w] EXCEPT !.todo = todo]) /\ UNCHANGED <<pc, job>>
  /\ UNCHANGED <<lists, zset, flags, lock, jobs, timers, emitted, gateway,
                 guests, left, history>>

Background ==
  /\ background > 0 /\ background' = background - 1
  /\ \E r \in Rooms : TwilioCreate(r) /\ pool' = Append(pool, r)
  /\ UNCHANGED <<lists, zset, flags, handlers, timers, emitted, gateway,
                 guests, left, history>>

ClearPool(w) ==
  /\ pc[w] = "clearPool"
  /\ pool' = <<>>
  /\ Goto(w, "clearRooms")
  /\ UNCHANGED <<lists, zset, flags, lock, jobs, job, loc, pending, gateway,
                 twilio, left, history>>

ClearRooms(w) ==
  /\ pc[w] = "clearRooms"
  /\ listed' = listed \ Expired
  /\ score' = [r \in Rooms |-> IF r \in Expired THEN 0 ELSE score[r]]
  /\ Goto(w, "clearAgain")
  /\ UNCHANGED <<lists, pool, flags, lock, jobs, job, loc, pending, gateway,
                 twilio, left, history>>

ClearAgain(w) ==
  /\ pc[w] = "clearAgain"
  /\ jobs' = IF onIntermission
             THEN Adding({"createRoomsRepeat", "clearExpiredRooms"}) ELSE jobs
  /\ JobDone(w)
  /\ UNCHANGED <<redis, lock, pending, gateway, twilio, left, history>>

\* EX 120 of the key, and the setTimeout of 120 seconds started after it.
\* Its other emit, 'SwitchRoom', has no listener.
ThreeLengthExpires ==
  /\ threeLength /\ threeLength' = FALSE
  /\ UNCHANGED <<lists, rooms, onIntermission, handlers, pending, gateway,
                 twilio, left, history>>

TimerFires ==
  /\ timers > 0 /\ (~threeLength \/ timers > 1)
  /\ timers' = timers - 1 /\ changed' = changed + 1
  /\ UNCHANGED <<redis, handlers, background, switched, gateway, twilio,
                 left, history>>

\* endIntermission of the event module deletes the keys of the event.  The DELs
\* are sent together, and are one step here; Intermission takes them apart.
EndIntermission ==
  /\ Spend("end")
  /\ queue' = <<>> /\ queueSwitch' = <<>> /\ pool' = <<>>
  /\ listed' = {} /\ score' = [r \in Rooms |-> 0]
  /\ threeLength' = FALSE /\ onIntermission' = FALSE
  /\ Disturb(<<>>) /\ Displace(<<>>)
  /\ tainted' = tainted \cup listed
  /\ UNCHANGED <<handlers, pending, gateway, twilio, paired, lost, skipped>>

-----------------------------------------------------------------------------
\* The system

Socket(s) ==
  \/ RequestRoom(s) \/ PushRequest(s) \/ CancelRequest(s) \/ Disconnect(s)
  \/ \E r \in Rooms : RequestSwitch(s, r) \/ RoomStatus(s, r)
     \/ PushSwitch([id |-> s, room |-> r])

\* The commands of a handler that runs in slot w.
Handler(w) ==
  \/ FindQueue(w) \/ FindRange(w) \/ FindCheck(w) \/ FindIncr(w) \/ FindPop(w)
  \/ FindMore(w)
  \/ PairsLen(w) \/ PairsRange(w) \/ PairsTrim(w) \/ PairsPool(w)
  \/ PairsRoom(w) \/ PairsError(w) \/ PairsZadd(w)
  \/ SwitchLen(w) \/ SwitchRange(w) \/ SwitchCreate(w) \/ SwitchZadd(w)
  \/ SwitchQueue(w) \/ SwitchRooms(w) \/ SwitchTry(w) \/ SwitchScore(w)
  \/ SwitchPop(w) \/ SwitchIncr(w) \/ SwitchAfter(w)
  \/ CreateStart(w) \/ CreateOne(w)
  \/ ClearPool(w) \/ ClearRooms(w) \/ ClearAgain(w)

Next ==
  \/ \E s \in Sockets : Socket(s)
  \/ OnChanged \/ OnSwitch \/ Background
  \/ \E w \in Workers : Take(w) \/ Acquire(w) \/ Handler(w) \/ Timeout(w) \/ Crash(w)
  \/ \E key \in LockKeys : Expire(key)
  \/ ThreeLengthExpires \/ TimerFires \/ EndIntermission

Spec == Init /\ [][Next]_vars

\* The event loops, Bull and Redis keep working: what is enabled and stays so
\* happens, redis-lock tries again every 50 ms until it finds the key free,
\* and Bull times a hung job out.  Nobody has to ask, leave, crash or fail.
Fairness ==
  /\ WF_vars(OnChanged) /\ WF_vars(OnSwitch) /\ WF_vars(Background)
  /\ \A s \in Sockets : WF_vars(PushRequest(s))
  /\ WF_vars(\E entry \in switching : PushSwitch(entry))
  /\ \A w \in Workers :
       /\ WF_vars(Take(w)) /\ SF_vars(Acquire(w))
       /\ WF_vars(Handler(w))
       /\ WF_vars(pc[w] = "hung" /\ Timeout(w))

FairSpec == Spec /\ Fairness

-----------------------------------------------------------------------------
\* Properties

\* What a handler keeps in local variables.
Locals == [room : Rooms \cup {NoRoom}, ids : Seq(Sockets), n : Nat, todo : Nat,
           pops : Nat, incs : Nat, pair : BOOLEAN, rooms : Seq(Rooms)]

ListsOK == queue \in Seq(Sockets) /\ queueSwitch \in Seq([id : Sockets, room : Rooms])
RoomsOK == listed \subseteq Rooms /\ score \in [Rooms -> Int] /\ pool \in Seq(Rooms)
HandlersOK ==
  /\ lock \in [LockKeys -> Workers \cup {Nobody}]
  /\ jobs \in [JobSet -> Nat]
  /\ pc \in [Workers -> Points]
  /\ job \in [Workers -> JobSet \cup {NoJob}]
  /\ loc \in [Workers -> Locals]
PendingOK ==
  background \in Nat /\ timers \in Nat /\ changed \in Nat /\ switched \in Nat
GatewayOK ==
  /\ online \subseteq Sockets /\ bound \subseteq Sockets
  /\ current \in [Sockets -> Rooms \cup {NoRoom}]
  /\ pushing \in [Sockets -> Nat]
  /\ switching \subseteq [id : Sockets, room : Rooms]
TwilioOK == created \subseteq Rooms /\ guests \in [Rooms -> SUBSET Sockets]
HistoryOK ==
  /\ paired \subseteq Rooms /\ tainted \subseteq Rooms
  /\ disturbed \in Nat /\ lost \in Nat /\ displaced \in Nat /\ skipped \in Nat

\* Every variable holds values of the kind its Redis key, its field of the
\* socket or its local variable can hold.
TypeOK ==
  /\ ListsOK /\ RoomsOK /\ threeLength \in BOOLEAN /\ onIntermission \in BOOLEAN
  /\ HandlersOK /\ PendingOK /\ GatewayOK /\ TwilioOK /\ HistoryOK
  /\ left \in [Uses -> Nat]

\* While no key expires under its holder, no two handlers are between lock()
\* and unlock() of the same key: findAvailableRooms and switchRoom exclude
\* each other, and so do two sendRoomToPairs (networkRoom.processor.ts).
KeyExcludes ==
  \A key \in LockKeys : \A v, w \in Workers :
    pc[v] \in Inside(key) /\ pc[w] \in Inside(key) => v = w

\* While no key expires under its holder, no room is ever counted as holding
\* more than four: the test `< 4' and the ZINCRBY that follows it are apart,
\* and sendRoomToPairs sets scores under another key.
ScoreBound == \A r \in Rooms : score[r] <= 4

\* The sum of a function into the natural numbers, as the number of points
\* below its graph.
Total(f) == Cardinality(UNION {{w} \X (1..f[w]) : w \in DOMAIN f})

\* Places a running handler has given away and not counted yet.
Owes(w, r) == IF loc[w].room # r THEN 0
              ELSE IF pc[w] = "pairsZadd" THEN 2 ELSE loc[w].incs
Uncounted(r) == Total([w \in Workers |-> Owes(w, r)])

\* The score of a room never falls below the sockets that were sent to it and
\* have not left, but for what a handler is about to count.  Together with
\* ScoreBound nobody is sent to a full room.  Exempt are rooms whose count
\* the code itself gives up: a room made for a switched pair, which is also
\* in the pool and may be handed out again, a room whose handler died before
\* counting, and the rooms of an intermission that ended.
GuestsCounted ==
  \A r \in Rooms \ tainted : Cardinality(guests[r]) <= score[r] + Uncounted(r)

\* A room in the pool is nobody's room: it is not in the sorted set, unless it
\* was made for a switched pair, which createRoomAndSave also puts there.
PoolUnused ==
  \A i \in DOMAIN pool : pool[i] \in listed => pool[i] \in paired

\* A socket waits at most once, however often it asks: the LREM and the RPUSH
\* of requestRoom are one critical section.
NoDuplicateWaiting == NoDuplicates(queue)

\* LTRIM drops a waiter that LRANGE has not read only if somebody left the
\* head of the list between the two, or LRANGE found fewer than two, and then
\* one for each.
LostOnlyIfDisturbed == lost <= disturbed

\* A switch pops an entry of a socket it does not move only if the pair it
\* moves was not the head of the list, or the list changed under it.
SkippedOnlyIfDisplaced == skipped <= displaced

\* Nothing is left to run: what happens next comes from outside.
Quiet ==
  /\ changed = 0
  /\ \A w \in Workers : pc[w] = "idle"
  /\ \A j \in JobSet : jobs[j] > 0 => j[1] \in {"clearExpiredRooms", "switchRoom"}
  /\ \A s \in Sockets : pushing[s] = 0

\* No wake-up is lost for two: when every job has run, at most one socket
\* still waits, although sendRoomToPairs itself wakes nobody.
PairsServed == Quiet => Len(queue) < 2

\* Two waiters do not wait together for ever: jobs that seat the first of
\* them, pair them, or fail and are tried again get the queue below two.
PairsGetRoom == Len(queue) >= 2 ~> Len(queue) < 2

-----------------------------------------------------------------------------
\* What makes TypeOK, KeyExcludes and ScoreBound inductive

\* The locals of a handler whose next command is p: what has just started
\* has none, one in the middle of a batch has something left to do, and one
\* that works on a room has chosen it.
InUse(p, l) ==
  /\ p \in {"idle", "hung", "createStart", "clearPool", "findLock",
           "pairsLock", "switchLock", "switchLen"} => l = NoLoc
  /\ p \in {"switchQueue", "switchRooms", "switchTry", "switchRange"}
       => l.todo = 0 /\ l.incs = 0
  /\ p \in {"switchCreate", "switchZadd"}
       => l.todo = 2 /\ l.incs = 0 /\ Len(l.ids) = 2
  /\ p \in SwitchPoints \ {"switchPop", "switchIncr", "switchAfter"}
       => l.pops = l.incs
  /\ p = "createOne" => l.todo > 0
  /\ p = "switchScore" => l.todo > 0 /\ l.todo <= Len(l.ids)
  /\ p = "switchPop" => l.pops > 0 /\ l.pops <= l.incs
  /\ p = "switchIncr" => l.incs > 0
  /\ p \in {"findLen", "findScore", "findIncr", "findPop", "pairsZadd",
           "switchZadd", "switchScore", "switchPop", "switchIncr"}
       => l.room \in Rooms

LocalsInUse == \A w \in Workers : InUse(pc[w], loc[w])

\* A handler inside a critical section holds its key.
HoldsKey ==
  \A key \in LockKeys : \A w \in Workers : pc[w] \in Inside(key) => lock[key] = w

\* A handler that has found a room keeps finding a place in it, and one about
\* to count the places it gave away has room for them: a pair is moved into a
\* room that holds at most two.
PlaceFor(p, l, scores) ==
  /\ p \in {"findLen", "findScore", "findIncr"} => scores[l.room] <= 3
  /\ p \in SwitchPoints => l.incs + l.todo <= 2
  /\ p = "switchScore" =>
       \/ l.incs = 0 /\ l.todo = 1
       \/ scores[l.room] + l.incs + l.todo <= 4
  /\ p \in {"switchPop", "switchIncr"} => scores[l.room] + l.incs <= 4

\* The room in which a handler is counting has places for what it counts.
PlacesHeld == \A w \in Workers : PlaceFor(pc[w], loc[w], score)

\* What makes NoDuplicateWaiting inductive: at most one requestRoom stands
\* between its LREM and its RPUSH, and its socket is not in the queue.
OneRequest ==
  /\ \A s \in Sockets : pushing[s] <= 1
  /\ \A s, t \in Sockets : pushing[s] > 0 /\ pushing[t] > 0 => s = t
  /\ \A s \in Sockets : pushing[s] > 0 => \A i \in DOMAIN queue : queue[i] # s

\* What makes PoolUnused and GuestsCounted inductive.  Rooms that a handler
\* works on or is about to try, and rooms nobody has been sent to.
Has(w, r) == loc[w].room = r \/ \E i \in DOMAIN loc[w].rooms : loc[w].rooms[i] = r
Unused(r) == /\ guests[r] = {} /\ r \notin listed /\ score[r] = 0
             /\ \A w \in Workers : ~Has(w, r)

\* What Twilio has not created yet nobody uses, nor what waits in the pool,
\* unless it was made for a switched pair.
FreshRooms ==
  /\ paired \subseteq created
  /\ \A r \in Rooms \ created : Unused(r)
  /\ NoDuplicates(pool)
  /\ \A i \in DOMAIN pool : pool[i] \in created /\ (pool[i] \in paired \/ Unused(pool[i]))

\* A handler that is about to list its room is the only one to have it: no
\* other finds it before, whatever its first guests do.
OwnRoom(w, r) ==
  /\ r \in created
  /\ \A v \in Workers \ {w} : ~Has(v, r)
  /\ pc[w] = "pairsZadd" =>
       /\ \A i \in DOMAIN pool : pool[i] # r
       /\ score[r] <= 0 /\ (r \in listed => score[r] < 0)
       /\ Cardinality(guests[r]) <= 2 + score[r]
  /\ pc[w] = "switchZadd" =>
       r \in paired /\ guests[r] = {} /\ r \notin listed /\ score[r] = 0
OwnRooms ==
  \A w \in Workers : pc[w] \in {"pairsZadd", "switchZadd"} /\ loc[w].room \notin tainted
                     => OwnRoom(w, loc[w].room)

\* A place that findAvailableRooms has counted and not given away yet.
Reserves(w, r) == IF pc[w] = "findPop" /\ loc[w].room = r THEN 1 ELSE 0
Reserved(r) == Total([w \in Workers |-> Reserves(w, r)])
Balanced ==
  \A r \in Rooms \ tainted :
    Cardinality(guests[r]) + Reserved(r) <= score[r] + Uncounted(r)

\* Only a handler that moves switched sockets has increments left to send, and
\* sendRoomToPairs works for two sockets.
Counting(p, l) ==
  /\ p \notin {"switchScore", "switchPop", "switchIncr"} => l.incs = 0
  /\ p \in {"pairsTrim", "pairsPool", "pairsRoom"} => Len(l.ids) <= 2
CountsKnown ==
  /\ \A r \in Rooms \ listed : score[r] = 0
  /\ \A w \in Workers : Counting(pc[w], loc[w])

\* What makes LostOnlyIfDisturbed inductive: a handler between LRANGE and LTRIM
\* will take a waiter unread only for each of those it has read, or missed when
\* it read, that is not at the head any more.
StillHead(w) ==
  Cardinality({i \in DOMAIN First(queue, 2) : queue[i] \in ToSet(loc[w].ids)})
TrimsRead ==
  \A w \in Workers : pc[w] = "pairsTrim" => lost + 2 - StillHead(w) <= disturbed

\* What makes SkippedOnlyIfDisplaced inductive: a switch that is still to pop
\* entries will pop one of a socket it does not move only for each of its own
\* that is not at the head any more, or was not when it was chosen.
Swaps == {"switchCreate", "switchZadd", "switchScore", "switchPop"}
PopsLeft(w) == loc[w].pops + IF pc[w] = "switchPop" THEN 0 ELSE loc[w].todo
OwnAtHead(list, n, ids) ==
  Cardinality({i \in DOMAIN list : i <= n /\ list[i].id \in ToSet(ids)})
PopsRead ==
  \A w \in Workers : pc[w] \in Swaps =>
    skipped + PopsLeft(w) - OwnAtHead(queueSwitch, PopsLeft(w), loc[w].ids) <= displaced

\* What makes PairsServed inductive: who has yet to look at the waiters, an
\* emit, a job or a handler, of which each takes at most two away, wakes the
\* next one while more than one is left.
Waking == FindPoints \cup {"findLock", "pairsLock", "pairsLen", "pairsRange", "pairsTrim"}
WakingJobs == {"findAvailableRooms", "sendRoomToPairs"} \X (1..MaxAttempts)
Queued == Total([j \in WakingJobs |-> jobs[j]])
Awake == {w \in Workers : pc[w] \in Waking}
PairsAwaited == Len(queue) <= 2 * (changed + Queued + Cardinality(Awake)) + 1
=============================================================================
