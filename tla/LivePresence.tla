---------------------------- MODULE LivePresence ----------------------------
(***************************************************************************)
(* Who watches the live of one event (src/src/modules/event, gateway,      *)
(* processor and service): sockets enter and leave the live and disconnect,*)
(* jobs count viewers up and down, and lists of sockets say whom to tell   *)
(* the count.  One step is one Redis command; the handlers of one socket   *)
(* run side by side, as nothing makes a message wait for the last one.     *)
(***************************************************************************)
EXTENDS Integers, FiniteSets

CONSTANTS
  Sockets,   \* socket ids
  Admins,    \* those that connected with isAdmin
  Workers,   \* slots of changeViewersCounter
  NoList,    \* what HGET finds when the field is missing
  Budget     \* bounds: messages of the clients, deaths of processes
ASSUME PresenceAssumption ==
  /\ IsFiniteSet(Sockets) /\ Admins \subseteq Sockets
  /\ \A list \in SUBSET Sockets : list # NoList
  /\ Budget \in [message : Nat, crash : Nat]

VARIABLES
  pc,         \* per socket and handler: its next command
  read,       \* per socket and handler: the list it has read
  hasEvent,   \* sockets with socket.eventId set, by connectToLive
  alive,      \* sockets that are connected
  connected,  \* event-E:attendeesConnected
  attendees, admins,  \* the lists in event-E:attendees and event-E:admins
  everyone,   \* connectedUsersEvents
  counter,    \* event-E:viewersCounter
  toggles,    \* jobs changeViewersCounter that wait, per kind
  at, mod, value, \* per worker: next command, kind of toggle, count it has read
  left,       \* what is left of Budget
  asked,      \* history: toggles up less toggles down that handlers have added
  overlapped, \* history: two toggles ran at the same time, or one ran twice
  clamped,    \* history: a count below zero was set to zero
  again,      \* history: a socket entered or left twice or before it was done
              \* with the last thing
  torn        \* history: a list changed between an HGET and its HSET

handlers == <<pc, read>>
lists    == <<attendees, admins>>
jobs     == <<toggles, at, mod, value>>
history  == <<asked, overlapped, clamped, again, torn>>
vars == <<handlers, hasEvent, alive, connected, lists, everyone, counter,
          jobs, left, history>>

Ops == {"arrive", "enter", "leave", "depart"}
Running(s) == {op \in Ops : pc[s][op] # "idle"}

Init ==
  /\ pc = [s \in Sockets |-> [op \in Ops |->
            IF op = "arrive" THEN IF s \in Admins THEN "listRead" ELSE "sadd"
            ELSE "idle"]]
  /\ read = [s \in Sockets |-> [op \in Ops |-> NoList]]
  /\ hasEvent = {} /\ alive = Sockets /\ connected = {}
  /\ attendees = NoList /\ admins = NoList /\ everyone = {}
  /\ counter = 0 /\ toggles = [incr |-> 0, decr |-> 0]
  /\ at = [w \in Workers |-> "idle"] /\ mod = [w \in Workers |-> "none"]
  /\ value = [w \in Workers |-> 0]
  /\ left = Budget
  /\ asked = 0 /\ overlapped = FALSE /\ clamped = FALSE
  /\ again = FALSE /\ torn = FALSE

Goto(s, op, point) == pc' = [pc EXCEPT ![s][op] = point]
Read(s, op, list) == read' = [read EXCEPT ![s][op] = list]

-----------------------------------------------------------------------------
\* Lists: addToHashList and removeFromHashList read, change and write back

\* Another handler has read the same list and is about to write it back.
ListName(s, op) ==
  IF op = "arrive" \/ (op = "depart" /\ s \in Admins)
  THEN "admins" ELSE "attendees"
Tear(s, op) ==
  torn' = (torn \/ \E t \in Sockets : \E o \in Ops :
                     /\ pc[t][o] = "listWrite" /\ <<t, o>> # <<s, op>>
                     /\ ListName(t, o) = ListName(s, op))

\* Mutant: the list is replaced by the one that is added.
Replaced(list, s) == {s}
Added(list, s) == IF list = NoList THEN {s} ELSE list \cup {s}

\* handleConnection lists an admin ...
ArriveRead(s) ==
  /\ pc[s].arrive = "listRead"
  /\ Read(s, "arrive", admins) /\ Goto(s, "arrive", "listWrite")
  /\ UNCHANGED <<hasEvent, alive, connected, lists, everyone, counter, jobs,
                 left, history>>

ArriveWrite(s) ==
  /\ pc[s].arrive = "listWrite"
  /\ admins' = Added(read[s].arrive, s) /\ Goto(s, "arrive", "sadd")
  /\ Read(s, "arrive", NoList) /\ Tear(s, "arrive")
  /\ UNCHANGED <<hasEvent, alive, connected, attendees, everyone,
                 counter, jobs, left, asked, overlapped, clamped, again>>

\* ... and everybody among the connected users.
ArriveAdd(s) ==
  /\ pc[s].arrive = "sadd"
  /\ everyone' = everyone \cup {s} /\ Goto(s, "arrive", "idle")
  /\ UNCHANGED <<read, hasEvent, alive, connected, lists, counter, jobs, left,
                 history>>

\* A message of the client starts a handler.  A client may well enter twice,
\* leave twice or leave before its entry is done: again.
Start(s, op) ==
  /\ s \in alive /\ pc[s][op] = "idle" /\ left.message > 0
  /\ left' = [left EXCEPT !.message = @ - 1]
  /\ again' = (again \/ Running(s) \ {"arrive"} # {}
                     \/ (op = "enter") = (s \in connected))

\* connectToLive
Enter(s) ==
  /\ Start(s, "enter")
  /\ hasEvent' = hasEvent \cup {s} /\ Goto(s, "enter", "hset")
  /\ UNCHANGED <<read, alive, connected, lists, everyone, counter, jobs,
                 asked, overlapped, clamped, torn>>

EnterSet(s) ==
  /\ pc[s].enter = "hset"
  /\ connected' = connected \cup {s} /\ Goto(s, "enter", "listRead")
  /\ UNCHANGED <<read, hasEvent, alive, lists, everyone, counter, jobs, left,
                 history>>

EnterRead(s) ==
  /\ pc[s].enter = "listRead"
  /\ Read(s, "enter", attendees) /\ Goto(s, "enter", "listWrite")
  /\ UNCHANGED <<hasEvent, alive, connected, lists, everyone, counter, jobs,
                 left, history>>

EnterWrite(s) ==
  /\ pc[s].enter = "listWrite"
  /\ attendees' = Added(read[s].enter, s) /\ Goto(s, "enter", "add")
  /\ Read(s, "enter", NoList) /\ Tear(s, "enter")
  /\ UNCHANGED <<hasEvent, alive, connected, admins, everyone, counter,
                 jobs, left, asked, overlapped, clamped, again>>

Step(kind) == IF kind = "incr" THEN 1 ELSE -1
AddToggle(kind) ==
  /\ toggles' = [toggles EXCEPT ![kind] = @ + 1]
  /\ asked' = asked + Step(kind)

EnterToggle(s) ==
  /\ pc[s].enter = "add" /\ AddToggle("incr") /\ Goto(s, "enter", "idle")
  /\ UNCHANGED <<read, hasEvent, alive, connected, lists, everyone, counter,
                 at, mod, value, left, overlapped, clamped,
                 again, torn>>

\* disconnectToLive
Leave(s) ==
  /\ Start(s, "leave") /\ Goto(s, "leave", "hdel")
  /\ UNCHANGED <<read, hasEvent, alive, connected, lists, everyone, counter,
                 jobs, asked, overlapped, clamped, torn>>

LeaveDel(s) ==
  /\ pc[s].leave = "hdel"
  /\ connected' = connected \ {s} /\ Goto(s, "leave", "add")
  /\ UNCHANGED <<read, hasEvent, alive, lists, everyone, counter, jobs, left,
                 history>>

LeaveToggle(s) ==
  /\ pc[s].leave = "add" /\ AddToggle("decr") /\ Goto(s, "leave", "idle")
  /\ UNCHANGED <<read, hasEvent, alive, connected, lists, everyone, counter,
                 at, mod, value, left, overlapped, clamped,
                 again, torn>>

-----------------------------------------------------------------------------
\* handleDisconnect

\* Mutant: a socket of no event has nothing to clean up.
OnlyThoseOfAnEvent(s) == IF s \in hasEvent \cup Admins THEN "listRead" ELSE "done"

\* A socket of no event goes straight to the last command.
FirstOfDepart(s) == IF s \in hasEvent \cup Admins THEN "listRead" ELSE "srem"

Depart(s) ==
  /\ s \in alive /\ alive' = alive \ {s}
  /\ again' = (again \/ Running(s) # {})
  /\ Goto(s, "depart", FirstOfDepart(s))
  /\ UNCHANGED <<read, hasEvent, connected, lists, everyone, counter, jobs,
                 left, asked, overlapped, clamped, torn>>

\* The list of an admin is looked up under socket.eventId, which only
\* connectToLive sets.
ListOf(s) == IF s \notin Admins THEN attendees
             ELSE IF s \in hasEvent THEN admins ELSE NoList

\* JSON.parse([]) throws when there is no list: the handler ends here.
DepartRead(s) ==
  /\ pc[s].depart = "listRead"
  /\ Read(s, "depart", ListOf(s))
  /\ Goto(s, "depart", IF ListOf(s) = NoList THEN "thrown" ELSE "listWrite")
  /\ UNCHANGED <<hasEvent, alive, connected, lists, everyone, counter, jobs,
                 left, history>>

DepartWrite(s) ==
  LET list == read[s].depart \ {s} IN
  /\ pc[s].depart = "listWrite"
  /\ IF s \in Admins THEN admins' = list /\ UNCHANGED attendees
     ELSE attendees' = list /\ UNCHANGED admins
  /\ Goto(s, "depart", "hget")
  /\ Read(s, "depart", NoList) /\ Tear(s, "depart")
  /\ UNCHANGED <<hasEvent, alive, connected, everyone, counter, jobs,
                 left, asked, overlapped, clamped, again>>

\* Mutant: a viewer that disconnects is counted down without looking.
AlwaysCounted(s) == TRUE
StillConnected(s) == s \in connected

\* Only a socket that has not left the live before is counted down.
DepartLook(s) ==
  /\ pc[s].depart = "hget"
  /\ Goto(s, "depart", IF StillConnected(s) THEN "add" ELSE "srem")
  /\ UNCHANGED <<read, hasEvent, alive, connected, lists, everyone, counter,
                 jobs, left, history>>

DepartToggle(s) ==
  /\ pc[s].depart = "add" /\ AddToggle("decr") /\ Goto(s, "depart", "hdel")
  /\ UNCHANGED <<read, hasEvent, alive, connected, lists, everyone, counter,
                 at, mod, value, left, overlapped, clamped,
                 again, torn>>

DepartDel(s) ==
  /\ pc[s].depart = "hdel"
  /\ connected' = connected \ {s} /\ Goto(s, "depart", "srem")
  /\ UNCHANGED <<read, hasEvent, alive, lists, everyone, counter, jobs, left,
                 history>>

DepartRemove(s) ==
  /\ pc[s].depart = "srem"
  /\ everyone' = everyone \ {s} /\ Goto(s, "depart", "done")
  /\ UNCHANGED <<read, hasEvent, alive, connected, lists, counter, jobs, left,
                 history>>

-----------------------------------------------------------------------------
\* changeViewersCounter

\* Somebody else is between counting and writing back.
Counting(w) == \E v \in Workers \ {w} : at[v] \in {"get", "set"}

\* INCR or DECR
Toggle(w) ==
  /\ at[w] = "idle"
  /\ \E m \in {"incr", "decr"} :
       /\ toggles[m] > 0 /\ toggles' = [toggles EXCEPT ![m] = @ - 1]
       /\ mod' = [mod EXCEPT ![w] = m]
       /\ counter' = counter + Step(m)
  /\ at' = [at EXCEPT ![w] = "get"]
  /\ overlapped' = (overlapped \/ Counting(w))
  /\ UNCHANGED <<handlers, hasEvent, alive, connected, lists, everyone, value,
                 left, asked, clamped, again, torn>>

NotBelowZero(n) == IF n >= 0 THEN n ELSE 0

ToggleRead(w) ==
  /\ at[w] = "get"
  /\ value' = [value EXCEPT ![w] = NotBelowZero(counter)]
  /\ clamped' = (clamped \/ counter < 0)
  /\ at' = [at EXCEPT ![w] = "set"]
  /\ UNCHANGED <<handlers, hasEvent, alive, connected, lists, everyone,
                 counter, toggles, mod, left, asked, overlapped, again, torn>>

ToggleWrite(w) ==
  /\ at[w] = "set"
  /\ counter' = value[w]
  /\ at' = [at EXCEPT ![w] = "send"] /\ value' = [value EXCEPT ![w] = 0]
  /\ UNCHANGED <<handlers, hasEvent, alive, connected, lists, everyone,
                 toggles, mod, left, history>>

\* The lists say whom to send the count to.
ToggleSend(w) ==
  /\ at[w] = "send"
  /\ at' = [at EXCEPT ![w] = "idle"] /\ mod' = [mod EXCEPT ![w] = "none"]
  /\ UNCHANGED <<handlers, hasEvent, alive, connected, lists, everyone,
                 counter, toggles, value, left, history>>

\* The process dies, and Bull runs the job again from the start.
Crash(w) ==
  /\ at[w] # "idle" /\ left.crash > 0 /\ left' = [left EXCEPT !.crash = @ - 1]
  /\ toggles' = [toggles EXCEPT ![mod[w]] = @ + 1] /\ overlapped' = TRUE
  /\ at' = [at EXCEPT ![w] = "idle"] /\ mod' = [mod EXCEPT ![w] = "none"]
  /\ value' = [value EXCEPT ![w] = 0]
  /\ UNCHANGED <<handlers, hasEvent, alive, connected, lists, everyone,
                 counter, asked, clamped, again, torn>>

Next ==
  \/ \E s \in Sockets :
       \/ ArriveRead(s) \/ ArriveWrite(s) \/ ArriveAdd(s)
       \/ Enter(s) \/ EnterSet(s) \/ EnterRead(s) \/ EnterWrite(s)
       \/ EnterToggle(s) \/ Leave(s) \/ LeaveDel(s) \/ LeaveToggle(s)
       \/ Depart(s) \/ DepartRead(s) \/ DepartWrite(s) \/ DepartLook(s)
       \/ DepartToggle(s) \/ DepartDel(s) \/ DepartRemove(s)
  \/ \E w \in Workers :
       Toggle(w) \/ ToggleRead(w) \/ ToggleWrite(w) \/ ToggleSend(w) \/ Crash(w)

Spec == Init /\ [][Next]_vars

-----------------------------------------------------------------------------
\* Properties

Lists == (SUBSET Sockets) \cup {NoList}
Points == {"idle", "listRead", "listWrite", "sadd", "hset", "add", "hdel",
           "hget", "srem", "thrown", "done"}

TypeOK ==
  /\ pc \in [Sockets -> [Ops -> Points]] /\ read \in [Sockets -> [Ops -> Lists]]
  /\ hasEvent \subseteq Sockets /\ alive \subseteq Sockets
  /\ connected \subseteq Sockets /\ everyone \subseteq Sockets
  /\ attendees \in Lists /\ admins \in Lists
  /\ counter \in Int /\ toggles \in [incr : Nat, decr : Nat]
  /\ at \in [Workers -> {"idle", "get", "set", "send"}]
  /\ mod \in [Workers -> {"incr", "decr", "none"}]
  /\ \A w \in Workers : mod[w] = "none" <=> at[w] = "idle"
  /\ value \in [Workers -> Nat]
  /\ left \in [message : Nat, crash : Nat]
  /\ asked \in Int /\ {overlapped, clamped, again, torn} \subseteq BOOLEAN

\* No handler of a socket is under way; every toggle has been counted.
HandlersDone ==
  \A s \in Sockets : \A op \in Ops : pc[s][op] \in {"idle", "done", "thrown"}
TogglesDone ==
  toggles = [incr |-> 0, decr |-> 0] /\ \A w \in Workers : at[w] = "idle"
Quiet == HandlersDone /\ TogglesDone

\* The count one asks for, `Amount of viewerrs on event' (event.controller.ts),
\* is that of the sockets in the live, if every socket did one thing after
\* another and no process died.
AmountOfViewers ==
  Quiet /\ ~again /\ left.crash = Budget.crash
    => counter = Cardinality(connected \cap alive)

\* The handlers of a socket that does one thing after another ask for one
\* toggle up per entry and one down per end, so that a socket that leaves and
\* then disconnects is counted down once; and toggles that neither overlapped
\* nor ran before the one they take back come to what was asked.
CountedOnce ==
  /\ HandlersDone /\ ~again => asked = Cardinality(connected)
  /\ TogglesDone /\ ~overlapped /\ ~clamped => counter = asked

\* The count is not negative when no toggle waits or runs, however many have
\* overlapped or died: each that counts down also writes back, or is run again.
NotNegative ==
  /\ toggles = [incr |-> 0, decr |-> 0]
  /\ \A w \in Workers : at[w] \notin {"get", "set"}
  => counter >= 0

\* A socket in the live is told the count, unless another one wrote the list
\* between the HGET and the HSET that added or removed one of them.
ViewersTold ==
  Quiet /\ ~torn => \A s \in (connected \cap alive) : s \in attendees

\* A socket that is gone stays among the connected users only if its list was
\* missing, so that handleDisconnect threw, or its clean-up came before the
\* end of handleConnection.
GoneOrThrown ==
  Quiet => \A s \in everyone \ alive : pc[s].depart = "thrown" \/ again
=============================================================================
