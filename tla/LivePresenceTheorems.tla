------------------------ MODULE LivePresenceTheorems ------------------------
(***************************************************************************)
(* Theorems about LivePresence, for any sockets, slots and budgets: types, *)
(* that the count of viewers is not negative once nobody counts, that who  *)
(* is gone is removed, who watches is told, and each is counted once.      *)
(***************************************************************************)
EXTENDS LivePresence, FiniteSetTheorems, TLAPS

\* handleDisconnect goes on to write a list only when it has found one.
ListFound ==
  \A s \in Sockets : pc[s].depart = "listWrite" => read[s].depart # NoList

\* TypeOK for what the handlers of the sockets change, and for the count.
HandlerTypes ==
  /\ pc \in [Sockets -> [Ops -> Points]] /\ read \in [Sockets -> [Ops -> Lists]]
  /\ hasEvent \subseteq Sockets /\ alive \subseteq Sockets
  /\ connected \subseteq Sockets /\ everyone \subseteq Sockets
  /\ attendees \in Lists /\ admins \in Lists
CountTypes ==
  /\ counter \in Int /\ toggles \in [incr : Nat, decr : Nat]
  /\ at \in [Workers -> {"idle", "get", "set", "send"}]
  /\ mod \in [Workers -> {"incr", "decr", "none"}]
  /\ \A w \in Workers : mod[w] = "none" <=> at[w] = "idle"
  /\ value \in [Workers -> Nat]
  /\ left \in [message : Nat, crash : Nat]
  /\ asked \in Int
HistoryTypes == {overlapped, clamped, again, torn} \subseteq BOOLEAN

\* Handlers of a socket, and those of changeViewersCounter.
SocketStep(s) ==
  \/ ArriveRead(s) \/ ArriveWrite(s) \/ ArriveAdd(s)
  \/ Enter(s) \/ EnterSet(s) \/ EnterRead(s) \/ EnterWrite(s)
  \/ EnterToggle(s) \/ Leave(s) \/ LeaveDel(s) \/ LeaveToggle(s)
  \/ Depart(s) \/ DepartRead(s) \/ DepartWrite(s) \/ DepartLook(s)
  \/ DepartToggle(s) \/ DepartDel(s) \/ DepartRemove(s)
CountStep(w) ==
  Toggle(w) \/ ToggleRead(w) \/ ToggleWrite(w) \/ ToggleSend(w) \/ Crash(w)

\* The handlers, their commands and the lists they read and write.
LEMMA Members ==
  /\ Ops = {"arrive", "enter", "leave", "depart"}
  /\ {"idle", "listRead", "listWrite", "sadd", "hset", "add", "hdel",
      "hget", "srem", "thrown", "done"} \subseteq Points
  /\ NoList \in Lists
  /\ \A s \in Sockets, list \in Lists : Added(list, s) \in Lists
  /\ \A s \in Sockets, list \in Lists :
       list # NoList => list \ {s} \in Lists
<1>1. Ops = {"arrive", "enter", "leave", "depart"}
  BY DEF Ops
<1>2. {"idle", "listRead", "listWrite", "sadd", "hset", "add", "hdel",
       "hget", "srem", "thrown", "done"} \subseteq Points
  BY DEF Points
<1>3. \A s \in Sockets, list \in Lists : Added(list, s) \in Lists
  BY DEF Lists, Added
<1>4. ASSUME NEW s \in Sockets, NEW list \in Lists, list # NoList
      PROVE  list \ {s} \in Lists
  <2>1. list \ {s} \subseteq Sockets
    BY <1>4 DEF Lists
  <2> QED
    BY <2>1 DEF Lists
<1>5. NoList \in Lists
  BY DEF Lists
<1> QED
  BY <1>1, <1>2, <1>3, <1>4, <1>5

\* A handler that goes to its next command and reads no list.
LEMMA GotoTypes ==
  ASSUME HandlerTypes, ListFound, NEW s \in Sockets, NEW op \in Ops,
         NEW point \in Points, Goto(s, op, point), read' = read,
         op = "depart" => point # "listWrite"
  PROVE  pc' \in [Sockets -> [Ops -> Points]] /\ ListFound'
<1>1. pc' \in [Sockets -> [Ops -> Points]]
  BY DEF Goto, HandlerTypes
<1>2. ASSUME NEW t \in Sockets, pc'[t].depart = "listWrite"
      PROVE  read'[t].depart # NoList
  <2>1. "depart" \in Ops
    BY Members
  <2>2. pc[t].depart = "listWrite"
    BY <1>2, <2>1 DEF Goto, HandlerTypes
  <2> QED
    BY <2>2 DEF ListFound
<1> QED
  BY <1>1, <1>2 DEF ListFound

\* One that reads a list, or has written it back and forgets it.
LEMMA ReadTypes ==
  ASSUME HandlerTypes, ListFound, NEW s \in Sockets, NEW op \in Ops,
         NEW point \in Points, NEW list \in Lists,
         Goto(s, op, point), Read(s, op, list),
         op = "depart" /\ point = "listWrite" => list # NoList
  PROVE  /\ pc' \in [Sockets -> [Ops -> Points]]
         /\ read' \in [Sockets -> [Ops -> Lists]]
         /\ ListFound'
<1>1. pc' \in [Sockets -> [Ops -> Points]] /\ read' \in [Sockets -> [Ops -> Lists]]
  BY DEF Goto, Read, HandlerTypes
<1>2. ASSUME NEW t \in Sockets, pc'[t].depart = "listWrite"
      PROVE  read'[t].depart # NoList
  <2>1. "depart" \in Ops
    BY Members
  <2>2. CASE t = s /\ op = "depart"
    <3>1. point = "listWrite" /\ read'[t].depart = list
      BY <1>2, <2>1, <2>2 DEF Goto, Read, HandlerTypes
    <3> QED
      BY <2>2, <3>1
  <2>3. CASE ~(t = s /\ op = "depart")
    <3>1. pc[t].depart = "listWrite" /\ read'[t].depart = read[t].depart
      BY <1>2, <2>1, <2>3 DEF Goto, Read, HandlerTypes
    <3> QED
      BY <3>1 DEF ListFound
  <2> QED
    BY <2>2, <2>3
<1> QED
  BY <1>1, <1>2 DEF ListFound

\* A step of a socket's handler keeps the types of the handlers.
LEMMA SocketTypes ==
  ASSUME HandlerTypes, ListFound, PresenceAssumption, NEW s \in Sockets, SocketStep(s)
  PROVE  HandlerTypes' /\ ListFound'
<1> USE Members DEF HandlerTypes, lists, Start
<1>1. CASE ArriveRead(s)
  BY <1>1, ReadTypes DEF ArriveRead
<1>2. CASE ArriveWrite(s)
  <2>1. read[s].arrive \in Lists
    OBVIOUS
  <2>2. Added(read[s].arrive, s) \in Lists
    BY <2>1
  <2> QED
    BY <1>2, <2>2, ReadTypes DEF ArriveWrite
<1>3. CASE ArriveAdd(s)
  BY <1>3, GotoTypes DEF ArriveAdd
<1>4. CASE Enter(s)
  BY <1>4, GotoTypes DEF Enter
<1>5. CASE EnterSet(s)
  BY <1>5, GotoTypes DEF EnterSet
<1>6. CASE EnterRead(s)
  BY <1>6, ReadTypes DEF EnterRead
<1>7. CASE EnterWrite(s)
  <2>1. read[s].enter \in Lists
    OBVIOUS
  <2>2. Added(read[s].enter, s) \in Lists
    BY <2>1
  <2> QED
    BY <1>7, <2>2, ReadTypes DEF EnterWrite
<1>8. CASE EnterToggle(s)
  BY <1>8, GotoTypes DEF EnterToggle
<1>9. CASE Leave(s)
  BY <1>9, GotoTypes DEF Leave
<1>10. CASE LeaveDel(s)
  BY <1>10, GotoTypes DEF LeaveDel
<1>11. CASE LeaveToggle(s)
  BY <1>11, GotoTypes DEF LeaveToggle
<1>12. CASE Depart(s)
  BY <1>12, GotoTypes DEF Depart, FirstOfDepart
<1>13. CASE DepartRead(s)
  BY <1>13, ReadTypes DEF DepartRead, ListOf
<1>14. CASE DepartWrite(s)
  <2>1. read[s].depart \in Lists /\ read[s].depart # NoList
    BY <1>14 DEF DepartWrite, ListFound
  <2>2. read[s].depart \ {s} \in Lists
    BY <2>1
  <2>3. pc' \in [Sockets -> [Ops -> Points]] /\ ListFound'
        /\ read' \in [Sockets -> [Ops -> Lists]]
    BY <1>14, ReadTypes DEF DepartWrite
  <2> QED
    BY <1>14, <2>2, <2>3 DEF DepartWrite
<1>15. CASE DepartLook(s)
  BY <1>15, GotoTypes DEF DepartLook
<1>16. CASE DepartToggle(s)
  BY <1>16, GotoTypes DEF DepartToggle
<1>17. CASE DepartDel(s)
  BY <1>17, GotoTypes DEF DepartDel
<1>18. CASE DepartRemove(s)
  BY <1>18, GotoTypes DEF DepartRemove
<1> QED
  BY <1>1, <1>2, <1>3, <1>4, <1>5, <1>6, <1>7, <1>8, <1>9, <1>10, <1>11, <1>12,
     <1>13, <1>14, <1>15, <1>16, <1>17, <1>18 DEF SocketStep

\* A step of changeViewersCounter, or an added toggle, keeps those of the count.
LEMMA CountTypesStep ==
  ASSUME CountTypes, HistoryTypes, [Next]_vars
  PROVE  CountTypes' /\ HistoryTypes'
<1> USE DEF CountTypes, HistoryTypes
<1>1. ASSUME NEW kind \in {"incr", "decr"}, AddToggle(kind)
      PROVE  toggles' \in [incr : Nat, decr : Nat] /\ asked' \in Int
  BY <1>1 DEF AddToggle, Step
<1>2. ASSUME NEW s \in Sockets, SocketStep(s)
      PROVE  CountTypes' /\ HistoryTypes'
  <2>1. CASE ArriveRead(s)
    BY <2>1 DEF ArriveRead, jobs, history
  <2>2. CASE ArriveWrite(s)
    BY <2>2 DEF ArriveWrite, jobs, Tear
  <2>3. CASE ArriveAdd(s)
    BY <2>3 DEF ArriveAdd, jobs, history
  <2>4. CASE Enter(s)
    BY <2>4 DEF Enter, Start, jobs
  <2>5. CASE EnterSet(s)
    BY <2>5 DEF EnterSet, jobs, history
  <2>6. CASE EnterRead(s)
    BY <2>6 DEF EnterRead, jobs, history
  <2>7. CASE EnterWrite(s)
    BY <2>7 DEF EnterWrite, jobs, Tear
  <2>8. CASE EnterToggle(s)
    BY <2>8, <1>1 DEF EnterToggle
  <2>9. CASE Leave(s)
    BY <2>9 DEF Leave, Start, jobs
  <2>10. CASE LeaveDel(s)
    BY <2>10 DEF LeaveDel, jobs, history
  <2>11. CASE LeaveToggle(s)
    BY <2>11, <1>1 DEF LeaveToggle
  <2>12. CASE Depart(s)
    BY <2>12 DEF Depart, jobs
  <2>13. CASE DepartRead(s)
    BY <2>13 DEF DepartRead, jobs, history
  <2>14. CASE DepartWrite(s)
    BY <2>14 DEF DepartWrite, jobs, Tear
  <2>15. CASE DepartLook(s)
    BY <2>15 DEF DepartLook, jobs, history
  <2>16. CASE DepartToggle(s)
    BY <2>16, <1>1 DEF DepartToggle
  <2>17. CASE DepartDel(s)
    BY <2>17 DEF DepartDel, jobs, history
  <2>18. CASE DepartRemove(s)
    BY <2>18 DEF DepartRemove, jobs, history
  <2> QED
    BY <1>2, <2>1, <2>2, <2>3, <2>4, <2>5, <2>6, <2>7, <2>8, <2>9, <2>10, <2>11,
       <2>12, <2>13, <2>14, <2>15, <2>16, <2>17, <2>18 DEF SocketStep
<1>3. ASSUME NEW w \in Workers, CountStep(w)
      PROVE  CountTypes' /\ HistoryTypes'
  <2>1. CASE Toggle(w)
    BY <2>1 DEF Toggle, Step
  <2>2. CASE ToggleRead(w)
    BY <2>2 DEF ToggleRead, NotBelowZero
  <2>3. CASE ToggleWrite(w)
    BY <2>3 DEF ToggleWrite, history
  <2>4. CASE ToggleSend(w)
    BY <2>4 DEF ToggleSend, history
  <2>5. CASE Crash(w)
    BY <2>5 DEF Crash
  <2> QED
    BY <1>3, <2>1, <2>2, <2>3, <2>4, <2>5 DEF CountStep
<1>4. ASSUME UNCHANGED vars
      PROVE  CountTypes' /\ HistoryTypes'
  BY <1>4 DEF vars, jobs, history
<1> QED
  BY <1>2, <1>3, <1>4 DEF Next, SocketStep, CountStep

\* A step of the count leaves what the handlers of the sockets change.
LEMMA CountKeepsHandlers ==
  ASSUME HandlerTypes, ListFound, NEW w \in Workers, CountStep(w)
  PROVE  HandlerTypes' /\ ListFound'
BY DEF CountStep, Toggle, ToggleRead, ToggleWrite, ToggleSend, Crash,
       HandlerTypes, ListFound, handlers, lists

\* TypeOK holds at first together with ListFound ...
LEMMA TypesInit == Init => HandlerTypes /\ ListFound /\ CountTypes /\ HistoryTypes
<1> SUFFICES ASSUME Init
             PROVE  HandlerTypes /\ ListFound /\ CountTypes /\ HistoryTypes
  OBVIOUS
<1>1. HandlerTypes /\ ListFound
  BY DEF Init, HandlerTypes, ListFound, Points, Ops, Lists
<1>2. HistoryTypes /\ left \in [message : Nat, crash : Nat]
  BY PresenceAssumption DEF Init, HistoryTypes
<1>3. toggles \in [incr : Nat, decr : Nat]
  BY DEF Init
<1>4. CountTypes
  BY <1>2, <1>3 DEF Init, CountTypes
<1> QED
  BY <1>1, <1>2, <1>4

\* ... and both are inductive.
LEMMA TypesStep ==
  ASSUME HandlerTypes, ListFound, CountTypes, HistoryTypes, [Next]_vars
  PROVE  HandlerTypes' /\ ListFound' /\ CountTypes' /\ HistoryTypes'
<1>1. CountTypes' /\ HistoryTypes'
  BY CountTypesStep
<1>2. ASSUME NEW s \in Sockets, SocketStep(s)
      PROVE  HandlerTypes' /\ ListFound'
  BY <1>2, SocketTypes, PresenceAssumption
<1>3. ASSUME NEW w \in Workers, CountStep(w)
      PROVE  HandlerTypes' /\ ListFound'
  BY <1>3, CountKeepsHandlers
<1>4. ASSUME UNCHANGED vars
      PROVE  HandlerTypes' /\ ListFound'
  BY <1>4 DEF vars, handlers, lists, HandlerTypes, ListFound
<1> QED
  BY <1>1, <1>2, <1>3, <1>4 DEF Next, SocketStep, CountStep

\* Every variable keeps its type, however many sockets, slots and messages:
\* what the handlers of event.gateway.ts and changeViewersCounter read and
\* write back is a list or a count.
THEOREM TypesKept == Spec => []TypeOK
<1>1. HandlerTypes /\ ListFound /\ CountTypes /\ HistoryTypes => TypeOK
  BY DEF HandlerTypes, CountTypes, HistoryTypes, TypeOK
<1> QED
  BY <1>1, TypesInit, TypesStep, PTL DEF Spec

\* A count below zero has a toggle that is still to write it back, or one that
\* is to be run again; what is written back is not below zero.
LEMMA NotNegativeStep ==
  ASSUME CountTypes, NotNegative, [Next]_vars
  PROVE  NotNegative'
<1> USE DEF CountTypes, NotNegative
<1>1. ASSUME UNCHANGED <<counter, at>>, \A kind \in {"incr", "decr"} :
               toggles'[kind] = toggles[kind] \/ toggles'[kind] = toggles[kind] + 1,
             toggles' \in [incr : Nat, decr : Nat]
      PROVE  NotNegative'
  BY <1>1
<1>2. ASSUME NEW s \in Sockets, SocketStep(s)
      PROVE  NotNegative'
  <2>1. CASE EnterToggle(s) \/ LeaveToggle(s) \/ DepartToggle(s)
    BY <2>1, <1>1 DEF EnterToggle, LeaveToggle, DepartToggle, AddToggle
  <2>2. CASE UNCHANGED jobs /\ UNCHANGED counter
    BY <2>2, <1>1 DEF jobs
  <2>3. (UNCHANGED jobs /\ UNCHANGED counter)
          \/ EnterToggle(s) \/ LeaveToggle(s) \/ DepartToggle(s)
    BY <1>2 DEF SocketStep, ArriveRead, ArriveWrite, ArriveAdd, Enter, EnterSet,
       EnterRead, EnterWrite, Leave, LeaveDel, Depart, DepartRead, DepartWrite,
       DepartLook, DepartDel, DepartRemove
  <2> QED
    BY <2>1, <2>2, <2>3
<1>3. ASSUME NEW w \in Workers, CountStep(w)
      PROVE  NotNegative'
  <2>1. CASE Toggle(w)
    BY <2>1 DEF Toggle
  <2>2. CASE ToggleRead(w)
    BY <2>2 DEF ToggleRead
  <2>3. CASE ToggleWrite(w)
    BY <2>3 DEF ToggleWrite
  <2>4. CASE ToggleSend(w)
    BY <2>4 DEF ToggleSend
  <2>5. CASE Crash(w)
    BY <2>5 DEF Crash
  <2> QED
    BY <1>3, <2>1, <2>2, <2>3, <2>4, <2>5 DEF CountStep
<1>4. ASSUME UNCHANGED vars
      PROVE  NotNegative'
  BY <1>4 DEF vars, jobs
<1> QED
  BY <1>2, <1>3, <1>4 DEF Next, SocketStep, CountStep

\* The count of viewers is not negative once no toggle waits or runs, however
\* many handlers of changeViewersCounter overlap and die (event.service.ts,
\* toggleViewersCounter).
THEOREM CountNotNegative == Spec => []NotNegative
<1>1. Init => NotNegative
  BY DEF Init, NotNegative
<1> QED
  BY <1>1, TypesInit, TypesStep, NotNegativeStep, PTL DEF Spec
-----------------------------------------------------------------------------
\* Who is gone

\* Where each handler of each socket is after a step of one of them.
LEMMA GotoFacts ==
  ASSUME HandlerTypes, NEW s \in Sockets, NEW op \in Ops, NEW point, Goto(s, op, point)
  PROVE  /\ \A t \in Sockets, o \in Ops : pc'[t][o] = IF t = s /\ o = op THEN point ELSE pc[t][o]
         /\ \A t \in Sockets : pc'[t].arrive = IF t = s /\ op = "arrive" THEN point ELSE pc[t].arrive
         /\ \A t \in Sockets : pc'[t].enter = IF t = s /\ op = "enter" THEN point ELSE pc[t].enter
         /\ \A t \in Sockets : pc'[t].leave = IF t = s /\ op = "leave" THEN point ELSE pc[t].leave
         /\ \A t \in Sockets : pc'[t].depart = IF t = s /\ op = "depart" THEN point ELSE pc[t].depart
BY DEF HandlerTypes, Goto, Ops

\* A disconnected socket has begun to clean up after itself, and nobody else has.
Departed == \A s \in Sockets : s \notin alive <=> pc[s].depart # "idle"
\* Unless something was under way when it left, nothing lists it again.
GoneInv ==
  /\ Departed
  /\ again \/ \A s \in Sockets :
       /\ s \notin alive => pc[s].arrive = "idle"
       /\ pc[s].depart = "done" => s \notin everyone

\* A step of the count leaves the handlers, the lists and again alone.
LEMMA CountLeaves ==
  ASSUME NEW w \in Workers, CountStep(w)
  PROVE  UNCHANGED <<pc, read, hasEvent, alive, connected, attendees, admins, everyone, asked, again, torn>>
BY DEF CountStep, Toggle, ToggleRead, ToggleWrite, ToggleSend, Crash, handlers, lists, history

\* Each step of a handler of a socket keeps what is known of those who are gone.
LEMMA GoneSocketStep ==
  ASSUME HandlerTypes, GoneInv, NEW s \in Sockets, SocketStep(s)
  PROVE  GoneInv'
<1> USE GotoFacts DEF GoneInv, Departed
<1>0. /\ "arrive" \in Ops /\ "enter" \in Ops /\ "leave" \in Ops /\ "depart" \in Ops
  BY DEF Ops
<1>1. CASE ArriveRead(s)
  BY <1>0, <1>1 DEF ArriveRead, history
<1>2. CASE ArriveWrite(s)
  BY <1>0, <1>2 DEF ArriveWrite, history
<1>3. CASE ArriveAdd(s)
  BY <1>0, <1>3 DEF ArriveAdd, history
<1>4. CASE Enter(s)
  <2>1. Start(s, "enter") /\ Goto(s, "enter", "hset") /\ UNCHANGED <<alive, everyone>>
    BY <1>4 DEF Enter
  <2>2. s \in alive /\ (again => again')
    BY <2>1, Zenon DEF Start
  <2> QED
    BY <1>0, <2>1, <2>2
<1>5. CASE EnterSet(s)
  BY <1>0, <1>5 DEF EnterSet, history
<1>6. CASE EnterRead(s)
  BY <1>0, <1>6 DEF EnterRead, history
<1>7. CASE EnterWrite(s)
  BY <1>0, <1>7 DEF EnterWrite, history
<1>8. CASE EnterToggle(s)
  BY <1>0, <1>8 DEF EnterToggle, history
<1>9. CASE Leave(s)
  <2>1. Start(s, "leave") /\ Goto(s, "leave", "hdel") /\ UNCHANGED <<alive, everyone>>
    BY <1>9 DEF Leave
  <2>2. s \in alive /\ (again => again')
    BY <2>1, Zenon DEF Start
  <2> QED
    BY <1>0, <2>1, <2>2
<1>10. CASE LeaveDel(s)
  BY <1>0, <1>10 DEF LeaveDel, history
<1>11. CASE LeaveToggle(s)
  BY <1>0, <1>11 DEF LeaveToggle, history
<1>12. CASE Depart(s)
  <2> PICK point : point = FirstOfDepart(s)
    OBVIOUS
  <2>1. /\ s \in alive /\ alive' = alive \ {s} /\ everyone' = everyone
        /\ again' = (again \/ Running(s) # {}) /\ Goto(s, "depart", point)
    BY <1>12 DEF Depart
  <2>2. point \in {"listRead", "srem"}
    BY DEF FirstOfDepart
  <2>3. pc[s].arrive # "idle" => "arrive" \in Running(s)
    BY <1>0 DEF Running
  <2>4. (again => again') /\ (again' \/ pc[s].arrive = "idle")
    BY <2>1, <2>3, Zenon
  <2> QED
    BY <1>0, <2>1, <2>2, <2>4
<1>13. CASE DepartRead(s)
  <2> PICK point : point = IF ListOf(s) = NoList THEN "thrown" ELSE "listWrite"
    OBVIOUS
  <2>1. /\ pc[s].depart = "listRead" /\ Goto(s, "depart", point)
        /\ UNCHANGED <<alive, everyone, again>>
    BY <1>13 DEF DepartRead, history
  <2>2. point \in {"thrown", "listWrite"}
    OBVIOUS
  <2> QED
    BY <1>0, <2>1, <2>2
<1>14. CASE DepartWrite(s)
  BY <1>0, <1>14 DEF DepartWrite, history
<1>15. CASE DepartLook(s)
  <2> PICK point : point = IF StillConnected(s) THEN "add" ELSE "srem"
    OBVIOUS
  <2>1. /\ pc[s].depart = "hget" /\ Goto(s, "depart", point)
        /\ UNCHANGED <<alive, everyone, again>>
    BY <1>15 DEF DepartLook, history
  <2>2. point \in {"add", "srem"}
    OBVIOUS
  <2> QED
    BY <1>0, <2>1, <2>2
<1>16. CASE DepartToggle(s)
  BY <1>0, <1>16 DEF DepartToggle, history
<1>17. CASE DepartDel(s)
  BY <1>0, <1>17 DEF DepartDel, history
<1>18. CASE DepartRemove(s)
  BY <1>0, <1>18 DEF DepartRemove, history
<1> QED
  BY <1>1, <1>2, <1>3, <1>4, <1>5, <1>6, <1>7, <1>8, <1>9, <1>10, <1>11, <1>12, <1>13, <1>14, <1>15, <1>16, <1>17, <1>18 DEF SocketStep

\* What is known of those who are gone holds at first ...
LEMMA GoneInit == Init => GoneInv
BY DEF Init, GoneInv, Departed, Ops

\* ... and is inductive.
LEMMA GoneStep ==
  ASSUME HandlerTypes, GoneInv, [Next]_vars
  PROVE  GoneInv'
<1>1. ASSUME NEW s \in Sockets, SocketStep(s) PROVE GoneInv'
  BY <1>1, GoneSocketStep
<1>2. ASSUME NEW w \in Workers, CountStep(w) PROVE GoneInv'
  BY <1>2, CountLeaves DEF GoneInv, Departed
<1>3. CASE UNCHANGED vars
  BY <1>3 DEF vars, handlers, history, GoneInv, Departed
<1> QED
  BY <1>1, <1>2, <1>3 DEF Next, SocketStep, CountStep

\* A socket that is gone is off the connected users (handleDisconnect, SREM)
\* unless JSON.parse threw, or a handler was under way when it left.
THEOREM GoneAreRemoved == Spec => []GoneOrThrown
<1>1. HandlerTypes /\ GoneInv => GoneOrThrown
  <2> SUFFICES ASSUME HandlerTypes, GoneInv, Quiet, NEW s \in everyone \ alive, ~again
               PROVE  pc[s].depart = "thrown"
    BY DEF GoneOrThrown
  <2>1. s \in Sockets /\ pc[s].depart # "idle" /\ pc[s].depart # "done"
    BY DEF HandlerTypes, GoneInv, Departed
  <2>2. pc[s].depart \in {"idle", "done", "thrown"}
    BY <2>1 DEF Quiet, HandlersDone, Ops
  <2> QED
    BY <2>1, <2>2
<1> QED
  BY <1>1, GoneInit, GoneStep, TypesInit, TypesStep, PTL DEF Spec

-----------------------------------------------------------------------------
\* Who is told

\* What each handler of each socket has read after one of them reads or forgets.
LEMMA ReadFacts ==
  ASSUME HandlerTypes, NEW s \in Sockets, NEW op \in Ops, NEW list, Read(s, op, list)
  PROVE  \A t \in Sockets, o \in Ops :
           read'[t][o] = IF t = s /\ o = op THEN list ELSE read[t][o]
BY DEF HandlerTypes, Read, Ops

\* A handler about to write back the list of viewers, and a socket it lists.
Listing(s, op) == pc[s][op] = "listWrite" /\ ListName(s, op) = "attendees"
Told(s) == attendees # NoList /\ s \in attendees
Listed(s) == pc[s].enter \in {"listRead", "listWrite"} \/ Told(s)

\* While no list was torn, what is written back is what still stands there, and
\* a socket in the live is listed or about to be.
ViewersInv ==
  torn \/ /\ \A s \in Sockets : \A op \in Ops : Listing(s, op) => read[s][op] = attendees
          /\ \A s \in connected \cap alive : Listed(s)

\* Most steps neither read nor write a list, and let nobody in.
LEMMA MoveKeepsViewers ==
  ASSUME HandlerTypes, ViewersInv, NEW s \in Sockets, NEW op \in Ops, NEW point,
         Goto(s, op, point), point # "listWrite",
         op = "enter" => pc[s].enter \notin {"listRead", "listWrite"},
         UNCHANGED <<read, attendees, torn>>,
         connected' \cap alive' \subseteq connected \cap alive
  PROVE  ViewersInv'
BY GotoFacts DEF HandlerTypes, ViewersInv, Listing, Listed, Told

\* One that reads a list reads what stands there.
LEMMA ReadKeepsViewers ==
  ASSUME HandlerTypes, ViewersInv, NEW s \in Sockets, NEW op \in Ops, NEW point, NEW list,
         Goto(s, op, point), Read(s, op, list),
         point = "listWrite" /\ ListName(s, op) = "attendees" => list = attendees,
         op = "enter" => point = "listWrite",
         UNCHANGED <<attendees, torn, connected, alive>>
  PROVE  ViewersInv'
<1>1. ASSUME NEW t \in Sockets, NEW o \in Ops, Listing(t, o)', ~torn
      PROVE  read'[t][o] = attendees'
  BY <1>1, GotoFacts, ReadFacts DEF ViewersInv, Listing
<1>2. ASSUME NEW t \in connected \cap alive, ~torn
      PROVE  Listed(t)'
  BY <1>2, GotoFacts DEF HandlerTypes, ViewersInv, Listed, Told
<1> QED
  BY <1>1, <1>2 DEF ViewersInv

\* One that writes back a list leaves no other about to do so, unless it tears.
LEMMA WriteKeepsViewers ==
  ASSUME HandlerTypes, ViewersInv, NEW s \in Sockets, NEW op \in Ops, NEW point,
         Goto(s, op, point), point # "listWrite", pc[s][op] = "listWrite",
         Read(s, op, NoList), Tear(s, op), UNCHANGED <<connected, alive>>,
         ListName(s, op) = "admins" => attendees' = attendees /\ op # "enter",
         ListName(s, op) = "attendees" =>
           attendees' # NoList /\ \A t \in connected \cap alive :
             t \in attendees' \/ (t # s /\ ~Told(t)) \/ torn
  PROVE  ViewersInv'
<1> SUFFICES ASSUME ~torn' PROVE ViewersInv'
  BY DEF ViewersInv
<1>1. /\ ~torn /\ \A t \in Sockets : \A o \in Ops :
           pc[t][o] = "listWrite" /\ <<t, o>> # <<s, op>> => ListName(t, o) # ListName(s, op)
  BY DEF Tear
<1>2. /\ \A t \in Sockets : \A o \in Ops : Listing(t, o) => read[t][o] = attendees
      /\ \A t \in connected \cap alive : Listed(t)
  BY <1>1 DEF ViewersInv
<1>3. "enter" \in Ops /\ ListName(s, op) \in {"admins", "attendees"}
  BY DEF Ops, ListName
<1>4. ASSUME NEW t \in Sockets, NEW o \in Ops, Listing(t, o)'
      PROVE  read'[t][o] = attendees'
  <2>1. ~(t = s /\ o = op) /\ Listing(t, o)
    BY <1>4, GotoFacts DEF Listing
  <2>2. ListName(s, op) = "admins"
    BY <1>1, <1>3, <2>1 DEF Listing
  <2> QED
    BY <1>2, <2>1, <2>2, ReadFacts
<1>5. ASSUME NEW t \in connected \cap alive
      PROVE  Listed(t)'
  <2>0. t \in Sockets
    BY DEF HandlerTypes
  <2>1. CASE ListName(s, op) = "admins"
    BY <1>2, <2>0, <2>1, GotoFacts DEF Listed, Told
  <2>2. CASE ListName(s, op) = "attendees"
    <3>1. CASE t \in attendees'
      BY <2>2, <3>1 DEF Listed, Told
    <3>2. CASE t # s /\ ~Told(t)
      BY <1>2, <2>0, <3>2, GotoFacts DEF Listed
    <3> QED
      BY <1>1, <2>2, <3>1, <3>2
  <2> QED
    BY <1>3, <2>1, <2>2
<1> QED
  BY <1>4, <1>5 DEF ViewersInv

\* Each step of a handler of a socket keeps the viewers listed.
LEMMA ViewersSocketStep ==
  ASSUME HandlerTypes, ListFound, Departed, ViewersInv, NEW s \in Sockets, SocketStep(s)
  PROVE  ViewersInv'
<1>0. /\ "arrive" \in Ops /\ "enter" \in Ops /\ "leave" \in Ops /\ "depart" \in Ops
  BY DEF Ops
<1>1. CASE ArriveRead(s)
  BY <1>0, <1>1, ReadKeepsViewers DEF ArriveRead, lists, history, ListName
<1>2. CASE ArriveWrite(s)
  BY <1>0, <1>2, WriteKeepsViewers DEF ArriveWrite, ListName
<1>3. CASE ArriveAdd(s)
  BY <1>0, <1>3, MoveKeepsViewers DEF ArriveAdd, lists, history
<1>4. CASE Enter(s)
  <2>1. /\ pc[s].enter = "idle" /\ Goto(s, "enter", "hset")
        /\ UNCHANGED <<read, alive, connected, attendees, torn>>
    BY <1>4 DEF Enter, Start, lists
  <2> QED
    BY <1>0, <2>1, MoveKeepsViewers
<1>5. CASE EnterSet(s)
  <2>1. ASSUME NEW t \in Sockets, NEW o \in Ops, Listing(t, o)', ~torn
        PROVE  read'[t][o] = attendees'
    BY <1>0, <1>5, <2>1, GotoFacts DEF EnterSet, lists, ViewersInv, Listing
  <2>2. ASSUME NEW t \in (connected \cup {s}) \cap alive, ~torn
        PROVE  Listed(t)'
    <3>0. t \in Sockets
      BY DEF HandlerTypes
    <3>1. CASE t = s
      BY <1>0, <1>5, <3>0, <3>1, GotoFacts DEF EnterSet, Listed
    <3>2. CASE t # s
      BY <1>0, <1>5, <2>2, <3>0, <3>2, GotoFacts DEF EnterSet, lists, ViewersInv, Listed, Told
    <3> QED
      BY <3>1, <3>2
  <2> QED
    BY <1>5, <2>1, <2>2 DEF EnterSet, history, ViewersInv
<1>6. CASE EnterRead(s)
  BY <1>0, <1>6, ReadKeepsViewers DEF EnterRead, lists, history
<1>7. CASE EnterWrite(s)
  <2>1. /\ pc[s].enter = "listWrite" /\ attendees' = Added(read[s].enter, s)
        /\ Goto(s, "enter", "add") /\ Read(s, "enter", NoList) /\ Tear(s, "enter")
        /\ UNCHANGED <<connected, alive>> /\ ListName(s, "enter") = "attendees"
    BY <1>7 DEF EnterWrite, ListName
  <2>2. torn \/ read[s].enter = attendees
    BY <1>0, <2>1 DEF ViewersInv, Listing
  <2>3. /\ attendees' \in SUBSET Sockets /\ s \in attendees'
        /\ read[s].enter # NoList => read[s].enter \subseteq attendees'
    <3>1. read[s].enter \in Lists
      BY <1>0 DEF HandlerTypes
    <3> QED
      BY <2>1, <3>1 DEF Added, Lists
  <2>4. attendees' # NoList
    BY <2>3, PresenceAssumption
  <2>5. ASSUME NEW t \in connected \cap alive
        PROVE  t \in attendees' \/ (t # s /\ ~Told(t)) \/ torn
    BY <2>2, <2>3 DEF Told
  <2> QED
    BY <1>0, <2>1, <2>4, <2>5, WriteKeepsViewers
<1>8. CASE EnterToggle(s)
  BY <1>0, <1>8, MoveKeepsViewers DEF EnterToggle, lists
<1>9. CASE Leave(s)
  BY <1>0, <1>9, MoveKeepsViewers DEF Leave, lists
<1>10. CASE LeaveDel(s)
  BY <1>0, <1>10, MoveKeepsViewers DEF LeaveDel, lists, history
<1>11. CASE LeaveToggle(s)
  BY <1>0, <1>11, MoveKeepsViewers DEF LeaveToggle, lists
<1>12. CASE Depart(s)
  <2>1. FirstOfDepart(s) # "listWrite"
    BY DEF FirstOfDepart
  <2> QED
    BY <1>0, <1>12, <2>1, MoveKeepsViewers DEF Depart, lists
<1>13. CASE DepartRead(s)
  <2> PICK point : point = IF ListOf(s) = NoList THEN "thrown" ELSE "listWrite"
    OBVIOUS
  <2>1. ListName(s, "depart") = "attendees" => ListOf(s) = attendees
    BY DEF ListName, ListOf
  <2>2. /\ Goto(s, "depart", point) /\ Read(s, "depart", ListOf(s))
        /\ UNCHANGED <<attendees, torn, connected, alive>>
    BY <1>13 DEF DepartRead, lists, history
  <2> QED
    BY <1>0, <2>1, <2>2, ReadKeepsViewers
<1>14. CASE DepartWrite(s)
  <2>1. /\ pc[s].depart = "listWrite" /\ Goto(s, "depart", "hget")
        /\ Read(s, "depart", NoList) /\ Tear(s, "depart") /\ UNCHANGED <<connected, alive>>
    BY <1>14 DEF DepartWrite
  <2>2. ListName(s, "depart") = "admins" => attendees' = attendees
    BY <1>14 DEF DepartWrite, ListName
  <2>3. ASSUME ListName(s, "depart") = "attendees"
        PROVE  /\ attendees' # NoList
               /\ \A t \in connected \cap alive :
                    t \in attendees' \/ (t # s /\ ~Told(t)) \/ torn
    <3>1. attendees' = read[s].depart \ {s}
      BY <1>14, <2>3 DEF DepartWrite, ListName
    <3>2. torn \/ read[s].depart = attendees
      BY <1>0, <2>1, <2>3 DEF ViewersInv, Listing
    <3>3. read[s].depart \in Lists /\ read[s].depart # NoList
      BY <1>0, <2>1 DEF HandlerTypes, ListFound
    <3>4. attendees' # NoList
      BY <3>1, <3>3, PresenceAssumption DEF Lists
    <3>5. s \notin alive
      BY <2>1 DEF Departed
    <3> QED
      BY <3>1, <3>2, <3>4, <3>5 DEF Told
  <2> QED
    BY <1>0, <2>1, <2>2, <2>3, WriteKeepsViewers
<1>15. CASE DepartLook(s)
  <2> PICK point : point = IF StillConnected(s) THEN "add" ELSE "srem"
    OBVIOUS
  <2>1. /\ Goto(s, "depart", point)
        /\ UNCHANGED <<read, attendees, torn, connected, alive>>
    BY <1>15 DEF DepartLook, lists, history
  <2> QED
    BY <1>0, <2>1, MoveKeepsViewers
<1>16. CASE DepartToggle(s)
  BY <1>0, <1>16, MoveKeepsViewers DEF DepartToggle, lists
<1>17. CASE DepartDel(s)
  BY <1>0, <1>17, MoveKeepsViewers DEF DepartDel, lists, history
<1>18. CASE DepartRemove(s)
  BY <1>0, <1>18, MoveKeepsViewers DEF DepartRemove, lists, history
<1> QED
  BY <1>1, <1>2, <1>3, <1>4, <1>5, <1>6, <1>7, <1>8, <1>9, <1>10, <1>11, <1>12,
     <1>13, <1>14, <1>15, <1>16, <1>17, <1>18 DEF SocketStep

\* A socket in the live is on the list of those that are told the count
\* (attendees, addToHashList) once nothing is under way, unless two handlers
\* have written the list over each other.
THEOREM ViewersAreTold == Spec => []ViewersTold
<1>1. Init => ViewersInv
  BY DEF Init, ViewersInv, Listing, ListName, Ops
<1>2. HandlerTypes /\ ListFound /\ GoneInv /\ ViewersInv /\ [Next]_vars => ViewersInv'
  <2> SUFFICES ASSUME HandlerTypes, ListFound, GoneInv, ViewersInv, [Next]_vars
               PROVE  ViewersInv'
    OBVIOUS
  <2>1. ASSUME NEW s \in Sockets, SocketStep(s) PROVE ViewersInv'
    BY <2>1, ViewersSocketStep DEF GoneInv
  <2>2. ASSUME NEW w \in Workers, CountStep(w) PROVE ViewersInv'
    BY <2>2, CountLeaves DEF ViewersInv, Listing, Listed, Told
  <2>3. CASE UNCHANGED vars
    BY <2>3 DEF vars, handlers, lists, history, ViewersInv, Listing, Listed, Told
  <2> QED
    BY <2>1, <2>2, <2>3 DEF Next, SocketStep, CountStep
<1>3. HandlerTypes /\ ViewersInv => ViewersTold
  <2> SUFFICES ASSUME HandlerTypes, ViewersInv, Quiet, ~torn, NEW s \in connected \cap alive
               PROVE  s \in attendees
    BY DEF ViewersTold
  <2>1. s \in Sockets /\ "enter" \in Ops
    BY DEF HandlerTypes, Ops
  <2>2. pc[s].enter \in {"idle", "done", "thrown"}
    BY <2>1 DEF Quiet, HandlersDone
  <2> QED
    BY <2>2 DEF ViewersInv, Listed, Told
<1> QED
  BY <1>1, <1>2, <1>3, GoneInit, GoneStep, TypesInit, TypesStep, PTL DEF Spec
-----------------------------------------------------------------------------
\* Who is counted

\* A socket whose toggle up is added and whose toggle down is not.
CountsOne(s) ==
  \/ /\ s \in connected
     /\ pc[s].enter \notin {"listRead", "listWrite", "add"} /\ pc[s].depart # "hdel"
  \/ pc[s].leave = "add"
Counted == {s \in Sockets : CountsOne(s)}

\* A socket that does one thing after another is in the live while it leaves,
\* and comes into it while it enters.
InOrder(s) ==
  /\ pc[s].depart # "idle" => pc[s].enter = "idle" /\ pc[s].leave = "idle"
  /\ pc[s].enter # "idle" => pc[s].leave = "idle"
  /\ pc[s].enter = "hset" => s \notin connected
  /\ pc[s].enter \in {"listRead", "listWrite", "add"} => s \in connected
  /\ pc[s].leave = "hdel" => s \in connected
  /\ pc[s].leave = "add" => s \notin connected
  /\ pc[s].depart \in {"add", "hdel"} => s \in connected

\* What the handlers have asked for is the sockets counted.
AskedInv ==
  again \/ (asked = Cardinality(Counted) /\ \A s \in Sockets : InOrder(s))

\* A step of one socket keeps that, if it keeps it for that socket.
LEMMA AskedKept ==
  ASSUME HandlerTypes, AskedInv, NEW s \in Sockets, NEW op \in Ops, NEW point,
         Goto(s, op, point), connected' \ {s} = connected \ {s}, again => again',
         again' \/ (InOrder(s)' /\ \/ asked' = asked /\ (CountsOne(s)' <=> CountsOne(s))
                                   \/ asked' = asked + 1 /\ ~CountsOne(s) /\ CountsOne(s)'
                                   \/ asked' = asked - 1 /\ CountsOne(s) /\ ~CountsOne(s)')
  PROVE  AskedInv'
<1> SUFFICES ASSUME ~again' PROVE AskedInv'
  BY DEF AskedInv
<1>1. asked = Cardinality(Counted) /\ \A t \in Sockets : InOrder(t)
  BY DEF AskedInv
<1>2. \A t \in Sockets \ {s} :
        /\ pc'[t].enter = pc[t].enter /\ pc'[t].leave = pc[t].leave
        /\ pc'[t].depart = pc[t].depart /\ (t \in connected' <=> t \in connected)
  BY GotoFacts
<1>3. \A t \in Sockets \ {s} : InOrder(t)' /\ (CountsOne(t)' <=> CountsOne(t))
  BY <1>1, <1>2 DEF InOrder, CountsOne
<1>4. \A t \in Sockets : InOrder(t)'
  BY <1>3
<1>5. IsFiniteSet(Counted) /\ Counted \subseteq Sockets
  BY PresenceAssumption, FS_Subset DEF Counted
<1>6. CASE asked' = asked /\ (CountsOne(s)' <=> CountsOne(s))
  <2>1. Counted' = Counted
    BY <1>3, <1>6 DEF Counted
  <2> QED
    BY <1>1, <1>4, <1>6, <2>1 DEF AskedInv
<1>7. CASE asked' = asked + 1 /\ ~CountsOne(s) /\ CountsOne(s)'
  <2>1. Counted' = Counted \cup {s} /\ s \notin Counted
    BY <1>3, <1>7 DEF Counted
  <2>2. Cardinality(Counted') = Cardinality(Counted) + 1
    BY <1>5, <2>1, FS_AddElement
  <2> QED
    BY <1>1, <1>4, <1>7, <2>2 DEF AskedInv
<1>8. CASE asked' = asked - 1 /\ CountsOne(s) /\ ~CountsOne(s)'
  <2>1. Counted' = Counted \ {s} /\ s \in Counted
    BY <1>3, <1>8 DEF Counted
  <2>2. Cardinality(Counted') = Cardinality(Counted) - 1
    BY <1>5, <2>1, FS_RemoveElement
  <2> QED
    BY <1>1, <1>4, <1>8, <2>2 DEF AskedInv
<1> QED
  BY <1>6, <1>7, <1>8

\* A socket starts a handler with none but handleConnection under way.
LEMMA StartsInOrder ==
  ASSUME Departed, NEW s \in Sockets, NEW op \in {"enter", "leave"}, Start(s, op)
  PROVE  /\ s \in alive /\ pc[s].depart = "idle" /\ (again => again')
         /\ \/ again'
            \/ pc[s].enter = "idle" /\ pc[s].leave = "idle" /\ (op = "enter" <=> s \notin connected)
<1>1. s \in alive /\ (again => again')
  BY Zenon DEF Start
<1>2. Running(s) \ {"arrive"} = {} => pc[s].enter = "idle" /\ pc[s].leave = "idle"
  BY DEF Running, Ops
<1>3. again' \/ Running(s) \ {"arrive"} = {}
  BY Zenon DEF Start
<1>4. again' \/ (op = "enter") # (s \in connected)
  BY Zenon DEF Start
<1>5. again' \/ (op = "enter" <=> s \notin connected)
  BY <1>4
<1> QED
  BY <1>1, <1>2, <1>3, <1>5 DEF Departed

\* Each step of a handler of a socket keeps the count of what was asked.
LEMMA AskedSocketStep ==
  ASSUME HandlerTypes, Departed, asked \in Int, AskedInv, NEW s \in Sockets, SocketStep(s)
  PROVE  AskedInv'
<1>0. /\ "arrive" \in Ops /\ "enter" \in Ops /\ "leave" \in Ops /\ "depart" \in Ops
  BY DEF Ops
<1>i. again \/ InOrder(s)
  BY DEF AskedInv
<1>1. CASE ArriveRead(s) \/ ArriveWrite(s) \/ ArriveAdd(s)
  <2>1. PICK point : Goto(s, "arrive", point) /\ UNCHANGED <<connected, asked, again>>
    BY <1>1 DEF ArriveRead, ArriveWrite, ArriveAdd, history
  <2>2. /\ pc'[s].enter = pc[s].enter /\ pc'[s].leave = pc[s].leave
        /\ pc'[s].depart = pc[s].depart
    BY <1>0, <2>1, GotoFacts
  <2>3. again \/ (InOrder(s)' /\ (CountsOne(s)' <=> CountsOne(s)))
    BY <1>i, <2>1, <2>2 DEF InOrder, CountsOne
  <2> QED
    BY <1>0, <2>1, <2>3, AskedKept
<1>2. CASE Enter(s)
  <2>1. Start(s, "enter") /\ Goto(s, "enter", "hset") /\ UNCHANGED <<connected, asked>>
    BY <1>2 DEF Enter
  <2>2. pc'[s].enter = "hset" /\ pc'[s].leave = pc[s].leave /\ pc'[s].depart = pc[s].depart
    BY <1>0, <2>1, GotoFacts
  <2>3. again' \/ (InOrder(s)' /\ (CountsOne(s)' <=> CountsOne(s)))
    BY <1>i, <2>1, <2>2, StartsInOrder DEF InOrder, CountsOne
  <2> QED
    BY <1>0, <2>1, <2>3, AskedKept, StartsInOrder
<1>3. CASE EnterSet(s)
  <2>1. /\ pc[s].enter = "hset" /\ Goto(s, "enter", "listRead")
        /\ connected' = connected \cup {s} /\ UNCHANGED <<asked, again>>
    BY <1>3 DEF EnterSet, history
  <2>2. pc'[s].enter = "listRead" /\ pc'[s].leave = pc[s].leave /\ pc'[s].depart = pc[s].depart
    BY <1>0, <2>1, GotoFacts
  <2>3. again \/ (InOrder(s)' /\ (CountsOne(s)' <=> CountsOne(s)))
    BY <1>i, <2>1, <2>2 DEF InOrder, CountsOne
  <2>4. connected' \ {s} = connected \ {s}
    BY <2>1
  <2> QED
    BY <1>0, <2>1, <2>3, <2>4, AskedKept
<1>4. CASE EnterRead(s) \/ EnterWrite(s)
  <2>1. PICK point \in {"listWrite", "add"} :
          /\ Goto(s, "enter", point) /\ pc[s].enter \in {"listRead", "listWrite"}
          /\ UNCHANGED <<connected, asked, again>>
    BY <1>4 DEF EnterRead, EnterWrite, history
  <2>2. pc'[s].enter = point /\ pc'[s].leave = pc[s].leave /\ pc'[s].depart = pc[s].depart
    BY <1>0, <2>1, GotoFacts
  <2>3. again \/ (InOrder(s)' /\ (CountsOne(s)' <=> CountsOne(s)))
    BY <1>i, <2>1, <2>2 DEF InOrder, CountsOne
  <2> QED
    BY <1>0, <2>1, <2>3, AskedKept
<1>5. CASE EnterToggle(s)
  <2>1. /\ pc[s].enter = "add" /\ Goto(s, "enter", "idle")
        /\ asked' = asked + 1 /\ UNCHANGED <<connected, again>>
    BY <1>5 DEF EnterToggle, AddToggle, Step
  <2>2. pc'[s].enter = "idle" /\ pc'[s].leave = pc[s].leave /\ pc'[s].depart = pc[s].depart
    BY <1>0, <2>1, GotoFacts
  <2>3. again \/ (InOrder(s)' /\ ~CountsOne(s) /\ CountsOne(s)')
    BY <1>i, <2>1, <2>2 DEF InOrder, CountsOne
  <2> QED
    BY <1>0, <2>1, <2>3, AskedKept
<1>6. CASE Leave(s)
  <2>1. Start(s, "leave") /\ Goto(s, "leave", "hdel") /\ UNCHANGED <<connected, asked>>
    BY <1>6 DEF Leave
  <2>2. pc'[s].leave = "hdel" /\ pc'[s].enter = pc[s].enter /\ pc'[s].depart = pc[s].depart
    BY <1>0, <2>1, GotoFacts
  <2>3. again' \/ (InOrder(s)' /\ (CountsOne(s)' <=> CountsOne(s)))
    BY <1>i, <2>1, <2>2, StartsInOrder DEF InOrder, CountsOne
  <2> QED
    BY <1>0, <2>1, <2>3, AskedKept, StartsInOrder
<1>7. CASE LeaveDel(s)
  <2>1. /\ pc[s].leave = "hdel" /\ Goto(s, "leave", "add")
        /\ connected' = connected \ {s} /\ UNCHANGED <<asked, again>>
    BY <1>7 DEF LeaveDel, history
  <2>2. pc'[s].leave = "add" /\ pc'[s].enter = pc[s].enter /\ pc'[s].depart = pc[s].depart
    BY <1>0, <2>1, GotoFacts
  <2>3. again \/ (InOrder(s)' /\ (CountsOne(s)' <=> CountsOne(s)))
    BY <1>i, <2>1, <2>2 DEF InOrder, CountsOne
  <2>4. connected' \ {s} = connected \ {s}
    BY <2>1
  <2> QED
    BY <1>0, <2>1, <2>3, <2>4, AskedKept
<1>8. CASE LeaveToggle(s)
  <2>1. /\ pc[s].leave = "add" /\ Goto(s, "leave", "idle")
        /\ asked' = asked - 1 /\ UNCHANGED <<connected, again>>
    BY <1>8 DEF LeaveToggle, AddToggle, Step
  <2>2. pc'[s].leave = "idle" /\ pc'[s].enter = pc[s].enter /\ pc'[s].depart = pc[s].depart
    BY <1>0, <2>1, GotoFacts
  <2>3. again \/ (InOrder(s)' /\ CountsOne(s) /\ ~CountsOne(s)')
    BY <1>i, <2>1, <2>2 DEF InOrder, CountsOne
  <2> QED
    BY <1>0, <2>1, <2>3, AskedKept
<1>9. CASE Depart(s)
  <2> PICK point : point = FirstOfDepart(s)
    OBVIOUS
  <2>1. /\ s \in alive /\ Goto(s, "depart", point) /\ UNCHANGED <<connected, asked>>
        /\ again' = (again \/ Running(s) # {})
    BY <1>9 DEF Depart
  <2>2. point \in {"listRead", "srem"}
    BY DEF FirstOfDepart
  <2>3. pc'[s].depart = point /\ pc'[s].enter = pc[s].enter /\ pc'[s].leave = pc[s].leave
    BY <1>0, <2>1, GotoFacts
  <2>4. Running(s) = {} => pc[s].enter = "idle" /\ pc[s].leave = "idle"
    BY <1>0 DEF Running
  <2>5. (again => again') /\ (again' \/ (pc[s].enter = "idle" /\ pc[s].leave = "idle"))
    BY <2>1, <2>4, Zenon
  <2>6. pc[s].depart = "idle"
    BY <2>1 DEF Departed
  <2>7. again' \/ (InOrder(s)' /\ (CountsOne(s)' <=> CountsOne(s)))
    BY <1>i, <2>1, <2>2, <2>3, <2>5, <2>6 DEF InOrder, CountsOne
  <2> QED
    BY <1>0, <2>1, <2>5, <2>7, AskedKept
<1>10. CASE DepartRead(s) \/ DepartWrite(s) \/ DepartLook(s) \/ DepartRemove(s)
  <2> PICK found : found = IF ListOf(s) = NoList THEN "thrown" ELSE "listWrite"
    OBVIOUS
  <2> PICK next : next = IF StillConnected(s) THEN "add" ELSE "srem"
    OBVIOUS
  <2>1. /\ UNCHANGED <<connected, asked, again>>
        /\ \/ pc[s].depart = "listRead" /\ Goto(s, "depart", found)
           \/ pc[s].depart = "listWrite" /\ Goto(s, "depart", "hget")
           \/ pc[s].depart = "hget" /\ Goto(s, "depart", next)
           \/ pc[s].depart = "srem" /\ Goto(s, "depart", "done")
    BY <1>10 DEF DepartRead, DepartWrite, DepartLook, DepartRemove, history
  <2>2. PICK point : /\ Goto(s, "depart", point) /\ point \notin {"hdel", "idle"}
                     /\ point = "add" => s \in connected
                     /\ pc[s].depart \notin {"hdel", "idle"}
    BY <2>1 DEF StillConnected
  <2>3. pc'[s].depart = point /\ pc'[s].enter = pc[s].enter /\ pc'[s].leave = pc[s].leave
    BY <1>0, <2>2, GotoFacts
  <2>4. again \/ (InOrder(s)' /\ (CountsOne(s)' <=> CountsOne(s)))
    BY <1>i, <2>1, <2>2, <2>3 DEF InOrder, CountsOne
  <2> QED
    BY <1>0, <2>1, <2>2, <2>4, AskedKept
<1>11. CASE DepartToggle(s)
  <2>1. /\ pc[s].depart = "add" /\ Goto(s, "depart", "hdel")
        /\ asked' = asked - 1 /\ UNCHANGED <<connected, again>>
    BY <1>11 DEF DepartToggle, AddToggle, Step
  <2>2. pc'[s].depart = "hdel" /\ pc'[s].enter = pc[s].enter /\ pc'[s].leave = pc[s].leave
    BY <1>0, <2>1, GotoFacts
  <2>3. again \/ (InOrder(s)' /\ CountsOne(s) /\ ~CountsOne(s)')
    BY <1>i, <2>1, <2>2 DEF InOrder, CountsOne
  <2> QED
    BY <1>0, <2>1, <2>3, AskedKept
<1>12. CASE DepartDel(s)
  <2>1. /\ pc[s].depart = "hdel" /\ Goto(s, "depart", "srem")
        /\ connected' = connected \ {s} /\ UNCHANGED <<asked, again>>
    BY <1>12 DEF DepartDel, history
  <2>2. pc'[s].depart = "srem" /\ pc'[s].enter = pc[s].enter /\ pc'[s].leave = pc[s].leave
    BY <1>0, <2>1, GotoFacts
  <2>3. again \/ (InOrder(s)' /\ (CountsOne(s)' <=> CountsOne(s)))
    BY <1>i, <2>1, <2>2 DEF InOrder, CountsOne
  <2>4. connected' \ {s} = connected \ {s}
    BY <2>1
  <2> QED
    BY <1>0, <2>1, <2>3, <2>4, AskedKept
<1> QED
  BY <1>1, <1>2, <1>3, <1>4, <1>5, <1>6, <1>7, <1>8, <1>9, <1>10, <1>11, <1>12 DEF SocketStep

\* Toggles that never overlapped: at most one counts at a time, and what it has
\* read still stands; those that wait are all that the count lacks.
TogglesInv ==
  overlapped \/ clamped \/
    /\ asked = counter + toggles.incr - toggles.decr
    /\ \A w \in Workers : at[w] = "set" => value[w] = counter
    /\ \A v, w \in Workers :
         at[v] \in {"get", "set"} /\ at[w] \in {"get", "set"} => v = w

\* A toggle that is added is asked for; nothing else a handler does counts.
LEMMA TogglesSocketStep ==
  ASSUME CountTypes, TogglesInv, NEW s \in Sockets, SocketStep(s)
  PROVE  TogglesInv'
<1>1. ASSUME NEW kind \in {"incr", "decr"}, AddToggle(kind)
      PROVE  asked' - asked = (toggles'.incr - toggles.incr) - (toggles'.decr - toggles.decr)
             /\ toggles' \in [incr : Nat, decr : Nat] /\ asked' \in Int
  BY <1>1 DEF AddToggle, Step, CountTypes
<1>2. CASE EnterToggle(s) \/ LeaveToggle(s) \/ DepartToggle(s)
  <2>1. /\ UNCHANGED <<counter, at, value, overlapped, clamped>>
        /\ \E kind \in {"incr", "decr"} : AddToggle(kind)
    BY <1>2 DEF EnterToggle, LeaveToggle, DepartToggle
  <2>2. /\ asked' - asked = (toggles'.incr - toggles.incr) - (toggles'.decr - toggles.decr)
        /\ toggles'.incr \in Nat /\ toggles'.decr \in Nat /\ asked' \in Int
        /\ toggles.incr \in Nat /\ toggles.decr \in Nat /\ asked \in Int /\ counter \in Int
    BY <1>1, <2>1 DEF CountTypes
  <2> QED
    BY <2>1, <2>2 DEF TogglesInv
<1>3. UNCHANGED <<counter, toggles, at, value, asked, overlapped, clamped>>
        \/ EnterToggle(s) \/ LeaveToggle(s) \/ DepartToggle(s)
  BY DEF SocketStep, ArriveRead, ArriveWrite, ArriveAdd, Enter, EnterSet,
     EnterRead, EnterWrite, Leave, LeaveDel, Depart, DepartRead, DepartWrite,
     DepartLook, DepartDel, DepartRemove, jobs, history
<1> QED
  BY <1>2, <1>3 DEF TogglesInv

\* The handlers of changeViewersCounter.
LEMMA TogglesCountStep ==
  ASSUME CountTypes, TogglesInv, NEW w \in Workers, CountStep(w)
  PROVE  TogglesInv'
<1> SUFFICES ASSUME ~overlapped', ~clamped' PROVE TogglesInv'
  BY DEF TogglesInv
<1>1. CASE Toggle(w)
  <2>1. PICK m \in {"incr", "decr"} :
          /\ toggles[m] > 0 /\ toggles' = [toggles EXCEPT ![m] = @ - 1]
          /\ counter' = counter + Step(m)
    BY <1>1 DEF Toggle
  <2>2. at' = [at EXCEPT ![w] = "get"] /\ ~overlapped /\ ~Counting(w) /\ ~clamped
        /\ UNCHANGED <<value, asked>>
    BY <1>1 DEF Toggle
  <2>3. asked = counter + toggles.incr - toggles.decr
    BY <2>2 DEF TogglesInv
  <2>4. asked' = counter' + toggles'.incr - toggles'.decr
    BY <2>1, <2>2, <2>3 DEF CountTypes, Step
  <2>5. \A v \in Workers : v # w => at'[v] \notin {"get", "set"}
    BY <2>2 DEF Counting, CountTypes
  <2>6. at'[w] = "get"
    BY <2>2 DEF CountTypes
  <2> QED
    BY <2>4, <2>5, <2>6 DEF TogglesInv
<1>2. CASE ToggleRead(w)
  <2>1. /\ at[w] = "get" /\ at' = [at EXCEPT ![w] = "set"]
        /\ value' = [value EXCEPT ![w] = NotBelowZero(counter)]
        /\ clamped' = (clamped \/ counter < 0)
        /\ UNCHANGED <<counter, toggles, asked, overlapped>>
    BY <1>2 DEF ToggleRead
  <2>c. ~clamped /\ ~(counter < 0)
    BY <2>1, Zenon
  <2>2. ~overlapped /\ ~clamped /\ NotBelowZero(counter) = counter
    BY <2>1, <2>c DEF NotBelowZero, CountTypes
  <2>3. \A v \in Workers : v # w => at'[v] = at[v] /\ at[v] \notin {"get", "set"}
    BY <2>1, <2>2 DEF TogglesInv, CountTypes
  <2>4. at'[w] = "set" /\ value'[w] = counter'
    BY <2>1, <2>2 DEF CountTypes
  <2>5. asked' = counter' + toggles'.incr - toggles'.decr
    BY <2>1, <2>2 DEF TogglesInv
  <2> QED
    BY <2>3, <2>4, <2>5 DEF TogglesInv
<1>3. CASE ToggleWrite(w)
  BY <1>3 DEF ToggleWrite, history, TogglesInv, CountTypes
<1>4. CASE ToggleSend(w)
  BY <1>4 DEF ToggleSend, history, TogglesInv, CountTypes
<1>5. CASE Crash(w)
  BY <1>5 DEF Crash
<1> QED
  BY <1>1, <1>2, <1>3, <1>4, <1>5 DEF CountStep

\* What sockets that do one thing after another have asked for is one toggle
\* up for each in the live, and the count comes to what was asked when toggles
\* neither overlapped nor ran below zero (connectToLive, disconnectToLive,
\* handleDisconnect, toggleViewersCounter).
THEOREM EachIsCountedOnce == Spec => []CountedOnce
<1>1. Init => AskedInv /\ TogglesInv
  <2> SUFFICES ASSUME Init PROVE AskedInv /\ TogglesInv
    OBVIOUS
  <2>1. \A s \in Sockets : InOrder(s) /\ ~CountsOne(s)
    BY DEF Init, InOrder, CountsOne, Ops
  <2>2. Counted = {}
    BY <2>1 DEF Counted
  <2>3. asked = Cardinality(Counted)
    BY <2>2, FS_EmptySet DEF Init
  <2>4. TogglesInv
    BY DEF Init, TogglesInv
  <2> QED
    BY <2>1, <2>3, <2>4 DEF AskedInv
<1>2. HandlerTypes /\ CountTypes /\ GoneInv /\ AskedInv /\ TogglesInv /\ [Next]_vars
        => AskedInv' /\ TogglesInv'
  <2> SUFFICES ASSUME HandlerTypes, CountTypes, GoneInv, AskedInv, TogglesInv, [Next]_vars
               PROVE  AskedInv' /\ TogglesInv'
    OBVIOUS
  <2>1. ASSUME NEW s \in Sockets, SocketStep(s) PROVE AskedInv' /\ TogglesInv'
    BY <2>1, AskedSocketStep, TogglesSocketStep DEF GoneInv, CountTypes
  <2>2. ASSUME NEW w \in Workers, CountStep(w) PROVE AskedInv' /\ TogglesInv'
    <3>1. AskedInv'
      BY <2>2, CountLeaves DEF AskedInv, InOrder, Counted, CountsOne
    <3> QED
      BY <2>2, <3>1, TogglesCountStep
  <2>3. CASE UNCHANGED vars
    BY <2>3 DEF vars, handlers, jobs, history, AskedInv, InOrder, Counted, CountsOne, TogglesInv
  <2> QED
    BY <2>1, <2>2, <2>3 DEF Next, SocketStep, CountStep
<1>3. HandlerTypes /\ CountTypes /\ AskedInv /\ TogglesInv => CountedOnce
  <2> SUFFICES ASSUME HandlerTypes, CountTypes, AskedInv, TogglesInv PROVE CountedOnce
    OBVIOUS
  <2>1. ASSUME HandlersDone, ~again PROVE asked = Cardinality(connected)
    <3>1. \A s \in Sockets : CountsOne(s) <=> s \in connected
      BY <2>1 DEF HandlersDone, CountsOne, Ops
    <3>2. Counted = connected
      BY <3>1 DEF Counted, HandlerTypes
    <3> QED
      BY <2>1, <3>2 DEF AskedInv
  <2>2. ASSUME TogglesDone, ~overlapped, ~clamped PROVE counter = asked
    BY <2>2 DEF TogglesDone, TogglesInv, CountTypes
  <2> QED
    BY <2>1, <2>2 DEF CountedOnce
<1> QED
  BY <1>1, <1>2, <1>3, GoneInit, GoneStep, TypesInit, TypesStep, PTL DEF Spec
=============================================================================
