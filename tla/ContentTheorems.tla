-------------------------- MODULE ContentTheorems --------------------------
(***************************************************************************)
(* That a device which is no longer the last to have signed in has been    *)
(* told so, that schedules are moved once and start apart, that pages are  *)
(* complete, that a show room online has its session, that a broadcast can *)
(* be stopped, that columns name objects that are there and objects are    *)
(* named by a column, that the lists of sockets are true and what is sent  *)
(* to those who are there arrives, for any devices, events, zones,         *)
(* schedules, lists, sponsors, images, sockets, messages and requests at   *)
(* the same time, unless what the properties name has happened.            *)
(***************************************************************************)
EXTENDS Images, Agenda, SignIn, ShowRooms, ConnectedUsers, SequenceTheorems, TLAPS

-----------------------------------------------------------------------------
\* Sign-in

Device == [hash : 0..signIns, online : BOOLEAN, at : {"idle", "set"}]
SignInTypes ==
  /\ signIns \in Nat /\ device \in [Devices -> Device]
  /\ logged \in [socket : Devices \cup {Nobody}, hash : 0..signIns]

\* A hash is that of one device, and a device that asks for one has none.
OwnHashes ==
  /\ \A c, d \in Devices : c # d /\ device[c].hash = device[d].hash => device[c].hash = 0
  /\ \A d \in Devices : device[d].hash = 0 => ~device[d].online
  /\ \A d \in Devices : Asking(d) => device[d].hash = 0

Latest(d) == device[d].hash = logged.hash
\* The field has the socket of the last device, if that is connected; a sign-in
\* that has sent signOut to this socket has told everybody who is connected.
TellsAll == met \/ retaken \/
  /\ \A c \in Devices : device[c].online /\ Latest(c) => logged.socket = c
  /\ \A c \in Devices : device[c].online /\ ~Latest(c) => c \in signedOut
  /\ \A c, d \in Devices : Asking(d) /\ device[c].online => c \in signedOut

SignInInv == SignInTypes /\ OwnHashes /\ TellsAll

LEMMA SignInInitInv == SignInInit => SignInInv
<1> SUFFICES ASSUME SignInInit PROVE SignInInv
  OBVIOUS
<1>1. SignInTypes
  BY DEF SignInInit, SignInTypes, Device, SignedOff
<1>2. OwnHashes /\ TellsAll
  BY DEF SignInInit, OwnHashes, TellsAll, SignedOff, Asking
<1> QED
  BY <1>1, <1>2 DEF SignInInv

LEMMA SignInTypesKept ==
  ASSUME SignInInv, NEW d \in Devices,
         SignIn(d) \/ SetHash(d) \/ ConnectUser(d) \/ DisconnectUser(d) \/ Forget(d)
  PROVE  SignInTypes'
<1> USE DEF SignInInv, SignInTypes, Device
<1>1. CASE SignIn(d)
  BY <1>1 DEF SignIn
<1>2. CASE SetHash(d)
  <2>1. signIns' \in Nat /\ 0..signIns \subseteq 0..signIns' /\ signIns + 1 \in 0..signIns'
    BY <1>2 DEF SetHash
  <2> QED
    BY <1>2, <2>1 DEF SetHash
<1>3. CASE ConnectUser(d)
  BY <1>3 DEF ConnectUser, Entry
<1>4. CASE DisconnectUser(d)
  BY <1>4 DEF DisconnectUser
<1>5. CASE Forget(d)
  <2>0. 0 \in 0..signIns
    OBVIOUS
  <2>1. [device[d] EXCEPT !.hash = 0, !.online = FALSE] \in Device
    BY <2>0
  <2>2. device' = [device EXCEPT ![d] = [device[d] EXCEPT !.hash = 0, !.online = FALSE]]
    BY <1>5 DEF Forget
  <2>3. UNCHANGED <<signIns, logged>>
    BY <1>5 DEF Forget
  <2> QED
    BY <2>1, <2>2, <2>3
<1> QED
  BY <1>1, <1>2, <1>3, <1>4, <1>5

LEMMA SignInStep ==
  ASSUME SignInInv, NEW d \in Devices,
         SignIn(d) \/ SetHash(d) \/ ConnectUser(d) \/ DisconnectUser(d) \/ Forget(d)
  PROVE  OwnHashes' /\ TellsAll'
<1> USE SignInAssumption DEF SignInInv, SignInTypes, Device, Asking
<1>1. CASE SignIn(d)
  <2>1. OwnHashes'
    BY <1>1 DEF SignIn, OwnHashes, SignedOff
  <2>2. TellsAll'
    BY <1>1 DEF SignIn, OwnHashes, TellsAll, Latest, SignedOff
  <2> QED
    BY <2>1, <2>2
<1>2. CASE SetHash(d)
  <2>1. \A c \in Devices : device[c].hash # signIns + 1
    OBVIOUS
  <2>2. OwnHashes'
    BY <1>2, <2>1 DEF SetHash, OwnHashes
  <2>3. TellsAll'
    BY <1>2, <2>1 DEF SetHash, OwnHashes, TellsAll, Latest
  <2> QED
    BY <2>2, <2>3
<1>3. CASE ConnectUser(d)
  <2>1. OwnHashes'
    BY <1>3 DEF ConnectUser, OwnHashes
  <2>2. TellsAll'
    <3> SUFFICES ASSUME ~met', ~retaken'  PROVE TellsAll'
      BY DEF TellsAll
    <3>1. /\ device[d].hash # 0 /\ device[d].hash = logged.hash /\ ~met /\ ~retaken
          /\ \A c \in Devices : c # d => device[c].at # "set"
      BY <1>3 DEF ConnectUser
    <3>2. /\ logged'.hash = logged.hash /\ logged'.socket = d /\ signedOut' = signedOut
          /\ device' = [device EXCEPT ![d].online = TRUE]
      BY <1>3, <3>1 DEF ConnectUser, Entry
    <3>3. /\ device'[d].hash = device[d].hash /\ device'[d].at = device[d].at
          /\ \A c \in Devices \ {d} : device'[c] = device[c]
      BY <3>2
    <3>4. \A c \in Devices : device'[c].hash = logged.hash => c = d
      BY <3>1, <3>3 DEF OwnHashes
    <3>5. \A c \in Devices : device'[c].online /\ device'[c].hash # logged.hash => c \in signedOut
      BY <3>1, <3>3 DEF TellsAll, Latest
    <3>6. \A c \in Devices : device'[c].at # "set"
      BY <3>1, <3>3 DEF OwnHashes
    <3> QED
      BY <3>2, <3>4, <3>5, <3>6 DEF TellsAll, Latest
  <2> QED
    BY <2>1, <2>2
<1>4. CASE DisconnectUser(d)
  BY <1>4 DEF DisconnectUser, OwnHashes, TellsAll, Latest
<1>5. CASE Forget(d)
  BY <1>5 DEF Forget, OwnHashes, TellsAll, Latest
<1> QED
  BY <1>1, <1>2, <1>3, <1>4, <1>5

\* For any number of devices: whoever is connected under a hash that is no
\* longer the one in loggedUsers has been sent signOut (validateSignIn,
\* handleConnection of the user gateway), unless two sign-ins met or an old
\* hash came back.
THEOREM SupersededAreTold == SignInSpec => []SupersededTold
<1>1. SignInInv /\ [SignInNext]_<<signState, left>> => SignInInv'
  <2> SUFFICES ASSUME SignInInv, [SignInNext]_<<signState, left>> PROVE SignInInv'
    OBVIOUS
  <2>1. CASE SignInNext
    BY <2>1, SignInTypesKept, SignInStep DEF SignInNext, SignInInv
  <2>2. CASE UNCHANGED <<signState, left>>
    BY <2>2 DEF signState, SignInInv, SignInTypes, Device, OwnHashes, TellsAll, Latest, Asking
  <2> QED
    BY <2>1, <2>2
<1>2. SignInInv => SupersededTold
  BY DEF SignInInv, TellsAll, Latest, SupersededTold
<1> QED
  BY SignInInitInv, <1>1, <1>2, PTL DEF SignInSpec

-----------------------------------------------------------------------------
\* The agenda

Plans == [event : Events, start : Int, end : Int]
EditorStates == [at : {"idle"}]
  \cup [at : {"zone", "shift", "row"}, event : Events, zone : Zones]
  \cup [at : {"between", "save", "late"}, new : Plans]
AgendaTypes ==
  /\ zone \in [Events -> Zones] /\ Planned \subseteq Slots
  /\ plan \in [Planned -> Plans] /\ due \in [Planned -> Int]
  /\ editor \in [Editors -> EditorStates]
  /\ lists \in [listed : Nat, running : Nat, others : Nat]
  /\ page \in [skip : Nat, seen : Int, ended : BOOLEAN]

LEMMA ShiftedPlans ==
  ASSUME NEW p \in Plans, NEW hours \in Int
  PROVE  /\ Shifted(p, hours) \in Plans
         /\ Shifted(p, hours).start = p.start + hours /\ Shifted(p, hours).event = p.event
<1>1. \A a, b \in Int : [p EXCEPT !.start = a, !.end = b] \in Plans
  BY DEF Plans
<1>2. p.start + hours \in Int /\ p.end + hours \in Int
  BY DEF Plans
<1>3. Shifted(p, hours) = [p EXCEPT !.start = p.start + hours, !.end = p.end + hours]
  BY DEF Shifted, Plans
<1> QED
  BY <1>1, <1>2, <1>3 DEF Plans

LEMMA AgendaInitTypes == AgendaInit => AgendaTypes
<1> SUFFICES ASSUME AgendaInit  PROVE AgendaTypes
  OBVIOUS
<1>1. Planned = {} /\ plan \in [{} -> Plans] /\ due \in [{} -> Int]
  BY DEF AgendaInit, Planned
<1>2. page \in [skip : Nat, seen : Int, ended : BOOLEAN]
  <2>1. FirstPage \in [skip : Nat, seen : Int, ended : BOOLEAN]
    BY DEF FirstPage
  <2> QED
    BY <2>1 DEF AgendaInit
<1> QED
  BY <1>1, <1>2, AgendaAssumption DEF AgendaInit, AgendaTypes, EditorStates, Resting

LEMMA EditorGoesOn ==
  ASSUME AgendaTypes, NEW q \in Editors
  PROVE  /\ editor[q].at \in {"zone", "shift", "row"} =>
              /\ editor[q].event \in Events /\ editor[q].zone \in Zones
              /\ \A to \in {"zone", "shift", "row"} :
                   Turn(q, to) => editor' \in [Editors -> EditorStates]
         /\ editor[q].at \in {"between", "save", "late"} =>
              /\ editor[q].new \in Plans
              /\ \A to \in {"between", "save", "late"} :
                   Turn(q, to) => editor' \in [Editors -> EditorStates]
         /\ Rest(q) => editor' \in [Editors -> EditorStates]
BY DEF AgendaTypes, EditorStates, Turn, Rest, Resting

\* An update and a test change no schedule but what they say.
LEMMA UpdateTypes ==
  ASSUME AgendaTypes, NEW q \in Editors,
         \/ \E e \in Events, z \in Zones : UpdateEvent(q, e, z)
         \/ \E e \in Events, start, end \in Times : CreateSchedule(q, e, start, end)
         \/ ReadZone(q) \/ ShiftSchedules(q) \/ UpdateRow(q) \/ UpdateDies(q) \/ VerifyBetween(q)
  PROVE  AgendaTypes'
<1>1. CASE \E e \in Events, z \in Zones : UpdateEvent(q, e, z)
  BY <1>1 DEF UpdateEvent, AgendaTypes, EditorStates, Planned
<1>2. CASE \E e \in Events, start, end \in Times : CreateSchedule(q, e, start, end)
  <2> PICK e \in Events, start \in Times, end \in Times : CreateSchedule(q, e, start, end)
    BY <1>2
  <2>1. [event |-> e, start |-> start, end |-> end] \in Plans
    BY AgendaAssumption DEF Plans
  <2>2. editor' \in [Editors -> EditorStates]
    BY <2>1 DEF CreateSchedule, AgendaTypes, EditorStates
  <2> QED
    BY <2>2 DEF CreateSchedule, AgendaTypes, agendaHistory, Planned
<1>3. CASE ReadZone(q)
  <2>1. Turn(q, "shift") \/ Turn(q, "row")
    BY <1>3 DEF ReadZone
  <2>2. editor' \in [Editors -> EditorStates]
    BY <1>3, <2>1, EditorGoesOn DEF ReadZone
  <2> QED
    BY <1>3, <2>2 DEF ReadZone, AgendaTypes, agendaHistory, Planned
<1>4. CASE ShiftSchedules(q)
  <2>1. editor' \in [Editors -> EditorStates]
    BY <1>4, EditorGoesOn DEF ShiftSchedules
  <2>2. PICK hours \in Int :
          plan' = plan \/ plan' = [i \in Planned |-> IF i \in Of(editor[q].event) THEN Shifted(plan[i], hours) ELSE plan[i]]
    BY <1>4, EditorGoesOn, AgendaAssumption DEF ShiftSchedules
  <2>3. \A p \in Plans : Shifted(p, hours) \in Plans
    BY ShiftedPlans
  <2>4. Planned' = Planned /\ plan' \in [Planned -> Plans]
    BY <2>2, <2>3 DEF AgendaTypes, Planned
  <2> QED
    BY <1>4, <2>1, <2>4 DEF ShiftSchedules, AgendaTypes
<1>5. CASE UpdateRow(q)
  <2>1. editor' \in [Editors -> EditorStates] /\ editor[q].zone \in Zones /\ editor[q].event \in Events
    BY <1>5, EditorGoesOn DEF UpdateRow
  <2>2. due' \in [Planned -> Int]
    BY <1>5, <2>1, AgendaAssumption DEF UpdateRow, AgendaTypes
  <2> QED
    BY <1>5, <2>1, <2>2 DEF UpdateRow, AgendaTypes, Planned
<1>6. CASE UpdateDies(q)
  BY <1>6, EditorGoesOn DEF UpdateDies, AgendaTypes, Planned
<1>7. CASE VerifyBetween(q)
  <2>1. editor' \in [Editors -> EditorStates]
    BY <1>7, EditorGoesOn DEF VerifyBetween
  <2> QED
    BY <1>7, <2>1 DEF VerifyBetween, AgendaTypes, agendaHistory, Planned
<1> QED
  BY <1>1, <1>2, <1>3, <1>4, <1>5, <1>6, <1>7

LEMMA ScheduleTypes ==
  ASSUME AgendaTypes,
         \/ \E q \in Editors : SaveSchedule(q)
         \/ \E i \in Slots, start, end \in Times : UpdateSchedule(i, start, end)
  PROVE  AgendaTypes'
<1>1. ASSUME NEW q \in Editors, SaveSchedule(q)  PROVE AgendaTypes'
  <2> DEFINE new == editor[q].new
  <2>0. new \in Plans /\ new.start \in Int
    BY <1>1, EditorGoesOn DEF SaveSchedule, Plans
  <2> HIDE DEF new
  <2> PICK i \in Slots \ Planned :
        /\ plan' = [j \in Planned \cup {i} |-> IF j = i THEN new ELSE plan[j]]
        /\ due' = [j \in Planned \cup {i} |-> IF j = i THEN new.start ELSE due[j]]
    BY <1>1 DEF SaveSchedule, new
  <2>1. Planned' = Planned \cup {i} /\ plan' \in [Planned' -> Plans] /\ due' \in [Planned' -> Int]
    BY <2>0 DEF AgendaTypes, Planned
  <2>2. editor' \in [Editors -> EditorStates]
    <3>1. \A p \in Editors : editor'[p] \in EditorStates
      BY <1>1 DEF SaveSchedule, AgendaTypes, EditorStates, Resting
    <3> QED
      BY <1>1, <3>1 DEF SaveSchedule
  <2> QED
    BY <1>1, <2>1, <2>2 DEF SaveSchedule, AgendaTypes
<1>2. ASSUME NEW i \in Slots, NEW start \in Times, NEW end \in Times, UpdateSchedule(i, start, end)
      PROVE  AgendaTypes'
  <2>0. start \in Int /\ end \in Int
    BY AgendaAssumption
  <2>1. Planned' = Planned /\ plan' \in [Planned -> Plans]
    BY <1>2, <2>0 DEF UpdateSchedule, AgendaTypes, Plans, Planned
  <2>2. due' \in [Planned -> Int]
    BY <1>2, <2>0 DEF UpdateSchedule, AgendaTypes
  <2> QED
    BY <1>2, <2>1, <2>2 DEF UpdateSchedule, AgendaTypes
<1> QED
  BY <1>1, <1>2

PageStep == OpenUpcoming \/ OpenPast \/ OpenUpcomingByUser \/ OpenPastByUser \/ GetEvents

LEMMA PageTypes ==
  ASSUME AgendaTypes, PageStep
  PROVE  AgendaTypes' /\ UNCHANGED <<zone, plan, editor, agendaHistory>>
<1>1. ASSUME NEW others \in Nat, Open(others)
      PROVE  AgendaTypes' /\ UNCHANGED <<zone, plan, editor, agendaHistory>>
  <2>1. page' \in [skip : Nat, seen : Int, ended : BOOLEAN]
    BY <1>1 DEF Open, FirstPage
  <2>2. PICK listed \in 0..MostListed, running \in 0..MostListed :
          lists' = [listed |-> listed, running |-> running, others |-> others]
    BY <1>1, AgendaAssumption DEF Open
  <2>3. lists' \in [listed : Nat, running : Nat, others : Nat]
    BY <2>2, AgendaAssumption
  <2>4. UNCHANGED <<zone, plan, editor, agendaHistory>>
    BY <1>1 DEF Open
  <2> QED
    BY <2>1, <2>3, <2>4 DEF AgendaTypes, Planned, agendaHistory
<1>2. CASE GetEvents
  <2> DEFINE rest == lists.listed - page.skip
             got == IF rest < PageSize THEN rest ELSE PageSize
  <2>0. page.skip \in Nat /\ page.seen \in Int /\ lists.listed \in Nat
    BY DEF AgendaTypes
  <2>1. page.skip + got \in Nat /\ page.seen + got \in Int
    BY <1>2, <2>0, AgendaAssumption DEF GetEvents
  <2> QED
    BY <1>2, <2>1 DEF GetEvents, Ended, AgendaTypes, Planned, agendaHistory
<1> QED
  BY <1>1, <1>2, AgendaAssumption
  DEF PageStep, OpenUpcoming, OpenPast, OpenUpcomingByUser, OpenPastByUser

AgendaVars == <<agendaState, left>>

LEMMA AgendaTypesKept == AgendaTypes /\ [AgendaNext]_AgendaVars => AgendaTypes'
<1>1. CASE UNCHANGED AgendaVars
  BY <1>1 DEF AgendaVars, agendaState, agendaHistory, AgendaTypes, Planned
<1> QED
  BY <1>1, UpdateTypes, ScheduleTypes, PageTypes DEF AgendaNext, PageStep

-----------------------------------------------------------------------------
\* Pages

PageInv ==
  /\ page.seen = page.skip /\ page.skip <= lists.listed
  /\ page.ended => page.seen = lists.listed \/ lists.running > 0

LEMMA PageInvStep == AgendaTypes /\ PageInv /\ [AgendaNext]_AgendaVars => PageInv'
<1> SUFFICES ASSUME AgendaTypes, PageInv, [AgendaNext]_AgendaVars  PROVE PageInv'
  OBVIOUS
<1>1. CASE UNCHANGED <<page, lists>>
  BY <1>1 DEF PageInv
<1>2. ASSUME NEW others, Open(others)  PROVE PageInv'
  <2> PICK listed \in Nat, running \in Nat :
        lists' = [listed |-> listed, running |-> running, others |-> others]
    BY <1>2, AgendaAssumption DEF Open
  <2> QED
    BY <1>2 DEF Open, FirstPage, PageInv
<1>3. CASE GetEvents
  <2> DEFINE rest == lists.listed - page.skip
             got == IF rest < PageSize THEN rest ELSE PageSize
  <2>0. /\ page.skip \in Nat /\ lists.listed \in Nat /\ lists.running \in Nat /\ lists.others \in Nat
        /\ PageSize \in Nat \ {0} /\ page.seen = page.skip /\ page.skip <= lists.listed
    BY AgendaAssumption DEF AgendaTypes, PageInv
  <2>1. /\ page'.skip = page.skip + got /\ page'.seen = page.seen + got /\ UNCHANGED lists
        /\ page'.ended = Ended(page.skip, Amount)
    BY <1>3 DEF GetEvents
  <2>2. page.skip + got <= lists.listed
    BY <2>0
  <2>3. page'.ended /\ lists.running = 0 => page.skip + got = lists.listed
    <3> SUFFICES ASSUME page'.ended, lists.running = 0  PROVE page.skip + got = lists.listed
      OBVIOUS
    <3>1. (IF page.skip = 0 THEN 1 ELSE page.skip) >= lists.listed + lists.others
      <4>1. Ended(page.skip, Amount)
        BY <2>1
      <4> QED
        BY <2>0, <4>1 DEF Ended, Amount
    <3>2. CASE page.skip = 0
      BY <2>0, <3>1, <3>2
    <3>3. CASE page.skip # 0
      BY <2>0, <3>1, <3>3
    <3> QED
      BY <3>2, <3>3
  <2> QED
    BY <2>0, <2>1, <2>2, <2>3 DEF PageInv
<1> QED
  BY <1>1, <1>2, <1>3 DEF AgendaNext, UpdateEvent, CreateSchedule, ReadZone, ShiftSchedules,
     UpdateRow, UpdateDies, VerifyBetween, SaveSchedule, UpdateSchedule, OpenUpcoming, OpenPast,
     OpenUpcomingByUser, OpenPastByUser, AgendaVars, agendaState

\* Whoever turns the pages of a list until `ended' has seen all of it
\* (paginateEvents, getUpcomingEvents, getPastEvents and those by user), for
\* lists and pages of any length, unless events are running, which the count
\* leaves out.
THEOREM PagesAreComplete == AgendaSpec => []PagesComplete
<1>1. AgendaInit => PageInv
  BY DEF AgendaInit, PageInv, FirstPage
<1>2. AgendaTypes /\ PageInv => PagesComplete
  BY DEF PageInv, PagesComplete, AgendaTypes
<1> QED
  BY <1>1, <1>2, AgendaInitTypes, AgendaTypesKept, PageInvStep, PTL DEF AgendaSpec, AgendaVars

-----------------------------------------------------------------------------
\* Changes of the time zone

Updates(q, e) == editor[q].at \in {"zone", "shift", "row"} /\ editor[q].event = e
\* How far an update has moved a schedule of its event.
Halfway(q, i, e) ==
  /\ editor[q].at \in {"zone", "shift"} => plan[i].start = due[i]
  /\ editor[q].at = "shift" => editor[q].zone # zone[e]
  /\ editor[q].at = "row" =>
       plan[i].start = due[i] + (IF zone[e] # editor[q].zone THEN Offset[editor[q].zone] ELSE 0)
Even(e) ==
  /\ \A p, q \in Editors : Updates(p, e) /\ Updates(q, e) => p = q
  /\ \A q \in Editors : Updates(q, e) /\ editor[q].at = "shift" => editor[q].zone # zone[e]
  /\ \A i \in Planned : plan[i].event = e =>
       /\ \A q \in Editors : Updates(q, e) => Halfway(q, i, e)
       /\ (\A q \in Editors : ~Updates(q, e)) => plan[i].start = due[i]
ShiftInv == \A e \in Events : e \in torn \/ Even(e)

LEMMA UpdatingForms ==
  ASSUME NEW e \in Events
  PROVE  Updating(e) <=> \E q \in Editors : Updates(q, e)
BY DEF Updating, Updates

LEMMA UpdateKeepsEven ==
  ASSUME AgendaTypes, NEW q \in Editors, NEW e \in Events, Even(e), e \notin torn',
         \/ \E d \in Events, z \in Zones : UpdateEvent(q, d, z)
         \/ ReadZone(q) \/ ShiftSchedules(q) \/ UpdateRow(q) \/ UpdateDies(q)
  PROVE  Even(e)'
<1>0. \A p \in Editors \ {q} : editor'[p] = editor[p]
  BY DEF UpdateEvent, ReadZone, ShiftSchedules, UpdateRow, UpdateDies, Turn, Rest, AgendaTypes
<1>a. \A p \in Editors \ {q} : Updates(p, e)' <=> Updates(p, e)
  BY <1>0 DEF Updates
<1>1. ASSUME NEW d \in Events, NEW z \in Zones, UpdateEvent(q, d, z)
      PROVE  Even(e)'
  <2>0. UNCHANGED <<zone, plan, due>> /\ Planned' = Planned /\ ~Updates(q, e)
        /\ editor'[q] = [at |-> "zone", event |-> d, zone |-> z]
    BY <1>1 DEF UpdateEvent, Updates, Planned, AgendaTypes
  <2>1. CASE d # e
    <3>1. ~Updates(q, e)'
      BY <2>0, <2>1 DEF Updates
    <3> QED
      BY <1>0, <1>a, <2>0, <3>1 DEF Even, Halfway
  <2>2. CASE d = e
    <3>1. \A p \in Editors : ~Updates(p, e)
      BY <1>1, <2>2, UpdatingForms DEF UpdateEvent
    <3>2. Updates(q, e)' /\ \A p \in Editors \ {q} : ~Updates(p, e)'
      BY <1>a, <2>0, <2>2, <3>1 DEF Updates
    <3> QED
      BY <2>0, <3>1, <3>2 DEF Even, Halfway
  <2> QED
    BY <2>1, <2>2
<1>2. CASE ReadZone(q)
  <2>0. /\ UNCHANGED <<zone, plan, due>> /\ Planned' = Planned /\ editor[q].at = "zone"
        /\ editor'[q].event = editor[q].event /\ editor'[q].zone = editor[q].zone
        /\ editor'[q].at = IF editor[q].zone # zone[editor[q].event] THEN "shift" ELSE "row"
    BY <1>2, EditorGoesOn DEF ReadZone, Turn, TimezoneChanged, Planned, AgendaTypes, agendaHistory, EditorStates
  <2>1. Updates(q, e)' <=> Updates(q, e)
    BY <2>0 DEF Updates
  <2> SUFFICES ASSUME NEW i \in Planned, plan[i].event = e, Updates(q, e)
               PROVE  Halfway(q, i, e)'
    BY <1>0, <1>a, <2>0, <2>1 DEF Even, Halfway, Updates
  <2>2. plan[i].start = due[i] /\ editor[q].event = e /\ plan[i].start \in Int /\ due[i] \in Int
    BY <2>0 DEF Even, Halfway, Updates, AgendaTypes, Plans, Planned
  <2> QED
    BY <2>0, <2>2 DEF Halfway
<1>3. CASE ShiftSchedules(q)
  <2> DEFINE d == editor[q].event
  <2>0. /\ editor[q].at = "shift" /\ UNCHANGED <<zone, due>> /\ d \in Events /\ editor[q].zone \in Zones
    BY <1>3, EditorGoesOn DEF ShiftSchedules
  <2>1. CASE d \notin Staged
    <3>1. UNCHANGED plan /\ Planned' = Planned /\ editor'[q].at = "idle"
      BY <1>3, <2>1 DEF ShiftSchedules, Rest, Resting, Planned, AgendaTypes
    <3>2. ~Updates(q, e)'
      BY <3>1 DEF Updates
    <3> QED
      BY <1>0, <1>a, <2>0, <3>1, <3>2 DEF Even, Halfway, Updates
  <2>2. CASE d \in Staged
    <3> DEFINE hours == Offset[editor[q].zone]
    <3>0. hours \in Int
      BY <2>0, AgendaAssumption
    <3>1. /\ plan' = [i \in Planned |-> IF plan[i].event = d THEN Shifted(plan[i], hours) ELSE plan[i]]
          /\ editor'[q].at = "row" /\ editor'[q].event = d /\ editor'[q].zone = editor[q].zone
      BY <1>3, <2>0, <2>2 DEF ShiftSchedules, Of, Turn, AgendaTypes, EditorStates
    <3>2. Planned' = Planned /\ (Updates(q, e)' <=> Updates(q, e))
      BY <2>0, <3>1 DEF Planned, Updates
    <3>3. CASE d # e
      <4>1. \A i \in Planned : plan'[i].event = e => plan'[i] = plan[i]
        <5>1. \A i \in Planned : plan[i].event = d => plan'[i].event = d
          BY <3>0, <3>1, ShiftedPlans DEF AgendaTypes
        <5> QED
          BY <3>1, <3>3, <5>1
      <4> QED
        BY <1>0, <1>a, <2>0, <3>2, <3>3, <4>1 DEF Even, Halfway, Updates
    <3>4. CASE d = e
      <4>1. Updates(q, e) /\ \A p \in Editors \ {q} : ~Updates(p, e)'
        BY <1>a, <2>0, <3>4 DEF Even, Updates
      <4>2. \A i \in Planned : plan'[i].event = e => plan[i].event = e
        BY <3>0, <3>1, <3>4, ShiftedPlans DEF AgendaTypes
      <4>3. ASSUME NEW i \in Planned, plan[i].event = e
            PROVE  plan'[i].start = due'[i] + (IF zone'[e] # editor'[q].zone THEN Offset[editor'[q].zone] ELSE 0)
        <5>1. plan[i].start = due[i] /\ editor[q].zone # zone[e]
          BY <2>0, <4>1, <4>3 DEF Even, Halfway
        <5>2. plan'[i].start = plan[i].start + hours
          BY <3>0, <3>1, <3>4, <4>3, ShiftedPlans DEF AgendaTypes
        <5> QED
          BY <2>0, <3>1, <5>1, <5>2
      <4> QED
        BY <3>1, <3>2, <4>1, <4>2, <4>3 DEF Even, Halfway
    <3> QED
      BY <3>3, <3>4
  <2> QED
    BY <2>1, <2>2
<1>4. CASE UpdateRow(q)
  <2> DEFINE d == editor[q].event
             z == editor[q].zone
  <2>0. /\ editor[q].at = "row" /\ UNCHANGED plan /\ d \in Events /\ z \in Zones /\ Planned' = Planned
        /\ zone' = [zone EXCEPT ![d] = z] /\ editor'[q].at = "idle"
        /\ due' = [i \in Planned |-> IF plan[i].event = d /\ zone[d] # z THEN due[i] + Offset[z] ELSE due[i]]
    BY <1>4, EditorGoesOn DEF UpdateRow, Rest, Resting, Of, Planned, AgendaTypes
  <2>1. ~Updates(q, e)'
    BY <2>0 DEF Updates
  <2>2. CASE d # e
    <3>1. zone'[e] = zone[e] /\ \A i \in Planned : plan[i].event = e => due'[i] = due[i]
      BY <2>0, <2>2 DEF AgendaTypes
    <3>2. ~Updates(q, e)
      BY <2>2 DEF Updates
    <3> QED
      BY <1>0, <1>a, <2>0, <2>1, <3>1, <3>2 DEF Even, Halfway
  <2>3. CASE d = e
    <3>1. Updates(q, e) /\ \A p \in Editors : ~Updates(p, e)'
      BY <1>a, <2>0, <2>1, <2>3 DEF Even, Updates
    <3>2. ASSUME NEW i \in Planned, plan[i].event = e
          PROVE  plan'[i].start = due'[i]
      <4>1. plan[i].start = due[i] + (IF zone[e] # z THEN Offset[z] ELSE 0) /\ due[i] \in Int
        BY <2>0, <3>1, <3>2 DEF Even, Halfway, AgendaTypes
      <4> QED
        BY <2>0, <2>3, <3>2, <4>1
    <3> QED
      BY <2>0, <3>1, <3>2 DEF Even
  <2> QED
    BY <2>2, <2>3
<1>5. CASE UpdateDies(q)
  <2>0. /\ UNCHANGED <<zone, plan, due>> /\ Planned' = Planned /\ editor'[q].at = "idle"
        /\ editor[q].event # e
    BY <1>5 DEF UpdateDies, Rest, Resting, Planned, AgendaTypes
  <2>1. ~Updates(q, e)' /\ ~Updates(q, e)
    BY <2>0 DEF Updates
  <2> QED
    BY <1>0, <1>a, <2>0, <2>1 DEF Even, Halfway
<1> QED
  BY <1>1, <1>2, <1>3, <1>4, <1>5

LEMMA ScheduleKeepsEven ==
  ASSUME AgendaTypes, NEW e \in Events, Even(e), e \notin torn',
         \/ \E q \in Editors, d \in Events, start, end \in Times : CreateSchedule(q, d, start, end)
         \/ \E q \in Editors : VerifyBetween(q) \/ SaveSchedule(q)
         \/ \E i \in Slots, start, end \in Times : UpdateSchedule(i, start, end)
  PROVE  Even(e)'
\* Requests that do not update an event stay so.
<1>a. ASSUME UNCHANGED zone, \A p \in Editors : Updates(p, e)' <=> Updates(p, e),
             \A p \in Editors : Updates(p, e) => editor'[p] = editor[p],
             \A i \in Planned' : plan'[i].event = e =>
               \/ i \in Planned /\ plan'[i] = plan[i] /\ due'[i] = due[i]
               \/ plan'[i].start = due'[i] /\ \A p \in Editors : ~Updates(p, e)
      PROVE  Even(e)'
  BY <1>a DEF Even, Halfway
<1>1. ASSUME NEW q \in Editors,
             \/ \E d \in Events, start, end \in Times : CreateSchedule(q, d, start, end)
             \/ VerifyBetween(q)
      PROVE  Even(e)'
  <2>1. UNCHANGED <<zone, plan, due>> /\ Planned' = Planned
    BY <1>1 DEF CreateSchedule, VerifyBetween, agendaHistory, Planned
  <2>2. /\ editor[q].at \in {"idle", "between"} /\ editor'[q].at \in {"idle", "between", "save"}
        /\ \A p \in Editors \ {q} : editor'[p] = editor[p]
    BY <1>1 DEF CreateSchedule, VerifyBetween, Rest, Resting, Turn, AgendaTypes, EditorStates
  <2>3. \A p \in Editors : (Updates(p, e)' <=> Updates(p, e)) /\ (Updates(p, e) => editor'[p] = editor[p])
    BY <2>2 DEF Updates
  <2> QED
    BY <1>a, <2>1, <2>3
<1>2. ASSUME NEW q \in Editors, SaveSchedule(q)
      PROVE  Even(e)'
  <2> DEFINE new == editor[q].new
  <2> PICK i \in Slots \ Planned :
        /\ plan' = [j \in Planned \cup {i} |-> IF j = i THEN new ELSE plan[j]]
        /\ due' = [j \in Planned \cup {i} |-> IF j = i THEN new.start ELSE due[j]]
        /\ torn' = IF Updating(new.event) THEN torn \cup {new.event} ELSE torn
    BY <1>2 DEF SaveSchedule
  <2>1. \A p \in Editors : (Updates(p, e)' <=> Updates(p, e)) /\ (Updates(p, e) => editor'[p] = editor[p])
    BY <1>2 DEF SaveSchedule, Updates, Resting, AgendaTypes, EditorStates
  <2>2. Planned' = Planned \cup {i} /\ UNCHANGED zone
    BY <1>2 DEF Planned, SaveSchedule
  <2>3. \A j \in Planned : plan'[j] = plan[j] /\ due'[j] = due[j]
    BY <2>2
  <2>4. plan'[i] = new /\ due'[i] = new.start
    OBVIOUS
  <2>5. new.event = e => \A p \in Editors : ~Updates(p, e)
    BY UpdatingForms
  <2> QED
    BY <1>a, <2>1, <2>2, <2>3, <2>4, <2>5
<1>3. ASSUME NEW i \in Slots, NEW start \in Times, NEW end \in Times, UpdateSchedule(i, start, end)
      PROVE  Even(e)'
  <2>1. UNCHANGED <<zone, editor>> /\ Planned' = Planned /\ i \in Planned
    BY <1>3 DEF UpdateSchedule, Planned, AgendaTypes
  <2>2. \A j \in Planned \ {i} : plan'[j] = plan[j] /\ due'[j] = due[j]
    BY <1>3 DEF UpdateSchedule, AgendaTypes
  <2>3. plan'[i].start = start /\ plan'[i].event = plan[i].event /\ due'[i] = start
    BY <1>3 DEF UpdateSchedule, AgendaTypes, Plans
  <2>4. plan[i].event = e => \A p \in Editors : ~Updates(p, e)
    BY <1>3, UpdatingForms DEF UpdateSchedule
  <2>5. \A p \in Editors : Updates(p, e)' <=> Updates(p, e)
    BY <2>1 DEF Updates
  <2> QED
    BY <1>a, <2>1, <2>2, <2>3, <2>4, <2>5
<1> QED
  BY <1>1, <1>2, <1>3

LEMMA ShiftInvStep == AgendaTypes /\ ShiftInv /\ [AgendaNext]_AgendaVars => ShiftInv'
<1> SUFFICES ASSUME AgendaTypes, ShiftInv, [AgendaNext]_AgendaVars, NEW e \in Events, e \notin torn'
             PROVE  Even(e)'
  BY DEF ShiftInv
<1>1. torn \subseteq torn'
  BY DEF AgendaNext, UpdateEvent, CreateSchedule, ReadZone, ShiftSchedules, UpdateRow, UpdateDies,
     VerifyBetween, SaveSchedule, UpdateSchedule, OpenUpcoming, OpenPast, OpenUpcomingByUser,
     OpenPastByUser, Open, GetEvents, AgendaVars, agendaState, agendaHistory
<1>2. Even(e)
  BY <1>1 DEF ShiftInv
<1>3. CASE PageStep \/ UNCHANGED AgendaVars
  <2>1. UNCHANGED <<zone, plan, editor, due>>
    BY <1>3, PageTypes DEF AgendaVars, agendaState, agendaHistory
  <2> QED
    BY <1>2, <2>1 DEF Even, Halfway, Updates, Planned
<1> QED
  BY <1>2, <1>3, UpdateKeepsEven, ScheduleKeepsEven DEF AgendaNext, PageStep

\* A schedule is moved once for each change of the time zone of its event
\* (update, updateDateByTimezone), for any events, zones, schedules and requests
\* at the same time, unless an update failed or met another request.
THEOREM SchedulesShiftOnce == AgendaSpec => []ShiftedOnce
<1>1. AgendaInit => ShiftInv
  <2> SUFFICES ASSUME AgendaInit  PROVE ShiftInv
    OBVIOUS
  <2>1. Planned = {} /\ \A q \in Editors, e \in Events : ~Updates(q, e)
    BY DEF AgendaInit, Planned, Updates, Resting
  <2> QED
    BY <2>1 DEF ShiftInv, Even
<1>2. AgendaTypes /\ ShiftInv => ShiftedOnce
  <2> SUFFICES ASSUME AgendaTypes, ShiftInv, NEW i \in Planned
               PROVE  Updating(plan[i].event) \/ plan[i].event \in torn \/ plan[i].start = due[i]
    BY DEF ShiftedOnce
  <2>1. plan[i].event \in Events
    BY DEF AgendaTypes, Plans
  <2> QED
    BY <2>1, UpdatingForms DEF ShiftInv, Even
<1> QED
  BY <1>1, <1>2, AgendaInitTypes, AgendaTypesKept, ShiftInvStep, PTL DEF AgendaSpec, AgendaVars

-----------------------------------------------------------------------------
\* The test of new schedules

\* Whoever may save has passed the test against all schedules that have not been
\* changed since, and the slots are filled from below.
TestInv ==
  /\ \A q \in Editors, j \in Planned :
       editor[q].at = "save" => ~InBetween(editor[q].new.start, plan[j]) \/ j \in touched
  /\ \A i \in Planned, j \in Slots : j < i => j \in Planned

TestsHold == TestInv /\ StartsApart

LEMMA TestStep == AgendaTypes /\ TestsHold /\ [AgendaNext]_AgendaVars => TestsHold'
<1> SUFFICES ASSUME AgendaTypes, TestsHold, [AgendaNext]_AgendaVars  PROVE TestsHold'
  OBVIOUS
<1>a. ASSUME Planned' = Planned, hurried \subseteq hurried', touched \subseteq touched',
             \A i \in Planned : plan'[i] = plan[i] \/ i \in touched',
             \A q \in Editors : editor'[q].at = "save" =>
               \/ editor'[q] = editor[q]
               \/ \A j \in Planned : ~InBetween(editor'[q].new.start, plan'[j])
      PROVE  TestsHold'
  <2>1. TestInv'
    BY <1>a DEF TestsHold, TestInv
  <2>2. StartsApart'
    BY <1>a DEF TestsHold, StartsApart
  <2> QED
    BY <2>1, <2>2 DEF TestsHold
<1>1. ASSUME NEW q \in Editors,
             \/ \E e \in Events, z \in Zones : UpdateEvent(q, e, z)
             \/ \E e \in Events, start, end \in Times : CreateSchedule(q, e, start, end)
             \/ ReadZone(q) \/ UpdateRow(q) \/ UpdateDies(q)
      PROVE  TestsHold'
  <2>1. UNCHANGED <<plan, hurried, touched>> /\ Planned' = Planned
    BY <1>1 DEF UpdateEvent, CreateSchedule, ReadZone, UpdateRow, UpdateDies, agendaHistory, Planned
  <2>2. /\ editor'[q].at # "save" /\ \A p \in Editors \ {q} : editor'[p] = editor[p]
    BY <1>1 DEF UpdateEvent, CreateSchedule, ReadZone, UpdateRow, UpdateDies, Turn, Rest, Resting,
                AgendaTypes, EditorStates
  <2> QED
    BY <1>a, <2>1, <2>2
<1>2. ASSUME NEW q \in Editors, ShiftSchedules(q)  PROVE TestsHold'
  <2>1. Planned' = Planned /\ UNCHANGED hurried /\ touched \subseteq touched'
    BY <1>2 DEF ShiftSchedules, Planned, AgendaTypes
  <2>2. \A i \in Planned : plan'[i] = plan[i] \/ i \in touched'
    BY <1>2 DEF ShiftSchedules
  <2>3. editor'[q].at # "save" /\ \A p \in Editors \ {q} : editor'[p] = editor[p]
    BY <1>2 DEF ShiftSchedules, Turn, Rest, Resting, AgendaTypes, EditorStates
  <2> QED
    BY <1>a, <2>1, <2>2, <2>3
<1>3. ASSUME NEW q \in Editors, VerifyBetween(q)  PROVE TestsHold'
  <2>1. UNCHANGED <<plan, hurried, touched>> /\ Planned' = Planned
    BY <1>3 DEF VerifyBetween, agendaHistory, Planned
  <2>2. \A p \in Editors \ {q} : editor'[p] = editor[p]
    BY <1>3 DEF VerifyBetween, Rest, Turn, AgendaTypes
  <2>3. editor'[q].at = "save" => \A j \in Planned : ~InBetween(editor'[q].new.start, plan'[j])
    BY <1>3 DEF VerifyBetween, Rest, Resting, Turn, AgendaTypes, EditorStates
  <2> QED
    BY <1>a, <2>1, <2>2, <2>3
<1>4. ASSUME NEW q \in Editors, SaveSchedule(q)  PROVE TestsHold'
  <2> DEFINE new == editor[q].new
  <2> PICK i \in Slots \ Planned :
        /\ \A j \in Slots : j < i => j \in Planned
        /\ plan' = [j \in Planned \cup {i} |-> IF j = i THEN new ELSE plan[j]]
        /\ hurried' = IF editor[q].at = "late" THEN hurried \cup {i} ELSE hurried
    BY <1>4 DEF SaveSchedule
  <2>0. editor[q].at \in {"save", "late"} /\ UNCHANGED touched
    BY <1>4 DEF SaveSchedule
  <2>1. Planned' = Planned \cup {i} /\ plan'[i] = new /\ \A j \in Planned : plan'[j] = plan[j]
    BY DEF Planned
  <2>2. \A p \in Editors : editor'[p].at # "save"
    BY <1>4 DEF SaveSchedule, Resting, AgendaTypes, EditorStates
  <2>3. \A j \in Planned : j \in Nat /\ i \in Nat /\ ~(i < j)
    BY AgendaAssumption DEF TestsHold, TestInv, AgendaTypes
  <2>4. TestInv'
    BY <2>1, <2>2, AgendaAssumption DEF TestsHold, TestInv, AgendaTypes
  <2>5. ASSUME NEW a \in Planned', NEW b \in Planned', b < a,
               plan'[a].start \in plan'[b].start .. plan'[b].end
        PROVE  a \in hurried' \/ {a, b} \cap touched' # {}
    <3>1. CASE a \in Planned /\ b \in Planned
      BY <2>0, <2>1, <2>5, <3>1 DEF TestsHold, StartsApart
    <3>2. CASE a = i /\ b \in Planned
      <4>1. InBetween(new.start, plan[b])
        BY <2>1, <2>5, <3>2 DEF InBetween, AgendaTypes, Plans
      <4>2. editor[q].at = "save" => b \in touched
        BY <3>2, <4>1 DEF TestsHold, TestInv
      <4> QED
        BY <2>0, <3>2, <4>2
    <3>3. CASE b = i
      <4>1. i \in Nat
        BY AgendaAssumption
      <4>2. a \in Planned
        BY <2>1, <2>5, <3>3, <4>1
      <4> QED
        BY <2>3, <2>5, <3>3, <4>2
    <3> QED
      BY <2>1, <3>1, <3>2, <3>3
  <2>6. StartsApart'
    BY <2>5 DEF StartsApart
  <2> QED
    BY <2>4, <2>6 DEF TestsHold
<1>5. ASSUME NEW i \in Slots, NEW start \in Times, NEW end \in Times, UpdateSchedule(i, start, end)
      PROVE  TestsHold'
  <2>1. /\ UNCHANGED <<editor, hurried>> /\ Planned' = Planned /\ touched' = touched \cup {i}
        /\ \A j \in Planned \ {i} : plan'[j] = plan[j]
    BY <1>5 DEF UpdateSchedule, Planned, AgendaTypes
  <2> QED
    BY <1>a, <2>1
<1>6. CASE PageStep \/ UNCHANGED AgendaVars
  <2>1. UNCHANGED <<plan, editor, hurried, touched>> /\ Planned' = Planned
    BY <1>6, PageTypes DEF AgendaVars, agendaState, agendaHistory, Planned
  <2> QED
    BY <1>a, <2>1
<1> QED
  BY <1>1, <1>2, <1>3, <1>4, <1>5, <1>6 DEF AgendaNext, PageStep

\* No schedule starts within one that was saved before it (VerifyDateInBetween),
\* for any events, schedules and requests, unless the other was saved after its
\* test or one of them was moved or changed.
THEOREM StartsAreApart == AgendaSpec => []StartsApart
<1>1. AgendaInit => TestsHold
  <2> SUFFICES ASSUME AgendaInit  PROVE TestsHold
    OBVIOUS
  <2>1. Planned = {}
    BY DEF AgendaInit, Planned
  <2> QED
    BY <2>1 DEF TestsHold, TestInv, StartsApart
<1>2. TestsHold => StartsApart
  BY DEF TestsHold
<1> QED
  BY <1>1, <1>2, AgendaInitTypes, AgendaTypesKept, TestStep, PTL DEF AgendaSpec, AgendaVars

-----------------------------------------------------------------------------
\* Show rooms.  What the commands of a request may be (Forms), what they have set
\* or deleted (Rooms), and whose broadcast an id is (Broadcasts, Own).

\* What a key, or a command, may hold.
Values == Calls \cup {NoValue, Garbage, "online"}
\* The record of a request.
CallRecord ==
  [at : {"none", "create", "tellStart", "jwt", "session", "post", "stopId", "stopJwt", "dels",
         "tellStop", "over"},
   show : Shows \cup {NoValue}, jwt : Values, id : Values, commands : Seq(Keys \X Values)]
\* The types of the variables.
ShowTypes ==
  /\ key \in [Shows -> [Keys -> Values]]
  /\ call \in [Calls -> CallRecord] /\ onAir \subseteq Calls
  /\ \A c \in Calls : call[c].at # "none" => call[c].show \in Shows
  /\ \A b \in onAir : call[b].at = "over"

\* The commands of a request that are still to come: of a start, of a
\* broadcast, of a stop, or none.
Starting(q, c) ==
  /\ q.at \in {"tellStart", "over"} /\ Len(q.commands) \in 1..4
  /\ \A j \in 1..Len(q.commands) : q.commands[j] = Sets(c)[4 - Len(q.commands) + j]
Airing(q, c) ==
  /\ q.at = "over" /\ Len(q.commands) = 1
  /\ q.commands[1] \in {<<"broadcast", c>>, <<"broadcast", Garbage>>}
Deleting(q) ==
  /\ q.at = "dels" /\ Len(q.commands) \in 0..5
  /\ \A j \in 1..Len(q.commands) : q.commands[j] = <<RemovedKeys[5 - Len(q.commands) + j], NoValue>>
Silent(q) == q.at # "dels" /\ Len(q.commands) = 0
Form(q, c) == Starting(q, c) \/ Airing(q, c) \/ Deleting(q) \/ Silent(q)
Forms == \A c \in Calls : Form(call[c], c)

\* One request at a time for a sponsor.
Alone(s) == \A c, d \in BusyAt(s) : c = d

\* What a start has set, what a stop has deleted.
Done(q, c, keys) ==
  /\ Starting(q, c) =>
       /\ Len(q.commands) <= 3 => keys.session = c
       /\ Len(q.commands) <= 2 => keys.token = c
       /\ Len(q.commands) <= 1 => keys.jwt = c
  /\ q.at = "dels" /\ Len(q.commands) <= 1 => keys.state # "online"
\* The keys of a sponsor.
KeysOf(s) ==
  /\ Alone(s)
  /\ \A c \in BusyAt(s) : Done(call[c], c, key[s])
  /\ key[s].state = "online" =>
       \/ Stopping(s)
       \/ /\ Ids(s) \subseteq Calls
          /\ \/ \E c \in BusyAt(s) : Starting(call[c], c)
             \/ key[s].session = key[s].token /\ key[s].token = key[s].jwt
Rooms == \A s \in Shows \ crossed : KeysOf(s)

\* The broadcast of a sponsor.
Air(s) ==
  /\ \A c \in BusyAt(s) :
       /\ call[c].at \in {"session", "post"} /\ call[c].jwt # NoValue => key[s].jwt # NoValue
       /\ call[c].at = "stopJwt" => call[c].id = key[s].broadcast
       /\ Airing(call[c], c) => c \in onAir /\ call[c].commands[1][2] = c
  /\ \A b \in onAir : ShowOf(b) = s =>
       /\ ~Starting(call[b], b)
       /\ \A d \in onAir : ShowOf(d) = s => b = d
       /\ \A c \in BusyAt(s) : call[c].at = "dels" => call[c].id = b /\ call[c].jwt # NoValue
       /\ \/ Stopping(s)
          \/ key[s].jwt # NoValue /\ (Airing(call[b], b) \/ key[s].broadcast = b)
Broadcasts == \A s \in Shows \ (failed \cup crossed \cup repeated) : Air(s)

\* The id of a broadcast is under its own sponsor.
Own ==
  /\ \A s \in Shows : key[s].broadcast \in Calls =>
       call[key[s].broadcast].at # "none" /\ call[key[s].broadcast].show = s
  /\ \A c \in Calls : call[c].at \in {"stopJwt", "dels"} /\ call[c].id \in Calls =>
       call[call[c].id].at # "none" /\ call[call[c].id].show = call[c].show

\* The inductive invariant.
ShowInv == ShowTypes /\ Forms /\ Rooms /\ Broadcasts /\ Own

\* One request goes on to q.
CallGoes(c, q) ==
  /\ c \in Calls /\ call' = [call EXCEPT ![c] = q]
  /\ q \in CallRecord /\ q.at # "none" /\ q.show \in Shows
  /\ call[c].at # "none" => q.show = call[c].show
  /\ c \in onAir => q.at = "over"
\* What excuses a sponsor stays on record.
Excused == failed \subseteq failed' /\ crossed \subseteq crossed' /\ repeated \subseteq repeated'
\* Nothing left to do.
Quick(q) == q.at \in {"none", "over"} /\ q.commands = <<>>

\* A record has a sequence of commands; their number is that of a sequence.
LEMMA NoCommands ==
  ASSUME NEW q \in CallRecord
  PROVE  /\ Len(q.commands) \in Nat /\ (Len(q.commands) = 0 <=> q.commands = <<>>)
         /\ q.commands \in Seq(Keys \X Values)
<1>1. q.commands \in Seq(Keys \X Values)
  BY DEF CallRecord
<1> QED
  BY <1>1, EmptySeq, LenProperties

\* What a step of one request leaves of the others, and who is at work after it.
LEMMA GoesCalls ==
  ASSUME ShowTypes, NEW c, NEW q, CallGoes(c, q)
  PROVE  /\ call'[c] = q /\ \A d \in Calls \ {c} : call'[d] = call[d]
         /\ call' \in [Calls -> CallRecord]
         /\ \A d \in Calls : call'[d].at # "none" => call'[d].show \in Shows
         /\ \A b \in onAir : call'[b].at = "over"
         /\ \A s : BusyAt(s)' \ {c} = BusyAt(s) \ {c}
         /\ \A s : c \in BusyAt(s)' <=> q.show = s /\ ~Quick(q)
<1>1. /\ call'[c] = q /\ \A d \in Calls \ {c} : call'[d] = call[d]
      /\ call' \in [Calls -> CallRecord]
  BY DEF ShowTypes, CallGoes
<1>2. \A s : BusyAt(s)' \ {c} = BusyAt(s) \ {c}
  BY <1>1 DEF BusyAt, Busy
<1>3. \A s : c \in BusyAt(s)' <=> q.show = s /\ ~Quick(q)
  BY <1>1 DEF BusyAt, Busy, Quick, CallGoes
<1> QED
  BY <1>1, <1>2, <1>3 DEF ShowTypes, CallGoes

\* A request that goes on to one of the forms keeps all of them.
LEMMA GoesForms ==
  ASSUME ShowTypes, Forms, NEW c, NEW q, CallGoes(c, q), Form(q, c)
  PROVE  Forms'
<1>1. call'[c] = q /\ \A d \in Calls \ {c} : call'[d] = call[d]
  BY GoesCalls
<1>2. ASSUME NEW d \in Calls
      PROVE  Form(call'[d], d)
  BY <1>1, <1>2 DEF Forms
<1> QED
  BY <1>2 DEF Forms

\* A step of a request leaves the other sponsors alone.
LEMMA ShowElsewhere ==
  ASSUME ShowTypes, Forms, NEW c, NEW q, CallGoes(c, q), NEW s \in Shows, q.show # s,
         key'[s] = key[s], onAir' \subseteq onAir \cup {c}, 
         \A b \in onAir : ShowOf(b) = s => b \in onAir'
  PROVE  (KeysOf(s) => KeysOf(s)') /\ (Air(s) => Air(s)')
<1>1. call'[c] = q /\ \A d \in Calls \ {c} : call'[d] = call[d]
  BY GoesCalls
<1>2. c \notin BusyAt(s)
  <2>1. call[c].at = "none" => Quick(call[c])
    <3>1. call[c] \in CallRecord
      BY DEF CallGoes, ShowTypes
    <3> QED
      BY <3>1, NoCommands DEF Forms, Form, Starting, Airing, Deleting, Silent, Quick, CallGoes
  <2> QED
    BY <2>1 DEF BusyAt, Busy, Quick, CallGoes
<1>3. BusyAt(s)' = BusyAt(s)
  <2>1. BusyAt(s)' \ {c} = BusyAt(s) \ {c}
    BY GoesCalls
  <2>2. c \notin BusyAt(s)'
    BY GoesCalls
  <2> QED
    BY <1>2, <2>1, <2>2
<1>4. \A d \in BusyAt(s) : d # c /\ call'[d] = call[d]
  BY <1>1, <1>2 DEF BusyAt
<1>5. KeysOf(s) => KeysOf(s)'
  BY <1>3, <1>4 DEF KeysOf, Alone, Stopping, Ids
<1>6. \A b \in onAir : ShowOf(b) = s => b # c /\ b \in onAir' /\ call'[b] = call[b]
  BY <1>1 DEF ShowTypes, CallGoes, ShowOf
<1>7. \A b \in onAir' : ShowOf(b)' = s => b \in onAir /\ ShowOf(b) = s /\ call'[b] = call[b]
  BY <1>1 DEF ShowTypes, ShowOf
<1>8. ASSUME Air(s) PROVE Air(s)'
  <2>1. ASSUME NEW d \in BusyAt(s)'
        PROVE  /\ call'[d].at \in {"session", "post"} /\ call'[d].jwt # NoValue => key'[s].jwt # NoValue
               /\ call'[d].at = "stopJwt" => call'[d].id = key'[s].broadcast
               /\ Airing(call'[d], d) => d \in onAir' /\ call'[d].commands[1][2] = d
    <3>1. d \in BusyAt(s) /\ call'[d] = call[d]
      BY <1>3, <1>4
    <3>2. ShowOf(d) = s
      BY <3>1 DEF BusyAt, ShowOf
    <3> QED
      BY <1>6, <1>8, <3>1, <3>2 DEF Air
  <2>2. Stopping(s)' <=> Stopping(s)
    BY <1>3, <1>4 DEF Stopping
  <2>3. ASSUME NEW b \in onAir', ShowOf(b)' = s
        PROVE  /\ ~Starting(call'[b], b)
               /\ \A d \in onAir' : ShowOf(d)' = s => b = d
               /\ \A d \in BusyAt(s)' : call'[d].at = "dels" => call'[d].id = b /\ call'[d].jwt # NoValue
               /\ \/ Stopping(s)'
                  \/ key'[s].jwt # NoValue /\ (Airing(call'[b], b) \/ key'[s].broadcast = b)
    BY <1>3, <1>4, <1>7, <1>8, <2>2, <2>3 DEF Air
  <2> QED
    BY <2>1, <2>3 DEF Air, ShowOf
<1> QED
  BY <1>5, <1>8

\* Where nobody else is at work, the request itself and the keys count.
LEMMA KeysHere ==
  ASSUME ShowTypes, NEW c, NEW q, CallGoes(c, q), NEW s \in Shows, q.show = s,
         BusyAt(s)' \subseteq {c}, ~Quick(q) => Done(q, c, key'[s]),
         key'[s].state = "online" =>
           \/ ~Quick(q) /\ q.at = "dels"
           \/ /\ {key'[s].session, key'[s].token, key'[s].jwt} \subseteq Calls
              /\ \/ ~Quick(q) /\ Starting(q, c)
                 \/ key'[s].session = key'[s].token /\ key'[s].token = key'[s].jwt
  PROVE  KeysOf(s)'
<1>1. call'[c] = q /\ (c \in BusyAt(s)' <=> ~Quick(q))
  BY GoesCalls
<1>2. Alone(s)'
  BY DEF Alone
<1>3. \A d \in BusyAt(s)' : Done(call'[d], d, key'[s])
  BY <1>1
<1>4. key'[s].state = "online" =>
        \/ Stopping(s)'
        \/ /\ Ids(s)' \subseteq Calls
           /\ \/ \E d \in BusyAt(s)' : Starting(call'[d], d)
              \/ key'[s].session = key'[s].token /\ key'[s].token = key'[s].jwt
  BY <1>1 DEF Stopping, Ids
<1> QED
  BY <1>2, <1>3, <1>4 DEF KeysOf

\* The same for the broadcasts of the sponsor.
LEMMA AirHere ==
  ASSUME ShowTypes, NEW c, NEW q, CallGoes(c, q), NEW s \in Shows, q.show = s,
         BusyAt(s)' \subseteq {c},
         q.at \in {"session", "post"} /\ q.jwt # NoValue => key'[s].jwt # NoValue,
         q.at = "stopJwt" => q.id = key'[s].broadcast,
         Airing(q, c) => c \in onAir' /\ q.commands[1][2] = c,
         \A b \in onAir' : ShowOf(b)' = s =>
           /\ ~Starting(call'[b], b)
           /\ \A d \in onAir' : ShowOf(d)' = s => b = d
           /\ q.at = "dels" => q.id = b /\ q.jwt # NoValue
           /\ q.at # "dels" =>
                key'[s].jwt # NoValue /\ (Airing(call'[b], b) \/ key'[s].broadcast = b)
  PROVE  Air(s)'
<1>1. call'[c] = q /\ (c \in BusyAt(s)' <=> ~Quick(q))
  BY GoesCalls
<1>2. q.at = "dels" => Stopping(s)'
  BY <1>1 DEF Quick, Stopping
<1>3. ASSUME NEW d \in BusyAt(s)'
      PROVE  /\ call'[d].at \in {"session", "post"} /\ call'[d].jwt # NoValue => key'[s].jwt # NoValue
             /\ call'[d].at = "stopJwt" => call'[d].id = key'[s].broadcast
             /\ Airing(call'[d], d) => d \in onAir' /\ call'[d].commands[1][2] = d
  BY <1>1, <1>3
<1>4. ASSUME NEW b \in onAir', ShowOf(b)' = s
      PROVE  /\ ~Starting(call'[b], b)
             /\ \A d \in onAir' : ShowOf(d)' = s => b = d
             /\ \A d \in BusyAt(s)' : call'[d].at = "dels" => call'[d].id = b /\ call'[d].jwt # NoValue
             /\ \/ Stopping(s)'
                \/ key'[s].jwt # NoValue /\ (Airing(call'[b], b) \/ key'[s].broadcast = b)
  BY <1>1, <1>2, <1>4
<1> QED
  BY <1>3, <1>4 DEF Air, ShowOf

\* Where requests have not crossed, nobody but this one is at work.
LEMMA BusyHere ==
  ASSUME ShowInv, NEW c, NEW q, CallGoes(c, q), NEW s \in Shows \ crossed,
         BusyAt(s) = {} \/ c \in BusyAt(s)
  PROVE  BusyAt(s)' \subseteq {c} /\ BusyAt(s) \subseteq {c}
<1>1. BusyAt(s) \subseteq {c}
  BY DEF ShowInv, Rooms, KeysOf, Alone
<1>2. BusyAt(s)' \ {c} = BusyAt(s) \ {c}
  BY GoesCalls DEF ShowInv
<1> QED
  BY <1>1, <1>2

\* A step of a request keeps the invariant if it keeps that of its own sponsor.
LEMMA ShowStep ==
  ASSUME ShowInv, NEW c, NEW q, CallGoes(c, q), Form(q, c), Excused, NEW s \in Shows, q.show = s,
         \A t \in Shows \ {s} : key'[t] = key[t], key' \in [Shows -> [Keys -> Values]],
         key'[s].broadcast \in {c, NoValue, Garbage, key[s].broadcast},
         q.at \in {"stopJwt", "dels"} => 
           q.id = key[s].broadcast \/ (q.id = call[c].id /\ call[c].at \in {"stopJwt", "dels"}),
         onAir' \subseteq onAir \cup {c}, c \in onAir' => q.at = "over",
         \A b \in onAir : ShowOf(b) # s => b \in onAir',
         s \notin crossed' => KeysOf(s)', s \notin failed' \cup crossed' \cup repeated' => Air(s)'
  PROVE  ShowInv'
<1> USE DEF ShowInv
<1>1. call'[c] = q /\ \A d \in Calls \ {c} : call'[d] = call[d]
  BY GoesCalls
<1>2. Forms'
  BY GoesForms
<1>3. ShowTypes'
  <2>1. call' \in [Calls -> CallRecord] /\ \A d \in Calls : call'[d].at # "none" => call'[d].show \in Shows
    BY GoesCalls
  <2>2. onAir' \subseteq Calls /\ \A b \in onAir' : call'[b].at = "over"
    BY <1>1 DEF ShowTypes, CallGoes
  <2> QED
    BY <2>1, <2>2 DEF ShowTypes
<1>4. Rooms'
  BY ShowElsewhere DEF Rooms, Excused
<1>5. Broadcasts'
  BY ShowElsewhere DEF Broadcasts, Excused
<1>6. \A d \in Calls : call[d].at # "none" => call'[d].at # "none" /\ call'[d].show = call[d].show
  BY <1>1 DEF CallGoes
<1>7. call'[c].at # "none" /\ call'[c].show = s /\ NoValue \notin Calls /\ Garbage \notin Calls
  BY <1>1, ShowRoomsAssumption DEF CallGoes
<1>8. \A t \in Shows : key'[t].broadcast \in Calls =>
        call'[key'[t].broadcast].at # "none" /\ call'[key'[t].broadcast].show = t
  <2> SUFFICES ASSUME NEW t \in Shows, key'[t].broadcast \in Calls
               PROVE  call'[key'[t].broadcast].at # "none" /\ call'[key'[t].broadcast].show = t
    OBVIOUS
  <2>1. CASE key'[t].broadcast = key[t].broadcast
    BY <1>6, <2>1 DEF Own
  <2>2. CASE t = s /\ key'[t].broadcast = c
    BY <1>7, <2>2
  <2> QED
    BY <1>7, <2>1, <2>2
<1>9. \A d \in Calls : call'[d].at \in {"stopJwt", "dels"} /\ call'[d].id \in Calls =>
        call'[call'[d].id].at # "none" /\ call'[call'[d].id].show = call'[d].show
  <2> SUFFICES ASSUME NEW d \in Calls, call'[d].at \in {"stopJwt", "dels"}, call'[d].id \in Calls
               PROVE  call'[call'[d].id].at # "none" /\ call'[call'[d].id].show = call'[d].show
    OBVIOUS
  <2>1. CASE d # c
    <3>1. call'[d] = call[d]
      BY <1>1, <2>1
    <3> QED
      BY <1>6, <3>1 DEF Own
  <2>2. CASE d = c
    <3>1. CASE q.id = key[s].broadcast
      BY <1>1, <1>6, <1>7, <2>2, <3>1 DEF Own
    <3>2. CASE q.id = call[c].id /\ call[c].at \in {"stopJwt", "dels"}
      BY <1>1, <1>6, <2>2, <3>2 DEF Own, CallGoes
    <3> QED
      BY <1>1, <2>2, <3>1, <3>2
  <2> QED
    BY <2>1, <2>2
<1>10. Own'
  BY <1>8, <1>9 DEF Own
<1> QED
  BY <1>2, <1>3, <1>4, <1>5, <1>10

\* No request and no key: the invariant holds initially.
LEMMA ShowsInitInv == ShowsInit => ShowInv
<1> SUFFICES ASSUME ShowsInit PROVE ShowInv
  OBVIOUS
<1> USE DEF ShowsInit, NoCall, NoKeys
<1>1. ShowTypes
  BY DEF ShowTypes, CallRecord, Values, Keys
<1>2. \A c \in Calls : call[c].at = "none" /\ call[c].commands = <<>>
  OBVIOUS
<1>3. \A c \in Calls : Silent(call[c])
  BY <1>2 DEF Silent
<1>4. Forms
  BY <1>3 DEF Forms, Form
<1>5. \A s : BusyAt(s) = {}
  BY <1>2 DEF BusyAt, Busy
<1>6. Rooms
  BY <1>5, ShowRoomsAssumption DEF Rooms, KeysOf, Alone, Keys
<1>7. Broadcasts
  BY <1>5 DEF Broadcasts, Air
<1>8. Own
  BY ShowRoomsAssumption DEF Own, Keys
<1> QED
  BY <1>1, <1>4, <1>6, <1>7, <1>8 DEF ShowInv

\* What has begun to be set up is not a broadcast.
LEMMA Kinds ==
  ASSUME NEW q, NEW c
  PROVE  /\ ~(Starting(q, c) /\ Airing(q, c))
         /\ q.at = "dels" => ~Starting(q, c) /\ ~Airing(q, c)
         /\ Len(q.commands) = 0 => ~Starting(q, c) /\ ~Airing(q, c)
<1>1. ASSUME Starting(q, c), Len(q.commands) = 1
      PROVE  q.commands[1] = <<"state", "online">>
  BY <1>1 DEF Starting, Sets
<1>2. <<"state", "online">> # <<"broadcast", c>> /\ <<"state", "online">> # <<"broadcast", Garbage>>
  OBVIOUS
<1>3. ~(Starting(q, c) /\ Airing(q, c))
  <2> SUFFICES ASSUME Starting(q, c), Airing(q, c) PROVE FALSE
    OBVIOUS
  <2>1. Len(q.commands) = 1 /\ q.commands[1] \in {<<"broadcast", c>>, <<"broadcast", Garbage>>}
    BY DEF Airing
  <2>2. q.commands[1] = <<"state", "online">>
    BY <1>1, <2>1
  <2> QED
    BY <1>2, <2>1, <2>2
<1>4. q.at = "dels" => ~Starting(q, c) /\ ~Airing(q, c)
  BY DEF Starting, Airing
<1>5. Len(q.commands) = 0 => ~Starting(q, c) /\ ~Airing(q, c)
  BY DEF Starting, Airing
<1> QED
  BY <1>3, <1>4, <1>5

\* A request that goes on and leaves the keys as they are.
LEMMA TurnStep ==
  ASSUME ShowInv, NEW c, NEW q, CallGoes(c, q), Form(q, c), Excused, NEW s \in Shows, q.show = s,
         c \in BusyAt(s), call[c].at \notin {"none", "over", "dels"},
         key' = key, onAir' = onAir, crossed' = crossed, ~Airing(q, c),
         Starting(call[c], c) => Starting(q, c) /\ q.commands = call[c].commands,
         Starting(q, c) /\ ~Starting(call[c], c) => Len(q.commands) = 4,
         q.at = "dels" => /\ Len(q.commands) = 5 /\ call[c].at = "stopJwt"
                          /\ q.id = call[c].id /\ q.jwt = key[s].jwt,
         q.at = "stopJwt" => q.id = key[s].broadcast,
         q.at \in {"session", "post"} =>
           q.jwt = key[s].jwt \/ (q.jwt = call[c].jwt /\ call[c].at \in {"session", "post"})
  PROVE  ShowInv'
<1> USE DEF ShowInv
<1>1. call'[c] = q /\ \A d \in Calls \ {c} : call'[d] = call[d]
  BY GoesCalls
<1>2. c \notin onAir
  BY DEF ShowTypes
<1>3. s \notin crossed => BusyAt(s)' \subseteq {c} /\ BusyAt(s) \subseteq {c}
  BY BusyHere
<1>4. s \notin crossed => ~Stopping(s)
  BY <1>3 DEF Stopping
<1>5. ASSUME s \notin crossed'
      PROVE  KeysOf(s)'
  <2>1. KeysOf(s)
    BY <1>5 DEF Rooms
  <2>2. Done(q, c, key[s])
    <3>1. CASE Starting(call[c], c)
      <4>1. Done(call[c], c, key[s]) /\ q.commands = call[c].commands /\ Starting(q, c)
        BY <2>1, <3>1 DEF KeysOf
      <4>2. q.at # "dels"
        BY <4>1 DEF Starting
      <4> QED
        BY <3>1, <4>1, <4>2 DEF Done
    <3>2. CASE ~Starting(call[c], c)
      <4>1. Starting(q, c) => ~(Len(q.commands) <= 3)
        <5>1. Starting(q, c) => Len(q.commands) = 4
          BY <3>2, Zenon
        <5>2. ASSUME NEW n, n = 4 PROVE ~(n <= 3)
          BY <5>2
        <5> QED
          BY <5>1, <5>2, Zenon
      <4>2. q.at = "dels" => ~(Len(q.commands) <= 1)
        <5>1. q.at = "dels" => Len(q.commands) = 5
          BY Zenon
        <5>2. ASSUME NEW n, n = 5 PROVE ~(n <= 1)
          BY <5>2
        <5> QED
          BY <5>1, <5>2, Zenon
      <4>3. Len(q.commands) <= 2 => Len(q.commands) <= 3
        BY NoCommands DEF CallGoes
      <4>4. Len(q.commands) <= 1 => Len(q.commands) <= 2
        BY NoCommands DEF CallGoes
      <4> QED
        BY <4>1, <4>2, <4>3, <4>4, Zenon DEF Done
    <3> QED
      BY <3>1, <3>2
  <2>3. Starting(q, c) => ~Quick(q)
    <3>1. Len(q.commands) = 0 <=> q.commands = <<>>
      BY NoCommands DEF CallGoes
    <3> QED
      BY <3>1, Kinds DEF Quick
  <2>4. key[s].state = "online" =>
          /\ {key[s].session, key[s].token, key[s].jwt} \subseteq Calls
          /\ \/ Starting(q, c)
             \/ key[s].session = key[s].token /\ key[s].token = key[s].jwt
    BY <1>3, <1>4, <1>5, <2>1 DEF KeysOf, Ids
  <2> QED
    BY <1>3, <1>5, <2>2, <2>3, <2>4, KeysHere
<1>6. ASSUME s \notin failed' \cup crossed' \cup repeated'
      PROVE  Air(s)'
  <2>1. Air(s)
    BY <1>6 DEF Broadcasts, Excused
  <2>2. \A b \in onAir : b # c /\ call'[b] = call[b]
    BY <1>1, <1>2 DEF ShowTypes
  <2>3. q.at \in {"session", "post"} /\ q.jwt # NoValue => key[s].jwt # NoValue
    BY <2>1 DEF Air
  <2>4. ASSUME NEW b \in onAir, ShowOf(b) = s
        PROVE  /\ ~Starting(call[b], b) /\ \A d \in onAir : ShowOf(d) = s => b = d
               /\ key[s].jwt # NoValue /\ (Airing(call[b], b) \/ key[s].broadcast = b)
    BY <1>4, <1>6, <2>1, <2>4 DEF Air
  <2>5. ASSUME NEW b \in onAir, ShowOf(b) = s, q.at = "dels"
        PROVE  q.id = b
    <3>1. ~Airing(call[b], b)
      <4>1. Airing(call[b], b) => b \in BusyAt(s)
        BY <2>5 DEF Airing, BusyAt, Busy, ShowOf, ShowTypes
      <4> QED
        BY <1>3, <1>6, <2>2, <4>1
    <3> QED
      BY <2>1, <2>4, <2>5, <3>1 DEF Air
  <2> QED
    BY <1>3, <1>6, <2>2, <2>3, <2>4, <2>5, AirHere DEF ShowOf
<1> QED
  BY <1>2, <1>5, <1>6, ShowStep DEF ShowTypes

\* A request arrives and finds the sponsor free, or has crossed another.
LEMMA ArriveKeeps ==
  ASSUME ShowInv, NEW c \in Calls, NEW s \in Shows, NEW point \in {"create", "jwt", "stopId"},
         NEW use, Arrive(c, s, point, use)
  PROVE  ShowInv'
<1> USE DEF ShowInv
<1>1. PICK q : q = [[call[c] EXCEPT !.at = point] EXCEPT !.show = s]
  OBVIOUS
<1>2. call[c] \in CallRecord /\ call[c].at = "none"
  BY DEF Arrive, ShowTypes
<1>3. /\ q \in CallRecord /\ q.at = point /\ q.show = s /\ q.commands = call[c].commands
  BY <1>1, <1>2 DEF CallRecord
<1>4. call' = [call EXCEPT ![c] = q]
  BY <1>1, <1>2 DEF Arrive, ShowTypes
<1>5. /\ UNCHANGED <<key, onAir, failed, repeated>>
      /\ crossed' = IF BusyAt(s) = {} THEN crossed ELSE crossed \cup {s}
  BY DEF Arrive
<1>6. CallGoes(c, q)
  BY <1>2, <1>3, <1>4 DEF CallGoes, ShowTypes
<1>7. Len(q.commands) = 0
  BY <1>2, <1>3 DEF Forms, Form, Starting, Airing, Deleting, Silent
<1>8. Form(q, c) /\ ~Starting(q, c) /\ ~Airing(q, c)
  BY <1>3, <1>7, Kinds DEF Form, Silent
<1>9. Excused
  BY <1>5 DEF Excused
<1>10. call'[c] = q /\ \A d \in Calls \ {c} : call'[d] = call[d]
  BY <1>6, GoesCalls
<1>11. s \notin crossed' => s \notin crossed /\ BusyAt(s) = {} /\ BusyAt(s)' \subseteq {c} /\ ~Stopping(s)
  <2>1. s \notin crossed' => s \notin crossed /\ BusyAt(s) = {}
    BY <1>5
  <2> QED
    BY <1>6, <2>1, BusyHere DEF Stopping
<1>12. ASSUME s \notin crossed'
       PROVE  KeysOf(s)'
  <2>1. KeysOf(s)
    BY <1>11, <1>12 DEF Rooms
  <2>2. Done(q, c, key[s])
    BY <1>3, <1>8 DEF Done
  <2>3. key[s].state = "online" =>
          /\ {key[s].session, key[s].token, key[s].jwt} \subseteq Calls
          /\ key[s].session = key[s].token /\ key[s].token = key[s].jwt
    BY <1>11, <1>12, <2>1 DEF KeysOf, Ids
  <2> QED
    BY <1>3, <1>5, <1>6, <1>11, <1>12, <2>2, <2>3, KeysHere
<1>13. ASSUME s \notin failed' \cup crossed' \cup repeated'
       PROVE  Air(s)'
  <2>1. Air(s)
    BY <1>5, <1>11, <1>13 DEF Broadcasts
  <2>2. \A b \in onAir : call'[b] = call[b]
    BY <1>2, <1>10 DEF ShowTypes
  <2>3. ASSUME NEW b \in onAir, ShowOf(b) = s
        PROVE  /\ ~Starting(call[b], b) /\ \A d \in onAir : ShowOf(d) = s => b = d
               /\ key[s].jwt # NoValue /\ (Airing(call[b], b) \/ key[s].broadcast = b)
    BY <1>11, <1>13, <2>1, <2>3 DEF Air
  <2> QED
    BY <1>3, <1>5, <1>6, <1>8, <1>11, <1>13, <2>2, <2>3, AirHere DEF ShowOf
<1>14. c \notin onAir
  BY <1>2 DEF ShowTypes
<1> QED
  BY <1>3, <1>5, <1>6, <1>8, <1>9, <1>12, <1>13, <1>14, ShowStep DEF ShowTypes

\* Requests that call Vonage or read a key.
LEMMA TurnKeeps ==
  ASSUME ShowInv, NEW c \in Calls,
         \/ CreateSession(c) \/ CreateFails(c) \/ Tell(c) \/ ReadJwt(c) \/ ReadSession(c)
         \/ ReadBroadcast(c) \/ ReadStopJwt(c)
  PROVE  ShowInv'
<1> USE DEF ShowInv
<1> DEFINE s == call[c].show
<1>1. /\ call[c] \in CallRecord /\ s \in Shows /\ Form(call[c], c) /\ c \in BusyAt(s)
      /\ call[c].at \notin {"none", "over", "dels"}
  BY DEF CreateSession, CreateFails, Tell, ReadJwt, ReadSession, ReadBroadcast, ReadStopJwt,
         ShowTypes, Forms, BusyAt, Busy
<1>2. /\ key' = key /\ onAir' = onAir /\ crossed' = crossed /\ repeated' = repeated
      /\ failed \subseteq failed'
  BY DEF CreateSession, CreateFails, Tell, ReadJwt, ReadSession, ReadBroadcast, ReadStopJwt, showHistory
<1>3. Excused
  BY <1>2 DEF Excused
<1>4. /\ Sets(c) \in Seq(Keys \X Values) /\ Len(Sets(c)) = 4
      /\ \A j \in 1..4 : Sets(c)[j] = Sets(c)[4 - 4 + j]
  BY DEF Sets, Keys, Values
<1>5. key[s].jwt \in Values /\ key[s].session \in Values /\ key[s].broadcast \in Values
  BY <1>1 DEF ShowTypes, Keys
<1>6. call[c].at # "tellStart" => Len(call[c].commands) = 0
  BY <1>1 DEF Form, Starting, Airing, Deleting, Silent
<1>7. CASE CreateSession(c)
  <2>1. PICK q : q = [[call[c] EXCEPT !.at = "tellStart"] EXCEPT !.commands = Sets(c)]
    OBVIOUS
  <2>2. call' = [call EXCEPT ![c] = q] /\ call[c].at = "create"
    BY <1>7, <2>1 DEF CreateSession, ShowTypes
  <2>3. /\ q.at = "tellStart" /\ q.commands = Sets(c) /\ q.show = s /\ q \in CallRecord
    BY <1>1, <1>4, <2>1 DEF CallRecord
  <2>4. CallGoes(c, q)
    BY <1>1, <2>2, <2>3 DEF CallGoes, ShowTypes
  <2>5. Starting(q, c) /\ ~Starting(call[c], c)
    <3>1. Len(q.commands) = 4 /\ \A j \in 1..4 : q.commands[j] = Sets(c)[4 - Len(q.commands) + j]
      BY <1>4, <2>3
    <3>2. Starting(q, c)
      BY <2>3, <3>1 DEF Starting
    <3>3. ~Starting(call[c], c)
      BY <2>2 DEF Starting
    <3> QED
      BY <3>2, <3>3
  <2> QED
    BY <1>1, <1>2, <1>3, <1>4, <2>3, <2>4, <2>5, TurnStep, Kinds DEF Form
<1>8. CASE CreateFails(c)
  <2>1. PICK q : q = [call[c] EXCEPT !.at = "tellStart"]
    OBVIOUS
  <2>2. call' = [call EXCEPT ![c] = q] /\ call[c].at = "create"
    BY <1>8, <2>1 DEF CreateFails, Go
  <2>3. q.at = "tellStart" /\ Len(q.commands) = 0 /\ q.show = s /\ q \in CallRecord
    BY <1>1, <1>6, <2>1, <2>2 DEF CallRecord
  <2>4. CallGoes(c, q)
    BY <1>1, <2>2, <2>3 DEF CallGoes, ShowTypes
  <2>5. Form(q, c) /\ ~Starting(q, c) /\ ~Airing(q, c) /\ ~Starting(call[c], c)
    BY <2>2, <2>3, Kinds DEF Form, Silent, Starting
  <2> QED
    BY <1>1, <1>2, <1>3, <2>3, <2>4, <2>5, TurnStep
<1>9. CASE Tell(c)
  <2>1. PICK q : q = [call[c] EXCEPT !.at = "over"]
    OBVIOUS
  <2>2. call' = [call EXCEPT ![c] = q] /\ call[c].at \in {"tellStart", "tellStop"}
    BY <1>9, <2>1 DEF Tell, Go
  <2>3. q.at = "over" /\ q.commands = call[c].commands /\ q.show = s /\ q \in CallRecord
    BY <1>1, <2>1, <2>2 DEF CallRecord
  <2>4. CallGoes(c, q)
    BY <1>1, <2>2, <2>3 DEF CallGoes, ShowTypes
  <2>5. Starting(call[c], c) => Starting(q, c)
    BY <2>3 DEF Starting
  <2>6. Starting(q, c) => Starting(call[c], c)
    <3> SUFFICES ASSUME Starting(q, c) PROVE Starting(call[c], c)
      OBVIOUS
    <3>1. Len(call[c].commands) \in 1..4
      BY <2>3 DEF Starting
    <3>2. call[c].at = "tellStart"
      <4>1. Len(call[c].commands) # 0
        BY <3>1
      <4> QED
        BY <1>6, <4>1, Zenon
    <3> QED
      BY <2>3, <3>1, <3>2 DEF Starting
  <2>7. Starting(q, c) \/ Silent(q)
    BY <1>1, <2>2, <2>3, <2>5 DEF Form, Airing, Deleting, Silent
  <2>8. ~Airing(q, c)
    BY <2>7, Kinds DEF Silent
  <2> QED
    BY <1>1, <1>2, <1>3, <2>3, <2>4, <2>5, <2>6, <2>7, <2>8, TurnStep DEF Form
<1>10. ASSUME NEW q, NEW point \in {"session", "post", "stopJwt"}, q \in CallRecord,
              call' = [call EXCEPT ![c] = q], q.at = point, q.show = s,
              q.commands = call[c].commands, call[c].at \in {"jwt", "session", "stopId"},
              point = "stopJwt" => q.id = key[s].broadcast,
              point # "stopJwt" =>
                q.jwt = key[s].jwt \/ (q.jwt = call[c].jwt /\ call[c].at = "session")
       PROVE  ShowInv'
  <2>1. CallGoes(c, q)
    BY <1>1, <1>10 DEF CallGoes, ShowTypes
  <2>2. Form(q, c) /\ ~Starting(q, c) /\ ~Airing(q, c) /\ ~Starting(call[c], c)
    BY <1>6, <1>10, Kinds DEF Form, Silent, Starting
  <2> QED
    BY <1>1, <1>2, <1>3, <1>10, <2>1, <2>2, TurnStep
<1>11. CASE ReadJwt(c)
  <2>1. PICK q : q = [[call[c] EXCEPT !.at = "session"] EXCEPT !.jwt = key[s].jwt]
    OBVIOUS
  <2>2. call' = [call EXCEPT ![c] = q] /\ call[c].at = "jwt"
    BY <1>11, <2>1 DEF ReadJwt, ShowTypes
  <2>3. q.at = "session" /\ q.jwt = key[s].jwt /\ q.show = s /\ q.commands = call[c].commands /\ q \in CallRecord
    BY <1>1, <1>5, <2>1 DEF CallRecord
  <2> QED
    BY <1>10, <2>2, <2>3
<1>12. CASE ReadSession(c)
  <2>1. PICK q : q = [[call[c] EXCEPT !.at = "post"] EXCEPT !.id = key[s].session]
    OBVIOUS
  <2>2. call' = [call EXCEPT ![c] = q] /\ call[c].at = "session"
    BY <1>12, <2>1 DEF ReadSession, ShowTypes
  <2>3. q.at = "post" /\ q.jwt = call[c].jwt /\ q.show = s /\ q.commands = call[c].commands /\ q \in CallRecord
    BY <1>1, <1>5, <2>1 DEF CallRecord
  <2> QED
    BY <1>10, <2>2, <2>3
<1>13. CASE ReadBroadcast(c)
  <2>1. PICK q : q = [[call[c] EXCEPT !.at = "stopJwt"] EXCEPT !.id = key[s].broadcast]
    OBVIOUS
  <2>2. call' = [call EXCEPT ![c] = q] /\ call[c].at = "stopId"
    BY <1>13, <2>1 DEF ReadBroadcast, ShowTypes
  <2>3. q.at = "stopJwt" /\ q.id = key[s].broadcast /\ q.show = s /\ q.commands = call[c].commands /\ q \in CallRecord
    BY <1>1, <1>5, <2>1 DEF CallRecord
  <2> QED
    BY <1>10, <2>2, <2>3
<1>14. CASE ReadStopJwt(c)
  <2>1. PICK commands : commands = [i \in DOMAIN RemovedKeys |-> <<RemovedKeys[i], NoValue>>]
    OBVIOUS
  <2>2. PICK q : q = [[[call[c] EXCEPT !.at = "dels"] EXCEPT !.jwt = key[s].jwt] EXCEPT !.commands = commands]
    OBVIOUS
  <2>3. call' = [call EXCEPT ![c] = q] /\ call[c].at = "stopJwt"
    BY <1>14, <2>1, <2>2 DEF ReadStopJwt, ShowTypes
  <2>4. /\ DOMAIN RemovedKeys = 1..5 /\ \A i \in 1..5 : RemovedKeys[i] \in Keys
    BY DEF RemovedKeys, Keys
  <2>5. /\ commands = [i \in 1..5 |-> <<RemovedKeys[i], NoValue>>] /\ commands \in Seq(Keys \X Values)
        /\ Len(commands) = 5 /\ \A j \in 1..5 : commands[j] = <<RemovedKeys[j], NoValue>>
    BY <2>1, <2>4 DEF Values
  <2>6. /\ q.at = "dels" /\ q.jwt = key[s].jwt /\ q.id = call[c].id /\ q.show = s
        /\ q.commands = commands /\ q \in CallRecord
    BY <1>1, <1>5, <2>2, <2>5 DEF CallRecord
  <2>7. CallGoes(c, q)
    BY <1>1, <2>3, <2>6 DEF CallGoes, ShowTypes
  <2>8. Deleting(q) /\ ~Starting(q, c) /\ ~Airing(q, c) /\ ~Starting(call[c], c)
    <3>1. \A j \in 1..5 : commands[j] = <<RemovedKeys[5 - 5 + j], NoValue>>
      BY <2>5
    <3> QED
      <4>1. Deleting(q)
        BY <2>5, <2>6, <3>1 DEF Deleting
      <4>2. ~Starting(q, c) /\ ~Airing(q, c)
        BY <2>6, Kinds
      <4>3. ~Starting(call[c], c)
        BY <2>3 DEF Starting
      <4> QED
        BY <4>1, <4>2, <4>3
  <2> QED
    BY <1>1, <1>2, <1>3, <2>3, <2>5, <2>6, <2>7, <2>8, TurnStep DEF Form
<1> QED
  BY <1>7, <1>8, <1>9, <1>11, <1>12, <1>13, <1>14

\* Vonage answers a start of a broadcast.
LEMMA PostBroadcastKeeps ==
  ASSUME ShowInv, NEW c \in Calls, PostBroadcast(c)
  PROVE  ShowInv'
<1> USE DEF ShowInv
<1> PICK s : s = call[c].show
  OBVIOUS
<1>1. /\ call[c] \in CallRecord /\ s \in Shows /\ Form(call[c], c) /\ c \in BusyAt(s)
      /\ call[c].at = "post"
  BY DEF PostBroadcast, ShowTypes, Forms, BusyAt, Busy
<1>2. /\ key' = key /\ crossed' = crossed
  BY DEF PostBroadcast
<1>3. PICK id \in {c, Garbage} :
        /\ call' = [call EXCEPT ![c].at = "over", ![c].commands = <<<<"broadcast", id>>>>]
        /\ \/ /\ id = c /\ onAir' = onAir \cup {c} /\ failed' = failed
              /\ call[c].jwt # NoValue
              /\ repeated' = IF \E b \in onAir : ShowOf(b) = s THEN repeated \cup {s} ELSE repeated
           \/ onAir' = onAir /\ repeated' = repeated /\ failed' = failed \cup {s}
  BY DEF PostBroadcast
<1>4. PICK commands : commands = <<<<"broadcast", id>>>>
  OBVIOUS
<1>5. PICK q : q = [[call[c] EXCEPT !.at = "over"] EXCEPT !.commands = commands]
  OBVIOUS
<1>6. call' = [call EXCEPT ![c] = q]
  BY <1>3, <1>4, <1>5 DEF ShowTypes
<1>7. commands \in Seq(Keys \X Values) /\ Len(commands) = 1 /\ commands[1] = <<"broadcast", id>>
  BY <1>4 DEF Keys, Values
<1>8. q.at = "over" /\ q.commands = commands /\ q.show = s /\ q \in CallRecord
  BY <1>1, <1>5, <1>7 DEF CallRecord
<1>9. CallGoes(c, q)
  BY <1>1, <1>6, <1>8 DEF CallGoes, ShowTypes
<1>10. Airing(q, c) /\ ~Starting(q, c) /\ Form(q, c)
  <2>1. Airing(q, c)
    BY <1>7, <1>8 DEF Airing
  <2> QED
    BY <2>1, Kinds DEF Form
<1>11. Excused
  BY <1>2, <1>3 DEF Excused
<1>12. s \notin crossed => BusyAt(s)' \subseteq {c} /\ BusyAt(s) \subseteq {c} /\ ~Stopping(s)
  <2>1. s \notin crossed => BusyAt(s)' \subseteq {c} /\ BusyAt(s) \subseteq {c}
    BY <1>1, <1>9, BusyHere
  <2> QED
    BY <1>1, <2>1 DEF Stopping
<1>13. ~Starting(call[c], c)
  BY <1>1 DEF Starting
<1>14. ASSUME s \notin crossed'
       PROVE  KeysOf(s)'
  <2>1. KeysOf(s)
    BY <1>1, <1>2, <1>14 DEF Rooms
  <2>2. Done(q, c, key[s])
    BY <1>8, <1>10 DEF Done
  <2>3. key[s].state = "online" =>
          /\ {key[s].session, key[s].token, key[s].jwt} \subseteq Calls
          /\ key[s].session = key[s].token /\ key[s].token = key[s].jwt
    BY <1>2, <1>12, <1>13, <1>14, <2>1 DEF KeysOf, Ids
  <2> QED
    BY <1>1, <1>2, <1>8, <1>9, <1>12, <1>14, <2>2, <2>3, KeysHere
<1>15. ASSUME s \notin failed' \cup crossed' \cup repeated'
       PROVE  Air(s)'
  <2>1. /\ id = c /\ onAir' = onAir \cup {c} /\ call[c].jwt # NoValue
        /\ s \notin failed \cup crossed \cup repeated /\ \A b \in onAir : ShowOf(b) # s
    BY <1>2, <1>3, <1>15
  <2>2. key[s].jwt # NoValue
    BY <1>1, <2>1 DEF Broadcasts, Air
  <2>3. call'[c] = q /\ \A d \in Calls \ {c} : call'[d] = call[d]
    BY <1>9, GoesCalls
  <2>4. \A b \in onAir' : ShowOf(b)' = s => b = c
    BY <2>1, <2>3 DEF ShowOf, ShowTypes
  <2>5. q.commands[1][2] = c
    BY <1>7, <1>8, <2>1
  <2>6. BusyAt(s)' \subseteq {c}
    BY <1>2, <1>12, <1>15
  <2>7. \A b \in onAir' : ShowOf(b)' = s =>
           /\ ~Starting(call'[b], b)
           /\ \A d \in onAir' : ShowOf(d)' = s => b = d
           /\ key'[s].jwt # NoValue /\ Airing(call'[b], b)
    BY <1>2, <1>10, <2>2, <2>3, <2>4
  <2> QED
    BY <1>1, <1>8, <1>9, <2>1, <2>5, <2>6, <2>7, AirHere
<1> QED
  BY <1>1, <1>2, <1>3, <1>8, <1>9, <1>10, <1>11, <1>14, <1>15, ShowStep DEF ShowTypes

\* Vonage answers a stop.
LEMMA PostStopKeeps ==
  ASSUME ShowInv, NEW c \in Calls, PostStop(c)
  PROVE  ShowInv'
<1> USE DEF ShowInv
<1> PICK s : s = call[c].show
  OBVIOUS
<1>1. /\ call[c] \in CallRecord /\ s \in Shows /\ Form(call[c], c) /\ c \in BusyAt(s)
      /\ call[c].at = "dels" /\ Len(call[c].commands) = 0
  BY NoCommands DEF PostStop, ShowTypes, Forms, BusyAt, Busy
<1>2. key' = key /\ crossed' = crossed /\ repeated' = repeated
  BY DEF PostStop
<1>3. PICK point \in {"tellStop", "over"} :
        /\ Go(c, point)
        /\ \/ /\ failed' = failed
              /\ onAir' = IF call[c].jwt = NoValue THEN onAir ELSE onAir \ {call[c].id}
           \/ onAir' = onAir /\ failed' = failed \cup {s}
  BY DEF PostStop, StoppedId
<1>4. PICK q : q = [call[c] EXCEPT !.at = point]
  OBVIOUS
<1>5. call' = [call EXCEPT ![c] = q]
  BY <1>3, <1>4 DEF Go
<1>6. q.at = point /\ Len(q.commands) = 0 /\ q.show = s /\ q \in CallRecord
  BY <1>1, <1>4 DEF CallRecord
<1>7. CallGoes(c, q)
  BY <1>1, <1>5, <1>6 DEF CallGoes, ShowTypes
<1>8. Form(q, c) /\ ~Starting(q, c) /\ ~Airing(q, c)
  BY <1>6, Kinds DEF Form, Silent
<1>9. Excused
  BY <1>2, <1>3 DEF Excused
<1>10. s \notin crossed => BusyAt(s)' \subseteq {c}
  BY <1>1, <1>7, BusyHere
<1>11. onAir' \subseteq onAir /\ \A b \in onAir : ShowOf(b) # s => b \in onAir'
  BY <1>1, <1>3 DEF Own, ShowTypes, ShowOf
<1>12. ASSUME s \notin crossed'
       PROVE  KeysOf(s)'
  <2>1. key[s].state # "online"
    BY <1>1, <1>2, <1>12 DEF Rooms, KeysOf, Done
  <2>2. Done(q, c, key[s])
    BY <1>6, <1>8 DEF Done
  <2> QED
    BY <1>1, <1>2, <1>6, <1>7, <1>10, <1>12, <2>1, <2>2, KeysHere
<1>13. ASSUME s \notin failed' \cup crossed' \cup repeated'
       PROVE  Air(s)'
  <2>1. /\ onAir' = IF call[c].jwt = NoValue THEN onAir ELSE onAir \ {call[c].id}
        /\ s \notin failed \cup crossed \cup repeated
    BY <1>2, <1>3, <1>13
  <2>2. \A b \in onAir : ShowOf(b) = s => call[c].id = b /\ call[c].jwt # NoValue
    BY <1>1, <2>1 DEF Broadcasts, Air
  <2>3. \A b \in onAir : call'[b].show = call[b].show
    BY <1>5, <1>6 DEF ShowTypes
  <2>4. \A b \in onAir' : ShowOf(b)' # s
    BY <1>11, <2>1, <2>2, <2>3 DEF ShowOf
  <2>5. BusyAt(s)' \subseteq {c}
    BY <1>2, <1>10, <1>13
  <2> QED
    BY <1>1, <1>6, <1>7, <1>8, <2>4, <2>5, AirHere
<1> QED
  BY <1>1, <1>2, <1>6, <1>7, <1>8, <1>9, <1>11, <1>12, <1>13, ShowStep DEF ShowTypes
\* Numbers of commands of a start that are left, ...
LEMMA FourLeft == \A n \in 1..4 : n \in 1..5 /\ n <= 4 /\ 1 \in 1..n
OBVIOUS

\* ... and of any request.
LEMMA CommandsLeft ==
  ASSUME NEW n \in 1..5
  PROVE  /\ n \in Nat /\ 1 \in 1..n /\ (n > 1 <=> n # 1) /\ n - 1 \in 0..5
         /\ n \in 1..4 /\ n # 1 => n - 1 \in 1..4
         /\ \A m : m = n - 1 =>
              /\ m <= 3 => n <= 4
              /\ m <= 2 => n <= 3
              /\ m <= 1 => n \in 1..2
              /\ m <= 1 /\ n # 2 => n <= 1
              /\ n <= 4 /\ n # 4 => n <= 3
              /\ n <= 3 /\ n # 3 => n <= 2
              /\ n <= 2 /\ n # 2 => n <= 1
OBVIOUS

\* What is left of the commands when the first has been carried out.
LEMMA TailCommands ==
  ASSUME NEW q \in CallRecord, NEW c, q.commands # <<>>, Form(q, c),
         NEW r \in CallRecord, r.at = q.at, r.commands = Tail(q.commands)
  PROVE  /\ Form(r, c) /\ q.commands[1] \in Keys \X Values
         /\ Len(r.commands) = Len(q.commands) - 1
         /\ Starting(q, c) /\ Len(q.commands) > 1 => Starting(r, c) /\ ~Quick(r)
         /\ Starting(q, c) /\ Len(q.commands) = 1 => Quick(r) \/ r.at = "tellStart"
         /\ Starting(r, c) => Starting(q, c)
         /\ Deleting(q) => Deleting(r) /\ Len(q.commands) \in 1..5
         /\ ~Airing(r, c)
<1> PICK n : n = Len(q.commands)
  OBVIOUS
<1>0. n \in Nat /\ n # 0
  BY NoCommands
<1>1. /\ q.commands \in Seq(Keys \X Values) /\ n \in Nat /\ n # 0 /\ n >= 1
      /\ (Len(r.commands) = 0 <=> r.commands = <<>>)
  <2>1. q.commands \in Seq(Keys \X Values) /\ (Len(r.commands) = 0 <=> r.commands = <<>>)
    BY NoCommands
  <2>2. n >= 1
    BY <1>0
  <2> QED
    BY <1>0, <2>1, <2>2
<1>2. /\ Len(r.commands) = n - 1
      /\ \A j \in 1..(n - 1) : r.commands[j] = q.commands[j + 1]
  BY <1>1, HeadTailProperties
<1>3. q.commands[1] \in Keys \X Values
  BY <1>1, ElementOfSeq
<1>4. CASE Starting(q, c)
  <2>1. n \in 1..4 /\ \A j \in 1..n : q.commands[j] = Sets(c)[4 - n + j]
    BY <1>4 DEF Starting
  <2>2. CASE n > 1
    <3>1. /\ n - 1 \in 1..4
          /\ \A j \in 1..(n - 1) : r.commands[j] = Sets(c)[4 - (n - 1) + j]
      <4>1. n - 1 \in 1..4
        <5>1. n \in 1..4 /\ n \in 1..5
          BY <2>1, FourLeft, Zenon
        <5> QED
          BY <2>2, <5>1, CommandsLeft, Zenon
      <4>2. ASSUME NEW j \in 1..(n - 1)
            PROVE  r.commands[j] = Sets(c)[4 - (n - 1) + j]
        <5>1. j + 1 \in 1..n /\ 4 - n + (j + 1) = 4 - (n - 1) + j
          BY <2>1, <4>2
        <5>2. q.commands[j + 1] = Sets(c)[4 - n + (j + 1)]
          BY <2>1, <5>1
        <5> QED
          BY <1>2, <4>2, <5>1, <5>2
      <4> QED
        BY <4>1, <4>2
    <3>2. Starting(r, c)
      BY <1>2, <1>4, <3>1 DEF Starting
    <3>3. ~Quick(r)
      BY <1>1, <3>2, Kinds DEF Quick
    <3>4. ~Airing(r, c) /\ ~Deleting(q) /\ Form(r, c)
      BY <1>4, <3>2, Kinds DEF Form, Deleting
    <3>5. ~(n = 1)
      <4>1. n \in 1..5
        BY <2>1, FourLeft, Zenon
      <4> QED
        BY <2>2, <4>1, CommandsLeft, Zenon
    <3> QED
      BY <1>2, <1>3, <1>4, <3>2, <3>3, <3>4, <3>5, Zenon
  <2>3. CASE n = 1
    <3>1. Len(r.commands) = 0 /\ r.at \in {"tellStart", "over"}
      BY <1>2, <1>4, <2>3 DEF Starting
    <3>2. Quick(r) \/ r.at = "tellStart"
      BY <1>1, <3>1 DEF Quick
    <3>3. Silent(r)
      BY <3>1 DEF Silent
    <3>4. ~Airing(r, c) /\ ~Deleting(q) /\ Form(r, c)
      BY <1>4, <3>1, <3>3, Kinds DEF Form, Deleting
    <3>5. ~(n > 1)
      BY <2>3
    <3> QED
      BY <1>2, <1>3, <1>4, <3>2, <3>4, <3>5, Zenon
  <2> QED
    BY <1>1, <2>2, <2>3
<1>5. CASE Airing(q, c)
  <2>1. n = 1 /\ Len(r.commands) = 0 /\ r.at = "over"
    BY <1>2, <1>5 DEF Airing
  <2>2. Silent(r)
    BY <2>1 DEF Silent
  <2>3. ~Starting(q, c) /\ ~Deleting(q)
    BY <1>5, Kinds DEF Airing, Deleting
  <2> QED
    BY <1>2, <1>3, <2>1, <2>2, <2>3, Kinds DEF Form
<1>6. CASE Deleting(q)
  <2>1. q.at = "dels" /\ n \in 0..5 /\ \A j \in 1..n : q.commands[j] = <<RemovedKeys[5 - n + j], NoValue>>
    BY <1>6 DEF Deleting
  <2>2. n \in 1..5 /\ n - 1 \in 0..5
    BY <1>1, <2>1
  <2>3. ASSUME NEW j \in 1..(n - 1)
        PROVE  r.commands[j] = <<RemovedKeys[5 - (n - 1) + j], NoValue>>
    <3>1. j + 1 \in 1..n /\ 5 - n + (j + 1) = 5 - (n - 1) + j
      BY <2>2, <2>3
    <3>2. q.commands[j + 1] = <<RemovedKeys[5 - n + (j + 1)], NoValue>>
      BY <2>1, <3>1
    <3> QED
      BY <1>2, <2>3, <3>1, <3>2
  <2>4. Deleting(r)
    BY <1>2, <2>1, <2>2, <2>3 DEF Deleting
  <2>5. ~Starting(q, c) /\ ~Starting(r, c) /\ ~Airing(r, c)
    BY <2>1, Kinds
  <2> QED
    BY <1>2, <1>3, <2>2, <2>4, <2>5 DEF Form
<1>7. ~Silent(q)
  BY <1>1 DEF Silent
<1> QED
  BY <1>4, <1>5, <1>6, <1>7 DEF Form

\* Redis carries out one command.
LEMMA CommandKeeps ==
  ASSUME ShowInv, NEW c \in Calls, Command(c)
  PROVE  ShowInv'
<1> USE DEF ShowInv
<1> PICK s : s = call[c].show
  OBVIOUS
<1>1. call[c] \in CallRecord /\ call[c].commands # <<>> /\ Form(call[c], c)
  BY DEF Command, ShowTypes, Forms
<1>2. call[c].at # "none" /\ s \in Shows /\ c \in BusyAt(s)
  <2>1. Len(call[c].commands) # 0
    BY <1>1, NoCommands
  <2>2. call[c].at # "none"
    BY <1>1, <2>1 DEF Form, Starting, Airing, Deleting, Silent
  <2> QED
    BY <1>1, <2>2 DEF ShowTypes, BusyAt, Busy
<1>3. PICK do : do = call[c].commands[1]
  OBVIOUS
<1>4. PICK q : q = [call[c] EXCEPT !.commands = Tail(call[c].commands)]
  OBVIOUS
<1>5. call' = [call EXCEPT ![c] = q]
  BY <1>4 DEF Command
<1>6. /\ q.at = call[c].at /\ q.show = s /\ q.jwt = call[c].jwt /\ q.id = call[c].id
      /\ q.commands = Tail(call[c].commands) /\ q \in CallRecord
  <2>1. Tail(call[c].commands) \in Seq(Keys \X Values)
    BY <1>1, NoCommands, HeadTailProperties
  <2> QED
    BY <1>1, <1>4, <2>1 DEF CallRecord
<1>7. /\ Form(q, c) /\ do \in Keys \X Values
      /\ Len(q.commands) = Len(call[c].commands) - 1
      /\ Starting(call[c], c) /\ Len(call[c].commands) > 1 => Starting(q, c) /\ ~Quick(q)
      /\ Starting(q, c) => Starting(call[c], c)
      /\ Deleting(call[c]) => Deleting(q) /\ Len(call[c].commands) \in 1..5
      /\ ~Airing(q, c)
  BY <1>1, <1>3, <1>6, TailCommands
<1>8. CallGoes(c, q)
  BY <1>2, <1>5, <1>6 DEF CallGoes, ShowTypes
<1>9. /\ onAir' = onAir /\ crossed' = crossed /\ failed' = failed /\ repeated' = repeated /\ Excused
  BY DEF Command, showHistory, Excused
<1>10. key' = [key EXCEPT ![s][do[1]] = do[2]]
  BY <1>1, <1>3 DEF Command
<1>11. /\ key' \in [Shows -> [Keys -> Values]] /\ \A t \in Shows \ {s} : key'[t] = key[t]
       /\ \A k \in Keys : key'[s][k] = IF k = do[1] THEN do[2] ELSE key[s][k]
  BY <1>2, <1>7, <1>10 DEF ShowTypes
<1>12. s \notin crossed => BusyAt(s)' \subseteq {c} /\ BusyAt(s) \subseteq {c}
  BY <1>2, <1>8, BusyHere
<1>13. call'[c] = q /\ \A d \in Calls \ {c} : call'[d] = call[d]
  BY <1>8, GoesCalls
<1>14. Len(call[c].commands) \in Nat
  BY <1>1, NoCommands
<1>15. ASSUME key'[s].broadcast \in {c, NoValue, Garbage, key[s].broadcast},
              s \notin crossed => KeysOf(s)', s \notin failed \cup crossed \cup repeated => Air(s)'
       PROVE  ShowInv'
  BY <1>2, <1>6, <1>7, <1>8, <1>9, <1>11, <1>15, ShowStep DEF ShowTypes
<1>16. CASE Starting(call[c], c)
  <2>1. PICK n \in 1..4 : n = Len(call[c].commands)
    BY <1>16 DEF Starting
  <2>2. do = Sets(c)[4 - n + 1]
    <3>1. 1 \in 1..n
      BY <2>1, FourLeft, Zenon
    <3> QED
      BY <1>3, <1>16, <2>1, <3>1 DEF Starting
  <2>3. /\ n = 4 => do = <<"session", c>>
        /\ n = 3 => do = <<"token", c>>
        /\ n = 2 => do = <<"jwt", c>>
        /\ n = 1 => do = <<"state", "online">>
    <3>1. /\ Sets(c)[1] = <<"session", c>> /\ Sets(c)[2] = <<"token", c>>
          /\ Sets(c)[3] = <<"jwt", c>> /\ Sets(c)[4] = <<"state", "online">>
      BY DEF Sets
    <3>2. 4 - 4 + 1 = 1 /\ 4 - 3 + 1 = 2 /\ 4 - 2 + 1 = 3 /\ 4 - 1 + 1 = 4
      OBVIOUS
    <3> QED
      BY <2>2, <3>1, <3>2, Zenon
  <2>4. /\ key'[s].broadcast = key[s].broadcast
        /\ key'[s].session = IF n = 4 THEN c ELSE key[s].session
        /\ key'[s].token = IF n = 3 THEN c ELSE key[s].token
        /\ key'[s].jwt = IF n = 2 THEN c ELSE key[s].jwt
        /\ key'[s].state = IF n = 1 THEN "online" ELSE key[s].state
    BY <1>11, <2>1, <2>3 DEF Keys
  <2>5. call[c].at \in {"tellStart", "over"}
    BY <1>16 DEF Starting
  <2>6. s \notin crossed => ~Stopping(s)
    BY <1>12, <2>5 DEF Stopping
  <2>7. ASSUME s \notin crossed
        PROVE  KeysOf(s)'
    <3>1. KeysOf(s) /\ Done(call[c], c, key[s])
      BY <1>2, <2>7 DEF Rooms, KeysOf
    <3>2. /\ n <= 3 => key[s].session = c
          /\ n <= 2 => key[s].token = c
          /\ n <= 1 => key[s].jwt = c
      BY <1>16, <2>1, <3>1 DEF Done
    <3>3. /\ Len(q.commands) <= 3 => key'[s].session = c
          /\ Len(q.commands) <= 2 => key'[s].token = c
          /\ Len(q.commands) <= 1 => key'[s].jwt = c
      <4>1. PICK m : m = Len(q.commands)
        OBVIOUS
      <4>2. m = n - 1
        BY <1>7, <2>1, <4>1
      <4>3. n \in 1..5 /\ n <= 4
        BY <2>1, FourLeft, Zenon
      <4>4. /\ m <= 3 => n <= 4
            /\ m <= 2 => n <= 3
            /\ m <= 1 => n \in 1..2
            /\ m <= 1 /\ n # 2 => n <= 1
            /\ n <= 4 /\ n # 4 => n <= 3
            /\ n <= 3 /\ n # 3 => n <= 2
            /\ n <= 2 /\ n # 2 => n <= 1
        BY <4>2, <4>3, CommandsLeft, Zenon
      <4>5. n \in 1..2 => n <= 2
        BY <4>3
      <4>6. /\ m <= 3 => key'[s].session = c
            /\ m <= 2 => key'[s].token = c
            /\ m <= 1 => key'[s].jwt = c
        BY <2>4, <3>2, <4>3, <4>4, <4>5, Zenon
      <4> QED
        BY <4>1, <4>6
    <3>4. Done(q, c, key'[s])
      BY <1>6, <2>5, <3>3 DEF Done
    <3>5. ASSUME key'[s].state = "online"
          PROVE  /\ {key'[s].session, key'[s].token, key'[s].jwt} \subseteq Calls
                 /\ \/ ~Quick(q) /\ Starting(q, c)
                    \/ key'[s].session = key'[s].token /\ key'[s].token = key'[s].jwt
      <4>1. CASE n = 1
        BY <1>7, <2>1, <3>3, <4>1
      <4>2. CASE n # 1
        <5>1. key[s].state = "online"
          BY <2>4, <3>5, <4>2
        <5>2. {key[s].session, key[s].token, key[s].jwt} \subseteq Calls
          BY <2>6, <2>7, <3>1, <5>1 DEF KeysOf, Ids
        <5>3. ~Quick(q) /\ Starting(q, c)
          <6>1. n > 1
            <7>1. n \in 1..5
              BY <2>1, FourLeft, Zenon
            <7> QED
              BY <4>2, <7>1, CommandsLeft, Zenon
          <6> QED
            BY <1>7, <1>16, <2>1, <6>1
        <5> QED
          BY <2>4, <5>2, <5>3
      <4> QED
        BY <4>1, <4>2
    <3> QED
      BY <1>2, <1>6, <1>8, <1>12, <2>7, <3>4, <3>5, KeysHere
  <2>8. ASSUME s \notin failed \cup crossed \cup repeated
        PROVE  Air(s)'
    <3>1. Air(s)
      BY <1>2, <2>8 DEF Broadcasts
    <3>2. c \in onAir => FALSE
      BY <1>16, <3>1 DEF Air, ShowOf
    <3>3. \A b \in onAir : b # c /\ call'[b] = call[b]
      BY <1>13, <3>2 DEF ShowTypes
    <3>4. c # NoValue
      BY ShowRoomsAssumption
    <3>5. ASSUME NEW b \in onAir, ShowOf(b) = s
          PROVE  /\ ~Starting(call[b], b) /\ \A d \in onAir : ShowOf(d) = s => b = d
                 /\ key'[s].jwt # NoValue /\ (Airing(call[b], b) \/ key'[s].broadcast = b)
      BY <2>4, <2>6, <2>8, <3>1, <3>4, <3>5 DEF Air
    <3> QED
      BY <1>2, <1>6, <1>7, <1>8, <1>9, <1>12, <2>5, <2>8, <3>3, <3>5, AirHere DEF ShowOf
  <2> QED
    BY <1>15, <2>4, <2>7, <2>8
<1>17. CASE Airing(call[c], c)
  <2>1. /\ call[c].at = "over" /\ do \in {<<"broadcast", c>>, <<"broadcast", Garbage>>}
        /\ Len(q.commands) = 0 /\ ~Starting(call[c], c)
    BY <1>3, <1>7, <1>17, Kinds DEF Airing
  <2>2. /\ key'[s].broadcast = do[2] /\ key'[s].session = key[s].session
        /\ key'[s].token = key[s].token /\ key'[s].jwt = key[s].jwt /\ key'[s].state = key[s].state
    BY <1>11, <2>1 DEF Keys
  <2>3. ~Starting(q, c)
    BY <2>1, Kinds
  <2>4. s \notin crossed => ~Stopping(s)
    BY <1>12, <2>1 DEF Stopping
  <2>5. ASSUME s \notin crossed
        PROVE  KeysOf(s)'
    <3>1. KeysOf(s)
      BY <1>2, <2>5 DEF Rooms
    <3>2. Done(q, c, key'[s])
      BY <1>6, <2>1, <2>3 DEF Done
    <3>3. key'[s].state = "online" =>
            /\ {key'[s].session, key'[s].token, key'[s].jwt} \subseteq Calls
            /\ key'[s].session = key'[s].token /\ key'[s].token = key'[s].jwt
      BY <1>12, <2>1, <2>2, <2>4, <2>5, <3>1 DEF KeysOf, Ids
    <3> QED
      BY <1>2, <1>6, <1>8, <1>12, <2>5, <3>2, <3>3, KeysHere
  <2>6. ASSUME s \notin failed \cup crossed \cup repeated
        PROVE  Air(s)'
    <3>1. Air(s)
      BY <1>2, <2>6 DEF Broadcasts
    <3>2. c \in onAir /\ do[2] = c /\ ShowOf(c) = s
      BY <1>2, <1>3, <1>17, <3>1 DEF Air, ShowOf
    <3>3. \A b \in onAir : ShowOf(b) = s => b = c
      BY <3>1, <3>2 DEF Air
    <3>4. key[s].jwt # NoValue
      BY <2>4, <2>6, <3>1, <3>2 DEF Air
    <3>5. \A b \in onAir : ShowOf(b)' = ShowOf(b)
      BY <1>6, <1>13 DEF ShowOf, ShowTypes
    <3>6. \A b \in onAir' : ShowOf(b)' = s =>
             /\ ~Starting(call'[b], b)
             /\ \A d \in onAir' : ShowOf(d)' = s => b = d
             /\ key'[s].jwt # NoValue /\ key'[s].broadcast = b
      BY <1>9, <1>13, <2>2, <2>3, <3>2, <3>3, <3>4, <3>5
    <3> QED
      BY <1>2, <1>6, <1>7, <1>8, <1>12, <2>1, <2>6, <3>6, AirHere
  <2> QED
    BY <1>15, <2>1, <2>2, <2>5, <2>6
<1>18. CASE Deleting(call[c])
  <2>1. PICK n \in 1..5 : n = Len(call[c].commands)
    BY <1>7, <1>18
  <2>2. do = <<RemovedKeys[5 - n + 1], NoValue>>
    <3>1. 1 \in 1..n
      BY <2>1, CommandsLeft, Zenon
    <3> QED
      BY <1>3, <1>18, <2>1, <3>1 DEF Deleting
  <2>3. /\ n = 2 => do = <<"state", NoValue>>
        /\ do[2] = NoValue
    <3>1. RemovedKeys[4] = "state" /\ 5 - 2 + 1 = 4
      BY DEF RemovedKeys
    <3> QED
      BY <2>2, <3>1
  <2>4. /\ key'[s].broadcast \in {NoValue, key[s].broadcast}
        /\ key'[s].state \in {NoValue, key[s].state}
        /\ n = 2 => key'[s].state = NoValue
    BY <1>11, <2>1, <2>3 DEF Keys
  <2>5. call[c].at = "dels" /\ q.at = "dels"
    BY <1>6, <1>18 DEF Deleting
  <2>6. ~Quick(q) /\ ~Starting(q, c)
    BY <2>5, Kinds DEF Quick
  <2>7. ASSUME s \notin crossed
        PROVE  KeysOf(s)'
    <3>1. KeysOf(s) /\ Done(call[c], c, key[s])
      BY <1>2, <2>7 DEF Rooms, KeysOf
    <3>2. n <= 1 => key[s].state # "online"
      BY <2>1, <2>5, <3>1 DEF Done
    <3>3. Len(q.commands) <= 1 => key'[s].state # "online"
      <4>1. PICK m : m = Len(q.commands)
        OBVIOUS
      <4>2. m = n - 1
        BY <1>7, <2>1, <4>1
      <4>3. m <= 1 => n = 2 \/ n <= 1
        BY <2>1, <4>2, CommandsLeft, Zenon
      <4>4. NoValue # "online"
        BY ShowRoomsAssumption
      <4>5. ASSUME m <= 1
            PROVE  key'[s].state # "online"
        BY <2>4, <3>2, <4>3, <4>4, <4>5
      <4> QED
        BY <4>1, <4>5
    <3>4. Done(q, c, key'[s])
      BY <2>6, <3>3 DEF Done
    <3> QED
      BY <1>2, <1>6, <1>8, <1>12, <2>5, <2>6, <2>7, <3>4, KeysHere
  <2>8. ASSUME s \notin failed \cup crossed \cup repeated
        PROVE  Air(s)'
    <3>1. Air(s)
      BY <1>2, <2>8 DEF Broadcasts
    <3>2. \A b \in onAir : b # c /\ call'[b] = call[b]
      BY <1>13, <2>5 DEF ShowTypes
    <3>3. ASSUME NEW b \in onAir, ShowOf(b) = s
          PROVE  /\ ~Starting(call[b], b) /\ \A d \in onAir : ShowOf(d) = s => b = d
                 /\ q.id = b /\ q.jwt # NoValue
      BY <1>2, <1>6, <2>5, <3>1, <3>3 DEF Air
    <3> QED
      BY <1>2, <1>6, <1>7, <1>8, <1>9, <1>12, <2>5, <2>8, <3>2, <3>3, AirHere DEF ShowOf
  <2> QED
    BY <1>15, <2>4, <2>7, <2>8
<1>19. ~Silent(call[c])
  BY <1>1, NoCommands DEF Silent
<1> QED
  BY <1>1, <1>16, <1>17, <1>18, <1>19 DEF Form

\* A step of a request, or of anything else, keeps the invariant.
LEMMA ShowsNextKeeps == ShowInv /\ [ShowsNext]_<<showState, left>> => ShowInv'
<1> SUFFICES ASSUME ShowInv, [ShowsNext]_<<showState, left>>
             PROVE  ShowInv'
  OBVIOUS
<1>1. CASE UNCHANGED <<showState, left>>
  BY <1>1 DEF ShowInv, ShowTypes, Forms, Rooms, KeysOf, Alone, Stopping, Ids, Broadcasts, Air, Own,
              BusyAt, Busy, ShowOf, showState, showHistory
<1>2. ASSUME NEW c \in Calls, NEW s \in Shows,
             StartSponsorRoom(c, s) \/ StartBroadcast(c, s) \/ StopSponsorRoom(c, s)
      PROVE  ShowInv'
  BY <1>2, ArriveKeeps DEF StartSponsorRoom, StartBroadcast, StopSponsorRoom
<1>3. CASE ShowsNext
  BY <1>2, <1>3, CommandKeeps, TurnKeeps, PostBroadcastKeeps, PostStopKeeps DEF ShowsNext
<1> QED
  BY <1>1, <1>3
\* A room that is online has a session, a token and a JWT, unless it is being
\* stopped, and in the end those of one start (the keys and command queues of
\* startSponsorRoom and stopSponsorRoom), for every sponsor two requests have
\* not crossed for.
THEOREM OnlineRoomsHaveSessions == ShowsSpec => []OnlineHasSession
<1>1. ShowInv => OnlineHasSession
  <2> SUFFICES ASSUME ShowInv, NEW s \in Shows \ crossed, key[s].state = "online", ~Stopping(s)
               PROVE  Ids(s) \subseteq Calls /\ (BusyAt(s) = {} => \E c \in Calls : Ids(s) = {c})
    BY DEF OnlineHasSession
  <2>1. KeysOf(s)
    BY DEF ShowInv, Rooms
  <2>2. Ids(s) \subseteq Calls
    BY <2>1 DEF KeysOf
  <2>3. ASSUME BusyAt(s) = {}
        PROVE  \E c \in Calls : Ids(s) = {c}
    <3>1. key[s].session = key[s].token /\ key[s].token = key[s].jwt
      BY <2>1, <2>3 DEF KeysOf
    <3>2. key[s].jwt \in Calls /\ Ids(s) = {key[s].jwt}
      BY <2>2, <3>1 DEF Ids
    <3> QED
      BY <3>2
  <2> QED
    BY <2>2, <2>3
<1> QED
  BY <1>1, ShowsInitInv, ShowsNextKeeps, PTL DEF ShowsSpec

\* A broadcast on air can be stopped (startBroadcastSponsorRoom,
\* stopSponsorRoom): its id is in its key, on its way there, or read by a
\* request that stops it, unless the sponsor's requests have failed, crossed
\* or started another.
THEOREM BroadcastsAreStoppable == ShowsSpec => []BroadcastStoppable
<1>1. ShowInv => BroadcastStoppable
  <2> SUFFICES ASSUME ShowInv, NEW b \in onAir, ShowOf(b) \notin failed \cup crossed \cup repeated
               PROVE  \/ key[ShowOf(b)].broadcast = b \/ call[b].commands # <<>>
                      \/ \E c \in Calls : call[c].at \in {"stopJwt", "dels"} /\ call[c].id = b
    BY DEF BroadcastStoppable
  <2>1. PICK s : s = ShowOf(b)
    OBVIOUS
  <2>2. b \in Calls /\ call[b] \in CallRecord /\ s \in Shows
    BY <2>1 DEF ShowInv, ShowTypes, ShowOf
  <2>3. Air(s)
    BY <2>1, <2>2 DEF ShowInv, Broadcasts
  <2>4. CASE Stopping(s)
    BY <2>1, <2>3, <2>4 DEF Air, Stopping, BusyAt
  <2>5. CASE Airing(call[b], b)
    <3>1. Len(call[b].commands) # 0
      BY <2>5 DEF Airing
    <3> QED
      BY <2>2, <3>1, NoCommands
  <2>6. CASE key[s].broadcast = b
    BY <2>1, <2>6
  <2> QED
    BY <2>1, <2>3, <2>4, <2>5, <2>6 DEF Air
<1> QED
  BY <1>1, ShowsInitInv, ShowsNextKeeps, PTL DEF ShowsSpec

-----------------------------------------------------------------------------
\* Images


\* What a column, a form or a request may name.
Img == Holders \cup Requests \cup {NoImage}
\* The calls of a request.
Ops == {"put", "update", "delete", "look", "clear"}
\* The record of a request.
RequestRecord ==
  [at : {"unused", "read", "look", "wait", "answered", "failed"},
   holder : Holders \cup {NoImage}, known : BOOLEAN, former : Img,
   pending : SUBSET Ops, failed : BOOLEAN, uploads : BOOLEAN]
\* The types of the variables.
ImageTypes ==
  /\ exists \subseteq Holders /\ WithRow \subseteq exists
  /\ url \in [Holders -> Img] /\ objects \subseteq Holders \cup Requests
  /\ request \in [Requests -> RequestRecord]
  /\ forms \subseteq [holder : Holders, url : Img]

\* What a request is at each of its points.
Shape(q) ==
  /\ q.at = "unused" => q.pending = {} /\ q.holder = NoImage /\ ~q.known /\ ~q.failed
  /\ q.at # "unused" => q.holder \in Holders
  /\ q.at = "read" => q.pending = {} /\ q.uploads /\ ~q.failed /\ q.former = NoImage
  /\ q.at = "look" => q.known /\ ~q.uploads /\ Kind[q.holder] = "avatar"
                      /\ q.pending \subseteq {"look", "clear"}
  /\ q.uploads => q.pending \subseteq {"put", "update", "delete"}
  /\ ~q.uploads /\ q.at # "unused" => q.known /\ q.pending \subseteq {"look", "clear", "delete"}
  /\ "look" \in q.pending =>
       q.at \in {"look", "failed"} /\ q.former = NoImage /\ Kind[q.holder] = "avatar"
  /\ "delete" \in q.pending => q.former # NoImage
  /\ ~q.known => q.former = NoImage
  /\ q.at = "failed" => q.failed
  /\ q.at = "answered" /\ q.known => q.pending = {}

\* An upload that a column may name, or have named.
Shown(q) == q.at \notin {"unused", "read"} /\ q.uploads /\ (q.known => "update" \notin q.pending)
\* Images a holder may have.
Ours(i, h, requests) ==
  i \in {h, NoImage} \/ (i \in Requests /\ Shown(requests[i]) /\ requests[i].holder = h)

\* Columns, forms and requests name images of their own holder, and an object
\* is of a row that exists or of an upload under way or past.
Owners ==
  /\ \A r \in Requests : Shape(request[r]) /\ (request[r].failed => request[r].holder \in broken)
  /\ \A h \in Holders : Ours(url[h], h, request)
  /\ \A r \in Requests : request[r].at # "unused" => Ours(request[r].former, request[r].holder, request)
  /\ \A f \in forms : Ours(f.url, f.holder, request)
  /\ \A i \in objects :
       IF i \in Holders THEN i \in exists
       ELSE request[i].uploads /\ request[i].at \notin {"unused", "read"}
  /\ \A h \in Holders \ exists :
       /\ url[h] = NoImage /\ \A f \in forms : f.holder # h
       /\ \A r \in Requests : request[r].holder = h => ~request[r].known

\* Requests come one after the other where none has overlapped.
Single == \A h \in Holders \ overlapped : \A q, r \in Live(h) : q = r

\* A request that has read the URL of a column changes the column itself.
Replaces(h) == \A r \in Requests :
  request[r].holder = h /\ request[r].known /\ request[r].former = url[h] /\ url[h] # NoImage
    => request[r].pending \cap {"update", "clear"} # {} \/ Spared(h)
\* What a column will name is there or on its way.
Coming(q, h) ==
  /\ q.holder = h /\ q.uploads /\ q.at \notin {"unused", "read"}
  /\ (q.known /\ "update" \in q.pending) \/ h \notin exists
\* What a column is about to name is in S3 or on its way there.
Kept(h) == \A r \in Requests :
  Coming(request[r], h) => "put" \in request[r].pending \/ r \in objects
\* removeAvatar, once it has cleared a column, reads nothing but NULL there.
Cleared(h) == h \notin overlapped => \A r \in Requests :
  request[r].holder = h /\ request[r].at = "look" /\ "clear" \notin request[r].pending
    => url[h] = NoImage
\* UrlServed, with what it takes to keep it, each under the excuses it needs.
Serves(h) ==
  /\ h \notin broken => Kept(h)
  /\ h \notin broken \cup restored => Replaces(h) /\ Cleared(h)
  /\ h \in exists \ (broken \cup restored) =>
       url[h] \in objects \cup {NoImage} \/ Mending(h) \/ Spared(h)
\* The same for every column.
AllServed == \A h \in Holders : Serves(h)

\* What is left over.
Quiet(h) == h \notin broken \cup overlapped \cup restored /\ ~Removed(h)
\* Images other than of an upload without a row.
Known(i) == i \in Holders \/ request[i].known
\* The one request at work has read what the column names and will delete it;
\* what it has written is there.
Working(h) == \A r \in Live(h) :
  /\ request[r].known /\ request[r].pending \cap {"update", "clear"} # {} => request[r].former = url[h]
  /\ request[r].at = "wait" /\ request[r].former \in objects /\ Known(request[r].former)
       => "delete" \in request[r].pending
  /\ request[r].known /\ request[r].uploads /\ request[r].at = "wait"
     /\ "update" \notin request[r].pending => url[h] = r
\* An object is what the column names, or the request at work will write or
\* delete it.
Explained(h) == \A i \in objects : Owner(i) = h /\ Known(i) =>
  \/ i = url[h]
  \/ \E r \in Live(h) :
       \/ i = r /\ "update" \in request[r].pending
       \/ i = request[r].former /\ "delete" \in request[r].pending
\* The same for every column that nothing has disturbed.
NothingLeft ==
  /\ \A r \in Requests : request[r].former # r
  /\ \A h \in Holders : Quiet(h) => Working(h) /\ Explained(h)

\* The variables of ImagesSpec.
ImageVars == <<imageState, left>>

\* One request goes on to q, and the others stay where they are.
GoesTo(r, q) ==
  /\ r \in Requests /\ request' = [request EXCEPT ![r] = q]
  /\ q \in RequestRecord /\ q.at # "unused"
  /\ request[r].at # "unused" =>
       /\ q.holder = request[r].holder /\ q.known = request[r].known
       /\ q.uploads = request[r].uploads
  /\ request[r].at \notin {"unused", "read"} => q.at \notin {"unused", "read"}
  /\ Shown(request[r]) => Shown(q)

\* An image of a holder stays one.
LEMMA StaysOurs ==
  ASSUME ImageTypes, NEW r, NEW q, GoesTo(r, q), NEW i, NEW h, Ours(i, h, request)
  PROVE  Ours(i, h, request')
BY DEF GoesTo, Ours, ImageTypes, Shown

\* The invariants hold at first.
LEMMA ImagesInitTypes == ImagesInit => ImageTypes /\ Owners /\ Single /\ AllServed /\ NothingLeft
<1> SUFFICES ASSUME ImagesInit PROVE ImageTypes /\ Owners /\ Single /\ AllServed /\ NothingLeft
  OBVIOUS
<1> USE ImagesAssumption DEF ImagesInit, Unused, Request
<1>1. ImageTypes
  BY DEF ImageTypes, RequestRecord, Img, Ops
<1>2. \A r \in Requests : request[r].at = "unused" /\ request[r].pending = {} /\ request[r].holder = NoImage
  OBVIOUS
<1>3. Owners
  BY DEF Owners, Shape, Ours
<1>4. \A h \in Holders : Live(h) = {}
  BY DEF Live
<1>5. Single
  BY <1>4 DEF Single
<1>6. AllServed
  BY DEF AllServed, Serves, Kept, Coming, Replaces, Cleared, Spared
<1>7. NothingLeft
  BY <1>4 DEF NothingLeft, Working, Explained, Owner
<1> QED
  BY <1>1, <1>3, <1>5, <1>6, <1>7

\* What a step of one request has to keep for Owners.
LEMMA OwnersStep ==
  ASSUME ImageTypes, Owners, NEW r, NEW q, GoesTo(r, q), Shape(q),
         q.failed => q.holder \in broken', broken \subseteq broken',
         q.holder \in Holders \ exists => ~q.known,
         Ours(q.former, q.holder, request') \/ q.former \in {request[r].former, url[q.holder]},
         exists' = exists, forms' = forms, objects' \subseteq objects \cup {r},
         r \in objects' \ objects => q.uploads /\ q.at \notin {"unused", "read"},
         \A h \in Holders : url'[h] = url[h] \/ (h \in exists /\ Ours(url'[h], h, request'))
  PROVE  Owners'
<1> USE DEF GoesTo, ImageTypes
<1>1. /\ request'[r] = q /\ q.holder \in Holders
      /\ \A p \in Requests : p # r => request'[p] = request[p]
  BY DEF Shape
<1>2. \A p \in Requests :
        Shape(request'[p]) /\ (request'[p].failed => request'[p].holder \in broken')
  BY <1>1 DEF Owners
<1>3. \A h \in Holders : Ours(url[h], h, request')
  BY <1>1, StaysOurs DEF Owners
<1>4. \A p \in Requests : request'[p].at # "unused" => Ours(request'[p].former, request'[p].holder, request')
  <2> SUFFICES ASSUME NEW p \in Requests, request'[p].at # "unused"
               PROVE  Ours(request'[p].former, request'[p].holder, request')
    OBVIOUS
  <2>1. request[p].at # "unused" => Ours(request[p].former, request[p].holder, request')
    BY StaysOurs DEF Owners
  <2>2. request[r].at = "unused" => request[r].former = NoImage
    BY DEF Owners, Shape
  <2> QED
    BY <1>1, <1>3, <2>1, <2>2 DEF Ours
<1>5. \A f \in forms : Ours(f.url, f.holder, request')
  BY StaysOurs DEF Owners
<1>6. \A i \in objects' :
        IF i \in Holders THEN i \in exists
        ELSE request'[i].uploads /\ request'[i].at \notin {"unused", "read"}
  <2> SUFFICES ASSUME NEW i \in objects'
               PROVE  IF i \in Holders THEN i \in exists
                      ELSE request'[i].uploads /\ request'[i].at \notin {"unused", "read"}
    OBVIOUS
  <2>1. CASE i \in objects
    BY <1>1, <2>1, ImagesAssumption DEF Owners
  <2>2. CASE i = r /\ i \notin objects
    BY <1>1, <2>2, ImagesAssumption
  <2> QED
    BY <2>1, <2>2
<1>7. \A h \in Holders \ exists :
        /\ url'[h] = NoImage /\ \A f \in forms : f.holder # h
        /\ \A p \in Requests : request'[p].holder = h => ~request'[p].known
  BY <1>1 DEF Owners
<1>8. \A h \in Holders : Ours(url'[h], h, request')
  BY <1>3
<1> QED
  BY <1>2, <1>4, <1>5, <1>6, <1>7, <1>8 DEF Owners

\* The four uploads keep types and owners.
LEMMA UploadTypes ==
  ASSUME ImageTypes, Owners, NEW r \in Requests, NEW h \in Holders, Upload(r, h)
  PROVE  ImageTypes' /\ Owners'
<1> PICK q : q = Request("read", h, h \in exists, NoImage, {})
  OBVIOUS
<1>1. q \in RequestRecord
  BY DEF Request, RequestRecord, Img, Ops
<1>2. /\ request[r].at = "unused" /\ request' = [request EXCEPT ![r] = q]
      /\ UNCHANGED <<exists, url, objects, forms, broken, restored>>
  BY DEF Upload, Come, Set
<1>3. ImageTypes'
  BY <1>1, <1>2 DEF ImageTypes
<1>5. Shape(q) /\ q.at = "read" /\ q.holder = h /\ q.known = (h \in exists) /\ q.former = NoImage /\ ~q.failed
  BY DEF Shape, Request
<1>4. GoesTo(r, q)
  BY <1>1, <1>2, <1>5 DEF GoesTo, Shown
<1>6. Ours(q.former, q.holder, request')
  BY <1>5 DEF Ours
<1> QED
  BY <1>2, <1>3, <1>4, <1>5, <1>6, OwnersStep DEF ImageTypes

\* Events and users are there from the beginning.
LEMMA HeroesExist ==
  ASSUME ImageTypes, NEW h \in Holders, Kind[h] \in {"hero", "avatar"}
  PROVE  h \in exists
BY ImagesAssumption DEF ImageTypes, Sponsors

\* The delete of a former image, if there is one.
LEMMA DeleteForms ==
  ASSUME NEW former
  PROVE  ToDelete(former) = IF former = NoImage THEN {} ELSE {"delete"}
BY DEF ToDelete

\* A request begins as a record.
LEMMA RequestIsRecord ==
  ASSUME NEW point \in {"read", "wait", "look"}, NEW h \in Holders, NEW known \in BOOLEAN,
         NEW former \in Img, NEW pending \in SUBSET Ops
  PROVE  Request(point, h, known, former, pending) \in RequestRecord
BY DEF Request, RequestRecord

\* The removals keep types and owners.
LEMMA RemoveTypes ==
  ASSUME ImageTypes, Owners, NEW r \in Requests, NEW h \in Holders,
         RemoveHeroImage(r, h) \/ RemoveAvatar(r, h)
  PROVE  ImageTypes' /\ Owners'
<1>1. PICK point \in {"wait", "look"}, former \in {NoImage, url[h]}, pending \in SUBSET Ops :
        /\ \/ /\ point = "wait" /\ former = url[h] /\ Kind[h] = "hero"
              /\ pending = {"clear"} \cup ToDelete(former)
           \/ /\ point = "look" /\ former = NoImage /\ Kind[h] = "avatar"
              /\ pending = {"look", "clear"}
        /\ request[r].at = "unused"
        /\ request' = [request EXCEPT ![r] = Request(point, h, TRUE, former, pending)]
        /\ UNCHANGED <<exists, url, objects, forms, broken, restored>>
  <2>1. {"clear"} \cup ToDelete(url[h]) \in SUBSET Ops /\ {"look", "clear"} \in SUBSET Ops
    BY DeleteForms DEF Ops
  <2> QED
    BY <2>1 DEF RemoveHeroImage, RemoveAvatar, Remove, Come, Set
<1>2. PICK q : q = Request(point, h, TRUE, former, pending)
  OBVIOUS
<1>3. q \in RequestRecord
  <2>1. former \in Img
    BY DEF ImageTypes, Img
  <2> QED
    BY <1>2, <2>1, RequestIsRecord
<1>4. /\ q.at = point /\ q.holder = h /\ q.known /\ q.former = former
      /\ q.pending = pending /\ ~q.failed /\ ~q.uploads
  BY <1>1, <1>2 DEF Request
<1>5. Shape(q)
  BY <1>1, <1>4, DeleteForms DEF Shape
<1>6. GoesTo(r, q)
  BY <1>1, <1>2, <1>3, <1>4 DEF GoesTo, Shown
<1>7. h \in exists
  BY <1>1, HeroesExist
<1>8. Ours(q.former, q.holder, request') \/ q.former = url[q.holder]
  BY <1>4 DEF Ours
<1>9. ImageTypes'
  BY <1>1, <1>2, <1>3 DEF ImageTypes
<1>10. q.failed => q.holder \in broken'
  BY <1>4
<1>11. q.holder \in Holders \ exists => ~q.known
  BY <1>4, <1>7
<1>12. UNCHANGED <<exists, url, objects, forms, broken>>
  BY <1>1
<1> HIDE <1>1, <1>4
<1> QED
  BY <1>5, <1>6, <1>8, <1>9, <1>10, <1>11, <1>12, OwnersStep

\* A step of a request that is under way.
LEMMA ReadTypes ==
  ASSUME ImageTypes, Owners, NEW r \in Requests, ReadFormer(r)
  PROVE  ImageTypes' /\ Owners'
<1>1. PICK former : former = IF request[r].known THEN url[request[r].holder] ELSE NoImage
  OBVIOUS
<1>2. PICK pending : pending = UpdateImage \cup ToDelete(former)
  OBVIOUS
<1>3. PICK q : q = [request[r] EXCEPT !.at = "wait", !.former = former, !.pending = pending]
  OBVIOUS
<1>4. /\ request[r].at = "read" /\ request' = [request EXCEPT ![r] = q]
      /\ UNCHANGED <<exists, url, objects, forms, broken, restored>>
  BY <1>1, <1>2, <1>3 DEF ReadFormer, Set, imageHistory
<1>5. request[r] \in RequestRecord /\ Shape(request[r]) /\ request[r].holder \in Holders
  BY <1>4 DEF ImageTypes, Owners, Shape
<1>6. former \in Img /\ pending \in SUBSET Ops
  BY <1>1, <1>2, <1>5, DeleteForms DEF ImageTypes, Img, Ops, UpdateImage
<1>7. /\ q.at = "wait" /\ q.former = former /\ q.pending = pending
      /\ q.holder = request[r].holder /\ q.known = request[r].known
      /\ q.uploads = request[r].uploads /\ q.failed = request[r].failed
      /\ q \in RequestRecord
  BY <1>3, <1>5, <1>6 DEF RequestRecord
<1>8. q.uploads /\ ~q.failed
  BY <1>4, <1>5, <1>7 DEF Shape
<1>9. Shape(q)
  BY <1>1, <1>2, <1>5, <1>7, <1>8, DeleteForms DEF Shape, UpdateImage
<1>10. GoesTo(r, q)
  BY <1>4, <1>5, <1>7 DEF GoesTo, Shown
<1>11. ImageTypes'
  BY <1>4, <1>7 DEF ImageTypes
<1>12. Ours(q.former, q.holder, request') \/ q.former = url[q.holder]
  BY <1>1, <1>7 DEF Ours
<1> QED
  BY <1>4, <1>5, <1>7, <1>8, <1>9, <1>10, <1>11, <1>12, OwnersStep DEF ImageTypes, Owners

\* So does a request that goes on after its calls,
LEMMA GoesOnTypes ==
  ASSUME ImageTypes, Owners, NEW r \in Requests, Looked(r) \/ Answer(r) \/ Rejected(r)
  PROVE  ImageTypes' /\ Owners'
<1>1. PICK point \in {"wait", "answered", "failed"}, pending \in SUBSET Ops :
        /\ request' = [request EXCEPT ![r] = [request[r] EXCEPT !.at = point, !.pending = pending]]
        /\ UNCHANGED <<exists, url, objects, forms, broken, restored>>
        /\ request[r].at \in {"look", "wait"}
        /\ \/ /\ point = "wait" /\ request[r].at = "look" /\ request[r].pending = {}
              /\ pending = ToDelete(request[r].former)
           \/ point = "answered" /\ pending = request[r].pending /\ Waited(r) /\ request[r].at = "wait"
           \/ point = "failed" /\ pending = request[r].pending /\ request[r].failed
  <2>1. request[r] \in RequestRecord
    BY DEF ImageTypes
  <2>2. [request[r] EXCEPT !.at = "answered"] = [request[r] EXCEPT !.at = "answered", !.pending = request[r].pending]
        /\ [request[r] EXCEPT !.at = "failed"] = [request[r] EXCEPT !.at = "failed", !.pending = request[r].pending]
    BY <2>1 DEF RequestRecord
  <2>3. request[r].pending \in SUBSET Ops /\ ToDelete(request[r].former) \in SUBSET Ops
    BY <2>1, DeleteForms DEF RequestRecord, Ops
  <2>4. CASE Looked(r)
    BY <2>3, <2>4 DEF Looked, Set, imageHistory
  <2>5. CASE Answer(r)
    BY <2>2, <2>3, <2>5 DEF Answer, Set, imageHistory
  <2>6. CASE Rejected(r)
    BY <2>2, <2>3, <2>6 DEF Rejected, Set, imageHistory
  <2> QED
    BY <2>4, <2>5, <2>6
<1>2. PICK q : q = [request[r] EXCEPT !.at = point, !.pending = pending]
  OBVIOUS
<1>3. request[r] \in RequestRecord /\ Shape(request[r]) /\ request[r].holder \in Holders
  BY <1>1 DEF ImageTypes, Owners, Shape
<1>4. /\ q.at = point /\ q.former = request[r].former /\ q.pending = pending
      /\ q.holder = request[r].holder /\ q.known = request[r].known
      /\ q.uploads = request[r].uploads /\ q.failed = request[r].failed
      /\ q \in RequestRecord
  BY <1>2, <1>3 DEF RequestRecord
<1>5. Shape(q)
  BY <1>1, <1>3, <1>4, DeleteForms DEF Shape, Waited
<1>6. GoesTo(r, q)
  BY <1>1, <1>2, <1>3, <1>4 DEF GoesTo, Shown, Shape
<1>7. ImageTypes'
  BY <1>1, <1>2, <1>4 DEF ImageTypes
<1> QED
  BY <1>1, <1>3, <1>4, <1>5, <1>6, <1>7, OwnersStep DEF ImageTypes, Owners

\* a call that arrives or fails,
LEMMA ArrivesTypes ==
  ASSUME ImageTypes, Owners, NEW r \in Requests, NEW op \in request[r].pending,
         Arrives(r, op) \/ CallFails(r, op)
  PROVE  ImageTypes' /\ Owners'
<1> DEFINE h == request[r].holder
<1>1. request[r] \in RequestRecord /\ Shape(request[r]) /\ request[r].pending # {}
  BY DEF ImageTypes, Owners
<1>2. /\ request[r].at \notin {"unused", "read"} /\ h \in Holders /\ op \in Ops
  BY <1>1 DEF Shape, RequestRecord
<1>3. PICK former \in Img, fault \in BOOLEAN :
        /\ request' = [request EXCEPT ![r] = [request[r] EXCEPT
             !.pending = @ \ {op}, !.former = former, !.failed = fault]]
        /\ UNCHANGED <<exists, forms, restored>>
        /\ \/ op = "look" /\ former = url[h]
           \/ former = request[r].former /\ (op = "look" => fault)
        /\ fault => request[r].failed \/ h \in broken'
        /\ request[r].failed => fault
        /\ broken \subseteq broken'
        /\ UNCHANGED url \/ (op = "update" /\ request[r].known /\ url' = [url EXCEPT ![h] = r])
           \/ (op = "clear" /\ url' = [url EXCEPT ![h] = NoImage])
        /\ objects' \subseteq objects \/ (op = "put" /\ objects' = objects \cup {r})
  <2>1. request[r].former \in Img /\ url[h] \in Img /\ request[r].failed \in BOOLEAN
    BY <1>1, <1>2 DEF RequestRecord, ImageTypes
  <2>2. CASE CallFails(r, op)
    <3>1. [request[r] EXCEPT !.pending = @ \ {op}, !.failed = TRUE] =
          [request[r] EXCEPT !.pending = @ \ {op}, !.former = request[r].former, !.failed = TRUE]
      BY <1>1 DEF RequestRecord
    <3> QED
      BY <2>1, <2>2, <3>1 DEF CallFails, Set
  <2>3. CASE Arrives(r, op) /\ op = "look"
    <3>1. [request[r] EXCEPT !.pending = @ \ {op}, !.former = url[h]] =
          [request[r] EXCEPT !.pending = @ \ {op}, !.former = url[h], !.failed = request[r].failed]
      BY <1>1 DEF RequestRecord
    <3> QED
      BY <2>1, <2>3, <3>1 DEF Arrives, Set, imageHistory
  <2>4. CASE Arrives(r, op) /\ op # "look"
    <3>1. [request[r] EXCEPT !.pending = @ \ {op}] =
          [request[r] EXCEPT !.pending = @ \ {op}, !.former = request[r].former, !.failed = request[r].failed]
      BY <1>1 DEF RequestRecord
    <3>2. /\ request' = [request EXCEPT ![r] = [request[r] EXCEPT !.pending = @ \ {op}]]
          /\ UNCHANGED <<exists, forms, restored, broken>>
      BY <2>4 DEF Arrives, Set, imageHistory
    <3>3. UNCHANGED url \/ (op = "update" /\ request[r].known /\ url' = [url EXCEPT ![h] = r])
           \/ (op = "clear" /\ url' = [url EXCEPT ![h] = NoImage])
      BY <2>4 DEF Arrives
    <3>4. objects' \subseteq objects \/ (op = "put" /\ objects' = objects \cup {r})
      BY <2>4 DEF Arrives
    <3> QED
      BY <2>1, <2>4, <3>1, <3>2, <3>3, <3>4
  <2> QED
    BY <2>2, <2>3, <2>4
<1>4. PICK q : q = [request[r] EXCEPT !.pending = @ \ {op}, !.former = former, !.failed = fault]
  OBVIOUS
<1>5. /\ q.at = request[r].at /\ q.former = former /\ q.pending = request[r].pending \ {op}
      /\ q.holder = h /\ q.known = request[r].known
      /\ q.uploads = request[r].uploads /\ q.failed = fault
      /\ q \in RequestRecord
  BY <1>1, <1>3, <1>4 DEF RequestRecord
<1>6. Shape(q)
  BY <1>1, <1>2, <1>3, <1>5 DEF Shape
<1>7. GoesTo(r, q)
  BY <1>1, <1>2, <1>3, <1>4, <1>5 DEF GoesTo, Shown
<1>8. h \in exists \/ ~request[r].known
  BY <1>2 DEF Owners
<1>9. \A g \in Holders : url'[g] = url[g] \/ (g \in exists /\ Ours(url'[g], g, request'))
  <2>1. CASE op = "update" /\ request[r].known /\ url' = [url EXCEPT ![h] = r]
    <3>1. Shown(request'[r]) /\ request'[r].holder = h
      BY <1>1, <1>2, <1>3, <1>4, <1>5, <2>1 DEF Shown, Shape, ImageTypes
    <3> QED
      BY <1>2, <1>8, <2>1, <3>1 DEF Ours, ImageTypes
  <2>2. CASE op = "clear" /\ url' = [url EXCEPT ![h] = NoImage]
    <3>1. request[r].known
      BY <1>1, <1>2, <2>2 DEF Shape, RequestRecord
    <3> QED
      BY <1>2, <1>8, <2>2, <3>1 DEF Ours, ImageTypes
  <2> QED
    BY <1>3, <2>1, <2>2
<1>10. ImageTypes'
  <2>1. url' \in [Holders -> Img]
    BY <1>3 DEF ImageTypes, Img
  <2> QED
    BY <1>3, <1>4, <1>5, <2>1 DEF ImageTypes
<1>11. r \in objects' \ objects => q.uploads /\ q.at \notin {"unused", "read"}
  BY <1>1, <1>2, <1>3, <1>5 DEF Shape, RequestRecord
<1>12. q.failed => q.holder \in broken'
  BY <1>3, <1>5 DEF Owners
<1>13. Ours(q.former, q.holder, request') \/ q.former \in {request[r].former, url[q.holder]}
  BY <1>3, <1>5
<1> QED
  BY <1>3, <1>5, <1>6, <1>7, <1>8, <1>9, <1>10, <1>11, <1>12, <1>13, OwnersStep DEF ImageTypes

\* and a form that is loaded or saved.
LEMMA FormTypes ==
  ASSUME ImageTypes, Owners,
         \/ \E h \in Holders : LoadForm(h)
         \/ \E form \in forms : SaveForm(form)
         \/ \E h \in Holders, r \in Requests : CreateSponsor(h, r)
  PROVE  ImageTypes' /\ Owners'
<1>1. ASSUME NEW h \in Holders, LoadForm(h)
      PROVE  ImageTypes' /\ Owners'
  <2>1. /\ h \in exists /\ forms' = forms \cup {[holder |-> h, url |-> url[h]]}
        /\ UNCHANGED <<exists, url, objects, request, broken>>
    BY <1>1 DEF LoadForm, imageHistory
  <2>2. ImageTypes'
    BY <2>1 DEF ImageTypes
  <2> QED
    BY <2>1, <2>2 DEF Owners, ImageTypes
<1>2. ASSUME NEW form \in forms, SaveForm(form)
      PROVE  ImageTypes' /\ Owners'
  <2>1. /\ forms' \subseteq forms /\ url' = [url EXCEPT ![form.holder] = form.url]
        /\ UNCHANGED <<exists, objects, request, broken>>
    BY <1>2 DEF SaveForm
  <2>2. form.holder \in exists /\ form.url \in Img /\ form.holder \in Holders
    BY DEF Owners, ImageTypes
  <2>3. ImageTypes'
    BY <2>1, <2>2 DEF ImageTypes
  <2> QED
    BY <2>1, <2>2, <2>3 DEF Owners, ImageTypes
<1>3. ASSUME NEW h \in Holders, NEW r \in Requests, CreateSponsor(h, r)
      PROVE  ImageTypes' /\ Owners'
  <2>1. /\ h \notin exists /\ exists' = exists \cup {h} /\ url' = [url EXCEPT ![h] = r]
        /\ request[r].at = "answered" /\ request[r].holder = h
        /\ UNCHANGED <<forms, objects, request, broken>>
    BY <1>3 DEF CreateSponsor, imageHistory
  <2>2. ImageTypes'
    BY <2>1 DEF ImageTypes, Img
  <2>3. Ours(r, h, request)
    BY <2>1 DEF Ours, Shown, Owners, Shape, ImageTypes, RequestRecord
  <2> QED
    BY <2>1, <2>2, <2>3 DEF Owners, ImageTypes
<1> QED
  BY <1>1, <1>2, <1>3

-----------------------------------------------------------------------------

\* Excuses stay.
Excuses == broken \subseteq broken' /\ overlapped \subseteq overlapped' /\ restored \subseteq restored'

\* What a step of a request does not touch.
LEMMA ServesElsewhere ==
  ASSUME ImageTypes, Owners, NEW r, NEW q, GoesTo(r, q), NEW h \in Holders, Serves(h),
         Excuses, exists' = exists, url'[h] = url[h],
         q.holder # h, request[r].at = "unused" \/ request[r].holder # h,
         h \in objects' <=> h \in objects,
         \A i \in Requests : request[i].holder = h => (i \in objects' <=> i \in objects)
  PROVE  Serves(h)'
<1> USE DEF GoesTo, ImageTypes
<1>1. /\ request'[r] = q /\ request[r].holder # h
      /\ \A p \in Requests : p # r => request'[p] = request[p]
  BY ImagesAssumption DEF Owners, Shape
<1>2. url[h] \in {h, NoImage} \/ (url[h] \in Requests /\ request[url[h]].holder = h)
  BY DEF Owners, Ours
<1>3. Kept(h) => Kept(h)'
  BY <1>1 DEF Kept, Coming
<1>4. Spared(h) => Spared(h)'
  BY DEF Spared, Excuses
<1>5. Replaces(h) => Replaces(h)'
  BY <1>1, <1>4 DEF Replaces
<1>6. Cleared(h) => Cleared(h)'
  BY <1>1 DEF Cleared, Excuses
<1>7. Mending(h) => Mending(h)'
  BY <1>1, <1>2, ImagesAssumption DEF Mending
<1>8. url[h] \in objects \cup {NoImage} => url'[h] \in objects' \cup {NoImage}
  BY <1>2
<1> QED
  BY <1>3, <1>4, <1>5, <1>6, <1>7, <1>8 DEF Serves, Excuses

\* A step that leaves a column and all requests alone keeps Serves.
LEMMA ServesSame ==
  ASSUME NEW h \in Holders, Serves(h), Excuses, UNCHANGED <<request, objects>>,
         url'[h] = url[h], h \in exists' <=> h \in exists
  PROVE  Serves(h)'
<1>1. Spared(h) => Spared(h)'
  BY DEF Spared, Excuses
<1>2. Kept(h) => Kept(h)'
  BY DEF Kept, Coming
<1>3. Replaces(h) => Replaces(h)'
  BY <1>1 DEF Replaces
<1>4. Cleared(h) => Cleared(h)'
  BY DEF Cleared, Excuses
<1>5. Mending(h) => Mending(h)'
  BY DEF Mending
<1> QED
  BY <1>1, <1>2, <1>3, <1>4, <1>5 DEF Serves, Excuses

\* Forms keep it: what they change is restored.
LEMMA FormServes ==
  ASSUME ImageTypes, Owners, AllServed,
         \/ \E h \in Holders : LoadForm(h)
         \/ \E form \in forms : SaveForm(form)
         \/ \E h \in Holders, r \in Requests : CreateSponsor(h, r)
  PROVE  AllServed'
<1>1. ASSUME NEW h \in Holders, LoadForm(h)
      PROVE  AllServed'
  BY <1>1, ServesSame DEF LoadForm, imageHistory, Excuses, AllServed
<1>2. ASSUME NEW form \in forms, SaveForm(form)
      PROVE  AllServed'
  <2>1. /\ url' = [url EXCEPT ![form.holder] = form.url] /\ form.holder \in Holders
        /\ restored' = IF url' = url THEN restored ELSE restored \cup {form.holder}
        /\ UNCHANGED <<exists, objects, request, broken, overlapped>>
    BY <1>2 DEF SaveForm, ImageTypes
  <2>2. Excuses
    BY <2>1 DEF Excuses
  <2> SUFFICES ASSUME NEW h \in Holders  PROVE Serves(h)'
    BY DEF AllServed
  <2>3. CASE url'[h] = url[h]
    BY <2>1, <2>2, <2>3, ServesSame DEF AllServed
  <2>4. CASE url'[h] # url[h]
    <3>1. h \in restored'
      BY <2>1, <2>4 DEF ImageTypes
    <3>2. Kept(h) => Kept(h)'
      BY <2>1 DEF Kept, Coming
    <3> QED
      BY <2>1, <3>1, <3>2 DEF Serves, AllServed
  <2> QED
    BY <2>3, <2>4
<1>3. ASSUME NEW h \in Holders, NEW r \in Requests, CreateSponsor(h, r)
      PROVE  AllServed'
  <2>1. /\ h \notin exists /\ exists' = exists \cup {h} /\ url' = [url EXCEPT ![h] = r]
        /\ request[r].at = "answered" /\ request[r].holder = h
        /\ UNCHANGED <<forms, objects, request, broken, overlapped, restored>>
    BY <1>3 DEF CreateSponsor, imageHistory
  <2>2. Excuses
    BY <2>1 DEF Excuses
  <2>3. ASSUME NEW g \in Holders, g # h  PROVE Serves(g)'
    BY <2>1, <2>2, <2>3, ServesSame DEF AllServed, ImageTypes
  <2>4. Serves(h)'
    <3>1. \A p \in Requests : request[p].holder = h => ~request[p].known
      BY <2>1 DEF Owners
    <3>2. Replaces(h)' /\ Cleared(h)'
      BY <2>1, <3>1 DEF Replaces, Cleared, Owners, Shape
    <3>3. Kept(h) => Kept(h)'
      BY <2>1 DEF Kept, Coming
    <3>4. Coming(request[r], h)
      BY <2>1, <3>1 DEF Coming, Owners, Shape
    <3>5. url'[h] = r
      BY <2>1 DEF ImageTypes
    <3>6. Kept(h) => r \in objects' \/ Mending(h)'
      BY <2>1, <3>4, <3>5 DEF Kept, Mending
    <3> QED
      BY <2>1, <3>2, <3>3, <3>5, <3>6 DEF Serves, AllServed
  <2> QED
    BY <2>3, <2>4 DEF AllServed
<1> QED
  BY <1>1, <1>2, <1>3

\* A request whose fields still mean the same to its column.
LEMMA ServesHere ==
  ASSUME ImageTypes, Owners, NEW r, NEW q, GoesTo(r, q), NEW h \in Holders, Serves(h),
         Excuses, exists' = exists, url' = url, objects \subseteq objects', q.holder = h,
         request[r].at = "unused" \/ request[r].holder = h,
         h \notin broken' /\ Coming(q, h) => "put" \in q.pending \/ r \in objects',
         h \notin broken' \cup restored' /\ q.known /\ q.former = url[h] /\ url[h] # NoImage
           => q.pending \cap {"update", "clear"} # {} \/ Spared(h)',
         h \notin broken' \cup restored' /\ q.at = "look" /\ "clear" \notin q.pending
           => h \in overlapped' \/ url[h] = NoImage,
         h \notin broken' \cup restored' =>
           /\ "put" \in request[r].pending => "put" \in q.pending \/ r \in objects'
           /\ request[r].known /\ request[r].pending \cap {"update", "clear"} # {} =>
                q.pending \cap {"update", "clear"} # {} /\ q.former \in {request[r].former, url[h]}
                /\ q.known = request[r].known
  PROVE  Serves(h)'
<1> USE DEF GoesTo, ImageTypes
<1>1. /\ request'[r] = q
      /\ \A p \in Requests : p # r => request'[p] = request[p]
  OBVIOUS
<1>2. Spared(h) => Spared(h)'
  BY DEF Spared, Excuses
<1>3. h \notin broken' /\ Kept(h) => Kept(h)'
  <2> SUFFICES ASSUME h \notin broken', Kept(h), NEW p \in Requests, Coming(request[p], h)'
               PROVE  "put" \in request'[p].pending \/ p \in objects'
    BY DEF Kept
  <2>1. Coming(request'[p], h)
    BY DEF Coming
  <2> QED
    BY <1>1, <2>1 DEF Kept
<1>4. h \notin broken' \cup restored' /\ Replaces(h) => Replaces(h)'
  BY <1>1, <1>2 DEF Replaces
<1>5. h \notin broken' \cup restored' /\ Cleared(h) => Cleared(h)'
  BY <1>1 DEF Cleared, Excuses
<1>6. h \notin broken' \cup restored' /\ Mending(h)
        => Mending(h)' \/ url'[h] \in objects'
  <2> SUFFICES ASSUME h \notin broken' \cup restored', NEW p \in Requests,
                      \/ "put" \in request[p].pending /\ url[h] = p
                      \/ /\ request[p].pending \cap {"update", "clear"} # {}
                         /\ request[p].holder = h /\ request[p].known /\ request[p].former = url[h]
               PROVE  Mending(h)' \/ url'[h] \in objects'
    BY DEF Mending
  <2>1. CASE p # r
    BY <1>1, <2>1 DEF Mending
  <2>2. CASE p = r
    BY <1>1, <2>2 DEF Mending
  <2> QED
    BY <2>1, <2>2
<1> QED
  BY <1>2, <1>3, <1>4, <1>5, <1>6 DEF Serves, Excuses

\* A request that comes keeps AllServed.
LEMMA ArriveServes ==
  ASSUME ImageTypes, Owners, AllServed, NEW r \in Requests, NEW k \in Holders,
         Upload(r, k) \/ RemoveHeroImage(r, k) \/ RemoveAvatar(r, k)
  PROVE  AllServed'
<1>1. PICK q : /\ \/ q = Request("read", k, k \in exists, NoImage, {})
                  \/ q = Request("wait", k, TRUE, url[k], {"clear"} \cup ToDelete(url[k]))
                     /\ Kind[k] = "hero"
                  \/ q = Request("look", k, TRUE, NoImage, {"look", "clear"})
                     /\ Kind[k] = "avatar"
               /\ request[r].at = "unused" /\ request' = [request EXCEPT ![r] = q]
  BY DEF Upload, RemoveHeroImage, RemoveAvatar, Remove, Come, Set
<1>2. UNCHANGED <<exists, url, objects>> /\ Excuses
  BY DEF Upload, RemoveHeroImage, RemoveAvatar, Remove, Overlap, Excuses
<1>3. ImageTypes'
  BY UploadTypes, RemoveTypes
<1>4. q.holder = k /\ q.at \in {"read", "wait", "look"} /\ q.former \in {NoImage, url[k]}
  BY <1>1 DEF Request
<1>5. GoesTo(r, q)
  BY <1>1, <1>3, <1>4 DEF GoesTo, ImageTypes, Shown
<1>6. ~Coming(q, k)
  <2>1. CASE q = Request("read", k, k \in exists, NoImage, {})
    BY <2>1 DEF Request, Coming
  <2>2. CASE q = Request("wait", k, TRUE, url[k], {"clear"} \cup ToDelete(url[k]))
    BY <2>2 DEF Request, Coming
  <2>3. CASE q = Request("look", k, TRUE, NoImage, {"look", "clear"})
    BY <2>3 DEF Request, Coming
  <2> QED
    BY <1>1, <2>1, <2>2, <2>3
<1>7. (q.at = "look" => "clear" \in q.pending) /\ (q.at = "wait" => "clear" \in q.pending)
      /\ (q.at # "wait" => q.former = NoImage)
  BY <1>1 DEF Request
<1>8. request[r].pending = {}
  BY <1>1 DEF Owners, Shape
<1> SUFFICES ASSUME NEW h \in Holders  PROVE Serves(h)'
  BY DEF AllServed
<1>9. CASE h = k
  BY <1>1, <1>2, <1>4, <1>5, <1>6, <1>7, <1>8, <1>9, ServesHere DEF AllServed
<1>10. CASE h # k
  BY <1>1, <1>2, <1>4, <1>5, <1>10, ServesElsewhere DEF AllServed
<1> QED
  BY <1>9, <1>10

\* A request that goes on keeps AllServed.
LEMMA GoesOnServes ==
  ASSUME ImageTypes, Owners, AllServed, NEW r \in Requests,
         ReadFormer(r) \/ Looked(r) \/ Answer(r) \/ Rejected(r)
  PROVE  AllServed'
<1> DEFINE k == request[r].holder
<1>1. PICK q : /\ \/ \E former \in Img : /\ request[r].at = "read"
                       /\ q = [request[r] EXCEPT !.at = "wait", !.former = former,
                                       !.pending = UpdateImage \cup ToDelete(former)]
                  \/ /\ request[r].at = "look" /\ request[r].pending = {}
                     /\ q = [request[r] EXCEPT !.at = "wait", !.pending = ToDelete(request[r].former)]
                  \/ request[r].at = "wait" /\ q = [request[r] EXCEPT !.at = "answered"]
                  \/ /\ request[r].at \in {"look", "wait"} /\ request[r].failed
                     /\ q = [request[r] EXCEPT !.at = "failed"]
               /\ request' = [request EXCEPT ![r] = q]
  <2>1. request[r].at = "read" => request[r].holder \in Holders
    BY DEF Owners, Shape
  <2>2. request[r].at = "read" => (IF request[r].known THEN url[request[r].holder] ELSE NoImage) \in Img
    BY <2>1 DEF ImageTypes, Img
  <2> QED
    BY <2>2 DEF ReadFormer, Looked, Answer, Rejected, Set
<1>2. UNCHANGED <<exists, url, objects, broken, restored, overlapped>> /\ Excuses
  BY DEF ReadFormer, Looked, Answer, Rejected, Excuses, imageHistory
<1>3. ImageTypes' /\ Owners'
  BY ReadTypes, GoesOnTypes
<1>4. /\ request[r] \in RequestRecord /\ Shape(request[r]) /\ k \in Holders
      /\ request[r].at # "unused"
  BY <1>1 DEF ImageTypes, Owners, Shape
<1>5. /\ q.holder = k /\ q.at \in {"wait", "answered", "failed"} /\ q.known = request[r].known
      /\ q.uploads = request[r].uploads /\ q \in RequestRecord
  <2>1. q \in RequestRecord
    BY <1>1, <1>3 DEF ImageTypes
  <2>2. q.at \in {"wait", "answered", "failed"}
    BY <1>1, <1>4 DEF RequestRecord
  <2> QED
    BY <1>1, <1>4, <2>1, <2>2 DEF RequestRecord
<1>6. \/ request[r].at = "read" /\ {"put", "update"} \subseteq q.pending
      \/ /\ request[r].at = "look" /\ request[r].pending = {} /\ ~q.uploads
         /\ q.former = request[r].former
      \/ request[r].at # "read" /\ q.pending = request[r].pending /\ q.former = request[r].former
  <2>1. ASSUME NEW former \in Img, request[r].at = "read",
               q = [request[r] EXCEPT !.at = "wait", !.former = former,
                                      !.pending = UpdateImage \cup ToDelete(former)]
        PROVE  {"put", "update"} \subseteq q.pending
    BY <1>4, <2>1 DEF RequestRecord, UpdateImage
  <2>2. ASSUME request[r].at = "look", request[r].pending = {},
               q = [request[r] EXCEPT !.at = "wait", !.pending = ToDelete(request[r].former)]
        PROVE  ~q.uploads /\ q.former = request[r].former
    BY <1>4, <2>2 DEF RequestRecord, Shape
  <2>3. ASSUME NEW point, q = [request[r] EXCEPT !.at = point]
        PROVE  q.pending = request[r].pending /\ q.former = request[r].former
    BY <1>4, <2>3 DEF RequestRecord
  <2> QED
    BY <1>1, <2>1, <2>2, <2>3
<1>7. GoesTo(r, q)
  BY <1>1, <1>4, <1>5, <1>6 DEF GoesTo, Shown, Shape
<1> SUFFICES ASSUME NEW h \in Holders  PROVE Serves(h)'
  BY DEF AllServed
<1>8. CASE h = k
  <2>1. Serves(h) /\ (request[r].at = "read" => request[r].pending = {})
    BY <1>4 DEF AllServed, Shape
  <2>2. h \notin broken' /\ Coming(q, h) => "put" \in q.pending \/ r \in objects
    <3>1. q.uploads /\ request[r].at # "read" => q.pending = request[r].pending
      BY <1>6
    <3>2. Coming(q, h) /\ request[r].at # "read" => Coming(request[r], h)
      BY <1>4, <1>5, <1>8, <3>1 DEF Coming
    <3> QED
      BY <1>2, <1>6, <2>1, <3>1, <3>2 DEF Serves, Kept, Coming
  <2>3. h \notin broken' \cup restored' /\ q.known /\ q.former = url[h] /\ url[h] # NoImage
           => q.pending \cap {"update", "clear"} # {} \/ Spared(h)'
    <3>1. CASE request[r].at = "read" /\ {"put", "update"} \subseteq q.pending
      BY <3>1
    <3>2. CASE request[r].at = "look" /\ request[r].pending = {} /\ q.former = request[r].former
      <4>1. Kind[h] = "avatar"
        BY <1>4, <1>8, <3>2 DEF Shape
      <4> QED
        BY <1>2, <1>4, <1>8, <2>1, <3>2, <4>1 DEF Serves, Cleared, Spared
    <3>3. CASE q.pending = request[r].pending /\ q.former = request[r].former
      BY <1>2, <1>5, <1>8, <2>1, <3>3 DEF Serves, Replaces, Spared
    <3> QED
      BY <1>6, <3>1, <3>2, <3>3
  <2>4. q.at # "look"
    BY <1>5
  <2>5. /\ "put" \in request[r].pending => "put" \in q.pending
        /\ request[r].pending \cap {"update", "clear"} # {} =>
             q.pending \cap {"update", "clear"} # {} /\ q.former \in {request[r].former, url[h]}
             /\ q.known = request[r].known
    BY <1>5, <1>6, <2>1
  <2> QED
    BY <1>2, <1>5, <1>7, <1>8, <2>1, <2>2, <2>3, <2>4, <2>5, ServesHere
<1>9. CASE h # k
  BY <1>1, <1>2, <1>5, <1>7, <1>9, ServesElsewhere DEF AllServed
<1> QED
  BY <1>8, <1>9

\* What a call that arrives or fails does to its request.
LEMMA ArrivesForms ==
  ASSUME ImageTypes, Owners, NEW r \in Requests, NEW op \in request[r].pending,
         Arrives(r, op) \/ CallFails(r, op)
  PROVE  LET q == request'[r] IN
         /\ GoesTo(r, q) /\ q.at = request[r].at /\ q.pending = request[r].pending \ {op}
         /\ q.holder = request[r].holder /\ q.known = request[r].known
         /\ q.uploads = request[r].uploads
         /\ IF op = "look" /\ Arrives(r, op) THEN q.former = url[q.holder]
            ELSE q.former = request[r].former
<1>1. ImageTypes' /\ request[r] \in RequestRecord /\ Shape(request[r])
  BY ArrivesTypes DEF ImageTypes, Owners
<1>2. request[r].at \notin {"unused", "read"}
  BY <1>1 DEF Shape
<1>3. PICK q : /\ request' = [request EXCEPT ![r] = q]
               /\ q.at = request[r].at /\ q.pending = request[r].pending \ {op}
               /\ q.holder = request[r].holder /\ q.known = request[r].known
               /\ q.uploads = request[r].uploads
               /\ IF op = "look" /\ Arrives(r, op) THEN q.former = url[q.holder]
                  ELSE q.former = request[r].former
  <2>1. CASE CallFails(r, op) /\ ~Arrives(r, op)
    <3>1. PICK q : q = [request[r] EXCEPT !.pending = @ \ {op}, !.failed = TRUE]
      OBVIOUS
    <3>2. request' = [request EXCEPT ![r] = q]
      BY <2>1, <3>1 DEF CallFails, Set
    <3>3. /\ q.at = request[r].at /\ q.pending = request[r].pending \ {op}
          /\ q.holder = request[r].holder /\ q.known = request[r].known
          /\ q.uploads = request[r].uploads
          /\ q.former = request[r].former
      BY <1>1, <3>1 DEF RequestRecord
    <3> QED
      BY <2>1, <3>2, <3>3
  <2>2. CASE Arrives(r, op) /\ op = "look"
    <3>1. PICK q : q = [request[r] EXCEPT !.pending = @ \ {op}, !.former = url[request[r].holder]]
      OBVIOUS
    <3>2. request' = [request EXCEPT ![r] = q]
      BY <2>2, <3>1 DEF Arrives, Set
    <3>3. /\ q.at = request[r].at /\ q.pending = request[r].pending \ {op}
          /\ q.holder = request[r].holder /\ q.known = request[r].known
          /\ q.uploads = request[r].uploads
          /\ q.former = url[request[r].holder]
      BY <1>1, <3>1 DEF RequestRecord
    <3> QED
      BY <2>2, <3>2, <3>3
  <2>3. CASE Arrives(r, op) /\ op # "look"
    <3>1. PICK q : q = [request[r] EXCEPT !.pending = @ \ {op}]
      OBVIOUS
    <3>2. request' = [request EXCEPT ![r] = q]
      BY <2>3, <3>1 DEF Arrives, Set
    <3>3. /\ q.at = request[r].at /\ q.pending = request[r].pending \ {op}
          /\ q.holder = request[r].holder /\ q.known = request[r].known
          /\ q.uploads = request[r].uploads
          /\ q.former = request[r].former
      BY <1>1, <3>1 DEF RequestRecord
    <3> QED
      BY <2>3, <3>2, <3>3
  <2> QED
    BY <2>1, <2>2, <2>3
<1>4. request'[r] = q /\ q \in RequestRecord
  BY <1>1, <1>3 DEF ImageTypes
<1>5. GoesTo(r, q)
  BY <1>2, <1>3, <1>4 DEF GoesTo, Shown
<1> QED
  BY <1>3, <1>4, <1>5

\* A call that arrives or fails keeps AllServed; each kind of call is a case.
LEMMA ArrivesServes ==
  ASSUME ImageTypes, Owners, Single, AllServed, NEW r \in Requests,
         NEW op \in request[r].pending, Arrives(r, op) \/ CallFails(r, op)
  PROVE  AllServed'
<1> DEFINE k == request[r].holder
<1>1. PICK q : q = request'[r]
  OBVIOUS
<1>2. /\ GoesTo(r, q) /\ q.at = request[r].at /\ q.pending = request[r].pending \ {op}
      /\ q.holder = k /\ q.known = request[r].known /\ q.uploads = request[r].uploads
      /\ IF op = "look" /\ Arrives(r, op) THEN q.former = url[k] ELSE q.former = request[r].former
  BY <1>1, ArrivesForms
<1>3. /\ request[r] \in RequestRecord /\ Shape(request[r]) /\ k \in Holders
      /\ request[r].at \notin {"unused", "read"}
  BY DEF ImageTypes, Owners, Shape
<1>4. Excuses /\ exists' = exists
  BY DEF Arrives, CallFails, Excuses, imageHistory
<1>5. ASSUME NEW i, i \notin {r, request[r].former} \/ CallFails(r, op)
      PROVE  i \in objects' <=> i \in objects
  BY <1>5 DEF Arrives, CallFails, Doomed
<1>6. \A h \in Holders \ {k} : url'[h] = url[h]
  BY <1>3 DEF Arrives, CallFails, ImageTypes
<1>7. request[r].former \in {k, NoImage} \/
        (request[r].former \in Requests /\ request[request[r].former].holder = k)
  BY <1>3 DEF Owners, Ours
<1> SUFFICES ASSUME NEW h \in Holders  PROVE Serves(h)'
  BY DEF AllServed
<1>8. CASE h # k
  <2>1. h \in objects' <=> h \in objects
    BY <1>5, <1>7, <1>8, ImagesAssumption
  <2>2. \A i \in Requests : request[i].holder = h => (i \in objects' <=> i \in objects)
    BY <1>5, <1>3, <1>7, <1>8, ImagesAssumption
  <2> QED
    BY <1>2, <1>3, <1>4, <1>6, <1>8, <2>1, <2>2, ServesElsewhere DEF AllServed
<1>9. CASE h = k /\ h \in broken'
  BY <1>9 DEF Serves
<1>10. CASE h = k /\ h \notin broken'
  <2>1. Arrives(r, op) /\ UNCHANGED <<broken, overlapped, restored>>
    BY <1>10 DEF CallFails, Arrives, imageHistory
  <2>2. ~request[r].failed /\ request[r].at # "failed" /\ h \notin broken /\ Serves(h)
    BY <1>3, <1>10, <2>1 DEF Owners, Shape, AllServed
  <2>3. CASE op \in {"look", "put"} \/ (op = "update" /\ ~request[r].known)
    <3>1. url' = url /\ objects \subseteq objects' /\ (op = "put" => r \in objects')
      BY <2>1, <2>3 DEF Arrives
    <3>2. Coming(q, h) => "put" \in q.pending \/ r \in objects'
      <4>1. Coming(q, h) => Coming(request[r], h)
        BY <1>2 DEF Coming
      <4> QED
        BY <1>2, <2>2, <2>3, <3>1, <4>1 DEF Serves, Kept
    <3>3. h \notin restored' /\ q.known /\ q.former = url[h] /\ url[h] # NoImage
           => q.pending \cap {"update", "clear"} # {} \/ Spared(h)'
      <4>1. CASE op = "look"
        <5>1. request[r].at = "look" /\ Kind[h] = "avatar"
          BY <1>3, <1>10, <2>2, <4>1 DEF Shape
        <5> QED
          BY <1>2, <1>10, <2>1, <2>2, <4>1, <5>1 DEF Serves, Cleared, Spared
      <4>2. CASE op # "look"
        BY <1>2, <1>10, <2>1, <2>2, <2>3, <3>1, <4>2 DEF Serves, Replaces, Spared
      <4> QED
        BY <4>1, <4>2
    <3>4. h \notin restored' /\ q.at = "look" /\ "clear" \notin q.pending
           => h \in overlapped' \/ url[h] = NoImage
      BY <1>2, <1>10, <2>1, <2>2, <2>3 DEF Serves, Cleared
    <3>5. /\ "put" \in request[r].pending => "put" \in q.pending \/ r \in objects'
          /\ request[r].known /\ request[r].pending \cap {"update", "clear"} # {} =>
                q.pending \cap {"update", "clear"} # {} /\ q.former \in {request[r].former, url[h]}
                /\ q.known = request[r].known
      BY <1>2, <1>10, <2>3, <3>1
    <3> QED
      BY <1>2, <1>4, <1>10, <2>2, <3>1, <3>2, <3>3, <3>4, <3>5, ServesHere
  <2>4. CASE op = "update" /\ request[r].known
    <3>1. url'[h] = r /\ objects' = objects
      BY <1>3, <1>10, <2>1, <2>4 DEF Arrives, ImageTypes
    <3>2. request[r].uploads /\ ~Shown(request[r]) /\ h \in exists
      BY <1>3, <1>10, <2>4 DEF Shape, Shown, Owners
    <3>3. "put" \in request[r].pending \/ r \in objects
      BY <1>3, <1>10, <2>2, <2>4, <3>2 DEF Serves, Kept, Coming
    <3>4. \A p \in Requests \ {r} : request'[p] = request[p]
      BY <1>2 DEF GoesTo, ImageTypes
    <3>5. request'[r] = q
      BY <1>1
    <3>6. Kept(h)'
      <4> SUFFICES ASSUME NEW p \in Requests, Coming(request[p], h)'
                   PROVE  "put" \in request'[p].pending \/ p \in objects'
        BY DEF Kept
      <4>1. CASE p = r
        BY <1>2, <2>4, <3>1, <3>2, <3>3, <3>5, <4>1
      <4>2. CASE p # r
        BY <1>4, <2>2, <3>1, <3>4, <4>2 DEF Serves, Kept, Coming
      <4> QED
        BY <4>1, <4>2
    <3>7. \A p \in Requests : request'[p].holder = h => request'[p].former # r
      <4> SUFFICES ASSUME NEW p \in Requests, request'[p].holder = h, request'[p].former = r
                   PROVE  FALSE
        OBVIOUS
      <4>1. request[p].former = r /\ request[p].holder = h
        BY <1>2, <1>10, <2>4, <3>4, <3>5
      <4>2. request[p].at # "unused"
        BY <4>1, ImagesAssumption DEF Owners, Shape
      <4> QED
        BY <3>2, <4>1, <4>2, ImagesAssumption DEF Owners, Ours
    <3>8. Replaces(h)'
      BY <3>1, <3>7 DEF Replaces
    <3>9. Cleared(h)'
      <4> SUFFICES ASSUME h \notin overlapped, NEW p \in Requests, request'[p].holder = h,
                          request'[p].at = "look"
                   PROVE  FALSE
        BY <2>1 DEF Cleared
      <4>1. p # r /\ request[p] = request'[p]
        BY <1>2, <1>3, <3>2, <3>4, <3>5 DEF Shape
      <4>2. p \in Live(h)
        BY <4>1 DEF Live
      <4>3. request[r].at # "answered"
        BY <1>3, <2>4 DEF Shape
      <4>4. r \in Live(h)
        BY <1>3, <1>10, <2>2, <4>3 DEF Live
      <4> QED
        BY <4>1, <4>2, <4>4 DEF Single
    <3>10. url'[h] \in objects' \/ Mending(h)'
      BY <1>2, <2>4, <3>1, <3>3, <3>5 DEF Mending
    <3> QED
      BY <3>6, <3>8, <3>9, <3>10 DEF Serves
  <2>5. CASE op = "clear"
    <3>1. url'[h] = NoImage /\ objects' = objects
      BY <1>3, <1>10, <2>1, <2>5 DEF Arrives, ImageTypes
    <3>2. Kept(h)'
      <4> SUFFICES ASSUME NEW p \in Requests, Coming(request[p], h)'
                   PROVE  "put" \in request'[p].pending \/ p \in objects'
        BY DEF Kept
      <4>1. ~q.uploads
        BY <1>2, <1>3, <2>5 DEF Shape
      <4>2. p # r /\ request'[p] = request[p]
        BY <1>1, <1>2, <4>1 DEF GoesTo, ImageTypes, Coming
      <4> QED
        BY <1>4, <2>2, <3>1, <4>2 DEF Serves, Kept, Coming
    <3>3. Replaces(h)' /\ Cleared(h)'
      BY <3>1 DEF Replaces, Cleared
    <3> QED
      BY <3>1, <3>2, <3>3 DEF Serves
  <2>6. CASE op = "delete"
    <3>1. url' = url /\ objects' = objects \ {request[r].former} /\ q.former = request[r].former
      BY <1>2, <2>1, <2>6 DEF Arrives, Doomed
    <3>2. request[r].known /\ request[r].former # NoImage
      BY <1>3, <2>6 DEF Shape
    <3>3. h \in exists
      BY <1>10, <3>2 DEF Owners
    <3>4. request'[r] = q /\ \A p \in Requests \ {r} : request'[p] = request[p]
      BY <1>1, <1>2 DEF GoesTo, ImageTypes
    <3>5. \A p \in Requests : Coming(request[p], h) => p # request[r].former
      BY <1>3, <1>10, <3>3, ImagesAssumption DEF Owners, Ours, Coming, Shown
    <3>6. Kept(h)'
      <4> SUFFICES ASSUME NEW p \in Requests, Coming(request[p], h)'
                   PROVE  "put" \in request'[p].pending \/ p \in objects'
        BY DEF Kept
      <4>1. Coming(request[p], h)
        BY <1>2, <1>4, <2>6, <3>4 DEF Coming
      <4> QED
        BY <1>2, <2>2, <2>6, <3>1, <3>4, <3>5, <4>1 DEF Serves, Kept
    <3>7. h \notin restored' => Replaces(h)'
      BY <1>2, <2>1, <2>2, <2>6, <3>1, <3>4 DEF Serves, Replaces, Spared
    <3>8. h \notin restored' => Cleared(h)'
      BY <1>2, <2>1, <2>2, <2>6, <3>1, <3>4 DEF Serves, Cleared
    <3>9. h \notin restored' => url'[h] \in objects' \cup {NoImage} \/ Mending(h)' \/ Spared(h)'
      <4> SUFFICES ASSUME h \notin restored, url[h] # NoImage
                   PROVE  url[h] \in objects' \/ Mending(h)' \/ Spared(h)'
        BY <2>1, <3>1
      <4>1. CASE url[h] = request[r].former
        <5>1. request[r].pending \cap {"update", "clear"} # {} \/ Spared(h)
          BY <1>10, <2>2, <3>2, <4>1 DEF Serves, Replaces
        <5>2. CASE Spared(h)
          BY <2>1, <3>1, <5>2 DEF Spared
        <5>3. CASE request[r].pending \cap {"update", "clear"} # {}
          BY <1>2, <1>10, <2>6, <3>1, <3>2, <3>4, <4>1, <5>3 DEF Mending
        <5> QED
          BY <5>1, <5>2, <5>3
      <4>2. CASE url[h] # request[r].former
        <5>1. url[h] \in objects => url[h] \in objects'
          BY <3>1, <4>2
        <5>2. Spared(h) => Spared(h)'
          BY <2>1, <3>1 DEF Spared
        <5>3. Mending(h) => Mending(h)'
          BY <1>2, <2>6, <3>1, <3>4 DEF Mending
        <5> QED
          BY <2>2, <3>3, <5>1, <5>2, <5>3 DEF Serves
      <4> QED
        BY <4>1, <4>2
    <3> QED
      BY <2>1, <3>6, <3>7, <3>8, <3>9 DEF Serves
  <2> QED
    BY <1>3, <2>3, <2>4, <2>5, <2>6 DEF RequestRecord, Ops
<1> QED
  BY <1>8, <1>9, <1>10
-----------------------------------------------------------------------------

\* Who is at work on a column: a request that comes counts the others, and no
\* other step brings one to work.
LEMMA SingleStep ==
  ASSUME ImageTypes, Owners, Single, ImagesNext
  PROVE  Single'
<1>1. ASSUME NEW r \in Requests, NEW k \in Holders,
             Upload(r, k) \/ RemoveHeroImage(r, k) \/ RemoveAvatar(r, k)
      PROVE  Single'
  <2>1. \A p \in Requests \ {r} : request'[p] = request[p]
    BY <1>1 DEF Upload, RemoveHeroImage, RemoveAvatar, Remove, Set, ImageTypes
  <2>2. request'[r].holder = k
    BY <1>1 DEF Upload, RemoveHeroImage, RemoveAvatar, Remove, Set, ImageTypes, Request
  <2>3. overlapped \subseteq overlapped' /\ (k \notin overlapped' => Live(k) = {})
    BY <1>1 DEF Upload, RemoveHeroImage, RemoveAvatar, Remove, Overlap
  <2>4. \A h \in Holders \ {k} : Live(h)' \subseteq Live(h)
    BY <2>1, <2>2 DEF Live
  <2>5. Live(k)' \subseteq Live(k) \cup {r}
    BY <2>1 DEF Live
  <2>6. ASSUME NEW h \in Holders \ overlapped', NEW p \in Live(h)', NEW q \in Live(h)'
        PROVE  p = q
    <3>1. CASE h = k
      BY <2>3, <2>5, <2>6, <3>1
    <3>2. CASE h # k
      BY <2>3, <2>4, <2>6, <3>2 DEF Single
    <3> QED
      BY <3>1, <3>2
  <2> QED
    BY <2>6 DEF Single
<1>2. ASSUME overlapped' = overlapped,
             \A r \in Requests :
               /\ request'[r].holder = request[r].holder
               /\ request[r].at \in {"unused", "answered", "failed"} =>
                    request'[r].at \in {"unused", "answered", "failed"}
      PROVE  Single'
  <2>1. \A h \in Holders : Live(h)' \subseteq Live(h)
    BY <1>2 DEF Live
  <2> QED
    BY <1>2, <2>1 DEF Single
<1>3. ASSUME NEW r \in Requests, ReadFormer(r) \/ Looked(r) \/ Answer(r) \/ Rejected(r)
      PROVE  Single'
  <2>1. request[r] \in RequestRecord
    BY DEF ImageTypes
  <2>2. PICK q : /\ request' = [request EXCEPT ![r] = q] /\ q.holder = request[r].holder
    <3>1. CASE ReadFormer(r)
      <4>1. ASSUME NEW former, NEW pending, NEW q,
                   q = [request[r] EXCEPT !.at = "wait", !.former = former, !.pending = pending]
            PROVE  q.holder = request[r].holder
        BY <2>1, <4>1 DEF RequestRecord
      <4> QED
        BY <3>1, <4>1 DEF ReadFormer, Set
    <3>2. CASE Looked(r)
      <4>1. PICK q : q = [request[r] EXCEPT !.at = "wait", !.pending = ToDelete(request[r].former)]
        OBVIOUS
      <4>2. q.holder = request[r].holder
        BY <2>1, <4>1 DEF RequestRecord
      <4> QED
        BY <3>2, <4>1, <4>2 DEF Looked, Set
    <3>3. CASE Answer(r)
      <4>1. PICK q : q = [request[r] EXCEPT !.at = "answered"]
        OBVIOUS
      <4>2. q.holder = request[r].holder
        BY <2>1, <4>1 DEF RequestRecord
      <4> QED
        BY <3>3, <4>1, <4>2 DEF Answer, Set
    <3>4. CASE Rejected(r)
      <4>1. PICK q : q = [request[r] EXCEPT !.at = "failed"]
        OBVIOUS
      <4>2. q.holder = request[r].holder
        BY <2>1, <4>1 DEF RequestRecord
      <4> QED
        BY <3>4, <4>1, <4>2 DEF Rejected, Set
    <3> QED
      BY <1>3, <3>1, <3>2, <3>3, <3>4
  <2>3. request[r].at \notin {"unused", "answered", "failed"} /\ overlapped' = overlapped
    BY <1>3 DEF ReadFormer, Looked, Answer, Rejected, imageHistory
  <2>4. /\ request'[r].holder = request[r].holder
        /\ \A p \in Requests \ {r} : request'[p] = request[p]
    BY <2>2 DEF ImageTypes
  <2> QED
    BY <1>2, <2>3, <2>4
<1>4. ASSUME NEW r \in Requests, NEW op \in request[r].pending, Arrives(r, op) \/ CallFails(r, op)
      PROVE  Single'
  <2>1. PICK q : /\ request' = [request EXCEPT ![r] = q]
                 /\ q.holder = request[r].holder /\ q.at = request[r].at
    BY <1>4, ArrivesForms DEF GoesTo
  <2>2. overlapped' = overlapped
    BY <1>4 DEF Arrives, CallFails, imageHistory
  <2> QED
    BY <1>2, <2>1, <2>2 DEF ImageTypes
<1>5. ASSUME \/ \E h \in Holders : LoadForm(h)
             \/ \E form \in forms : SaveForm(form)
             \/ \E h \in Holders, r \in Requests : CreateSponsor(h, r)
      PROVE  Single'
  BY <1>2, <1>5 DEF LoadForm, SaveForm, CreateSponsor, imageHistory
<1> QED
  BY <1>1, <1>3, <1>4, <1>5
  DEF ImagesNext, CreateHeroImage, CreateAvatar, UploadBanner, UploadLogo

\* The inductive invariant of UrlServed.
ServedInv == ImageTypes /\ Owners /\ Single /\ AllServed

\* It is inductive.
LEMMA ServedStep ==
  ASSUME ServedInv, [ImagesNext]_ImageVars
  PROVE  ServedInv'
<1>1. ASSUME ImagesNext
      PROVE  ImageTypes' /\ Owners'
  BY <1>1, UploadTypes, RemoveTypes, ReadTypes, GoesOnTypes, ArrivesTypes, FormTypes
  DEF ImagesNext, CreateHeroImage, CreateAvatar, UploadBanner, UploadLogo, ServedInv
<1>2. ASSUME ImagesNext
      PROVE  AllServed'
  BY <1>2, ArriveServes, GoesOnServes, ArrivesServes, FormServes
  DEF ImagesNext, CreateHeroImage, CreateAvatar, UploadBanner, UploadLogo, ServedInv
<1>3. ASSUME ImagesNext
      PROVE  Single'
  BY <1>3, SingleStep DEF ServedInv
<1>4. ASSUME UNCHANGED ImageVars
      PROVE  ServedInv'
  <2>1. UNCHANGED <<exists, url, objects, request, forms, broken, overlapped, restored>>
    BY <1>4 DEF ImageVars, imageState, imageHistory
  <2>2. ImageTypes'
    BY <2>1 DEF ServedInv, ImageTypes
  <2>3. Owners'
    BY <2>1 DEF ServedInv, Owners, Ours
  <2>4. Single'
    BY <2>1 DEF ServedInv, Single, Live
  <2>5. AllServed'
    BY <2>1, ServesSame DEF ServedInv, AllServed, Excuses
  <2> QED
    BY <2>2, <2>3, <2>4, <2>5 DEF ServedInv
<1> QED
  BY <1>1, <1>2, <1>3, <1>4 DEF ServedInv

\* Whatever the images, requests and failures, no column keeps the URL of a
\* deleted object but for a failed call, a form loaded before, or a removed
\* avatar.
THEOREM UrlsAreServed == ImagesSpec => []UrlServed
<1>1. ImagesInit => ServedInv
  BY ImagesInitTypes DEF ServedInv
<1>2. ServedInv /\ [ImagesNext]_ImageVars => ServedInv'
  BY ServedStep
<1>3. ServedInv => UrlServed
  BY DEF ServedInv, AllServed, Serves, UrlServed, ImageTypes
<1> QED
  BY <1>1, <1>2, <1>3, PTL DEF ImagesSpec, ImageVars
-----------------------------------------------------------------------------
\* What is left over

\* The inductive invariant of OrphansExplained.
LeftInv == ImageTypes /\ Owners /\ Single /\ NothingLeft

\* What excuses a holder stays.
LEMMA QuietBefore ==
  ASSUME ImageTypes, Owners, Excuses, NEW h \in Holders, Quiet(h)',
         \A p \in Requests : request[p].at # "unused" =>
           request'[p].holder = request[p].holder /\ request'[p].uploads = request[p].uploads
  PROVE  Quiet(h)
<1>1. \A p \in Requests : request[p].holder = h => request[p].at # "unused"
  BY ImagesAssumption DEF Owners, Shape
<1> QED
  BY <1>1 DEF Quiet, Removed, Excuses

\* A step of one request leaves the holders of all as they are.
LEMMA GoesOnHolders ==
  ASSUME ImageTypes, NEW r, NEW q, GoesTo(r, q)
  PROVE  /\ request'[r] = q /\ \A p \in Requests \ {r} : request'[p] = request[p]
         /\ \A p \in Requests : request[p].at # "unused" =>
              request'[p].holder = request[p].holder /\ request'[p].uploads = request[p].uploads
BY DEF ImageTypes, GoesTo

\* A step of a request leaves the other holders as they are; without a row it
\* leaves its own as well.
LEMMA LeftElsewhere ==
  ASSUME ImageTypes, Owners, Owners', NEW r, NEW q, GoesTo(r, q), NEW h \in Holders,
         Working(h), Explained(h), url'[h] = url[h], objects' \subseteq objects \cup {r},
         q.holder # h \/ ~q.known
  PROVE  Working(h)' /\ Explained(h)'
<1>1. /\ r \in Requests /\ request'[r] = q
      /\ \A p \in Requests \ {r} : request'[p] = request[p]
  BY GoesOnHolders DEF GoesTo
<1>2. request[r].at = "unused" \/ (request[r].holder = q.holder /\ request[r].known = q.known)
  BY DEF GoesTo
<1>3. \A p \in Live(h)' \ {r} : p \in Live(h)
  BY <1>1 DEF Live
<1>4. \A p \in Live(h) \ {r} : p \in Live(h)'
  BY <1>1 DEF Live
<1>5. r \in Live(h)' => ~q.known /\ q.former = NoImage
  BY <1>1 DEF Live, Owners, Shape
<1>6. r \in Live(h) => ~request[r].known /\ request[r].former = NoImage
  BY <1>1, <1>2 DEF Live, Owners, Shape
<1>7. NoImage \notin objects /\ NoImage \notin objects' /\ r \notin Holders
  BY <1>1, ImagesAssumption DEF ImageTypes, Owners
<1>8. \A i \in objects : i # r => Known(i)' = Known(i) /\ Owner(i)' = Owner(i)
  BY <1>1 DEF Known, Owner, ImageTypes
<1>9. r \in objects' /\ Known(r)' => Owner(r)' # h
  BY <1>1, <1>7 DEF Known, Owner
<1>10. \A p \in Live(h) : request[p].former = r /\ r \in objects' => ~Known(r)'
  <2> SUFFICES ASSUME NEW p \in Live(h), request[p].former = r, q.known  PROVE FALSE
    BY <1>1, <1>7 DEF Known
  <2>1. Ours(r, h, request)
    BY DEF Owners, Live
  <2>2. request[r].holder = h /\ request[r].at # "unused"
    BY <1>1, <2>1, ImagesAssumption DEF Ours, Shown
  <2> QED
    BY <1>2, <2>2
<1>11. Working(h)'
  <2> SUFFICES ASSUME NEW p \in Live(h)'
               PROVE  /\ request'[p].known /\ request'[p].pending \cap {"update", "clear"} # {} =>
                           request'[p].former = url'[h]
                      /\ request'[p].at = "wait" /\ request'[p].former \in objects'
                         /\ (request'[p].former \in Holders
                             \/ request'[request'[p].former].known) => "delete" \in request'[p].pending
                      /\ request'[p].known /\ request'[p].uploads /\ request'[p].at = "wait"
                         /\ "update" \notin request'[p].pending => url'[h] = p
    BY DEF Working, Known
  <2>1. CASE p = r
    BY <1>1, <1>5, <1>7, <2>1
  <2>2. CASE p # r
    <3>1. p \in Live(h) /\ request'[p] = request[p]
      BY <1>1, <1>3, <2>2 DEF Live
    <3>2. PICK f : f = request[p].former
      OBVIOUS
    <3>3. f \in objects' /\ Known(f)' => f \in objects /\ Known(f)
      BY <1>8, <1>10, <3>1, <3>2
    <3>4. f \in objects' /\ (f \in Holders \/ request'[f].known) => f \in objects /\ (f \in Holders \/ request[f].known)
      BY <3>3 DEF Known
    <3> QED
      BY <3>1, <3>2, <3>4 DEF Working, Known
  <2> QED
    BY <2>1, <2>2
<1>12. Explained(h)'
  <2> SUFFICES ASSUME NEW i \in objects', Owner(i)' = h, Known(i)'
               PROVE  \/ i = url'[h]
                      \/ \E p \in Live(h)' :
                           \/ i = p /\ "update" \in request'[p].pending
                           \/ i = request'[p].former /\ "delete" \in request'[p].pending
    BY DEF Explained, Owner, Known
  <2>1. i # r /\ i \in objects
    BY <1>9
  <2>2. Owner(i) = h /\ Known(i)
    BY <1>8, <2>1
  <2>3. CASE i = url[h]
    BY <2>3
  <2>4. ASSUME NEW p \in Live(h),
               \/ i = p /\ "update" \in request[p].pending
               \/ i = request[p].former /\ "delete" \in request[p].pending
        PROVE  p \in Live(h)' /\ request'[p] = request[p]
    BY <1>1, <1>4, <1>6, <1>7, <2>1, <2>4 DEF Live
  <2> QED
    BY <2>1, <2>2, <2>3, <2>4 DEF Explained
<1> QED
  BY <1>11, <1>12
\* Where nobody else is at work, it is the request itself that counts.
LEMMA LeftHere ==
  ASSUME ImageTypes, NEW r, NEW q, GoesTo(r, q), NEW h \in Holders, Live(h)' \subseteq {r},
         r \in Live(h)' =>
           /\ q.known /\ q.pending \cap {"update", "clear"} # {} => q.former = url'[h]
           /\ q.at = "wait" /\ q.former \in objects'
              /\ (q.former \in Holders \/ request'[q.former].known) => "delete" \in q.pending
           /\ q.known /\ q.uploads /\ q.at = "wait" /\ "update" \notin q.pending => url'[h] = r,
         \A i \in objects' : Owner(i)' = h /\ Known(i)' =>
           \/ i = url'[h]
           \/ /\ r \in Live(h)'
              /\ \/ i = r /\ "update" \in q.pending
                 \/ i = q.former /\ "delete" \in q.pending
  PROVE  Working(h)' /\ Explained(h)'
<1>1. r \in Requests /\ request'[r] = q
  BY GoesOnHolders DEF GoesTo
<1>2. Working(h)'
  BY <1>1 DEF Working, Known
<1>3. Explained(h)'
  BY <1>1 DEF Explained, Known, Owner
<1> QED
  BY <1>2, <1>3

\* No upload has itself as the former image.
LEMMA ItselfLeft ==
  ASSUME ImageTypes, NEW r, NEW q, GoesTo(r, q), q.former # r,
         \A p \in Requests : request[p].former # p
  PROVE  \A p \in Requests : request'[p].former # p
BY GoesOnHolders DEF GoesTo

\* A request that comes, alone, keeps NothingLeft.
LEMMA ArriveLeaves ==
  ASSUME LeftInv, NEW r \in Requests, NEW k \in Holders,
         Upload(r, k) \/ RemoveHeroImage(r, k) \/ RemoveAvatar(r, k)
  PROVE  NothingLeft'
<1> USE DEF LeftInv
<1>1. PICK q : /\ \/ q = Request("read", k, k \in exists, NoImage, {})
                  \/ q = Request("wait", k, TRUE, url[k], {"clear"} \cup ToDelete(url[k]))
                     /\ Kind[k] = "hero"
                  \/ q = Request("look", k, TRUE, NoImage, {"look", "clear"})
                     /\ Kind[k] = "avatar"
               /\ request[r].at = "unused" /\ request' = [request EXCEPT ![r] = q]
  BY DEF Upload, RemoveHeroImage, RemoveAvatar, Remove, Come, Set
<1>2. UNCHANGED <<exists, url, objects, broken, restored>> /\ Excuses /\ Overlap(k)
  BY DEF Upload, RemoveHeroImage, RemoveAvatar, Remove, Overlap, Excuses
<1>3. ImageTypes' /\ Owners'
  BY UploadTypes, RemoveTypes
<1>4. q.holder = k /\ q.at \in {"read", "wait", "look"} /\ q.former \in {NoImage, url[k]}
  BY <1>1 DEF Request
<1>5. GoesTo(r, q)
  BY <1>1, <1>3, <1>4 DEF GoesTo, ImageTypes, Shown
<1>6. /\ q.at = "read" => q.pending = {}
      /\ q.at = "wait" => q.former = url[k] /\ (url[k] # NoImage => "delete" \in q.pending) /\ ~q.uploads
      /\ q.at = "look" => Kind[k] = "avatar" /\ ~q.uploads
  <2>1. CASE q = Request("read", k, k \in exists, NoImage, {})
    BY <2>1 DEF Request
  <2>2. CASE q = Request("wait", k, TRUE, url[k], {"clear"} \cup ToDelete(url[k]))
    <3>1. q.at = "wait" /\ q.former = url[k] /\ q.pending = {"clear"} \cup ToDelete(url[k]) /\ ~q.uploads
      BY <2>2 DEF Request
    <3> QED
      BY <3>1, DeleteForms
  <2>3. CASE q = Request("look", k, TRUE, NoImage, {"look", "clear"}) /\ Kind[k] = "avatar"
    BY <2>3 DEF Request
  <2> QED
    BY <1>1, <2>1, <2>2, <2>3
<1>7. url[k] # r /\ NoImage \notin objects
  BY <1>1, ImagesAssumption DEF Owners, Ours, Shown, ImageTypes
<1>8. \A p \in Requests : request'[p].former # p
  BY <1>4, <1>5, <1>7, ItselfLeft, ImagesAssumption DEF NothingLeft
<1>9. /\ request'[r] = q /\ \A p \in Requests \ {r} : request'[p] = request[p]
      /\ \A p \in Requests : request[p].at # "unused" =>
           request'[p].holder = request[p].holder /\ request'[p].uploads = request[p].uploads
  BY <1>5, GoesOnHolders
<1> SUFFICES ASSUME NEW h \in Holders, Quiet(h)'  PROVE Working(h)' /\ Explained(h)'
  BY <1>8 DEF NothingLeft
<1>10. Quiet(h) /\ Working(h) /\ Explained(h)
  BY <1>2, <1>9, QuietBefore DEF NothingLeft
<1>11. CASE h # k
  BY <1>2, <1>3, <1>4, <1>5, <1>10, <1>11, LeftElsewhere
<1>12. CASE h = k
  <2>1. Live(h) = {}
    BY <1>2, <1>12 DEF Quiet, Overlap
  <2>2. Live(h)' \subseteq {r} /\ r \in Live(h)'
    BY <1>4, <1>9, <1>12, <2>1 DEF Live
  <2>3. q.at # "look"
    BY <1>4, <1>6, <1>9, <1>12 DEF Quiet, Removed
  <2>4. ASSUME NEW i \in objects', Owner(i)' = h, Known(i)'
        PROVE  i = url'[h]
    <3>1. i # r
      BY <1>1, <1>2, ImagesAssumption DEF Owners
    <3>2. Owner(i) = h /\ Known(i)
      BY <1>2, <1>9, <2>4, <3>1 DEF Owner, Known, ImageTypes
    <3> QED
      BY <1>2, <1>10, <2>1, <3>2 DEF Explained
  <2> QED
    BY <1>2, <1>4, <1>5, <1>6, <1>7, <1>12, <2>2, <2>3, <2>4, LeftHere
<1> QED
  BY <1>11, <1>12

\* A request that goes on keeps NothingLeft.
LEMMA GoesOnLeaves ==
  ASSUME LeftInv, NEW r \in Requests,
         ReadFormer(r) \/ Looked(r) \/ Answer(r) \/ Rejected(r)
  PROVE  NothingLeft'
<1> USE DEF LeftInv
<1> DEFINE k == request[r].holder
<1>1. /\ request[r] \in RequestRecord /\ Shape(request[r]) /\ k \in Holders
      /\ request[r].at \in {"read", "look", "wait"}
  BY DEF ReadFormer, Looked, Answer, Rejected, ImageTypes, Owners, Shape
<1>2. UNCHANGED <<exists, url, objects, broken, restored, overlapped>> /\ Excuses
  BY DEF ReadFormer, Looked, Answer, Rejected, Excuses, imageHistory
<1>3. ImageTypes' /\ Owners'
  BY ReadTypes, GoesOnTypes
<1>4. PICK q : /\ request' = [request EXCEPT ![r] = q]
               /\ q.holder = k /\ q.known = request[r].known /\ q.uploads = request[r].uploads
               /\ \/ /\ request[r].at = "read" /\ q.at = "wait"
                     /\ q.former = IF request[r].known THEN url[k] ELSE NoImage
                     /\ q.pending = UpdateImage \cup ToDelete(q.former)
                  \/ request[r].at = "look" /\ q.at = "wait" /\ q.former = request[r].former
                  \/ /\ request[r].at = "wait" /\ q.at = "answered" /\ q.former = request[r].former
                     /\ (request[r].known => request[r].pending = {})
                     /\ q.pending = request[r].pending
                  \/ /\ request[r].failed /\ q.at = "failed" /\ q.former = request[r].former
                     /\ q.pending = request[r].pending
  <2>1. CASE ReadFormer(r)
    <3>1. PICK former : former = IF request[r].known THEN url[request[r].holder] ELSE NoImage
      OBVIOUS
    <3>2. PICK pending : pending = UpdateImage \cup ToDelete(former)
      OBVIOUS
    <3>3. PICK q : q = [request[r] EXCEPT !.at = "wait", !.former = former, !.pending = pending]
      OBVIOUS
    <3>4. request[r].at = "read" /\ request' = [request EXCEPT ![r] = q]
      BY <2>1, <3>1, <3>2, <3>3 DEF ReadFormer, Set
    <3>5. /\ q.at = "wait" /\ q.holder = k /\ q.known = request[r].known
          /\ q.uploads = request[r].uploads /\ q.former = former /\ q.pending = pending
      BY <1>1, <3>3 DEF RequestRecord
    <3> QED
      BY <3>1, <3>2, <3>4, <3>5
  <2>2. CASE Looked(r)
    <3>1. PICK q : q = [request[r] EXCEPT !.at = "wait", !.pending = ToDelete(request[r].former)]
      OBVIOUS
    <3>2. request[r].at = "look" /\ request' = [request EXCEPT ![r] = q]
      BY <2>2, <3>1 DEF Looked, Set
    <3>3. /\ q.at = "wait" /\ q.holder = k /\ q.known = request[r].known
          /\ q.uploads = request[r].uploads /\ q.former = request[r].former
      BY <1>1, <3>1 DEF RequestRecord
    <3> QED
      BY <3>2, <3>3
  <2>3. CASE Answer(r)
    <3>1. PICK q : q = [request[r] EXCEPT !.at = "answered"]
      OBVIOUS
    <3>2. /\ request[r].at = "wait" /\ request' = [request EXCEPT ![r] = q]
          /\ request[r].known => request[r].pending = {}
      BY <2>3, <3>1 DEF Answer, Set, Waited
    <3>3. /\ q.at = "answered" /\ q.holder = k /\ q.known = request[r].known
          /\ q.uploads = request[r].uploads /\ q.former = request[r].former
          /\ q.pending = request[r].pending
      BY <1>1, <3>1 DEF RequestRecord
    <3> QED
      BY <3>2, <3>3
  <2>4. CASE Rejected(r)
    <3>1. PICK q : q = [request[r] EXCEPT !.at = "failed"]
      OBVIOUS
    <3>2. request[r].failed /\ request' = [request EXCEPT ![r] = q]
      BY <2>4, <3>1 DEF Rejected, Set
    <3>3. /\ q.at = "failed" /\ q.holder = k /\ q.known = request[r].known
          /\ q.uploads = request[r].uploads /\ q.former = request[r].former
          /\ q.pending = request[r].pending
      BY <1>1, <3>1 DEF RequestRecord
    <3> QED
      BY <3>2, <3>3
  <2> QED
    BY <2>1, <2>2, <2>3, <2>4
<1>5. q \in RequestRecord
  BY <1>3, <1>4 DEF ImageTypes
<1>6. GoesTo(r, q)
  BY <1>1, <1>4, <1>5 DEF GoesTo, Shown, Shape, UpdateImage
<1>7. request[r].at = "read" => url[k] # r
  BY <1>1, ImagesAssumption DEF Owners, Ours, Shown
<1>8. NoImage \notin objects /\ r # NoImage
  BY ImagesAssumption DEF ImageTypes
<1>9. \A p \in Requests : request'[p].former # p
  BY <1>4, <1>6, <1>7, <1>8, ItselfLeft DEF NothingLeft
<1>10. /\ request'[r] = q /\ \A p \in Requests \ {r} : request'[p] = request[p]
       /\ \A p \in Requests : request[p].at # "unused" =>
            request'[p].holder = request[p].holder /\ request'[p].uploads = request[p].uploads
  BY <1>6, GoesOnHolders
<1> SUFFICES ASSUME NEW h \in Holders, Quiet(h)'  PROVE Working(h)' /\ Explained(h)'
  BY <1>9 DEF NothingLeft
<1>11. Quiet(h) /\ Working(h) /\ Explained(h)
  BY <1>2, <1>10, QuietBefore DEF NothingLeft
<1>12. CASE h # k \/ ~q.known
  BY <1>2, <1>3, <1>4, <1>6, <1>11, <1>12, LeftElsewhere
<1>13. CASE h = k /\ q.known
  <2>1. r \in Live(h)
    BY <1>1, <1>13 DEF Live
  <2>2. Live(h) \subseteq {r}
    BY <1>11, <2>1 DEF Single, Quiet
  <2>3. Live(h)' \subseteq {r}
    BY <1>10, <2>2 DEF Live
  <2>4. ~request[r].failed /\ request[r].at # "look"
    BY <1>1, <1>11, <1>13 DEF Owners, Quiet, Removed, Shape
  <2>5. \A i \in objects' : i \in objects /\ (Owner(i)' = h /\ Known(i)' => Owner(i) = h /\ Known(i))
    BY <1>2, <1>4, <1>10 DEF Owner, Known, ImageTypes
  <2>6. request[r].pending = {}
    BY <1>1, <1>4, <1>13, <2>4 DEF Shape
  <2>7. \A i \in objects' : Owner(i)' = h /\ Known(i)' => i = url'[h]
    BY <1>2, <1>11, <2>2, <2>5, <2>6 DEF Explained
  <2>8. CASE q.at = "wait" /\ q.former = url[k] /\ q.pending = UpdateImage \cup ToDelete(q.former)
    <3>1. "update" \in q.pending /\ (q.former # NoImage => "delete" \in q.pending)
      BY <2>8, DeleteForms DEF UpdateImage
    <3> QED
      BY <1>2, <1>6, <1>8, <1>13, <2>3, <2>7, <2>8, <3>1, LeftHere
  <2>9. CASE q.at = "answered"
    <3>1. r \notin Live(h)'
      BY <1>10, <2>9 DEF Live
    <3> QED
      BY <1>6, <2>3, <2>7, <3>1, LeftHere
  <2> QED
    BY <1>4, <1>13, <2>4, <2>8, <2>9
<1> QED
  BY <1>12, <1>13

\* A call that arrives or fails keeps NothingLeft; each kind of call is a case.
LEMMA ArrivesLeaves ==
  ASSUME LeftInv, NEW r \in Requests, NEW op \in request[r].pending,
         Arrives(r, op) \/ CallFails(r, op)
  PROVE  NothingLeft'
<1> USE DEF LeftInv
<1> DEFINE k == request[r].holder
<1>1. PICK q : q = request'[r]
  OBVIOUS
<1>2. /\ GoesTo(r, q) /\ q.at = request[r].at /\ q.pending = request[r].pending \ {op}
      /\ q.holder = k /\ q.known = request[r].known /\ q.uploads = request[r].uploads
      /\ IF op = "look" /\ Arrives(r, op) THEN q.former = url[k] ELSE q.former = request[r].former
  BY <1>1, ArrivesForms
<1>3. /\ request[r] \in RequestRecord /\ Shape(request[r]) /\ k \in Holders
      /\ request[r].at \notin {"unused", "read"}
  BY DEF ImageTypes, Owners, Shape
<1>4. Excuses /\ exists' = exists /\ objects' \subseteq objects \cup {r}
  BY DEF Arrives, CallFails, Excuses, imageHistory
<1>5. ImageTypes' /\ Owners'
  BY ArrivesTypes
<1>6. \A h \in Holders \ {k} : url'[h] = url[h]
  BY <1>3 DEF Arrives, CallFails, ImageTypes
<1>7. ~request[r].known => url'[k] = url[k]
  BY <1>3 DEF Arrives, CallFails, Shape, RequestRecord
<1>8. "look" \in request[r].pending => ~request[r].uploads /\ Kind[k] = "avatar"
  BY <1>3 DEF Shape
<1>9. op = "look" => url[k] # r
  BY <1>8, <1>3, ImagesAssumption DEF Owners, Ours, Shown
<1>10. \A p \in Requests : request'[p].former # p
  BY <1>2, <1>9, ItselfLeft DEF NothingLeft
<1>11. /\ request'[r] = q /\ \A p \in Requests \ {r} : request'[p] = request[p]
       /\ \A p \in Requests : request[p].at # "unused" =>
            request'[p].holder = request[p].holder /\ request'[p].uploads = request[p].uploads
  BY <1>2, GoesOnHolders
<1> SUFFICES ASSUME NEW h \in Holders, Quiet(h)'  PROVE Working(h)' /\ Explained(h)'
  BY <1>10 DEF NothingLeft
<1>12. Quiet(h) /\ Working(h) /\ Explained(h)
  BY <1>4, <1>11, QuietBefore DEF NothingLeft
<1>13. CASE h # k \/ ~q.known
  BY <1>2, <1>4, <1>5, <1>6, <1>7, <1>12, <1>13, LeftElsewhere
<1>14. CASE h = k /\ q.known
  <2>1. Arrives(r, op) /\ UNCHANGED <<broken, overlapped, restored>> /\ ~request[r].failed
    BY <1>3, <1>12, <1>14 DEF Quiet, CallFails, Arrives, imageHistory, Owners
  <2>2. r \in Live(h)
    BY <1>2, <1>3, <1>14, <2>1 DEF Live, Shape
  <2>3. Live(h) \subseteq {r}
    BY <1>12, <2>2 DEF Single, Quiet
  <2>4. Live(h)' \subseteq {r} /\ r \in Live(h)'
    BY <1>2, <1>3, <1>11, <2>2, <2>3 DEF Live
  <2>5. ~request[r].uploads => Kind[h] # "avatar"
    BY <1>12, <1>14 DEF Quiet, Removed
  <2>6. request[r].at = "wait" /\ q.former = request[r].former /\ op \in {"put", "update", "clear", "delete"}
    BY <1>2, <1>3, <1>8, <1>14, <2>1, <2>2, <2>5 DEF Live, Shape, RequestRecord, Ops
  <2>7. \A i \in Requests : request'[i].known = request[i].known /\ (request[i].at # "unused" => request'[i].holder = request[i].holder)
    BY <1>2, <1>11
  <2>8. /\ request[r].known /\ request[r].pending \cap {"update", "clear"} # {} => request[r].former = url[h]
        /\ request[r].former \in objects /\ Known(request[r].former) => "delete" \in request[r].pending
        /\ request[r].uploads /\ "update" \notin request[r].pending => url[h] = r
    BY <1>2, <1>12, <1>14, <2>2, <2>6 DEF Working
  <2>9. \A i \in objects : Owner(i)' = h /\ Known(i)' =>
          \/ i = url[h]
          \/ i = r /\ "update" \in request[r].pending
          \/ i = request[r].former /\ "delete" \in request[r].pending
    <3> SUFFICES ASSUME NEW i \in objects, Owner(i)' = h, Known(i)'
                 PROVE  \/ i = url[h]
                        \/ i = r /\ "update" \in request[r].pending
                        \/ i = request[r].former /\ "delete" \in request[r].pending
      BY DEF Owner, Known
    <3>1. i \in Requests \ Holders => request[i].at # "unused"
      BY DEF Owners
    <3>2. Owner(i) = h /\ Known(i)
      BY <2>7, <3>1 DEF Owner, Known, ImageTypes
    <3> QED
      BY <1>12, <2>3, <3>2 DEF Explained
  <2>10. r \notin Holders /\ request[r].former # r /\ NoImage \notin objects
    BY ImagesAssumption DEF NothingLeft, ImageTypes
  <2>11. (request[r].former \in Holders \/ request'[request[r].former].known)
           /\ request[r].former \in objects => "delete" \in request[r].pending
    BY <2>7, <2>8 DEF Known, ImageTypes
  <2>12. CASE op = "put"
    <3>1. url' = url /\ objects' = objects \cup {r}
      BY <2>1, <2>12 DEF Arrives
    <3>2. request[r].uploads
      BY <1>3, <2>6, <2>12 DEF Shape
    <3> QED
      BY <1>2, <1>14, <2>4, <2>6, <2>8, <2>9, <2>10, <2>11, <2>12, <3>1, <3>2, LeftHere
  <2>13. CASE op = "update"
    <3>1. url'[h] = r /\ objects' = objects
      BY <1>2, <1>14, <2>1, <2>13 DEF Arrives, ImageTypes
    <3>2. request[r].uploads /\ request[r].former = url[h]
      BY <1>2, <1>3, <1>14, <2>6, <2>8, <2>13 DEF Shape
    <3>3. q.pending \cap {"update", "clear"} = {} /\ ("delete" \in request[r].pending => "delete" \in q.pending)
      BY <1>2, <1>3, <2>13, <3>2 DEF Shape
    <3>4. \A i \in objects' : Owner(i)' = h /\ Known(i)' =>
            i = url'[h] \/ (i = q.former /\ "delete" \in q.pending)
      <4> SUFFICES ASSUME NEW i \in objects, Owner(i)' = h, Known(i)', i # r
                   PROVE  i = q.former /\ "delete" \in q.pending
        BY <3>1 DEF Owner, Known
      <4>1. i = request[r].former
        BY <2>9, <3>2
      <4>2. i \in Holders \/ request'[i].known
        BY DEF Known
      <4> QED
        BY <2>6, <2>11, <3>3, <4>1, <4>2
    <3> QED
      BY <1>2, <1>14, <2>4, <2>6, <2>11, <3>1, <3>3, <3>4, LeftHere
  <2>14. CASE op = "clear"
    <3>1. url'[h] = NoImage /\ objects' = objects
      BY <1>3, <1>14, <2>1, <2>14 DEF Arrives, ImageTypes
    <3>2. ~request[r].uploads /\ request[r].former = url[h] /\ request[r].pending \subseteq {"look", "clear", "delete"}
      BY <1>2, <1>3, <1>14, <2>8, <2>14 DEF Shape
    <3>3. q.pending \cap {"update", "clear"} = {} /\ ("delete" \in request[r].pending => "delete" \in q.pending)
      BY <1>2, <2>14, <3>2
    <3>4. \A i \in objects' : Owner(i)' = h /\ Known(i)' =>
            i = q.former /\ "delete" \in q.pending
      <4> SUFFICES ASSUME NEW i \in objects, Owner(i)' = h, Known(i)'
                   PROVE  i = q.former /\ "delete" \in q.pending
        BY <3>1 DEF Owner, Known
      <4>1. i = request[r].former
        BY <2>9, <3>2
      <4>2. i \in Holders \/ request'[i].known
        BY DEF Known
      <4> QED
        BY <2>6, <2>11, <3>3, <4>1, <4>2
    <3> QED
      BY <1>2, <1>14, <2>4, <2>6, <2>11, <3>1, <3>2, <3>3, <3>4, LeftHere
  <2>15. CASE op = "delete"
    <3>1. url' = url /\ objects' = objects \ {request[r].former}
      BY <2>1, <2>15 DEF Arrives, Doomed
    <3>2. "update" \in request[r].pending => "update" \in q.pending
      BY <1>2, <2>15
    <3>3. \A i \in objects' : Owner(i)' = h /\ Known(i)' =>
            i = url'[h] \/ (i = r /\ "update" \in q.pending)
      BY <2>9, <3>1, <3>2
    <3> QED
      BY <1>2, <1>14, <2>4, <2>6, <2>8, <3>1, <3>2, <3>3, LeftHere
  <2> QED
    BY <2>6, <2>12, <2>13, <2>14, <2>15
<1> QED
  BY <1>13, <1>14

\* Forms and new sponsors keep NothingLeft.
LEMMA FormLeaves ==
  ASSUME LeftInv,
         \/ \E h \in Holders : LoadForm(h)
         \/ \E form \in forms : SaveForm(form)
         \/ \E h \in Holders, r \in Requests : CreateSponsor(h, r)
  PROVE  NothingLeft'
<1> USE DEF LeftInv
<1>1. UNCHANGED <<objects, request, broken, overlapped>> /\ restored \subseteq restored'
  BY DEF LoadForm, SaveForm, CreateSponsor, imageHistory
<1> SUFFICES ASSUME NEW h \in Holders, Quiet(h)'  PROVE Working(h)' /\ Explained(h)'
  BY <1>1 DEF NothingLeft
<1>2. Working(h) /\ Explained(h)
  BY <1>1 DEF Quiet, Removed, NothingLeft
<1>3. CASE url'[h] = url[h]
  <2>1. Live(h)' = Live(h)
    BY <1>1 DEF Live
  <2>2. Working(h)'
    BY <1>1, <1>2, <1>3, <2>1 DEF Working, Known
  <2>3. Explained(h)'
    BY <1>1, <1>2, <1>3, <2>1 DEF Explained, Known, Owner
  <2> QED
    BY <2>2, <2>3
<1>4. CASE url'[h] # url[h]
  <2>1. h \notin exists
    <3>1. ASSUME NEW form \in forms, SaveForm(form)
          PROVE  FALSE
      BY <1>4, <3>1 DEF SaveForm, Quiet, ImageTypes
    <3>2. ASSUME NEW g \in Holders, NEW r \in Requests, CreateSponsor(g, r)
          PROVE  g = h
      BY <1>4, <3>2 DEF CreateSponsor, ImageTypes
    <3> QED
      BY <1>4, <3>1, <3>2 DEF LoadForm, CreateSponsor
  <2>2. \A r \in Requests : request[r].holder = h => ~request[r].known /\ request[r].former = NoImage
    BY <2>1 DEF Owners, Shape
  <2>3. NoImage \notin objects
    BY ImagesAssumption DEF ImageTypes
  <2>4. Working(h)'
    BY <1>1, <2>2, <2>3 DEF Working, Live
  <2>5. \A i \in objects : ~(Owner(i) = h /\ Known(i))
    BY <2>1, <2>2 DEF Owner, Known, Owners, ImageTypes
  <2>6. Explained(h)'
    BY <1>1, <2>5 DEF Explained, Known, Owner
  <2> QED
    BY <2>4, <2>6
<1> QED
  BY <1>3, <1>4

\* LeftInv is inductive.
LEMMA LeftStep ==
  ASSUME LeftInv, [ImagesNext]_ImageVars
  PROVE  LeftInv'
<1>1. ASSUME ImagesNext
      PROVE  ImageTypes' /\ Owners'
  BY <1>1, UploadTypes, RemoveTypes, ReadTypes, GoesOnTypes, ArrivesTypes, FormTypes
  DEF ImagesNext, CreateHeroImage, CreateAvatar, UploadBanner, UploadLogo, LeftInv
<1>2. ASSUME ImagesNext
      PROVE  NothingLeft'
  BY <1>2, ArriveLeaves, GoesOnLeaves, ArrivesLeaves, FormLeaves
  DEF ImagesNext, CreateHeroImage, CreateAvatar, UploadBanner, UploadLogo
<1>3. ASSUME ImagesNext
      PROVE  Single'
  BY <1>3, SingleStep DEF LeftInv
<1>4. ASSUME UNCHANGED ImageVars
      PROVE  LeftInv'
  <2>1. UNCHANGED <<exists, url, objects, request, forms, broken, overlapped, restored>>
    BY <1>4 DEF ImageVars, imageState, imageHistory
  <2>2. ImageTypes'
    BY <2>1 DEF LeftInv, ImageTypes
  <2>3. Owners'
    BY <2>1 DEF LeftInv, Owners, Ours
  <2>4. Single'
    BY <2>1 DEF LeftInv, Single, Live
  <2>5. NothingLeft'
    BY <2>1 DEF LeftInv, NothingLeft, Quiet, Removed, Working, Explained, Live, Known, Owner
  <2> QED
    BY <2>2, <2>3, <2>4, <2>5 DEF LeftInv
<1> QED
  BY <1>1, <1>2, <1>3, <1>4 DEF LeftInv

\* Whatever the images, requests and failures, an object that no column names
\* is one that a request is still at work on, unless one of what the property
\* names has happened to its holder.
THEOREM OrphansAreExplained == ImagesSpec => []OrphansExplained
<1>1. ImagesInit => LeftInv
  BY ImagesInitTypes DEF LeftInv
<1>2. LeftInv /\ [ImagesNext]_ImageVars => LeftInv'
  BY LeftStep
<1>3. LeftInv => OrphansExplained
  <2> SUFFICES ASSUME LeftInv, NEW i \in objects
               PROVE  LET h == Owner(i) IN
                      \/ url[h] = i \/ h \in broken \cup overlapped \cup restored
                      \/ Live(h) # {} \/ Removed(h)
                      \/ i \in Requests /\ ~request[i].known
    BY DEF OrphansExplained
  <2>1. PICK h : h = Owner(i)
    OBVIOUS
  <2>2. h \in Holders
    BY <2>1 DEF LeftInv, Owner, Owners, Shape, ImageTypes
  <2>3. Known(i) \/ (i \in Requests /\ ~request[i].known)
    BY DEF LeftInv, Known, ImageTypes
  <2>4. CASE Known(i) /\ Quiet(h) /\ Live(h) = {}
    BY <2>1, <2>2, <2>4 DEF LeftInv, NothingLeft, Explained
  <2> QED
    BY <2>1, <2>3, <2>4 DEF Quiet
<1> QED
  BY <1>1, <1>2, <1>3, PTL DEF ImagesSpec, ImageVars

-----------------------------------------------------------------------------
\* Connected users

\* What a socket that connects, and one that disconnects, is doing.
UpRecord == [at : {"none", "validate", "get", "set", "in"}, read : SUBSET Sockets]
DownRecord == [at : {"none", "get", "set", "over"}, read : SUBSET Sockets]
HubTypes ==
  /\ up \in [Sockets -> UpRecord] /\ down \in [Sockets -> DownRecord]
  /\ online \subseteq Sockets /\ \A f \in Fields : Listed(f) \subseteq Sockets

\* A socket connects once, and one that has left and was listed is not hasty.
Lifecycle(s) ==
  /\ up[s].at = "none" => down[s].at = "none" /\ s \notin online
  /\ s \in online => down[s].at = "none"
  /\ down[s].at # "none" => up[s].at = "in" \/ s \in hasty
  /\ up[s].at = "get" => IsSponsor(s)

\* A step of one of the sockets of a field disturbs what this socket does.
Occupied(s) == AtWork(s) \/ (~IsSponsor(s) /\ s \in online)
Apart(s, t) ==
  s # t /\ FieldOf[s] = FieldOf[t] /\ FieldOf[s] \notin together => ~(Occupied(s) /\ Occupied(t))

\* What a handler of a sponsor's socket has read still stands there, but for
\* the socket itself.
Entries(s) == FieldOf[s] \notin together =>
  /\ IsSponsor(s) /\ up[s].at = "set" => up[s].read = Listed(FieldOf[s])
  /\ IsSponsor(s) /\ down[s].at = "set" =>
       \A t \in Sockets : t # s => (t \in down[s].read <=> t \in Listed(FieldOf[s]))
  /\ Settled(s) => s \in Listed(FieldOf[s])
  /\ down[s].at = "over" => s \notin Listed(FieldOf[s]) \/ s \in hasty

\* The invariant: types, the life of a socket, and the two facts for each of them.
EntriesInv ==
  /\ HubTypes /\ \A s \in Sockets : Lifecycle(s) /\ Entries(s)
  /\ \A s, t \in Sockets : Apart(s, t)

\* HSET and HDEL change one field.
LEMMA HashEdits ==
  ASSUME NEW f
  PROVE  /\ \A S : Write(f, S) => Listed(f)' = S /\ \A g : g # f => Listed(g)' = Listed(g)
         /\ hash' = [g \in DOMAIN hash \ {f} |-> hash[g]] =>
              Listed(f)' = {} /\ \A g : g # f => Listed(g)' = Listed(g)
BY DEF Write, Listed

\* A step of one socket leaves the others alone.
SocketStep(s) == \/ Connect(s) \/ Validated(s) \/ Disconnect(s)
                 \/ ReadToAdd(s) \/ Register(s) \/ ReadToRemove(s) \/ Unregister(s)

\* What the steps of a socket leave of its handlers.
LEMMA SocketEdits ==
  ASSUME HubTypes, NEW s \in Sockets
  PROVE  /\ Connect(s) => /\ up'[s].at = "validate" /\ down'[s] = down[s]
                          /\ online' = online \cup {s} /\ hasty' = hasty
         /\ Validated(s) => /\ up'[s].at = IF IsSponsor(s) THEN "get" ELSE "set"
                            /\ down'[s] = down[s] /\ online' = online /\ hasty' = hasty
         /\ Disconnect(s) => /\ up'[s] = up[s] /\ online' = online \ {s}
                             /\ down'[s].at = IF up[s].at = "validate" THEN "over"
                                              ELSE IF IsSponsor(s) THEN "get" ELSE "set"
         /\ ReadToAdd(s) => /\ up'[s].at = "set" /\ up'[s].read = Listed(FieldOf[s])
                            /\ down'[s] = down[s] /\ online' = online /\ hasty' = hasty
         /\ Register(s) => /\ up'[s].at = "in"
                           /\ down'[s] = down[s] /\ online' = online /\ hasty' = hasty
         /\ ReadToRemove(s) => /\ up'[s] = up[s] /\ online' = online /\ hasty' = hasty
                               /\ down'[s].read = Listed(FieldOf[s])
                               /\ down'[s].at = IF FieldOf[s] \in DOMAIN hash THEN "set" ELSE "over"
         /\ Unregister(s) => /\ up'[s] = up[s] /\ online' = online /\ hasty' = hasty
                             /\ down'[s].at = "over"
<1>1. s \in DOMAIN up /\ s \in DOMAIN down /\ up[s] \in UpRecord /\ down[s] \in DownRecord
  BY DEF HubTypes
<1>2. Connect(s) => /\ up'[s].at = "validate" /\ down'[s] = down[s]
                    /\ online' = online \cup {s} /\ hasty' = hasty
  BY <1>1 DEF Connect, UpRecord
<1>3. Validated(s) => /\ up'[s].at = IF IsSponsor(s) THEN "get" ELSE "set"
                      /\ down'[s] = down[s] /\ online' = online /\ hasty' = hasty
  BY <1>1 DEF Validated, UpRecord
<1>4. Disconnect(s) => /\ up'[s] = up[s] /\ online' = online \ {s}
                       /\ down'[s].at = IF up[s].at = "validate" THEN "over"
                                        ELSE IF IsSponsor(s) THEN "get" ELSE "set"
  BY <1>1 DEF Disconnect, DownRecord
<1>5. ReadToAdd(s) => /\ up'[s].at = "set" /\ up'[s].read = Listed(FieldOf[s])
                      /\ down'[s] = down[s] /\ online' = online /\ hasty' = hasty
  BY <1>1 DEF ReadToAdd
<1>6. Register(s) => /\ up'[s].at = "in"
                     /\ down'[s] = down[s] /\ online' = online /\ hasty' = hasty
  BY <1>1 DEF Register, UpRecord
<1>7. ReadToRemove(s) => /\ up'[s] = up[s] /\ online' = online /\ hasty' = hasty
                         /\ down'[s].read = Listed(FieldOf[s])
                         /\ down'[s].at = IF FieldOf[s] \in DOMAIN hash THEN "set" ELSE "over"
  BY <1>1 DEF ReadToRemove
<1>8. Unregister(s) => /\ up'[s] = up[s] /\ online' = online /\ hasty' = hasty
                       /\ down'[s].at = "over"
  BY <1>1 DEF Unregister, DownRecord
<1> QED
  BY <1>2, <1>3, <1>4, <1>5, <1>6, <1>7, <1>8

\* A step of one socket leaves the handlers of the others alone, and what is
\* not marked as together before is marked only by a step that meets others.
LEMMA OtherSockets ==
  ASSUME HubTypes, NEW s \in Sockets, SocketStep(s)
  PROVE  /\ \A t \in Sockets \ {s} : /\ up'[t] = up[t] /\ down'[t] = down[t]
                                     /\ t \in online' <=> t \in online
                                     /\ t \in hasty' <=> t \in hasty
         /\ together \subseteq together' /\ hasty \subseteq hasty'
<1>1. CASE Connect(s) \/ Disconnect(s)
  BY <1>1 DEF Connect, Disconnect, Meet, HubTypes
<1>2. CASE Validated(s) \/ ReadToAdd(s) \/ Register(s) \/ ReadToRemove(s) \/ Unregister(s)
  BY <1>2 DEF Validated, ReadToAdd, Register, ReadToRemove, Unregister, HubTypes
<1> QED
  BY <1>1, <1>2 DEF SocketStep

\* The types are kept.
LEMMA HubTypesStep ==
  ASSUME HubTypes, NEW s \in Sockets, SocketStep(s)
  PROVE  HubTypes'
<1>1. /\ up[s] \in UpRecord /\ down[s] \in DownRecord /\ FieldOf[s] \in Fields
      /\ Listed(FieldOf[s]) \subseteq Sockets
  BY ConnectedUsersAssumption DEF HubTypes
<1>2. online' \subseteq Sockets
  BY DEF SocketStep, Connect, Validated, Disconnect, ReadToAdd, Register, ReadToRemove,
         Unregister, HubTypes
<1>3. \A f \in Fields : Listed(f)' \subseteq Sockets
  <2>1. CASE Register(s)
    <3>1. PICK S \in SUBSET Sockets : Write(FieldOf[s], S)
      <4>1. Write(FieldOf[s], up[s].read \cup {s}) \/ Write(FieldOf[s], {s})
        BY <2>1 DEF Register
      <4> QED
        BY <1>1, <4>1 DEF UpRecord
    <3> QED
      BY <3>1, HashEdits DEF HubTypes
  <2>2. CASE Unregister(s)
    <3>1. \/ Write(FieldOf[s], down[s].read \ {s})
          \/ hash' = [g \in DOMAIN hash \ {FieldOf[s]} |-> hash[g]]
      BY <2>2 DEF Unregister, Without
    <3>2. down[s].read \ {s} \subseteq Sockets
      BY <1>1 DEF DownRecord
    <3> QED
      BY <3>1, <3>2, HashEdits DEF HubTypes
  <2>3. CASE ~Register(s) /\ ~Unregister(s)
    <3>1. hash' = hash
      BY <2>3 DEF SocketStep, Connect, Validated, Disconnect, ReadToAdd, ReadToRemove
    <3> QED
      BY <3>1 DEF HubTypes, Listed
  <2> QED
    BY <2>1, <2>2, <2>3
<1>4. up' \in [Sockets -> UpRecord]
  <2>1. \A p \in {"validate", "get", "set", "in"} : [up[s] EXCEPT !.at = p] \in UpRecord
    BY <1>1 DEF UpRecord
  <2>2. [at |-> "set", read |-> Listed(FieldOf[s])] \in UpRecord
    BY <1>1 DEF UpRecord
  <2>3. \/ up' = up \/ up' = [up EXCEPT ![s] = [at |-> "set", read |-> Listed(FieldOf[s])]]
        \/ \E p \in {"validate", "get", "set", "in"} : up' = [up EXCEPT ![s].at = p]
    BY DEF SocketStep, Connect, Validated, Disconnect, ReadToAdd, Register, ReadToRemove, Unregister
  <2> QED
    BY <2>1, <2>2, <2>3 DEF HubTypes
<1>5. down' \in [Sockets -> DownRecord]
  <2>1. \A p \in {"get", "set", "over"} :
          /\ [down[s] EXCEPT !.at = p] \in DownRecord
          /\ [read |-> Listed(FieldOf[s]), at |-> p] \in DownRecord
    BY <1>1 DEF DownRecord
  <2>2. \/ down' = down
        \/ \E p \in {"get", "set", "over"} : \/ down' = [down EXCEPT ![s].at = p]
             \/ down' = [down EXCEPT ![s] = [read |-> Listed(FieldOf[s]), at |-> p]]
    BY DEF SocketStep, Connect, Validated, Disconnect, ReadToAdd, Register, ReadToRemove, Unregister
  <2> QED
    BY <2>1, <2>2 DEF HubTypes
<1> QED
  BY <1>2, <1>3, <1>4, <1>5 DEF HubTypes

\* What each step of a socket needs and does not change.
LEMMA SocketGuards ==
  ASSUME NEW s \in Sockets
  PROVE  /\ Connect(s) => up[s].at = "none" /\ hash' = hash /\ Meet(s)
         /\ Validated(s) => up[s].at = "validate" /\ UNCHANGED <<hash, together>>
         /\ Disconnect(s) => /\ s \in online /\ hash' = hash /\ Meet(s)
                             /\ up[s].at # "in" => s \in hasty'
         /\ ReadToAdd(s) => up[s].at = "get" /\ UNCHANGED <<hash, together>>
         /\ Register(s) => up[s].at = "set" /\ UNCHANGED together
         /\ ReadToRemove(s) => /\ down[s].at = "get" /\ up[s].at # "get"
                               /\ UNCHANGED <<hash, together>>
         /\ Unregister(s) => down[s].at = "set" /\ up[s].at = "in" /\ UNCHANGED together
<1>1. Connect(s) => up[s].at = "none" /\ hash' = hash /\ Meet(s)
  BY DEF Connect
<1>2. Validated(s) => up[s].at = "validate" /\ UNCHANGED <<hash, together>>
  BY DEF Validated
<1>3. Disconnect(s) => /\ s \in online /\ hash' = hash /\ Meet(s)
                       /\ up[s].at # "in" => s \in hasty'
  BY DEF Disconnect
<1>4. ReadToAdd(s) => up[s].at = "get" /\ UNCHANGED <<hash, together>>
  BY DEF ReadToAdd
<1>5. Register(s) => up[s].at = "set" /\ UNCHANGED together
  BY DEF Register
<1>6. ReadToRemove(s) => /\ down[s].at = "get" /\ up[s].at # "get"
                         /\ UNCHANGED <<hash, together>>
  BY DEF ReadToRemove
<1>7. Unregister(s) => down[s].at = "set" /\ up[s].at = "in" /\ UNCHANGED together
  BY DEF Unregister
<1> QED
  BY <1>1, <1>2, <1>3, <1>4, <1>5, <1>6, <1>7

\* The life of a socket goes on as it should.
LEMMA LifecycleStep ==
  ASSUME EntriesInv, NEW s \in Sockets, SocketStep(s)
  PROVE  \A t \in Sockets : Lifecycle(t)'
<1>0. HubTypes /\ Lifecycle(s) /\ up[s] \in UpRecord /\ down[s] \in DownRecord
  BY DEF EntriesInv, HubTypes
<1>1. ASSUME NEW t \in Sockets, t # s
      PROVE  Lifecycle(t)'
  BY <1>0, <1>1, OtherSockets DEF EntriesInv, Lifecycle, IsSponsor
<1>2. Lifecycle(s)'
  <2>1. CASE Connect(s)
    BY <1>0, <2>1, SocketEdits, SocketGuards DEF Lifecycle
  <2>2. CASE Validated(s)
    BY <1>0, <2>2, SocketEdits, SocketGuards DEF Lifecycle, IsSponsor
  <2>3. CASE Disconnect(s)
    BY <1>0, <2>3, SocketEdits, SocketGuards DEF Lifecycle, IsSponsor
  <2>4. CASE ReadToAdd(s)
    BY <1>0, <2>4, SocketEdits, SocketGuards DEF Lifecycle
  <2>5. CASE Register(s)
    BY <1>0, <2>5, SocketEdits, SocketGuards DEF Lifecycle
  <2>6. CASE ReadToRemove(s)
    BY <1>0, <2>6, SocketEdits, SocketGuards DEF Lifecycle, IsSponsor
  <2>7. CASE Unregister(s)
    BY <1>0, <2>7, SocketEdits, SocketGuards DEF Lifecycle, IsSponsor
  <2> QED
    BY <2>1, <2>2, <2>3, <2>4, <2>5, <2>6, <2>7 DEF SocketStep
<1> QED
  BY <1>1, <1>2

\* A socket becomes busy only when it comes or goes, and then meets the others
\* that are.
LEMMA OccupiedStep ==
  ASSUME EntriesInv, NEW s \in Sockets, SocketStep(s), FieldOf[s] \notin together', Occupied(s)'
  PROVE  Occupied(s) \/ \A t \in Sockets \ {s} : FieldOf[t] = FieldOf[s] => ~Occupied(t)
<1>0. HubTypes /\ Lifecycle(s) /\ up[s] \in UpRecord /\ down[s] \in DownRecord
  BY DEF EntriesInv, HubTypes
<1>1. CASE Connect(s) \/ Disconnect(s)
  <2>1. Near(s) = {}
    BY <1>1, SocketGuards DEF Meet
  <2>2. \A t \in Peers(s) : IsSponsor(t) = IsSponsor(s)
    BY DEF Peers, IsSponsor
  <2> QED
    BY <2>1, <2>2 DEF Near, Peers, Occupied
<1>2. CASE Validated(s) \/ ReadToAdd(s)
  BY <1>2, SocketGuards DEF Occupied, AtWork
<1>3. CASE Register(s) \/ ReadToRemove(s) \/ Unregister(s)
  BY <1>3, SocketGuards DEF Occupied, AtWork
<1> QED
  BY <1>1, <1>2, <1>3 DEF SocketStep

\* Two sockets of a field that was never shared at once stay apart.
LEMMA ApartStep ==
  ASSUME EntriesInv, NEW s \in Sockets, SocketStep(s)
  PROVE  \A t, x \in Sockets : Apart(t, x)'
<1>0. HubTypes /\ together \subseteq together'
  BY OtherSockets DEF EntriesInv
<1>1. \A t \in Sockets \ {s} : Occupied(t)' <=> Occupied(t)
  BY <1>0, OtherSockets DEF Occupied, AtWork, IsSponsor
<1>2. ASSUME NEW t \in Sockets, NEW x \in Sockets, t # x, FieldOf[t] = FieldOf[x],
             FieldOf[t] \notin together', Occupied(t)', Occupied(x)'
      PROVE  FALSE
  <2>1. FieldOf[t] \notin together /\ Apart(t, x) /\ ~(Occupied(t) /\ Occupied(x))
    BY <1>0, <1>2 DEF EntriesInv, Apart
  <2>2. CASE t = s
    BY <1>1, <1>2, <2>1, <2>2, OccupiedStep
  <2>3. CASE x = s
    BY <1>1, <1>2, <2>1, <2>3, OccupiedStep
  <2>4. CASE t # s /\ x # s
    BY <1>1, <1>2, <2>1, <2>4
  <2> QED
    BY <2>2, <2>3, <2>4
<1> QED
  BY <1>2 DEF Apart

\* Entries of other fields are left alone.
LEMMA EntriesElsewhere ==
  ASSUME EntriesInv, NEW s \in Sockets, SocketStep(s),
         NEW t \in Sockets, FieldOf[t] # FieldOf[s]
  PROVE  Entries(t)'
<1>1. Listed(FieldOf[t])' = Listed(FieldOf[t])
  <2>1. CASE Register(s)
    <3>1. \E S : Write(FieldOf[s], S)
      BY <2>1 DEF Register
    <3> QED
      BY <3>1, HashEdits
  <2>2. CASE Unregister(s)
    <3>1. \/ \E S : Write(FieldOf[s], S)
          \/ hash' = [g \in DOMAIN hash \ {FieldOf[s]} |-> hash[g]]
      BY <2>2 DEF Unregister
    <3> QED
      BY <3>1, HashEdits
  <2>3. CASE ~Register(s) /\ ~Unregister(s)
    BY <2>3, SocketGuards DEF SocketStep, Listed
  <2> QED
    BY <2>1, <2>2, <2>3
<1>2. HubTypes /\ Entries(t)
  BY DEF EntriesInv
<1>3. /\ up'[t] = up[t] /\ down'[t] = down[t] /\ (t \in online' <=> t \in online)
      /\ (t \in hasty' <=> t \in hasty) /\ together \subseteq together'
  BY <1>2, OtherSockets
<1> QED
  BY <1>1, <1>2, <1>3 DEF Entries, Settled, IsSponsor

\* A step that writes no list.
LEMMA EntriesRead ==
  ASSUME EntriesInv, NEW s \in Sockets, SocketStep(s), ~Register(s), ~Unregister(s),
         NEW t \in Sockets, FieldOf[t] = FieldOf[s]
  PROVE  Entries(t)'
<1>0. /\ HubTypes /\ Entries(t) /\ Lifecycle(t) /\ Listed(FieldOf[t])' = Listed(FieldOf[t])
      /\ together \subseteq together' /\ hasty \subseteq hasty'
  BY OtherSockets, SocketGuards DEF EntriesInv, SocketStep, Listed
<1>1. CASE t # s
  <2>1. /\ up'[t] = up[t] /\ down'[t] = down[t] /\ (t \in online' <=> t \in online)
        /\ (t \in hasty' <=> t \in hasty)
    BY <1>0, <1>1, OtherSockets
  <2> QED
    BY <1>0, <2>1 DEF Entries, Settled, IsSponsor
<1>2. CASE t = s /\ Connect(s)
  BY <1>0, <1>2, SocketEdits, SocketGuards DEF Entries, Settled, Lifecycle, IsSponsor
<1>3. CASE t = s /\ Validated(s)
  BY <1>0, <1>3, SocketEdits, SocketGuards DEF Entries, Settled, Lifecycle, IsSponsor
<1>4. CASE t = s /\ Disconnect(s)
  BY <1>0, <1>4, SocketEdits, SocketGuards DEF Entries, Settled, Lifecycle, IsSponsor
<1>5. CASE t = s /\ ReadToAdd(s)
  BY <1>0, <1>5, SocketEdits, SocketGuards DEF Entries, Settled, Lifecycle, IsSponsor
<1>6. CASE t = s /\ ReadToRemove(s)
  <2>1. FieldOf[s] \notin DOMAIN hash => Listed(FieldOf[s]) = {}
    BY DEF Listed
  <2>2. /\ down'[s].read = Listed(FieldOf[s]) /\ up'[s] = up[s] /\ s \notin online'
        /\ down'[s].at = "set" \/ (down'[s].at = "over" /\ Listed(FieldOf[s]) = {})
    BY <1>0, <1>6, <2>1, SocketEdits, SocketGuards DEF Lifecycle
  <2>3. IsSponsor(s) /\ up[s].at = "set" => FieldOf[s] \in together' \/ up[s].read = Listed(FieldOf[s])
    BY <1>0, <1>6 DEF Entries
  <2> QED
    BY <1>0, <1>6, <2>2, <2>3 DEF Entries, Settled, IsSponsor
<1> QED
  BY <1>1, <1>2, <1>3, <1>4, <1>5, <1>6 DEF SocketStep

\* HSET at the end of handleConnection.
LEMMA EntriesAdd ==
  ASSUME EntriesInv, NEW s \in Sockets, Register(s),
         NEW t \in Sockets, FieldOf[t] = FieldOf[s]
  PROVE  Entries(t)'
<1> SUFFICES ASSUME FieldOf[s] \notin together
             PROVE  Entries(t)'
  BY SocketGuards DEF Entries
<1>0. /\ HubTypes /\ Entries(t) /\ Lifecycle(t) /\ Entries(s) /\ Apart(s, t) /\ Lifecycle(s)
      /\ up[s].at = "set" /\ SocketStep(s) /\ Occupied(s) /\ together' = together
  BY SocketGuards DEF EntriesInv, SocketStep, Occupied, AtWork
<1>1. \A x : x \in Listed(FieldOf[s])' <=>
        x = s \/ (IsSponsor(s) /\ x \in Listed(FieldOf[s]))
  <2>1. CASE IsSponsor(s)
    <3>1. Write(FieldOf[s], up[s].read \cup {s}) /\ up[s].read = Listed(FieldOf[s])
      BY <1>0, <2>1 DEF Register, Entries
    <3>2. Listed(FieldOf[s])' = Listed(FieldOf[s]) \cup {s}
      BY <3>1, HashEdits
    <3> QED
      BY <2>1, <3>2
  <2>2. CASE ~IsSponsor(s)
    <3>1. Write(FieldOf[s], {s})
      BY <2>2 DEF Register
    <3>2. Listed(FieldOf[s])' = {s}
      BY <3>1, HashEdits
    <3> QED
      BY <2>2, <3>2
  <2> QED
    BY <2>1, <2>2
<1>2. CASE t # s
  <2>1. /\ up'[t] = up[t] /\ down'[t] = down[t] /\ (t \in online' <=> t \in online)
        /\ (t \in hasty' <=> t \in hasty) /\ IsSponsor(t) = IsSponsor(s)
    BY <1>0, <1>2, OtherSockets DEF IsSponsor
  <2>2. ~Occupied(t)
    BY <1>0, <1>2 DEF Apart
  <2> QED
    BY <1>0, <1>1, <1>2, <2>1, <2>2 DEF Entries, Settled, Occupied, AtWork, IsSponsor
<1>3. CASE t = s
  <2>1. /\ up'[s].at = "in" /\ down'[s] = down[s] /\ hasty' = hasty
        /\ down[s].at = "over" => s \in hasty
    BY <1>0, SocketEdits DEF Lifecycle
  <2>2. IsSponsor(s) /\ down[s].at = "set" =>
          \A x \in Sockets : x # s => (x \in down[s].read <=> x \in Listed(FieldOf[s])')
    BY <1>0, <1>1 DEF Entries
  <2> QED
    BY <1>1, <1>3, <2>1, <2>2 DEF Entries, Settled, IsSponsor
<1> QED
  BY <1>2, <1>3

\* HSET or HDEL at the end of handleDisconnect.
LEMMA EntriesRemove ==
  ASSUME EntriesInv, NEW s \in Sockets, Unregister(s),
         NEW t \in Sockets, FieldOf[t] = FieldOf[s]
  PROVE  Entries(t)'
<1> SUFFICES ASSUME FieldOf[s] \notin together
             PROVE  Entries(t)'
  BY SocketGuards DEF Entries
<1>0. /\ HubTypes /\ Entries(t) /\ Lifecycle(t) /\ Entries(s) /\ Apart(s, t) /\ Lifecycle(s)
      /\ down[s].at = "set" /\ SocketStep(s) /\ Occupied(s) /\ together' = together
      /\ up[s].at = "in"
  BY SocketGuards DEF EntriesInv, SocketStep, Occupied, AtWork
<1>1. \A x \in Sockets : x \in Listed(FieldOf[s])' <=>
        IsSponsor(s) /\ x # s /\ x \in Listed(FieldOf[s])
  BY <1>0, HashEdits DEF Unregister, Without, Entries
<1>2. CASE t # s
  <2>1. /\ up'[t] = up[t] /\ down'[t] = down[t] /\ (t \in online' <=> t \in online)
        /\ (t \in hasty' <=> t \in hasty) /\ IsSponsor(t) = IsSponsor(s)
    BY <1>0, <1>2, OtherSockets DEF IsSponsor
  <2>2. ~Occupied(t)
    BY <1>0, <1>2 DEF Apart
  <2> QED
    BY <1>0, <1>1, <1>2, <2>1, <2>2 DEF Entries, Settled, Occupied, AtWork, IsSponsor
<1>3. CASE t = s
  BY <1>0, <1>1, <1>3, SocketEdits DEF Entries, Settled, Lifecycle, IsSponsor
<1> QED
  BY <1>2, <1>3

\* A step of a message, or none, leaves the lists alone.
LEMMA EntriesStep == EntriesInv /\ [HubNext]_<<hubState, left>> => EntriesInv'
<1> SUFFICES ASSUME EntriesInv, [HubNext]_<<hubState, left>>
             PROVE  EntriesInv'
  OBVIOUS
<1>1. ASSUME NEW s \in Sockets, SocketStep(s)
      PROVE  EntriesInv'
  <2>1. \A t \in Sockets : Entries(t)'
    BY <1>1, EntriesElsewhere, EntriesRead, EntriesAdd, EntriesRemove
  <2> QED
    BY <1>1, <2>1, HubTypesStep, LifecycleStep, ApartStep DEF EntriesInv
<1>2. CASE ~\E s \in Sockets : SocketStep(s)
  <2>1. UNCHANGED <<hash, online, up, down, together, hasty>>
    BY <1>2 DEF HubNext, SocketStep, Stored, VerifyRelationship, LookUp, SaveCard, Refuse,
                Emit, Fails, Send, hubState
  <2> QED
    BY <2>1 DEF EntriesInv, HubTypes, Lifecycle, Entries, Apart, Occupied, AtWork, Settled, Listed,
                IsSponsor
<1> QED
  BY <1>1, <1>2

\* It holds at first.
LEMMA EntriesFirst == HubInit => EntriesInv
<1> SUFFICES ASSUME HubInit
             PROVE  EntriesInv
  OBVIOUS
<1>1. HubTypes
  BY DEF HubInit, HubTypes, UpRecord, DownRecord, Listed
<1>2. \A s \in Sockets : up[s].at = "none" /\ down[s].at = "none" /\ s \notin online
  BY DEF HubInit
<1> QED
  BY <1>1, <1>2 DEF EntriesInv, Lifecycle, Entries, Apart, Occupied, AtWork, Settled

\* A socket that is there is listed and one that has gone is not, whatever the
\* order in which the commands of the processes reach Redis.
THEOREM EntriesAreTrue == HubSpec => []EntriesTrue
<1>1. EntriesInv => EntriesTrue
  BY DEF EntriesInv, Entries, EntriesTrue
<1> QED
  BY <1>1, EntriesFirst, EntriesStep, PTL DEF HubSpec

\* Who is to receive a message: while it is looked up, or may be once more,
\* sockets that are listed, and then some of those that were found.
MessageRecord ==
  [at : {"none", "call", "get", "save", "emit", "sent", "failed", "unsaid"},
   kind : {"none", "toSponsor", "toUser", "ask", "answer"}, to : SUBSET Sockets,
   field : Fields \cup {{}}, pair : (Fields \X Fields) \cup {<<>>}, from : SUBSET Sockets,
   attempt : 1..MaxAttempts, due : SUBSET Sockets, got : SUBSET Sockets]
Reaches(q) ==
  /\ q.at # "none" => q.field \in Fields
  /\ q.at = "save" => q.kind = "answer"
  /\ q.due \subseteq online
  /\ q.at \in {"call", "get"} \/ q.kind = "toSponsor" =>
       \A t \in q.due : FieldOf[t] = q.field /\ Settled(t)
  /\ q.at \in {"save", "emit"} => q.field \in together \/ q.due \subseteq q.to
  /\ q.at = "sent" => q.field \in together \/ q.due \subseteq q.got
  /\ q.at = "failed" => \/ q.field \in together \/ q.due \subseteq q.got
                        \/ q.kind # "toSponsor" \/ q.attempt = MaxAttempts
DeliveryInv ==
  /\ message \in [Messages -> MessageRecord] /\ \A m \in Messages : Reaches(message[m])

\* A step that makes one message another one.
LEMMA OneMessage ==
  ASSUME DeliveryInv, NEW m \in Messages, NEW q \in MessageRecord, Becomes(m, q),
         UNCHANGED <<online, up, together>>, Reaches(q)
  PROVE  DeliveryInv'
<1>1. \A n \in Messages : message'[n] \in MessageRecord /\ Reaches(message'[n])
  BY DEF DeliveryInv, Becomes
<1>2. \A n \in Messages : Reaches(message[n])'
  BY <1>1 DEF Reaches, Settled
<1>3. message' \in [Messages -> MessageRecord]
  BY DEF DeliveryInv, Becomes
<1> QED
  BY <1>2, <1>3 DEF DeliveryInv

\* A socket that is settled stays so until it leaves.
LEMMA SettledStays ==
  ASSUME EntriesInv, NEW s \in Sockets, SocketStep(s)
  PROVE  \A t \in Sockets : Settled(t) /\ t \in online' => Settled(t)'
<1>1. HubTypes /\ up[s] \in UpRecord
  BY DEF EntriesInv, HubTypes
<1>2. up[s].at = "in" => up'[s].at = "in"
  BY <1>1, SocketEdits, SocketGuards DEF SocketStep
<1> QED
  BY <1>1, <1>2, OtherSockets DEF Settled

\* Steps of sockets.
LEMMA DeliverySockets ==
  ASSUME EntriesInv, DeliveryInv, NEW s \in Sockets, SocketStep(s)
  PROVE  DeliveryInv'
<1>0. HubTypes /\ together \subseteq together'
  BY OtherSockets DEF EntriesInv
<1>1. \A t \in Sockets : Settled(t) /\ t \in online' => Settled(t)'
  BY SettledStays
<1>2. CASE Disconnect(s)
  <2>1. message' = [m \in Messages |-> [message[m] EXCEPT !.due = @ \ {s}]]
        /\ online' = online \ {s}
    BY <1>2 DEF Disconnect
  <2>2. ASSUME NEW m \in Messages
        PROVE  message'[m] \in MessageRecord /\ Reaches(message[m])'
    <3>1. PICK q \in MessageRecord : q = message[m]
      BY DEF DeliveryInv
    <3>2. PICK D \in SUBSET Sockets : D = q.due \ {s}
      BY DEF MessageRecord
    <3>3. PICK p : p = [q EXCEPT !.due = D]
      OBVIOUS
    <3>4. message'[m] = p
      BY <2>1, <3>1, <3>2, <3>3
    <3>5. /\ p \in MessageRecord /\ p.at = q.at /\ p.kind = q.kind /\ p.to = q.to
          /\ p.field = q.field /\ p.attempt = q.attempt /\ p.due = D /\ p.got = q.got
      BY <3>3 DEF MessageRecord
    <3>6. Reaches(q)
      BY <3>1 DEF DeliveryInv
    <3>7. Reaches(p)'
      BY <1>0, <1>1, <2>1, <3>2, <3>5, <3>6 DEF Reaches
    <3> QED
      BY <3>4, <3>5, <3>7 DEF Reaches
  <2> QED
    BY <2>1, <2>2 DEF DeliveryInv
<1>3. CASE ~Disconnect(s)
  <2>1. message' = message /\ online \subseteq online'
    BY <1>3 DEF SocketStep, Connect, Validated, ReadToAdd, Register, ReadToRemove, Unregister
  <2>2. ASSUME NEW m \in Messages
        PROVE  Reaches(message[m])'
    <3>1. PICK q \in MessageRecord : q = message[m]
      BY DEF DeliveryInv
    <3>2. Reaches(q) /\ q.due \subseteq Sockets
      BY <3>1 DEF DeliveryInv, MessageRecord
    <3>3. Reaches(q)'
      BY <1>0, <1>1, <2>1, <3>2 DEF Reaches
    <3> QED
      BY <2>1, <3>1, <3>3 DEF Reaches
  <2> QED
    BY <2>1, <2>2 DEF DeliveryInv
<1> QED
  BY <1>2, <1>3

\* Steps of messages.
MessageStep(m) ==
  \/ Stored(m) \/ VerifyRelationship(m) \/ LookUp(m) \/ SaveCard(m) \/ Refuse(m) \/ Emit(m) \/ Fails(m)
  \/ \E s \in Sockets, talk \in Talk : Send(m, talk.kind, s, talk.to)

\* The whole message, point by point.
LEMMA MessageMoves ==
  ASSUME DeliveryInv, NEW m \in Messages, NEW p, Moves(m, p),
         p \in {"get", "emit", "failed", "unsaid"}
  PROVE  \E q \in MessageRecord :
           /\ Becomes(m, q) /\ q.at = p /\ q.kind = message[m].kind /\ q.to = message[m].to
           /\ q.field = message[m].field /\ q.attempt = message[m].attempt
           /\ q.due = message[m].due /\ q.got = message[m].got
<1>1. PICK o \in MessageRecord : o = message[m]
  BY DEF DeliveryInv
<1>2. PICK q : q = [o EXCEPT !.at = p]
  OBVIOUS
<1>3. /\ q \in MessageRecord /\ q.at = p /\ q.kind = o.kind /\ q.to = o.to
      /\ q.field = o.field /\ q.attempt = o.attempt /\ q.due = o.due /\ q.got = o.got
  BY <1>2 DEF MessageRecord
<1>4. Becomes(m, q)
  BY <1>1, <1>2 DEF Moves, Becomes
<1> QED
  BY <1>1, <1>3, <1>4

\* A step of a message keeps it: who is listed, and settled, is found.
LEMMA DeliveryMessages ==
  ASSUME EntriesInv, DeliveryInv, NEW m \in Messages, MessageStep(m)
  PROVE  DeliveryInv'
<1>0. /\ Reaches(message[m]) /\ message[m] \in MessageRecord
      /\ UNCHANGED <<online, up, together>>
  BY DEF DeliveryInv, MessageStep, Stored, VerifyRelationship, LookUp, SaveCard, Refuse, Emit,
         Fails, Send
<1>1. PICK o \in MessageRecord : o = message[m]
  BY <1>0
<1>2. HubTypes /\ \A s \in Sockets : Entries(s)
  BY DEF EntriesInv
<1>3. CASE Stored(m) \/ SaveCard(m) \/ Refuse(m)
  <2>1. \/ o.at = "call" /\ Moves(m, "get")
        \/ o.at = "save" /\ (Moves(m, "failed") \/ Moves(m, "emit"))
    BY <1>1, <1>3 DEF Stored, SaveCard, Refuse
  <2>2. PICK q \in MessageRecord :
          /\ Becomes(m, q) /\ q.kind = o.kind /\ q.to = o.to
          /\ q.field = o.field /\ q.attempt = o.attempt /\ q.due = o.due /\ q.got = o.got
          /\ \/ (o.at = "call" /\ q.at = "get")
             \/ (o.at = "save" /\ q.at \in {"failed", "emit"})
    BY <1>1, <2>1, MessageMoves
  <2>3. Reaches(q)
    BY <1>0, <1>1, <2>2 DEF Reaches
  <2> QED
    BY <1>0, <2>2, <2>3, OneMessage
<1>4. CASE VerifyRelationship(m)
  <2>1. CASE Moves(m, "get")
    <3>1. PICK q \in MessageRecord :
            /\ Becomes(m, q) /\ q.kind = o.kind /\ q.to = o.to /\ q.at = "get"
            /\ q.field = o.field /\ q.attempt = o.attempt /\ q.due = o.due /\ q.got = o.got
      BY <1>1, <2>1, MessageMoves
    <3>2. o.at = "call"
      BY <1>1, <1>4 DEF VerifyRelationship
    <3>3. Reaches(q)
      BY <1>0, <1>1, <3>1, <3>2 DEF Reaches
    <3> QED
      BY <1>0, <3>1, <3>3, OneMessage
  <2>2. CASE ~Moves(m, "get")
    <3>1. PICK D \in SUBSET Sockets : D = o.from \cap online
      BY DEF MessageRecord
    <3>2. PICK q : q = [o EXCEPT !.at = "emit", !.to = o.from, !.due = D]
      OBVIOUS
    <3>3. Becomes(m, q) /\ o.kind = "ask" /\ o.at = "call"
      BY <1>1, <1>4, <2>2, <3>1, <3>2 DEF VerifyRelationship
    <3>4. /\ q \in MessageRecord /\ q.at = "emit" /\ q.kind = o.kind /\ q.to = o.from
          /\ q.field = o.field /\ q.due = D
      BY <3>2 DEF MessageRecord
    <3>5. Reaches(q)
      BY <1>0, <1>1, <3>1, <3>3, <3>4 DEF Reaches
    <3> QED
      BY <1>0, <3>3, <3>4, <3>5, OneMessage
  <2> QED
    BY <2>1, <2>2
<1>5. CASE LookUp(m)
  <2>1. o.at = "get" /\ o.field \in Fields
    BY <1>0, <1>1, <1>5 DEF LookUp, Reaches
  <2>2. PICK T \in SUBSET Sockets : T = Listed(o.field)
    BY <1>2, <2>1 DEF HubTypes
  <2>3. PICK p \in {"save", "emit"} : p = IF o.kind = "answer" THEN "save" ELSE "emit"
    OBVIOUS
  <2>4. PICK q : q = [o EXCEPT !.to = T, !.at = p]
    OBVIOUS
  <2>5. Becomes(m, q)
    BY <1>1, <1>5, <2>2, <2>3, <2>4 DEF LookUp
  <2>6. /\ q \in MessageRecord /\ q.at = p /\ q.kind = o.kind /\ q.to = T
        /\ q.field = o.field /\ q.attempt = o.attempt /\ q.due = o.due /\ q.got = o.got
    BY <2>4 DEF MessageRecord
  <2>7. o.field \in together \/ o.due \subseteq T
    <3>1. \A t \in o.due : t \in Sockets /\ FieldOf[t] = o.field /\ Settled(t)
      BY <1>0, <1>1, <2>1 DEF Reaches, MessageRecord
    <3>2. o.field \notin together => \A t \in o.due : t \in Listed(o.field)
      BY <1>2, <3>1 DEF Entries
    <3> QED
      BY <2>2, <3>2
  <2>8. Reaches(q)
    BY <1>0, <1>1, <2>1, <2>3, <2>6, <2>7 DEF Reaches
  <2> QED
    BY <1>0, <2>5, <2>6, <2>8, OneMessage
<1>6. CASE Emit(m)
  <2>1. PICK G \in SUBSET Sockets : G = o.got \cup (o.to \cap online)
    BY <1>2 DEF MessageRecord, HubTypes
  <2>2. PICK q : q = [o EXCEPT !.at = "sent", !.got = G]
    OBVIOUS
  <2>3. Becomes(m, q) /\ o.at = "emit"
    BY <1>1, <1>6, <2>1, <2>2 DEF Emit
  <2>4. /\ q \in MessageRecord /\ q.at = "sent" /\ q.kind = o.kind /\ q.to = o.to
        /\ q.field = o.field /\ q.attempt = o.attempt /\ q.due = o.due /\ q.got = G
    BY <2>2 DEF MessageRecord
  <2>5. Reaches(q)
    BY <1>0, <1>1, <2>1, <2>3, <2>4 DEF Reaches
  <2> QED
    BY <1>0, <2>3, <2>4, <2>5, OneMessage
<1>7. CASE Fails(m)
  <2>0. o.at \in {"call", "get", "save", "emit"}
    BY <1>1, <1>7 DEF Fails
  <2>1. CASE o.at # "call" /\ o.kind = "toSponsor" /\ o.attempt < MaxAttempts
    <3>1. PICK a \in 1..MaxAttempts : a = o.attempt + 1
      BY <2>1, ConnectedUsersAssumption DEF MessageRecord
    <3>2. PICK q : q = [o EXCEPT !.at = "get", !.attempt = a]
      OBVIOUS
    <3>3. Becomes(m, q)
      BY <1>1, <1>7, <2>1, <3>1, <3>2 DEF Fails, Retried
    <3>4. /\ q \in MessageRecord /\ q.at = "get" /\ q.kind = o.kind /\ q.to = o.to
          /\ q.field = o.field /\ q.due = o.due /\ q.got = o.got
      BY <3>2 DEF MessageRecord
    <3>5. Reaches(q)
      BY <1>0, <1>1, <2>1, <2>0, <3>4 DEF Reaches
    <3> QED
      BY <1>0, <3>3, <3>4, <3>5, OneMessage
  <2>2. CASE ~(o.at # "call" /\ o.kind = "toSponsor" /\ o.attempt < MaxAttempts)
    <3>1. PICK p \in {"unsaid", "failed"} : p = IF o.at = "call" THEN "unsaid" ELSE "failed"
      OBVIOUS
    <3>2. Moves(m, p)
      BY <1>1, <1>7, <2>2, <3>1 DEF Fails, Retried
    <3>3. PICK q \in MessageRecord :
            /\ Becomes(m, q) /\ q.kind = o.kind /\ q.to = o.to /\ q.at = p
            /\ q.field = o.field /\ q.attempt = o.attempt /\ q.due = o.due /\ q.got = o.got
      BY <1>1, <3>2, MessageMoves
    <3>4. p = "failed" => o.kind # "toSponsor" \/ o.attempt = MaxAttempts
      BY <2>2, <3>1, ConnectedUsersAssumption DEF MessageRecord
    <3>5. Reaches(q)
      BY <1>0, <1>1, <2>0, <3>1, <3>3, <3>4 DEF Reaches
    <3> QED
      BY <1>0, <3>3, <3>5, OneMessage
  <2> QED
    BY <2>1, <2>2
<1>8. ASSUME NEW s \in Sockets, NEW talk \in Talk, Send(m, talk.kind, s, talk.to)
      PROVE  DeliveryInv'
  <2>1. /\ talk.kind \in {"toSponsor", "toUser", "ask", "answer"} /\ talk.to \in Fields
        /\ FieldOf[s] \in Fields
    BY ConnectedUsersAssumption
  <2>2. PICK D \in SUBSET Sockets : D = {t \in Sockets : FieldOf[t] = talk.to /\ Settled(t)}
    OBVIOUS
  <2>3. PICK p \in {"get", "call"} : p = IF talk.kind = "answer" THEN "get" ELSE "call"
    OBVIOUS
  <2>4. PICK q : q = New(talk.kind, s, talk.to)
    OBVIOUS
  <2>5. q = [at |-> p, kind |-> talk.kind, to |-> {}, field |-> talk.to,
             pair |-> <<FieldOf[s], talk.to>>, from |-> {s}, attempt |-> 1, due |-> D, got |-> {}]
    BY <2>2, <2>3, <2>4 DEF New, Unsent
  <2>6. q \in MessageRecord
    BY <2>1, <2>5, ConnectedUsersAssumption DEF MessageRecord
  <2>7. Becomes(m, q)
    BY <1>8, <2>4 DEF Send
  <2>8. Reaches(q)
    BY <2>1, <2>2, <2>3, <2>5 DEF Reaches, Settled
  <2> QED
    BY <1>0, <2>6, <2>7, <2>8, OneMessage
<1> QED
  BY <1>3, <1>4, <1>5, <1>6, <1>7, <1>8 DEF MessageStep

\* Who is there from when something is sent to it until it is dealt with has
\* received it: a job in spite of failures, anything else unless it failed.
THEOREM MessagesAreDelivered == HubSpec => []Delivered
<1>1. HubInit => DeliveryInv
  <2> SUFFICES ASSUME HubInit
               PROVE  DeliveryInv
    OBVIOUS
  <2>1. Unsent \in MessageRecord
    BY ConnectedUsersAssumption DEF Unsent, MessageRecord
  <2>2. Reaches(Unsent)
    BY DEF Reaches, Unsent
  <2> QED
    BY <2>1, <2>2 DEF HubInit, DeliveryInv
<1>2. EntriesInv /\ DeliveryInv /\ [HubNext]_<<hubState, left>> => DeliveryInv'
  <2> SUFFICES ASSUME EntriesInv, DeliveryInv, [HubNext]_<<hubState, left>>
               PROVE  DeliveryInv'
    OBVIOUS
  <2>1. CASE UNCHANGED <<hubState, left>>
    BY <2>1 DEF hubState, DeliveryInv, Reaches, Settled
  <2>2. CASE \E s \in Sockets : SocketStep(s)
    BY <2>2, DeliverySockets
  <2>3. CASE \E m \in Messages : MessageStep(m)
    BY <2>3, DeliveryMessages
  <2> QED
    BY <2>1, <2>2, <2>3 DEF HubNext, SocketStep, MessageStep
<1>3. DeliveryInv => Delivered
  BY DEF DeliveryInv, Reaches, Delivered
<1> QED
  BY <1>1, <1>2, <1>3, EntriesFirst, EntriesStep, PTL DEF HubSpec

=============================================================================
