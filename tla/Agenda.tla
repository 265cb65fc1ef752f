------------------------------- MODULE Agenda -------------------------------
(***************************************************************************)
(* The agenda of events: schedules of stages, which a change of the time   *)
(* zone of their event moves (event.service.ts, update), the test a new    *)
(* schedule has to pass (verifyDateInBetween.ts), and the pages in which   *)
(* events are listed (paginateEvents).  One step is one statement.         *)
(***************************************************************************)
EXTENDS Budgeting, Integers

CONSTANTS
  Events,
  Staged,    \* events that have a stage
  Zones, Offset, \* Offset[z]: what timezone(z, date) adds to a date, in hours
  FirstZone, \* FirstZone[e]: the zone an event is created with
  Slots,     \* schedules, numbered as they are saved
  Times,     \* dates a client can give
  Opens, Closes, \* startDate and endDate of the events
  Editors,   \* requests that are handled at the same time
  PageSize,  \* events of a page (10)
  MostListed \* bound: events in a list

ASSUME AgendaAssumption ==
  /\ Staged \subseteq Events /\ Offset \in [Zones -> Int]
  /\ FirstZone \in [Events -> Zones] /\ Slots \subseteq Nat /\ Times \subseteq Int /\ Opens \in Int /\ Closes \in Int
  /\ PageSize \in Nat \ {0} /\ MostListed \in Nat

VARIABLES
  zone,    \* per event: the column timezone
  plan,    \* schedules: [event, start, end]
  editor,  \* per request: its next statement
  lists,   \* events in a list, how many of them are running, and how many others
           \* its count counts
  page,    \* what a client that turns pages has got
  due,     \* history, per schedule: the date it should start at
  touched, \* history: schedules moved or changed since they were made
  hurried, \* history: schedules that were tested before another was saved
  torn     \* history: events an update of which failed or met another request

agendaHistory == <<due, touched, hurried, torn>>
agendaState == <<zone, plan, editor, lists, page, agendaHistory>>

Resting == [at |-> "idle"]
Planned == DOMAIN plan
FirstPage == [skip |-> 0, seen |-> 0, ended |-> FALSE]

AgendaInit ==
  /\ zone = FirstZone /\ plan = <<>> /\ due = <<>>
  /\ editor = [q \in Editors |-> Resting]
  /\ lists = [listed |-> 0, running |-> 0, others |-> 0] /\ page = [FirstPage EXCEPT !.ended = TRUE]
  /\ touched = {} /\ hurried = {} /\ torn = {}
  /\ left \in Budgets

Rest(q) == editor' = [editor EXCEPT ![q] = Resting]
Turn(q, point) == editor' = [editor EXCEPT ![q].at = point]
Updating(e) == \E q \in Editors : editor[q].at \in {"zone", "shift", "row"} /\ editor[q].event = e

-----------------------------------------------------------------------------
\* update: the private method of EventService

UpdateEvent(q, e, z) ==
  /\ editor[q].at = "idle" /\ Spend("edit")
  /\ editor' = [editor EXCEPT ![q] = [at |-> "zone", event |-> e, zone |-> z]]
  /\ torn' = IF Updating(e) THEN torn \cup {e} ELSE torn
  /\ UNCHANGED <<zone, plan, lists, page, due, touched, hurried>>

\* Mutant: every update moves the schedules.
AnyZone(e, z) == TRUE
TimezoneChanged(e, z) == z # zone[e]

ReadZone(q) ==
  /\ editor[q].at = "zone"
  /\ Turn(q, IF TimezoneChanged(editor[q].event, editor[q].zone) THEN "shift" ELSE "row")
  /\ UNCHANGED <<zone, plan, lists, page, left, agendaHistory>>

Of(e) == {i \in Planned : plan[i].event = e}
Shifted(p, hours) == [p EXCEPT !.start = @ + hours, !.end = @ + hours]

\* updateDateByTimezone.  Without a stage, IN () is an error.
ShiftSchedules(q) ==
  /\ editor[q].at = "shift"
  /\ LET e == editor[q].event
         hours == Offset[editor[q].zone]
     IN  IF e \in Staged
         THEN /\ plan' = [i \in Planned |-> IF i \in Of(e) THEN Shifted(plan[i], hours) ELSE plan[i]]
              /\ touched' = touched \cup Of(e) /\ Turn(q, "row")
         ELSE Rest(q) /\ UNCHANGED <<plan, touched>>
  /\ UNCHANGED <<zone, lists, page, left, due, hurried, torn>>

UpdateRow(q) ==
  /\ editor[q].at = "row" /\ Rest(q)
  /\ LET e == editor[q].event
         z == editor[q].zone
     IN  /\ zone' = [zone EXCEPT ![e] = z]
         /\ due' = [i \in Planned |-> IF i \in Of(e) /\ zone[e] # z THEN due[i] + Offset[z] ELSE due[i]]
  /\ UNCHANGED <<plan, lists, page, left, touched, hurried, torn>>

\* The statements are not one transaction.
UpdateDies(q) ==
  /\ editor[q].at \in {"zone", "shift", "row"} /\ Spend("fault") /\ Rest(q)
  /\ torn' = torn \cup {editor[q].event}
  /\ UNCHANGED <<zone, plan, lists, page, due, touched, hurried>>

-----------------------------------------------------------------------------
\* Schedules

InBetween(t, p) == p.start <= t /\ t <= p.end

\* VerifyDateInBetween: the event first ...
CreateSchedule(q, e, start, end) ==
  /\ editor[q].at = "idle" /\ Spend("schedule") /\ e \in Staged
  /\ Opens < start /\ end < Closes
  /\ editor' = [editor EXCEPT ![q] =
       [at |-> "between", new |-> [event |-> e, start |-> start, end |-> end]]]
  /\ UNCHANGED <<zone, plan, lists, page, agendaHistory>>

\* ... then the schedules of all stages of all events.
VerifyBetween(q) ==
  /\ editor[q].at = "between"
  /\ IF \E i \in Planned : InBetween(editor[q].new.start, plan[i]) THEN Rest(q) ELSE Turn(q, "save")
  /\ UNCHANGED <<zone, plan, lists, page, left, agendaHistory>>

\* A request at "late" was tested before another schedule was saved.
SaveSchedule(q) ==
  /\ editor[q].at \in {"save", "late"}
  /\ \E i \in Slots \ Planned :
       LET new == editor[q].new
       IN  /\ \A j \in Slots : j < i => j \in Planned
           /\ plan' = [j \in Planned \cup {i} |-> IF j = i THEN new ELSE plan[j]]
           /\ due' = [j \in Planned \cup {i} |-> IF j = i THEN new.start ELSE due[j]]
           /\ hurried' = IF editor[q].at = "late" THEN hurried \cup {i} ELSE hurried
           /\ torn' = IF Updating(new.event) THEN torn \cup {new.event} ELSE torn
  /\ editor' = [p \in Editors |-> IF p = q THEN Resting
                ELSE IF editor[p].at = "save" THEN [editor[p] EXCEPT !.at = "late"] ELSE editor[p]]
  /\ UNCHANGED <<zone, lists, page, left, touched>>

\* PUT of a schedule tests nothing.
UpdateSchedule(i, start, end) ==
  /\ i \in Planned /\ Spend("change")
  /\ plan' = [plan EXCEPT ![i].start = start, ![i].end = end]
  /\ due' = [due EXCEPT ![i] = start] /\ touched' = touched \cup {i}
  /\ torn' = IF Updating(plan[i].event) THEN torn \cup {plan[i].event} ELSE torn
  /\ UNCHANGED <<zone, editor, lists, page, hurried>>

-----------------------------------------------------------------------------
\* Pages: getUpcomingEvents, getPastEvents and those by user, paginateEvents

\* Mutant: the comparison the other way round.
EndedAtOnce(skip, amount) == amount >= (IF skip = 0 THEN 1 ELSE skip)
Ended(skip, amount) == (IF skip = 0 THEN 1 ELSE skip) >= amount

\* A list of upcoming events has those that are running, and its count has not;
\* a list by user has the events of the user, and its count those of everybody.
Amount == lists.listed - lists.running + lists.others

Open(others) ==
  /\ page' = FirstPage
  /\ \E listed \in 0..MostListed : \E running \in 0..listed :
       lists' = [listed |-> listed, running |-> running, others |-> others]
  /\ UNCHANGED <<zone, plan, editor, agendaHistory>>

OpenUpcoming == Spend("list") /\ Open(0)
\* Nothing that has ended is running.
OpenPast == OpenUpcoming /\ lists'.running = 0
OpenUpcomingByUser == Spend("list") /\ \E others \in 0..MostListed : Open(others)
OpenPastByUser == OpenUpcomingByUser /\ lists'.running = 0

GetEvents ==
  /\ ~page.ended /\ Spend("page")
  /\ LET rest == lists.listed - page.skip
         got == IF rest < PageSize THEN rest ELSE PageSize
     IN  page' = [skip |-> page.skip + got, seen |-> page.seen + got,
                  ended |-> Ended(page.skip, Amount)]
  /\ UNCHANGED <<zone, plan, editor, lists, agendaHistory>>

AgendaNext ==
  \/ \E q \in Editors :
       \/ \E e \in Events, z \in Zones : UpdateEvent(q, e, z)
       \/ \E e \in Events, start, end \in Times : start < end /\ CreateSchedule(q, e, start, end)
       \/ ReadZone(q) \/ ShiftSchedules(q) \/ UpdateRow(q) \/ UpdateDies(q)
       \/ VerifyBetween(q) \/ SaveSchedule(q)
  \/ \E i \in Slots, start, end \in Times : start < end /\ UpdateSchedule(i, start, end)
  \/ OpenUpcoming \/ OpenPast \/ OpenUpcomingByUser \/ OpenPastByUser \/ GetEvents

AgendaSpec == AgendaInit /\ [][AgendaNext]_<<agendaState, left>>

-----------------------------------------------------------------------------
\* Properties

\* A schedule is moved once for every change of the zone of its event, unless
\* an update fails between its statements or meets another request.
ShiftedOnce == \A i \in Planned : LET e == plan[i].event IN
  Updating(e) \/ e \in torn \/ plan[i].start = due[i]

\* No schedule starts within one that was saved before it, unless the other was
\* saved after its test or one of them was moved or changed.
StartsApart == \A i, j \in Planned :
  j < i /\ plan[i].start \in plan[j].start..plan[j].end => i \in hurried \/ {i, j} \cap touched # {}

\* A client that turns pages to the end has seen every event of the list, of
\* everybody's or a user's, unless there are running events, which the count
\* leaves out.
PagesComplete == page.ended => page.seen = lists.listed \/ lists.running > 0
=============================================================================
