---------------------------- MODULE Intermission ----------------------------
(***************************************************************************)
(* The intermissions of one event (src/src/modules/event): organisers ask  *)
(* to start and to finish them, jobs of the Bull queue 'event' write and   *)
(* delete their Redis keys, a delayed job ends each one, and the chain of  *)
(* clearExpiredRooms jobs of the network rooms goes on from one batch of   *)
(* rooms to the next while the keys say so.  The jobs that tell the users  *)
(* only read, and are left out.                                            *)
(*                                                                         *)
(* One step is one Redis command or Bull call.  The keys of the network    *)
(* rooms are module NetworkRoom's; here they are only what is deleted      *)
(* before the keys of the intermission.                                    *)
(***************************************************************************)
EXTENDS Naturals, FiniteSets, Bags

CONSTANTS
  Workers,      \* slots in which a Bull handler runs
  MaxAttempts,  \* attempts of a job (3)
  Budget        \* bounds: how often the environment does each thing

Uses == {"start", "finish", "fault"}

ASSUME IntermissionAssumption ==
  /\ IsFiniteSet(Workers) /\ MaxAttempts \in Nat \ {0}
  /\ Budget \in [Uses -> Nat]

VARIABLES
  on,          \* event-E:isOnIntermission exists
  data,        \* intermissionStartedAt and intermissionTime exist
  starting,    \* startIntermission requests that found no intermission
  finishing,   \* finishIntermission requests that found one
  jobs,        \* bag of jobs that wait or are delayed
  pc, job,     \* per worker: next command and job, NoJob after a timeout
  mine,        \* per worker: the intermission its job turned on or is to end
  clears,      \* pending clearExpiredRooms jobs, one per chain
  left,        \* what is left of Budget
  session,     \* history: how often an intermission was turned on
  stale,       \* history: one was ended by the clock of an earlier one
  mixed,       \* history: a start and an end wrote keys at the same time, or
               \* the process of an end died between its DELs
  raced,       \* history: a start was accepted while another one was under way
  byHand,      \* history: an organiser finished one
  repeated     \* history: a start or an end job was run again

keys     == <<on, data>>
requests == <<starting, finishing>>
workers  == <<pc, job, mine>>
history  == <<session, stale, mixed, raced, byHand, repeated>>
vars     == <<keys, requests, jobs, workers, clears, left, history>>

\* `of' is the intermission whose clock a delayed end job is, 0 for one that an
\* organiser asked for.
Job == [name : {"start", "end"}, of : Nat, attempt : 1..MaxAttempts]
New(name, of) == [name |-> name, of |-> of, attempt |-> 1]
NoJob == [name |-> "none", of |-> 0, attempt |-> 0]

Plus(bag, j) == bag (+) SetToBag({j})
Minus(bag, j) == bag (-) SetToBag({j})

\* Handlers that are writing and that are deleting keys.
StartPoints == {"startData", "startOn"}
EndPoints   == {"endData", "endOn"}
Entry == [start |-> "startData", end |-> "endData"]

Init ==
  /\ on = FALSE /\ data = FALSE /\ starting = 0 /\ finishing = 0
  /\ jobs = EmptyBag
  /\ pc = [w \in Workers |-> "idle"] /\ job = [w \in Workers |-> NoJob]
  /\ mine = [w \in Workers |-> 0]
  /\ clears = 0 /\ left = Budget
  /\ session = 0 /\ stale = FALSE /\ mixed = FALSE /\ raced = FALSE
  /\ byHand = FALSE /\ repeated = FALSE

Spend(use) == left[use] > 0 /\ left' = [left EXCEPT ![use] = @ - 1]
Goto(w, point) == pc' = [pc EXCEPT ![w] = point]
JobDone(w) ==
  /\ Goto(w, "idle")
  /\ job' = [job EXCEPT ![w] = NoJob] /\ mine' = [mine EXCEPT ![w] = 0]

\* An exception is logged and jobDone() is not called: the job hangs until it
\* times out.
HangUp(w) ==
  /\ Goto(w, IF job[w] = NoJob THEN "idle" ELSE "hung")
  /\ mine' = [mine EXCEPT ![w] = 0] /\ UNCHANGED job

\* Somebody is at points while the caller writes keys.
Among(points) == \E w \in Workers : pc[w] \in points

-----------------------------------------------------------------------------
\* Requests of the organisers: GET, then a job

\* Mutant: a start that does not look at the key.
AlwaysAccepted == TRUE
MayStart == ~on

\* A start is under way from its GET to the SET of isOnIntermission.
UnderWay ==
  \/ starting > 0 \/ Among(StartPoints)
  \/ \E j \in BagToSet(jobs) : j.name = "start"

StartIntermission ==
  /\ MayStart /\ Spend("start")
  /\ starting' = starting + 1
  /\ raced' = (raced \/ UnderWay)
  /\ UNCHANGED <<keys, finishing, jobs, workers, clears, session,
                 stale, mixed, byHand, repeated>>

AddStart ==
  /\ starting > 0 /\ starting' = starting - 1
  /\ jobs' = Plus(jobs, New("start", 0))
  /\ UNCHANGED <<keys, finishing, workers, clears, left, history>>

FinishIntermission ==
  /\ on /\ Spend("finish")
  /\ finishing' = finishing + 1 /\ byHand' = TRUE
  /\ UNCHANGED <<keys, starting, jobs, workers, clears, session,
                 stale, mixed, raced, repeated>>

AddFinish ==
  /\ finishing > 0 /\ finishing' = finishing - 1
  /\ jobs' = Plus(jobs, New("end", 0))
  /\ UNCHANGED <<keys, starting, workers, clears, left, history>>

-----------------------------------------------------------------------------
\* Jobs

\* A delayed end job is taken when its minutes are over, which may be any time.
Take(w) ==
  /\ pc[w] = "idle"
  /\ \E j \in BagToSet(jobs) :
       /\ jobs' = Minus(jobs, j)
       /\ job' = [job EXCEPT ![w] = j]
       /\ mine' = [mine EXCEPT ![w] = j.of]
       /\ Goto(w, Entry[j.name])
  /\ UNCHANGED <<keys, requests, clears, left, history>>

\* Mutant: isOnIntermission is set before the other keys.
OnFirst == [startData |-> <<data, TRUE>>, startOn |-> <<TRUE, on>>]
\* The SETs of setIntermissionData, in the order they are sent: what data and
\* on are after each.
Sets == [startData |-> <<TRUE, on>>, startOn |-> <<data, TRUE>>]

\* addRoomsToQueue, whose promises nobody waits for, and the first two SETs.
StartData(w) ==
  /\ pc[w] = "startData"
  /\ data' = Sets.startData[1] /\ on' = Sets.startData[2]
  /\ clears' = clears + 1
  /\ mixed' = (mixed \/ Among(EndPoints))
  /\ Goto(w, "startOn")
  /\ UNCHANGED <<requests, jobs, job, mine, left, session, stale,
                 raced, byHand, repeated>>

StartOn(w) ==
  /\ pc[w] = "startOn"
  /\ data' = Sets.startOn[1] /\ on' = Sets.startOn[2]
  /\ session' = session + 1 /\ mine' = [mine EXCEPT ![w] = session']
  /\ mixed' = (mixed \/ Among(EndPoints))
  /\ Goto(w, "startClock")
  /\ UNCHANGED <<requests, jobs, job, clears, left, stale, raced,
                 byHand, repeated>>

\* Mutant: no end job is added.
NoClock(of) == jobs
\* finishIntermission adds the delayed job ...
Clock(of) == Plus(jobs, New("end", of))

\* ... and throws when the intermission is over already.
StartClock(w) ==
  /\ pc[w] = "startClock"
  /\ IF on
     THEN jobs' = Clock(mine[w]) /\ Goto(w, "startSay") /\ UNCHANGED <<job, mine>>
     ELSE HangUp(w) /\ UNCHANGED jobs
  /\ UNCHANGED <<keys, requests, clears, left, history>>

\* Both kinds of job end by adding the job that tells the users.
Tell(w) ==
  /\ pc[w] \in {"startSay", "endSay"}
  /\ JobDone(w)
  /\ UNCHANGED <<keys, requests, jobs, clears, left, history>>

\* The DELs of removeAllEventKeysAndSendEndIntermissionMessage.
EndData(w) ==
  /\ pc[w] = "endData"
  /\ data' = FALSE
  /\ mixed' = (mixed \/ Among(StartPoints))
  /\ Goto(w, "endOn")
  /\ UNCHANGED <<on, requests, jobs, job, mine, clears, left,
                 session, stale, raced, byHand, repeated>>

EndOn(w) ==
  /\ pc[w] = "endOn"
  /\ on' = FALSE
  /\ stale' = (stale \/ (on /\ mine[w] \notin {0, session}))
  /\ mixed' = (mixed \/ Among(StartPoints))
  /\ Goto(w, "endSay")
  /\ UNCHANGED <<data, requests, jobs, job, mine, clears, left,
                 session, raced, byHand, repeated>>

Repeats(j) == j.attempt < MaxAttempts

\* After 180 seconds Bull fails the job and repeats it while it has attempts;
\* a handler that merely was slow goes on running.
Timeout(w) ==
  LET j == job[w] IN
  /\ j # NoJob
  /\ IF pc[w] = "hung" THEN UNCHANGED left ELSE Spend("fault")
  /\ jobs' = IF Repeats(j)
             THEN Plus(jobs, [j EXCEPT !.attempt = @ + 1]) ELSE jobs
  /\ repeated' = (repeated \/ Repeats(j))
  /\ job' = [job EXCEPT ![w] = NoJob]
  /\ Goto(w, IF pc[w] = "hung" THEN "idle" ELSE pc[w])
  /\ UNCHANGED <<keys, requests, mine, clears, session, stale, mixed,
                 raced, byHand>>

\* The process dies: Bull finds the stalled job and queues it again.
Crash(w) ==
  /\ pc[w] # "idle" /\ Spend("fault")
  /\ jobs' = IF job[w] = NoJob THEN jobs ELSE Plus(jobs, job[w])
  /\ repeated' = (repeated \/ job[w] # NoJob)
  /\ mixed' = (mixed \/ pc[w] = "endOn")
  /\ JobDone(w)
  /\ UNCHANGED <<keys, requests, clears, session, stale, raced,
                 byHand>>

\* Mutant: the chain of clearExpiredRooms never looks at the key.
ForEver == TRUE
StillOn == on

\* A clearExpiredRooms job comes due, and adds the next one during an
\* intermission.
ClearExpired ==
  /\ clears > 0
  /\ clears' = IF StillOn THEN clears ELSE clears - 1
  /\ UNCHANGED <<keys, requests, jobs, workers, left, history>>

Handler(w) ==
  \/ StartData(w) \/ StartOn(w) \/ StartClock(w) \/ Tell(w)
  \/ EndData(w) \/ EndOn(w)

Next ==
  \/ StartIntermission \/ AddStart \/ FinishIntermission \/ AddFinish
  \/ \E w \in Workers : Take(w) \/ Handler(w) \/ Timeout(w) \/ Crash(w)
  \/ ClearExpired

\* Requests are carried out, Bull and the event loops keep working, and time
\* goes by for every delayed job.
Fairness ==
  /\ WF_vars(AddStart) /\ WF_vars(AddFinish) /\ WF_vars(ClearExpired)
  /\ \A w \in Workers :
       /\ WF_vars(Take(w)) /\ WF_vars(Handler(w))
       /\ WF_vars(pc[w] = "hung" /\ Timeout(w))

Spec == Init /\ [][Next]_vars /\ Fairness

-----------------------------------------------------------------------------
\* Properties

\* While an intermission is on, getIntermissionStatus finds when it started
\* and how long it takes: the key that announces it is the last one set.  A
\* handler that is ending the intermission takes them away first; a start and an
\* end whose commands mix, or an end that dies half-way, leave it without them.
StatusKnown ==
  on => data \/ mixed \/ \E w \in Workers : pc[w] = "endOn"

\* An intermission is cut short by the clock of an earlier one only if an
\* organiser finished one by hand, two starts were accepted at the same time,
\* or a start or end job was run again: otherwise the test of startIntermission
\* keeps an intermission from starting before the end job of the last has run.
OwnClockOnly == stale => byHand \/ raced \/ repeated

\* Every intermission ends, whatever organisers do and whichever handler dies
\* or is taken for dead: whoever turns one on also adds the job that ends it.
IntermissionEnds == on ~> ~on

\* The chains of clearExpiredRooms end with the intermissions.
ChainsEnd == <>[](clears = 0)
=============================================================================
