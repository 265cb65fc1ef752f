----------------------------- MODULE StageLive -----------------------------
(***************************************************************************)
(* Stages that go live, and the jobs of the queue 'event' that start,      *)
(* stop and destroy their infrastructure (src/src/modules/event), upon     *)
(* module LiveManagement.  Requests of organisers run step by step, one    *)
(* step a statement or a Bull call; a timer of 25 seconds in the memory of *)
(* a process puts a stage on live; delayed jobs come due at any time.      *)
(***************************************************************************)
EXTENDS LiveManagement, FiniteSets, Bags

CONSTANTS
  Events,       \* events whose information is updated
  Namesakes,    \* Namesakes[e]: events whose id begins with the id of e, e too
  Clients,      \* requests that are handled at the same time
  Workers,      \* slots in which Bull runs a handler
  MaxAttempts,  \* attempts of a job (3)
  NoId,         \* a job without an id of its own
  Budgets       \* bounds: how often the environment does each thing, to which
                \* stages, and how many calls of AWS fail

Uses == {"setup", "teardown", "start", "finish", "preview", "destroy",
         "update", "slow", "death"}

ASSUME StageLiveAssumption ==
  /\ EventOf \in [Stages -> Events] /\ NoId \notin Events
  /\ Namesakes \in [Events -> SUBSET Events]
  /\ MaxAttempts \in Nat \ {0}
  /\ \A b \in Budgets :
       /\ DOMAIN b = Uses \cup {"fault", "stages"} /\ b.stages \subseteq Stages
       /\ b.fault \in Nat /\ \A u \in Uses : b[u] \in Nat

VARIABLES
  onLive,    \* per stage: the column on_live
  timers,    \* per stage: timers that will set it
  request,   \* per client: the next step of its request
  queue,     \* bag of jobs that wait or are delayed
  work,      \* per slot: the handler that runs there
  left,      \* what is left of the budget
  asked,     \* history, per stage: what was asked last, "start" or "finish"
  hasty,     \* history: stages asked again within the 25 seconds of a start, told
             \* to finish twice at the same time, or by a request that died
  overtaken, \* history: stages stopped while a start was still to come
  stopLost,  \* history: stages a stop of which was given up or died in a request
  kept,      \* history: events whose scheduled job should be in the queue
  robbed     \* history: events whose job another event's update has removed

manage  == <<begun, step, failed, made, row, running, teardown, faults>>
history == <<asked, hasty, overtaken, stopLost, kept, robbed>>
all == <<manage, onLive, timers, request, queue, work, left, history>>

Job(name, s, id) == [name |-> name, stage |-> s, id |-> id, attempt |-> 1]
Idle == [at |-> "idle"]
Asking(point, s) == [at |-> point, stage |-> s, rest |-> {}]
Handler(j) == [at |-> "read", job |-> j, channel |-> NoSetup, late |-> FALSE]

Spend(use) == left[use] > 0 /\ left' = [left EXCEPT ![use] = @ - 1]
Continue(q, point) == request' = [request EXCEPT ![q].at = point]
Finish(q) == request' = [request EXCEPT ![q] = Idle]
Add(j) == queue' = queue (+) SetToBag({j})

Active == {w \in Workers : work[w].at # "idle" /\ ~work[w].late}
Outstanding == BagToSet(queue) \cup {work[w].job : w \in Active}
\* Bull ignores a job whose id is that of a job it still has.
AddWithId(j) ==
  queue' = IF \E i \in Outstanding : i.id = j.id THEN queue ELSE queue (+) SetToBag({j})

StreamInit ==
  /\ Init
  /\ onLive = [s \in Stages |-> FALSE] /\ timers = [s \in Stages |-> 0]
  /\ request = [q \in Clients |-> Idle] /\ work = [w \in Workers |-> Idle]
  /\ queue = EmptyBag /\ left \in Budgets /\ faults = left.fault
  /\ asked = [s \in Stages |-> "finish"]
  /\ hasty = {} /\ overtaken = {} /\ stopLost = {} /\ kept = {} /\ robbed = {}

-----------------------------------------------------------------------------
\* startLive and finishLive: updateLive

StartLive(q, s) ==
  /\ request[q].at = "idle" /\ Spend("start")
  /\ asked' = [asked EXCEPT ![s] = "start"]
  /\ IF onLive[s] THEN UNCHANGED <<timers, request, hasty>>
     ELSE /\ timers' = [timers EXCEPT ![s] = @ + 1]
          /\ hasty' = IF timers[s] > 0 THEN hasty \cup {s} ELSE hasty
          /\ request' = [request EXCEPT ![q] = Asking("tell", s)]
  /\ UNCHANGED <<manage, onLive, queue, work, overtaken, stopLost, kept, robbed>>

Finishing(s) == \E q \in Clients : request[q].at = "clear" /\ request[q].stage = s

FinishLive(q, s) ==
  /\ request[q].at = "idle" /\ Spend("finish")
  /\ asked' = [asked EXCEPT ![s] = "finish"]
  /\ hasty' = IF timers[s] > 0 \/ Finishing(s) THEN hasty \cup {s} ELSE hasty
  /\ IF onLive[s] THEN request' = [request EXCEPT ![q] = Asking("clear", s)]
     ELSE UNCHANGED request
  /\ UNCHANGED <<manage, onLive, timers, queue, work, overtaken, stopLost, kept, robbed>>

\* Mutant: the value that was read is written back.
AsRead(s) == onLive[s]
Cleared(s) == FALSE

ClearOnLive(q) ==
  /\ request[q].at = "clear"
  /\ onLive' = [onLive EXCEPT ![request[q].stage] = Cleared(request[q].stage)]
  /\ Continue(q, "tell")
  /\ UNCHANGED <<manage, timers, queue, work, left, history>>

Tell(q) ==
  /\ request[q].at = "tell"
  /\ Add(Job("message", request[q].stage, NoId)) /\ Finish(q)
  /\ UNCHANGED <<manage, onLive, timers, work, left, history>>

TimerFires(s) ==
  /\ timers[s] > 0 /\ timers' = [timers EXCEPT ![s] = @ - 1]
  /\ onLive' = [onLive EXCEPT ![s] = TRUE]
  /\ UNCHANGED <<manage, request, queue, work, left, history>>

-----------------------------------------------------------------------------
\* startPreview and destroyInfra

StartPreview(q, s) ==
  /\ request[q].at = "idle" /\ Spend("preview")
  /\ Add(Job("start", s, NoId))
  /\ request' = [request EXCEPT ![q] = Asking("stop", s)]
  /\ UNCHANGED <<manage, onLive, timers, work, history>>

\* Mutant: the stop of a preview under the id of the event.
StopUnderId(s) == Job("stop", s, EventOf[s])
StopOfPreview(s) == Job("stop", s, NoId)

PreviewStop(q) ==
  /\ request[q].at = "stop"
  /\ LET j == StopOfPreview(request[q].stage)
     IN  IF j.id = NoId THEN Add(j) ELSE AddWithId(j)
  /\ Finish(q)
  /\ UNCHANGED <<manage, onLive, timers, work, left, history>>

\* The endpoint adds the job that stops the channel, and none that destroys.
DestroyInfra(s) ==
  /\ Spend("destroy") /\ Add(Job("stop", s, NoId))
  /\ UNCHANGED <<manage, onLive, timers, request, work, history>>

-----------------------------------------------------------------------------
\* updateEventInfo, after the UPDATE: removeJobs and addDestroyInfraToQueue.
\* An event is created without stages, and its creation queues nothing.

UpdateEventInfo(q, s) ==
  /\ request[q].at = "idle" /\ Spend("update")
  /\ request' = [request EXCEPT ![q] = Asking("remove", s)]
  /\ UNCHANGED <<manage, onLive, timers, queue, work, history>>

\* Mutant: a pattern that matches the jobs of all events.
MatchesAll(e) == Events
\* The pattern '*event1*' matches event1 and event10.
Matches(e) == Namesakes[e]

\* Active jobs are locked and stay.
RemoveJobs(q) ==
  /\ request[q].at = "remove"
  /\ LET e == EventOf[request[q].stage]
         gone == {j \in BagToSet(queue) : j.id \in Matches(e)}
     IN  /\ queue' = [j \in BagToSet(queue) \ gone |-> queue[j]]
         /\ kept' = kept \ {e}
         /\ robbed' = robbed \cup (kept \cap (Namesakes[e] \ {e}))
         /\ request' = [request EXCEPT ![q].at = "scheduleStop",
                                       ![q].rest = {s \in Stages : EventOf[s] = e}]
  /\ UNCHANGED <<manage, onLive, timers, work, left, asked, hasty, overtaken, stopLost>>

\* The job carries the entity {id}, not the id, as its stageId.
ScheduleStop(q) ==
  /\ request[q].at = "scheduleStop"
  /\ \E s \in request[q].rest :
       /\ AddWithId(Job("stop", s, EventOf[s]))
       /\ IF queue' # queue
          THEN kept' = kept \cup {EventOf[s]} /\ robbed' = robbed \ {EventOf[s]}
          ELSE UNCHANGED <<kept, robbed>>
       /\ request' = [request EXCEPT ![q].at = "scheduleDestroy", ![q].stage = s,
                                     ![q].rest = @ \ {s}]
  /\ UNCHANGED <<manage, onLive, timers, work, left, asked, hasty, overtaken,
                 stopLost>>

ScheduleDestroy(q) ==
  /\ request[q].at = "scheduleDestroy"
  /\ LET s == request[q].stage IN AddWithId(Job("destroyInfra", s, EventOf[s]))
  /\ IF request[q].rest = {} THEN Finish(q) ELSE Continue(q, "scheduleStop")
  /\ UNCHANGED <<manage, onLive, timers, work, left, history>>

-----------------------------------------------------------------------------
\* Handlers

Take(w) ==
  /\ work[w].at = "idle"
  /\ \E j \in BagToSet(queue) :
       /\ queue' = queue (-) SetToBag({j})
       /\ work' = [work EXCEPT ![w] = Handler(j)]
       /\ kept' = kept \ {j.id}
  /\ UNCHANGED <<manage, onLive, timers, request, left, asked, hasty, overtaken,
                 stopLost, robbed>>

Move(w, point) == work' = [work EXCEPT ![w].at = point]

\* getConnectedUserAndSentEvent: with a linked user connected,
\* Object(params).keys() throws, and nobody is told.
SentEvent(linkedIsConnected) == IF linkedIsConnected THEN "hung" ELSE "done"

SendMessage(w) ==
  /\ work[w].at = "read" /\ work[w].job.name = "message"
  /\ \E linkedIsConnected \in BOOLEAN : Move(w, SentEvent(linkedIsConnected))
  /\ UNCHANGED <<manage, onLive, timers, request, queue, left, history>>

\* Whether findOne, given an entity where it looks for an id, finds the row is
\* up to TypeORM.
ReadRow(w) ==
  /\ work[w].at = "read" /\ work[w].job.name # "message"
  /\ \/ work' = [work EXCEPT ![w].at = "post", ![w].channel = row[work[w].job.stage]]
     \/ work[w].job.id # NoId /\ Move(w, "hung")
  /\ UNCHANGED <<manage, onLive, timers, request, queue, left, history>>

Posts(name, w) ==
  work[w].at = "post" /\ work[w].job.name = name /\ work[w].channel # NoSetup

PostStart(w) ==
  /\ Posts("start", w) /\ StartMediaLiveChannel(work[w].job.stage) /\ Move(w, "done")
  /\ UNCHANGED <<onLive, timers, request, queue, left, history>>

\* Starts of a stage that Bull has not seen done: they may be carried out again.
StartsDue(s) ==
  \/ \E j \in Outstanding : j.name = "start" /\ j.stage = s
  \/ \E w \in Workers : /\ work[w].at \in {"read", "post"}
                        /\ work[w].job.name = "start" /\ work[w].job.stage = s

PostStop(w) ==
  /\ Posts("stop", w) /\ Move(w, "done")
  /\ LET s == work[w].job.stage
     IN  /\ StopMediaLiveChannel(s)
         /\ overtaken' = IF StartsDue(s) THEN overtaken \cup {s} ELSE overtaken
  /\ UNCHANGED <<onLive, timers, request, queue, left, asked, hasty, stopLost, kept, robbed>>

PostDestroy(w) ==
  /\ Posts("destroyInfra", w) /\ LambdaDestroy(work[w].job.stage) /\ Move(w, "next")
  /\ UNCHANGED <<onLive, timers, request, queue, left, history>>

AddDestroyDistribution(w) ==
  /\ work[w].at = "next" /\ Move(w, "done")
  /\ Add(Job("destroyDistribution", work[w].job.stage, NoId))
  /\ UNCHANGED <<manage, onLive, timers, request, left, history>>

PostDestroyDistribution(w) ==
  /\ Posts("destroyDistribution", w) /\ DeleteInput(work[w].job.stage) /\ Move(w, "done")
  /\ UNCHANGED <<onLive, timers, request, queue, left, history>>

\* The function answers with an error: the handler logs it and never calls
\* jobDone().
PostFails(w) ==
  /\ work[w].at = "post" /\ Move(w, "hung")
  /\ \/ work[w].channel = NoSetup /\ UNCHANGED manage
     \/ ~HasChannel(work[w].job.stage) /\ UNCHANGED manage
     \/ CallFails
  /\ UNCHANGED <<onLive, timers, request, queue, left, history>>

JobDone(w) ==
  /\ work[w].at = "done" \/ (work[w].at = "hung" /\ work[w].late)
  /\ work' = [work EXCEPT ![w] = Idle]
  /\ UNCHANGED <<manage, onLive, timers, request, queue, left, history>>

\* Mutant: attempts are not counted.
Uncounted(j) == [j EXCEPT !.attempt = 1]
Again(j) == [j EXCEPT !.attempt = @ + 1]

\* A handler that hangs, or is slow, is given up.  A slow one goes on, and its
\* slot with it.
Timeout(w) ==
  /\ w \in Active /\ work[w].at # "done"
  /\ LET j == work[w].job
     IN  /\ queue' = IF j.attempt < MaxAttempts THEN queue (+) SetToBag({Again(j)}) ELSE queue
         /\ stopLost' = IF j.attempt = MaxAttempts /\ j.name = "stop"
                        THEN stopLost \cup {j.stage} ELSE stopLost
  /\ IF work[w].at = "hung"
     THEN work' = [work EXCEPT ![w] = Idle] /\ UNCHANGED left
     ELSE work' = [work EXCEPT ![w].late = TRUE] /\ Spend("slow")
  /\ UNCHANGED <<manage, onLive, timers, request, asked, hasty, overtaken, kept, robbed>>

-----------------------------------------------------------------------------
\* A process dies: Bull gives its jobs to another one, timers and requests are
\* lost.

HandlerDies(w) ==
  /\ w \in Active /\ Spend("death")
  /\ work' = [work EXCEPT ![w] = Idle] /\ Add(work[w].job)
  /\ UNCHANGED <<manage, onLive, timers, request, history>>

TimerDies(s) ==
  /\ timers[s] > 0 /\ Spend("death")
  /\ timers' = [timers EXCEPT ![s] = @ - 1]
  /\ UNCHANGED <<manage, onLive, request, queue, work, history>>

RequestDies(q) ==
  /\ request[q].at # "idle" /\ Spend("death") /\ Finish(q)
  /\ stopLost' = IF request[q].at = "stop" THEN stopLost \cup {request[q].stage}
                 ELSE stopLost
  /\ hasty' = IF request[q].at = "clear" THEN hasty \cup {request[q].stage} ELSE hasty
  /\ UNCHANGED <<manage, onLive, timers, queue, work, asked, overtaken, kept, robbed>>

-----------------------------------------------------------------------------
Manage ==
  \/ \E r \in Setups : SetupInfra(r) /\ Spend("setup")
  \/ \E r \in Setups : (Create(r) \/ Save(r) \/ Throw(r)) /\ UNCHANGED left
  \/ \E s \in Stages : Begin(s) /\ s \in left.stages /\ left.setup > 0 /\ UNCHANGED left
  \/ \E s \in Stages : Describe(s) /\ Spend("teardown")
  \/ \E s \in Stages :
       (StopFirst(s) \/ DeleteChannel(s) \/ DeletePackage(s)) /\ UNCHANGED left
  \/ \E s \in Stages : DeleteInput(s) /\ Spend("teardown")

Ask == \E q \in Clients, s \in left.stages :
  \/ StartLive(q, s) \/ FinishLive(q, s) \/ StartPreview(q, s) \/ UpdateEventInfo(q, s)

Serve(q) ==
  \/ ClearOnLive(q) \/ Tell(q) \/ PreviewStop(q)
  \/ RemoveJobs(q) \/ ScheduleStop(q) \/ ScheduleDestroy(q)

Handle(w) ==
  \/ SendMessage(w) \/ ReadRow(w) \/ PostStart(w) \/ PostStop(w) \/ PostDestroy(w)
  \/ AddDestroyDistribution(w) \/ PostDestroyDistribution(w) \/ PostFails(w) \/ JobDone(w)

StreamNext ==
  \/ Manage /\ UNCHANGED <<onLive, timers, request, queue, work, history>>
  \/ Ask
  \/ \E s \in left.stages : DestroyInfra(s)
  \/ \E s \in Stages : TimerFires(s) \/ TimerDies(s)
  \/ \E q \in Clients : Serve(q) \/ RequestDies(q)
  \/ \E w \in Workers : Take(w) \/ Handle(w) \/ Timeout(w) \/ HandlerDies(w)

\* Node's event loop goes on with what has begun, Bull takes what waits and
\* times out what hangs.
Fairness ==
  /\ \A q \in Clients : WF_all(Serve(q))
  /\ \A w \in Workers : WF_all(Take(w)) /\ WF_all(Handle(w)) /\ WF_all(Timeout(w))

StreamSpec == StreamInit /\ [][StreamNext]_all /\ Fairness

-----------------------------------------------------------------------------
\* Properties

\* A stage that was asked to finish last is not put on live by an older start,
\* unless requests came within its 25 seconds (a finish is then ignored, a
\* second start has a timer of its own), two finished it at once or one died.
StaysFinished == \A s \in Stages :
  asked[s] = "finish" /\ onLive[s] /\ ~Finishing(s) => s \in hasty

\* A channel that a preview has started has a stop to come, unless that stop
\* went before the start, was given up after its attempts or died.
StopsDue(s) ==
  \/ \E j \in Outstanding : j.name = "stop" /\ j.stage = s /\ j.id = NoId
  \/ \E q \in Clients : request[q].at = "stop" /\ request[q].stage = s
PreviewsStop == \A s \in Stages :
  row[s] \in running => StopsDue(s) \/ s \in overtaken \cup stopLost

\* The job that is to stop the channels of an event stays in the queue until
\* it is taken; only the update of an event with a shorter id of the same
\* beginning takes it away.
ScheduleKept == \A e \in kept \ robbed : \E j \in BagToSet(queue) : j.id = e

\* Handlers that never call jobDone() do not hold the queue up for ever.
QueueDrains == <>[](Outstanding = {})
=============================================================================
