------------------------ MODULE IntermissionTheorems ------------------------
(***************************************************************************)
(* StatusKnown and OwnClockOnly, for any workers, attempts, requests and   *)
(* failures.  The first follows from the order of the SETs and DELs        *)
(* (StatusInv); the second because only one thing is under way at a time,  *)
(* from the request that is accepted to the end job of its clock (Phase).  *)
(***************************************************************************)
EXTENDS Intermission, TLAPS

\* The commands of the handlers.
Points == StartPoints \cup EndPoints \cup {"startClock", "startSay", "endSay", "hung", "idle"}
\* The types of the variables.
Types ==
  /\ on \in BOOLEAN /\ data \in BOOLEAN /\ starting \in Nat /\ finishing \in Nat
  /\ DOMAIN jobs \subseteq Job
  /\ pc \in [Workers -> Points] /\ job \in [Workers -> Job \cup {NoJob}] /\ mine \in [Workers -> Nat]
  /\ clears \in Nat /\ left \in [Uses -> Nat] /\ session \in Nat

\* What is added to the queue, or taken out of it.
LEMMA JobsKept ==
  ASSUME DOMAIN jobs \subseteq Job, NEW j,
         jobs' = jobs \/ jobs' = Minus(jobs, j) \/ (j \in Job /\ jobs' = Plus(jobs, j))
  PROVE  DOMAIN jobs' \subseteq Job
BY DEF Plus, Minus, SetToBag, (+), (-)

\* New jobs, and those of another attempt, are jobs.
LEMMA JobsMade ==
  /\ \A of \in Nat : New("start", of) \in Job /\ New("end", of) \in Job
  /\ \A j \in Job : Repeats(j) => [j EXCEPT !.attempt = @ + 1] \in Job
<1>1. MaxAttempts \in Nat \ {0}
  BY IntermissionAssumption
<1>2. \A of \in Nat : New("start", of) \in Job /\ New("end", of) \in Job
  BY <1>1 DEF New, Job
<1>3. ASSUME NEW j \in Job, Repeats(j)
      PROVE  [j EXCEPT !.attempt = @ + 1] \in Job
  BY <1>1, <1>3 DEF Repeats, Job
<1> QED
  BY <1>2, <1>3

\* A budget stays a number for each use.
LEMMA BudgetKept ==
  ASSUME left \in [Uses -> Nat], NEW use \in Uses, Spend(use)
  PROVE  left' \in [Uses -> Nat]
BY DEF Spend

\* Initially nothing is under way.
LEMMA InitTypes == Init => Types
<1> SUFFICES ASSUME Init PROVE Types
  OBVIOUS
<1>1. DOMAIN jobs = {}
  BY DEF Init, EmptyBag, SetToBag
<1>2. \A w \in Workers : pc[w] \in Points
  BY DEF Init, Points
<1>3. pc \in [Workers -> Points] /\ job \in [Workers -> Job \cup {NoJob}] /\ mine \in [Workers -> Nat]
  BY <1>2 DEF Init
<1>4. left \in [Uses -> Nat]
  BY IntermissionAssumption DEF Init
<1> QED
  BY <1>1, <1>3, <1>4 DEF Init, Types

\* Every command and every fault keeps the types.
LEMMA TypesStep == Types /\ [Next]_vars => Types'
<1> SUFFICES ASSUME Types, [Next]_vars PROVE Types'
  OBVIOUS
<1> USE DEF Types
<1>1. CASE UNCHANGED vars
  BY <1>1 DEF vars, workers, keys, history, requests
<1>2. CASE StartIntermission \/ AddStart \/ FinishIntermission \/ AddFinish
  <2>1. DOMAIN jobs' \subseteq Job
    BY <1>2, JobsKept, JobsMade DEF StartIntermission, AddStart, FinishIntermission, AddFinish
  <2>2. left' \in [Uses -> Nat]
    BY <1>2, BudgetKept DEF StartIntermission, AddStart, FinishIntermission, AddFinish, Uses
  <2>3. starting' \in Nat /\ finishing' \in Nat
    BY <1>2 DEF StartIntermission, AddStart, FinishIntermission, AddFinish
  <2> QED
    BY <1>2, <2>1, <2>2, <2>3
    DEF StartIntermission, AddStart, FinishIntermission, AddFinish, workers, keys, history
<1>3. CASE ClearExpired
  BY <1>3 DEF ClearExpired, workers, keys, history, requests
<1>4. ASSUME NEW w \in Workers, Take(w)
      PROVE  Types'
  <2> PICK j \in DOMAIN jobs :
        /\ jobs' = Minus(jobs, j) /\ job' = [job EXCEPT ![w] = j]
        /\ mine' = [mine EXCEPT ![w] = j.of] /\ Goto(w, Entry[j.name])
    BY <1>4 DEF Take, BagToSet
  <2>1. DOMAIN jobs' \subseteq Job
    BY JobsKept
  <2>2. j \in Job /\ j.of \in Nat /\ Entry[j.name] \in Points
    BY DEF Job, Entry, Points, StartPoints, EndPoints
  <2> QED
    BY <1>4, <2>1, <2>2 DEF Take, Goto, keys, history, requests
<1>5. ASSUME NEW w \in Workers, StartData(w) \/ StartOn(w) \/ EndData(w) \/ EndOn(w)
      PROVE  Types'
  <2>1. CASE StartData(w)
    BY <2>1 DEF StartData, Sets, Goto, Points, StartPoints, requests
  <2>2. CASE StartOn(w)
    BY <2>2 DEF StartOn, Sets, Goto, Points, requests
  <2>3. CASE EndData(w)
    BY <2>3 DEF EndData, Goto, Points, EndPoints, requests
  <2>4. CASE EndOn(w)
    BY <2>4 DEF EndOn, Goto, Points, requests
  <2> QED
    BY <1>5, <2>1, <2>2, <2>3, <2>4
<1>6. ASSUME NEW w \in Workers, StartClock(w)
      PROVE  Types'
  <2>1. DOMAIN jobs' \subseteq Job
    BY <1>6, JobsKept, JobsMade DEF StartClock, Clock, HangUp
  <2> QED
    BY <1>6, <2>1 DEF StartClock, HangUp, Goto, Points, keys, history, requests
<1>7. ASSUME NEW w \in Workers, Tell(w)
      PROVE  Types'
  BY <1>7 DEF Tell, JobDone, Goto, Points, keys, history, requests
<1>8. ASSUME NEW w \in Workers, Timeout(w) \/ Crash(w)
      PROVE  Types'
  <2>1. DOMAIN jobs' \subseteq Job
    BY <1>8, JobsKept, JobsMade DEF Timeout, Crash
  <2>2. left' \in [Uses -> Nat]
    BY <1>8, BudgetKept DEF Timeout, Crash, Uses
  <2> QED
    BY <1>8, <2>1, <2>2 DEF Timeout, Crash, JobDone, Goto, Points, keys, requests
<1> QED
  BY <1>1, <1>2, <1>3, <1>4, <1>5, <1>6, <1>7, <1>8 DEF Next, Handler

\* The variables of Intermission keep their types: requests, jobs and attempts
\* stay in their ranges, and handlers at their commands.
THEOREM TypesKept == Spec => []Types
BY InitTypes, TypesStep, PTL DEF Spec

-----------------------------------------------------------------------------
\* The status

\* A start that has set the other keys finds them when it sets isOnIntermission,
\* and they are there, being deleted or lost as long as it is set.
StatusInv ==
  /\ \A w \in Workers : pc[w] = "startOn" => data \/ mixed
  /\ StatusKnown

\* One case per command: only EndData and EndOn take away, and mix with a start.
LEMMA StatusStep == Types /\ StatusInv /\ [Next]_vars => StatusInv'
<1> SUFFICES ASSUME Types, StatusInv, [Next]_vars PROVE StatusInv'
  OBVIOUS
<1> USE DEF StatusInv, StatusKnown
<1>0. pc \in [Workers -> Points] /\ DOMAIN jobs \subseteq Job
  BY DEF Types
<1>1. CASE UNCHANGED vars
  BY <1>1 DEF vars, workers, keys, history
<1>2. CASE StartIntermission \/ AddStart \/ FinishIntermission \/ AddFinish \/ ClearExpired
  BY <1>2 DEF StartIntermission, AddStart, FinishIntermission, AddFinish, ClearExpired,
              workers, keys, history
<1>3. ASSUME NEW w \in Workers, Take(w)
      PROVE  StatusInv'
  <2> PICK j \in DOMAIN jobs : Goto(w, Entry[j.name])
    BY <1>3 DEF Take, BagToSet
  <2>1. Entry[j.name] \in {"startData", "endData"}
    BY <1>0 DEF Job, Entry
  <2> QED
    BY <1>0, <1>3, <2>1 DEF Take, Goto, keys, history
<1>4. ASSUME NEW w \in Workers, StartData(w)
      PROVE  StatusInv'
  BY <1>0, <1>4 DEF StartData, Goto, Sets
<1>5. ASSUME NEW w \in Workers, StartOn(w)
      PROVE  StatusInv'
  BY <1>0, <1>5 DEF StartOn, Goto, Sets
<1>6. ASSUME NEW w \in Workers, StartClock(w) \/ Tell(w)
      PROVE  StatusInv'
  BY <1>0, <1>6 DEF StartClock, HangUp, Tell, JobDone, Goto, keys, history
<1>7. ASSUME NEW w \in Workers, EndData(w)
      PROVE  StatusInv'
  BY <1>0, <1>7 DEF EndData, Goto, Among, StartPoints
<1>8. ASSUME NEW w \in Workers, EndOn(w)
      PROVE  StatusInv'
  BY <1>0, <1>8 DEF EndOn, Goto
<1>9. ASSUME NEW w \in Workers, Timeout(w)
      PROVE  StatusInv'
  BY <1>0, <1>9 DEF Timeout, Goto, keys
<1>10. ASSUME NEW w \in Workers, Crash(w)
       PROVE  StatusInv'
  BY <1>0, <1>10 DEF Crash, JobDone, Goto, keys
<1> QED
  BY <1>1, <1>2, <1>3, <1>4, <1>5, <1>6, <1>7, <1>8, <1>9, <1>10 DEF Next, Handler

\* While an intermission is on, getIntermissionStatus finds when it started and
\* how long it takes, unless it is being ended, or a start and an end have
\* mixed their commands or an end has died between them.
THEOREM StatusIsKnown == Spec => []StatusKnown
<1>1. Init => StatusInv
  BY DEF Init, StatusInv, StatusKnown
<1>2. StatusInv => StatusKnown
  BY DEF StatusInv
<1> QED
  BY <1>1, <1>2, InitTypes, TypesStep, StatusStep, PTL DEF Spec

-----------------------------------------------------------------------------
\* The clocks

\* A queue of one job.
LEMMA LoneJob ==
  ASSUME NEW j
  PROVE  /\ Plus(EmptyBag, j) = SetToBag({j}) /\ Minus(SetToBag({j}), j) = EmptyBag
         /\ BagToSet(EmptyBag) = {} /\ BagToSet(SetToBag({j})) = {j}
BY DEF Plus, Minus, EmptyBag, SetToBag, BagToSet, (+), (-)

\* What nobody waits for any more.
Off(w) == pc[w] \in {"idle", "startSay", "endSay", "hung"}
\* Only one request or job is under way, ...
NoWorker == \A w \in Workers : Off(w)
OnlyWorker(w) == starting = 0 /\ jobs = EmptyBag /\ \A v \in Workers \ {w} : Off(v)
OnlyJob(j) == starting = 0 /\ jobs = SetToBag({j}) /\ NoWorker
\* ... one that starts an intermission, or the clock of the one that is on.
Nobody   == starting = 0 /\ jobs = EmptyBag /\ NoWorker
Asked    == ~on /\ starting = 1 /\ jobs = EmptyBag /\ NoWorker
Added    == ~on /\ \E j : j.name = "start" /\ OnlyJob(j)
Started  == ~on /\ \E w \in Workers : pc[w] \in StartPoints /\ OnlyWorker(w)
Running  == on /\ \E w \in Workers : pc[w] = "startClock" /\ mine[w] = session /\ OnlyWorker(w)
Delayed  == on /\ \E j : j.name = "end" /\ j.of = session /\ OnlyJob(j)
Ending   == on /\ \E w \in Workers : pc[w] \in EndPoints /\ mine[w] = session /\ OnlyWorker(w)
Phase == Nobody \/ Asked \/ Added \/ Started \/ Running \/ Delayed \/ Ending

Excused == byHand \/ raced \/ repeated
\* Unless excused, one of these phases holds and no clock has ended another's
\* intermission.
ClockInv ==
  /\ finishing = 0 \/ byHand
  /\ Excused \/ (~stale /\ Phase)

\* A handler that nobody waits for goes on, or away: the phase stays.
LEMMA OffSteps ==
  ASSUME Types, NEW w \in Workers, Off(w), NEW point \in {"idle", "startSay", "endSay", "hung"},
         pc' = [pc EXCEPT ![w] = point], mine' = mine \/ mine' = [mine EXCEPT ![w] = 0],
         Phase, UNCHANGED <<on, starting, jobs, session>>
  PROVE  Phase'
<1>0. pc \in [Workers -> Points] /\ mine \in [Workers -> Nat]
  BY DEF Types
<1>1. \A v \in Workers : Off(v) => Off(v)'
  BY <1>0 DEF Off
<1>2. \A v \in Workers : ~Off(v) => v # w /\ pc'[v] = pc[v] /\ mine'[v] = mine[v]
  BY <1>0
<1>3. NoWorker => NoWorker'
  BY <1>1 DEF NoWorker
<1>4. \A v \in Workers : OnlyWorker(v) => OnlyWorker(v)'
  BY <1>1 DEF OnlyWorker
<1>5. \A j : OnlyJob(j) => OnlyJob(j)'
  BY <1>3 DEF OnlyJob
<1>6. Nobody \/ Asked \/ Added \/ Delayed => Phase'
  BY <1>3, <1>5 DEF Nobody, Asked, Added, Delayed, Phase
<1>7. ASSUME NEW v \in Workers, pc[v] \in StartPoints \/ pc[v] \in EndPoints \/ pc[v] = "startClock"
      PROVE  pc'[v] = pc[v] /\ mine'[v] = mine[v]
  <2>1. ~Off(v)
    BY <1>7 DEF Off, StartPoints, EndPoints
  <2> QED
    BY <1>2, <2>1
<1>8. Started \/ Running \/ Ending => Phase'
  BY <1>4, <1>7 DEF Started, Running, Ending, Phase
<1> QED
  BY <1>6, <1>8 DEF Phase

\* Who is at work, or asked, tells the phase.
LEMMA PhaseOf ==
  ASSUME Phase, NEW w \in Workers
  PROVE  /\ pc[w] \in StartPoints => ~on /\ OnlyWorker(w)
         /\ pc[w] = "startClock" => on /\ mine[w] = session /\ OnlyWorker(w)
         /\ pc[w] \in EndPoints => on /\ mine[w] = session /\ OnlyWorker(w)
<1>1. ASSUME NoWorker
      PROVE  pc[w] \notin StartPoints /\ pc[w] # "startClock" /\ pc[w] \notin EndPoints
  BY <1>1 DEF NoWorker, Off, StartPoints, EndPoints
<1>2. CASE Nobody \/ Asked \/ Added \/ Delayed
  BY <1>1, <1>2 DEF Nobody, Asked, Added, Delayed, OnlyJob
<1>3. ASSUME NEW v \in Workers, OnlyWorker(v), ~Off(w)
      PROVE  v = w
  BY <1>3 DEF OnlyWorker
<1>4. pc[w] \in StartPoints \/ pc[w] = "startClock" \/ pc[w] \in EndPoints => ~Off(w)
  BY DEF Off, StartPoints, EndPoints
<1>5. /\ pc[w] \in StartPoints => pc[w] # "startClock" /\ pc[w] \notin EndPoints
      /\ pc[w] = "startClock" => pc[w] \notin EndPoints
  BY DEF StartPoints, EndPoints
<1>6. CASE Started \/ Running \/ Ending
  BY <1>3, <1>4, <1>5, <1>6 DEF Started, Running, Ending
<1> QED
  BY <1>2, <1>6 DEF Phase

\* What may be asked for, and be in the queue, in each phase.
LEMMA PhaseOfRequest ==
  ASSUME Phase
  PROVE  /\ ~on /\ ~UnderWay => Nobody
         /\ starting # 0 => Asked
         /\ \A j \in BagToSet(jobs) :
              OnlyJob(j) /\ ((~on /\ j.name = "start") \/ (on /\ j.name = "end" /\ j.of = session))
<1>1. ~on /\ ~UnderWay => Nobody
  <2> SUFFICES ASSUME ~on, ~UnderWay PROVE Nobody
    OBVIOUS
  <2>1. ~Asked /\ ~Started
    BY DEF UnderWay, Asked, Started, Among
  <2>2. ~Added
    BY LoneJob DEF UnderWay, Added, OnlyJob
  <2> QED
    BY <2>1, <2>2 DEF Phase, Running, Delayed, Ending
<1>2. starting # 0 => Asked
  BY DEF Phase, Nobody, Added, Started, Running, Delayed, Ending, OnlyWorker, OnlyJob
<1>3. jobs = EmptyBag \/ Added \/ Delayed
  BY DEF Phase, Nobody, Asked, Started, Running, Ending, OnlyWorker
<1>4. \A j \in BagToSet(jobs) :
        OnlyJob(j) /\ ((~on /\ j.name = "start") \/ (on /\ j.name = "end" /\ j.of = session))
  <2>1. CASE jobs = EmptyBag
    BY <2>1, LoneJob
  <2>2. CASE Added
    <3>1. PICK i : ~on /\ i.name = "start" /\ OnlyJob(i)
      BY <2>2 DEF Added
    <3>2. \A j \in BagToSet(jobs) : j = i
      BY <3>1, LoneJob DEF OnlyJob
    <3> QED
      BY <3>1, <3>2
  <2>3. CASE Delayed
    <3>1. PICK i : on /\ i.name = "end" /\ i.of = session /\ OnlyJob(i)
      BY <2>3 DEF Delayed
    <3>2. \A j \in BagToSet(jobs) : j = i
      BY <3>1, LoneJob DEF OnlyJob
    <3> QED
      BY <3>1, <3>2
  <2> QED
    BY <1>3, <2>1, <2>2, <2>3
<1> QED
  BY <1>1, <1>2, <1>4

\* Nothing takes an excuse back.
LEMMA ExcusesStay ==
  ASSUME [Next]_vars, Excused
  PROVE  Excused'
<1>1. CASE UNCHANGED vars
  BY <1>1 DEF vars, requests, history, Excused
<1>2. CASE StartIntermission \/ AddStart \/ FinishIntermission \/ AddFinish \/ ClearExpired
  BY <1>2 DEF StartIntermission, AddStart, FinishIntermission, AddFinish, ClearExpired, requests, history, Excused
<1>3. ASSUME NEW w \in Workers, Take(w) \/ StartClock(w) \/ Tell(w)
      PROVE  Excused'
  BY <1>3 DEF Take, StartClock, Tell, requests, history, Excused
<1>4. ASSUME NEW w \in Workers, StartData(w) \/ StartOn(w) \/ EndData(w) \/ EndOn(w)
      PROVE  Excused'
  BY <1>4 DEF StartData, StartOn, EndData, EndOn, requests, Excused
<1>5. ASSUME NEW w \in Workers, Timeout(w) \/ Crash(w)
      PROVE  Excused'
  BY <1>5 DEF Timeout, Crash, requests, Excused
<1> QED
  BY <1>1, <1>2, <1>3, <1>4, <1>5 DEF Next, Handler

\* Only organisers finish by request.
LEMMA FinishesAreByHand ==
  ASSUME [Next]_vars, finishing = 0 \/ byHand, Types
  PROVE  finishing' = 0 \/ byHand'
<1>1. CASE UNCHANGED vars
  BY <1>1 DEF vars, requests, history, Types
<1>2. CASE StartIntermission \/ AddStart \/ FinishIntermission \/ AddFinish \/ ClearExpired
  BY <1>2 DEF StartIntermission, AddStart, FinishIntermission, AddFinish, ClearExpired, requests, history, Types
<1>3. ASSUME NEW w \in Workers, Take(w) \/ StartClock(w) \/ Tell(w)
      PROVE  finishing' = 0 \/ byHand'
  BY <1>3 DEF Take, StartClock, Tell, requests, history, Types
<1>4. ASSUME NEW w \in Workers, StartData(w) \/ StartOn(w) \/ EndData(w) \/ EndOn(w)
      PROVE  finishing' = 0 \/ byHand'
  BY <1>4 DEF StartData, StartOn, EndData, EndOn, requests, Types
<1>5. ASSUME NEW w \in Workers, Timeout(w) \/ Crash(w)
      PROVE  finishing' = 0 \/ byHand'
  BY <1>5 DEF Timeout, Crash, requests, Types
<1> QED
  BY <1>1, <1>2, <1>3, <1>4, <1>5 DEF Next, Handler

\* Requests, and the queue.
LEMMA RequestsKeepPhase ==
  ASSUME Types, Phase, finishing = 0, ~stale,
         StartIntermission \/ AddStart \/ AddFinish \/ ClearExpired
  PROVE  Excused' \/ (~stale' /\ Phase')
<1>1. CASE StartIntermission
  <2>1. CASE UnderWay
    BY <1>1, <2>1 DEF StartIntermission, Excused
  <2>2. CASE ~UnderWay
    <3>1. Nobody /\ ~on
      BY <1>1, <2>2, PhaseOfRequest DEF StartIntermission, MayStart
    <3>2. Asked' /\ ~stale'
      BY <1>1, <3>1 DEF StartIntermission, Nobody, Asked, NoWorker, Off, keys, workers
    <3> QED
      BY <3>2 DEF Phase
  <2> QED
    BY <2>1, <2>2
<1>2. CASE AddStart
  <2>1. Asked
    BY <1>2, PhaseOfRequest DEF AddStart, Types
  <2>2. jobs' = SetToBag({New("start", 0)}) /\ starting' = 0 /\ ~on'
    <3>1. starting = 1 /\ jobs = EmptyBag /\ ~on
      BY <2>1 DEF Asked
    <3>2. starting' = 0
      BY <1>2, <3>1 DEF AddStart
    <3>3. jobs' = Plus(EmptyBag, New("start", 0))
      BY <1>2, <3>1 DEF AddStart
    <3>4. ~on'
      BY <1>2, <3>1 DEF AddStart, keys
    <3> QED
      BY <3>2, <3>3, <3>4, LoneJob
  <2>3. NoWorker'
    BY <1>2, <2>1 DEF AddStart, Asked, NoWorker, Off, workers
  <2>4. Added'
    BY <2>2, <2>3 DEF Added, OnlyJob, New
  <2> QED
    BY <1>2, <2>4 DEF AddStart, Phase, history
<1>3. CASE AddFinish
  BY <1>3 DEF AddFinish, Types
<1>4. CASE ClearExpired
  BY <1>4 DEF ClearExpired, Phase, Nobody, Asked, Added, Started, Running, Delayed, Ending,
              OnlyWorker, OnlyJob, NoWorker, Off, keys, requests, workers, history
<1> QED
  BY <1>1, <1>2, <1>3, <1>4

\* A worker takes a job.
LEMMA TakeKeepsPhase ==
  ASSUME Types, Phase, ~stale, NEW w \in Workers, Take(w)
  PROVE  ~stale' /\ Phase'
<1> PICK j \in BagToSet(jobs) :
      /\ jobs' = Minus(jobs, j) /\ mine' = [mine EXCEPT ![w] = j.of] /\ Goto(w, Entry[j.name])
  BY DEF Take
<1>1. OnlyJob(j) /\ ((~on /\ j.name = "start") \/ (on /\ j.name = "end" /\ j.of = session))
  BY PhaseOfRequest
<1>2. pc \in [Workers -> Points] /\ mine \in [Workers -> Nat]
  BY DEF Types
<1>3. jobs' = EmptyBag /\ starting' = 0
  BY <1>1, LoneJob DEF OnlyJob, Take, requests
<1>4. \A v \in Workers \ {w} : Off(v)'
  BY <1>1, <1>2 DEF OnlyJob, NoWorker, Off, Goto
<1>5. OnlyWorker(w)'
  BY <1>3, <1>4 DEF OnlyWorker
<1>6. pc'[w] = Entry[j.name] /\ mine'[w] = j.of
  BY <1>2 DEF Goto
<1>7. UNCHANGED <<on, session, stale>>
  BY DEF Take, keys, history
<1>8. CASE ~on /\ j.name = "start"
  <2>1. Started'
    BY <1>5, <1>6, <1>7, <1>8 DEF Started, Entry, StartPoints
  <2> QED
    BY <1>7, <2>1 DEF Phase
<1>9. CASE on /\ j.name = "end" /\ j.of = session
  <2>1. Ending'
    BY <1>5, <1>6, <1>7, <1>9 DEF Ending, Entry, EndPoints
  <2> QED
    BY <1>7, <2>1 DEF Phase
<1> QED
  BY <1>1, <1>8, <1>9

\* The only worker goes on to another command.
LEMMA OnlyWorkerGoes ==
  ASSUME Types, NEW w \in Workers, OnlyWorker(w), NEW point, pc' = [pc EXCEPT ![w] = point],
         UNCHANGED <<starting, jobs>>
  PROVE  OnlyWorker(w)' /\ pc'[w] = point
BY DEF Types, OnlyWorker, Off

\* Handlers.
LEMMA HandlerKeepsPhase ==
  ASSUME Types, Phase, ~stale, NEW w \in Workers, Handler(w)
  PROVE  ~stale' /\ Phase'
<1>0. pc \in [Workers -> Points] /\ mine \in [Workers -> Nat]
  BY DEF Types
<1>1. CASE StartData(w)
  <2>1. ~on /\ OnlyWorker(w)
    BY <1>1, PhaseOf DEF StartData, StartPoints
  <2>2. OnlyWorker(w)' /\ pc'[w] = "startOn" /\ ~on'
    BY <1>1, <2>1, OnlyWorkerGoes DEF StartData, Goto, Sets, requests
  <2>3. Started'
    BY <2>2 DEF Started, StartPoints
  <2> QED
    BY <1>1, <2>3 DEF StartData, Phase
<1>2. CASE StartOn(w)
  <2>1. ~on /\ OnlyWorker(w)
    BY <1>2, PhaseOf DEF StartOn, StartPoints
  <2>2. OnlyWorker(w)' /\ pc'[w] = "startClock" /\ on'
    BY <1>2, <2>1, OnlyWorkerGoes DEF StartOn, Goto, Sets, requests
  <2>3. mine'[w] = session'
    BY <1>0, <1>2 DEF StartOn
  <2>4. Running'
    BY <2>2, <2>3 DEF Running
  <2> QED
    BY <1>2, <2>4 DEF StartOn, Phase
<1>3. CASE StartClock(w)
  <2>1. on /\ mine[w] = session /\ OnlyWorker(w)
    BY <1>3, PhaseOf DEF StartClock
  <2>2. /\ jobs' = SetToBag({New("end", session)}) /\ pc' = [pc EXCEPT ![w] = "startSay"]
        /\ UNCHANGED <<on, starting, session, stale>>
    BY <1>3, <2>1, LoneJob DEF StartClock, Clock, OnlyWorker, Goto, keys, requests, history
  <2>3. NoWorker'
    BY <1>0, <2>1, <2>2 DEF OnlyWorker, NoWorker, Off
  <2>4. Delayed'
    BY <2>1, <2>2, <2>3 DEF Delayed, OnlyJob, OnlyWorker, New
  <2> QED
    BY <2>2, <2>4 DEF Phase
<1>4. CASE Tell(w)
  <2>1. Off(w) /\ pc' = [pc EXCEPT ![w] = "idle"] /\ mine' = [mine EXCEPT ![w] = 0]
    BY <1>4 DEF Tell, JobDone, Goto, Off
  <2>2. UNCHANGED <<on, starting, jobs, session, stale>>
    BY <1>4 DEF Tell, keys, requests, history
  <2> QED
    BY <2>1, <2>2, OffSteps
<1>5. CASE EndData(w)
  <2>1. on /\ mine[w] = session /\ OnlyWorker(w)
    BY <1>5, PhaseOf DEF EndData, EndPoints
  <2>2. OnlyWorker(w)' /\ pc'[w] = "endOn" /\ UNCHANGED <<on, mine, session, stale>>
    BY <1>5, <2>1, OnlyWorkerGoes DEF EndData, Goto, requests
  <2>3. Ending'
    BY <2>1, <2>2 DEF Ending, EndPoints
  <2> QED
    BY <2>2, <2>3 DEF Phase
<1>6. CASE EndOn(w)
  <2>1. on /\ mine[w] = session /\ OnlyWorker(w)
    BY <1>6, PhaseOf DEF EndOn, EndPoints
  <2>2. ~stale'
    BY <1>6, <2>1 DEF EndOn
  <2>3. NoWorker' /\ starting' = 0 /\ jobs' = EmptyBag
    BY <1>0, <1>6, <2>1 DEF EndOn, OnlyWorker, NoWorker, Off, Goto, requests
  <2>4. Nobody'
    BY <2>3 DEF Nobody
  <2> QED
    BY <2>2, <2>4 DEF Phase
<1> QED
  BY <1>1, <1>2, <1>3, <1>4, <1>5, <1>6 DEF Handler

\* A job that takes too long, or whose process dies, is run again or was the
\* last attempt; what is lost then starts and ends nothing.
LEMMA FaultKeepsPhase ==
  ASSUME Types, Phase, ~stale, NEW w \in Workers, Timeout(w) \/ Crash(w)
  PROVE  Excused' \/ (~stale' /\ Phase')
<1> SUFFICES ASSUME ~repeated' PROVE ~stale' /\ Phase'
  BY DEF Excused
<1>0. pc \in [Workers -> Points] /\ mine \in [Workers -> Nat]
  BY DEF Types
<1>1. UNCHANGED <<on, starting, session, stale>> /\ jobs' = jobs
  BY DEF Timeout, Crash, keys, requests
<1>2. CASE Timeout(w) /\ pc[w] # "hung"
  <2>1. pc' = pc /\ mine' = mine
    BY <1>0, <1>2 DEF Timeout, Goto
  <2> QED
    BY <1>1, <2>1 DEF Phase, Nobody, Asked, Added, Started, Running, Delayed, Ending,
                      OnlyWorker, OnlyJob, NoWorker, Off
<1>3. CASE Timeout(w) /\ pc[w] = "hung"
  <2>1. Off(w) /\ pc' = [pc EXCEPT ![w] = "idle"] /\ mine' = mine
    BY <1>3 DEF Timeout, Goto, Off
  <2> QED
    BY <1>1, <2>1, OffSteps
<1>4. CASE Crash(w)
  <2>1. pc' = [pc EXCEPT ![w] = "idle"] /\ mine' = [mine EXCEPT ![w] = 0]
    BY <1>4 DEF Crash, JobDone, Goto
  <2>2. CASE Off(w)
    BY <1>1, <2>1, <2>2, OffSteps
  <2>3. CASE ~Off(w)
    <3>1. pc[w] \in StartPoints \/ pc[w] = "startClock" \/ pc[w] \in EndPoints
      BY <1>0, <2>3 DEF Off, Points
    <3>2. OnlyWorker(w)
      BY <3>1, PhaseOf
    <3>3. NoWorker'
      BY <1>0, <2>1, <3>2 DEF OnlyWorker, NoWorker, Off
    <3>4. Nobody'
      BY <1>1, <3>2, <3>3 DEF Nobody, OnlyWorker
    <3> QED
      BY <1>1, <3>4 DEF Phase
  <2> QED
    BY <2>2, <2>3
<1> QED
  BY <1>2, <1>3, <1>4

\* The clock invariant is inductive.
LEMMA ClockStep == Types /\ ClockInv /\ [Next]_vars => ClockInv'
<1> SUFFICES ASSUME Types, ClockInv, [Next]_vars PROVE ClockInv'
  OBVIOUS
<1>1. finishing' = 0 \/ byHand'
  BY FinishesAreByHand DEF ClockInv
<1>2. CASE Excused
  BY <1>1, <1>2, ExcusesStay DEF ClockInv
<1>3. CASE ~Excused
  <2>1. Phase /\ ~stale /\ finishing = 0
    BY <1>3 DEF ClockInv, Excused
  <2>2. CASE UNCHANGED vars
    BY <2>1, <2>2 DEF vars, workers, keys, history, requests, Phase, Nobody, Asked, Added, Started,
                      Running, Delayed, Ending, OnlyWorker, OnlyJob, NoWorker, Off, ClockInv
  <2>3. CASE StartIntermission \/ AddStart \/ AddFinish \/ ClearExpired
    BY <1>1, <2>1, <2>3, RequestsKeepPhase DEF ClockInv
  <2>4. CASE FinishIntermission
    BY <1>1, <2>4 DEF FinishIntermission, ClockInv, Excused
  <2>5. ASSUME NEW w \in Workers, Take(w) \/ Handler(w)
        PROVE  ClockInv'
    BY <1>1, <2>1, <2>5, TakeKeepsPhase, HandlerKeepsPhase DEF ClockInv
  <2>6. ASSUME NEW w \in Workers, Timeout(w) \/ Crash(w)
        PROVE  ClockInv'
    BY <1>1, <2>1, <2>6, FaultKeepsPhase DEF ClockInv
  <2> QED
    BY <2>2, <2>3, <2>4, <2>5, <2>6 DEF Next
<1> QED
  BY <1>2, <1>3

\* An intermission is cut short by the clock of an earlier one only if an
\* organiser finished one by hand, two starts were accepted at the same time or
\* a job was run again: startIntermission looks at isOnIntermission.
THEOREM ClocksAreOwn == Spec => []OwnClockOnly
<1>1. Init => ClockInv
  BY DEF Init, ClockInv, Phase, Nobody, NoWorker, Off
<1>2. ClockInv => OwnClockOnly
  BY DEF ClockInv, OwnClockOnly, Excused
<1> QED
  BY <1>1, <1>2, InitTypes, TypesStep, ClockStep, PTL DEF Spec
=============================================================================
