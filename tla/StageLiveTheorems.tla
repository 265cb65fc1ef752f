------------------------- MODULE StageLiveTheorems -------------------------
(***************************************************************************)
(* That setups and teardowns of live infrastructure, at the same time and  *)
(* failing anywhere, build a stage at most once and lose track of nothing  *)
(* but what a failed setup leaves; that the jobs and requests around       *)
(* stages keep this; that finished stages stay finished, that previews are *)
(* stopped and that the scheduled job stays in the queue, for any events,  *)
(* stages, requests, slots, attempts and budgets.                          *)
(***************************************************************************)
EXTENDS StageLive, TLAPS

-----------------------------------------------------------------------------
\* Live infrastructure: the fixed name of the package channel decides.  Whoever
\* is beyond the first call of a setup holds it, and no teardown gives it back.

LEMMA CallNumbers ==
  /\ Len(Calls) = 7 /\ DOMAIN Calls = 1..7 /\ Saving = 8 /\ Saved = 9
  /\ PackageChannel = 1 /\ Endpoint = 3 /\ Input = 5 /\ LiveChannel = 6
BY DEF Calls, Saving, Saved, PackageChannel, Endpoint, Input, LiveChannel

\* Who is beyond the first call has the package channel ...
Held == \A r \in Setups : step[r] > PackageChannel => Built(r)
\* ... which nobody else of the stage has then.
Alone == \A r, q \in Setups : For[r] = For[q] /\ Built(r) /\ Built(q) => r = q
\* The row of a stage is that of the setup that has saved.
Rows ==
  /\ \A s \in Stages : row[s] # NoSetup => For[row[s]] = s /\ step[row[s]] = Saved
  /\ \A r \in Setups : step[r] = Saved => row[For[r]] = r
\* Only setups that have begun have made anything, and only saved ones run.
Begun == \A x \in made : step[x[1]] # 0
Running == \A r \in running : row[For[r]] = r

IInv == TypeOK /\ Held /\ Alone /\ Rows /\ Begun /\ Running

LEMMA InitIInv == Init => IInv
<1> SUFFICES ASSUME Init PROVE IInv
  OBVIOUS
<1>1. TypeOK
  BY LiveManagementAssumption, CallNumbers DEF Init, TypeOK
<1>2. Held /\ Alone /\ Rows /\ Begun /\ Running
  BY LiveManagementAssumption, CallNumbers DEF Init, Held, Alone, Rows, Begun, Running, Built
<1> QED
  BY <1>1, <1>2 DEF IInv

\* The names a teardown asks for are no names of a setup.
LEMMA NothingFound ==
  ASSUME NEW s \in Stages, DeletePackage(s)
  PROVE  UNCHANGED <<begun, step, failed, made, row, running, faults>>
<1>1. \A t : NameOf(t) # NameDeleted(s)
  <2> SUFFICES ASSUME NEW t  PROVE NameOf(t) # NameDeleted(s)
    OBVIOUS
  <2>1. Len(NameOf(t)) = 2 /\ Len(NameDeleted(s)) = 1
    BY DEF NameOf, NameDeleted
  <2> QED
    BY <2>1
<1> QED
  BY <1>1 DEF DeletePackage

\* What a teardown or a request for the channel does: some of what was made
\* goes, but no package channel.
LEMMA LessMade ==
  ASSUME IInv, NEW s \in Stages,
         \/ Describe(s) \/ StopFirst(s) \/ DeleteChannel(s) \/ DeletePackage(s)
         \/ DeleteInput(s) \/ StartMediaLiveChannel(s) \/ StopMediaLiveChannel(s)
         \/ LambdaDestroy(s) \/ CallFails
  PROVE  /\ UNCHANGED <<begun, step, failed, row>>
         /\ made' \subseteq made /\ faults' \in Nat
         /\ \A r \in Setups : Built(r)' = Built(r)
         /\ running' \subseteq running \cup ({row[s]} \ {NoSetup})
         /\ teardown' \in [Stages -> {"none", "stop", "delete", "package", "failed", "done"}]
<1> USE DEF IInv, TypeOK
<1>1. CASE Describe(s)
  BY <1>1 DEF Describe, At, Goto, Built
<1>2. CASE StopFirst(s)
  BY <1>2 DEF StopFirst, At, Goto, Built
<1>3. CASE DeleteChannel(s)
  BY <1>3, CallNumbers DEF DeleteChannel, At, Goto, Built
<1>4. CASE DeletePackage(s)
  BY <1>4, NothingFound DEF DeletePackage, At, Goto, Built
<1>5. CASE DeleteInput(s)
  BY <1>5, CallNumbers DEF DeleteInput, Built
<1>6. CASE StartMediaLiveChannel(s)
  BY <1>6 DEF StartMediaLiveChannel, HasChannel, Built
<1>7. CASE StopMediaLiveChannel(s)
  BY <1>7 DEF StopMediaLiveChannel, Built
<1>8. CASE LambdaDestroy(s)
  BY <1>8, CallNumbers DEF LambdaDestroy, Built
<1>9. CASE CallFails
  BY <1>9 DEF CallFails, Built
<1> QED
  BY <1>1, <1>2, <1>3, <1>4, <1>5, <1>6, <1>7, <1>8, <1>9

LEMMA LessMadeIInv ==
  ASSUME IInv, NEW s \in Stages,
         UNCHANGED <<begun, step, failed, row>>,
         made' \subseteq made, faults' \in Nat,
         \A r \in Setups : Built(r)' = Built(r),
         running' \subseteq running \cup ({row[s]} \ {NoSetup}),
         teardown' \in [Stages -> {"none", "stop", "delete", "package", "failed", "done"}]
  PROVE  IInv'
<1>1. Running'
  BY DEF IInv, TypeOK, Running, Rows
<1>2. TypeOK'
  BY DEF IInv, TypeOK
<1>3. Held' /\ Alone' /\ Rows' /\ Begun'
  BY DEF IInv, Held, Alone, Rows, Begun
<1> QED
  BY <1>1, <1>2, <1>3 DEF IInv

\* Where a setup is, if the next step is its own.
LEMMA CreateIInv ==
  ASSUME IInv, NEW r \in Setups, Create(r)
  PROVE  IInv'
<1> USE CallNumbers, LiveManagementAssumption
<1>0. /\ step[r] \in 1..7 /\ r \notin failed /\ ~Taken(r)
      /\ made' = made \cup {<<r, step[r]>>} /\ step' = [step EXCEPT ![r] = @ + 1]
      /\ UNCHANGED <<begun, failed, row, running, teardown, faults>>
  BY DEF Create, Refused
<1>1. TypeOK'
  BY <1>0 DEF IInv, TypeOK
<1>2. Held'
  BY <1>0 DEF IInv, TypeOK, Held, Built
<1>3. Alone'
  BY <1>0 DEF IInv, TypeOK, Alone, Built, Taken, Named
<1>4. Rows' /\ Running'
  BY <1>0 DEF IInv, TypeOK, Rows, Running
<1>5. Begun'
  BY <1>0 DEF IInv, TypeOK, Begun
<1> QED
  BY <1>1, <1>2, <1>3, <1>4, <1>5 DEF IInv

\* Who saves is the first to save: another setup of the stage that has saved
\* would hold the package channel.
LEMMA SaveFirst ==
  ASSUME IInv, NEW r \in Setups, step[r] = Saving
  PROVE  row[For[r]] = NoSetup
BY CallNumbers, LiveManagementAssumption DEF IInv, TypeOK, Held, Alone, Rows

LEMMA SaveIInv ==
  ASSUME IInv, NEW r \in Setups, Save(r)
  PROVE  IInv'
<1> USE CallNumbers, LiveManagementAssumption
<1>0. /\ step[r] = 8 /\ r \notin failed
      /\ row' = [row EXCEPT ![For[r]] = r] /\ step' = [step EXCEPT ![r] = 9]
      /\ UNCHANGED <<begun, failed, made, running, teardown, faults>>
  BY DEF Save
<1>1. TypeOK'
  BY <1>0 DEF IInv, TypeOK
<1>2. row[For[r]] = NoSetup
  BY <1>0, SaveFirst
<1>3. Held' /\ Alone' /\ Begun'
  BY <1>0 DEF IInv, TypeOK, Held, Alone, Begun, Built
<1>4. Rows'
  BY <1>0, <1>2 DEF IInv, TypeOK, Rows
<1>5. Running'
  BY <1>0, <1>2 DEF IInv, TypeOK, Running
<1> QED
  BY <1>1, <1>3, <1>4, <1>5 DEF IInv

LEMMA ThrowIInv ==
  ASSUME IInv, NEW r \in Setups, Throw(r)
  PROVE  IInv'
<1> USE CallNumbers, LiveManagementAssumption
<1>0. /\ step[r] \in 1..8 /\ r \notin failed /\ failed' = failed \cup {r}
      /\ UNCHANGED <<begun, step, row, running, teardown>> /\ faults' \in Nat
      /\ made' = made \/ (step[r] \in 1..7 /\ ~Taken(r) /\ made' = made \cup {<<r, step[r]>>})
  BY DEF Throw, Refused, IInv, TypeOK
<1>1. TypeOK' /\ Rows' /\ Running'
  BY <1>0 DEF IInv, TypeOK, Rows, Running
<1>2. Held' /\ Begun'
  BY <1>0 DEF IInv, TypeOK, Held, Begun, Built
<1>3. Alone'
  BY <1>0 DEF IInv, TypeOK, Alone, Built, Taken, Named
<1> QED
  BY <1>1, <1>2, <1>3 DEF IInv

LEMMA SetupIInv ==
  ASSUME IInv, NEW r \in Setups, SetupInfra(r)
  PROVE  IInv'
<1> USE CallNumbers, LiveManagementAssumption
<1>1. TypeOK' /\ Held' /\ Alone' /\ Begun'
  BY DEF SetupInfra, IInv, TypeOK, Held, Alone, Begun, Built
<1>2. Rows' /\ Running'
  BY DEF SetupInfra, IInv, TypeOK, Rows, Running
<1> QED
  BY <1>1, <1>2 DEF IInv

LEMMA BeginIInv ==
  ASSUME IInv, NEW s \in Stages, Begin(s)
  PROVE  IInv'
BY DEF Begin, IInv, TypeOK, Held, Alone, Rows, Begun, Running, Built

LEMMA NextIInv == IInv /\ [Next]_vars => IInv'
<1> SUFFICES ASSUME IInv, [Next]_vars  PROVE IInv'
  OBVIOUS
<1>1. CASE SetupNext
  BY <1>1, SetupIInv, CreateIInv, SaveIInv, ThrowIInv DEF SetupNext
<1>2. CASE TeardownNext
  BY <1>2, LessMade, LessMadeIInv DEF TeardownNext
<1>3. ASSUME NEW s \in Stages,
             StartMediaLiveChannel(s) \/ StopMediaLiveChannel(s) \/ LambdaDestroy(s)
      PROVE  IInv'
  BY <1>3, LessMade, LessMadeIInv
<1>4. CASE CallFails
  <2>1. TypeOK' /\ UNCHANGED <<begun, step, failed, made, row, running>>
    BY <1>4 DEF CallFails, IInv, TypeOK
  <2> QED
    BY <2>1 DEF IInv, Held, Alone, Rows, Begun, Running, Built
<1>5. CASE \E s \in Stages : Begin(s)
  BY <1>5, BeginIInv
<1>6. CASE UNCHANGED vars
  BY <1>6 DEF vars, IInv, TypeOK, Held, Alone, Rows, Begun, Running, Built
<1> QED
  BY <1>1, <1>2, <1>3, <1>4, <1>5, <1>6 DEF Next, ChannelNext

-----------------------------------------------------------------------------
\* What follows

\* Every variable keeps its type.
THEOREM TypesKept == Spec => []TypeOK
<1>1. IInv => TypeOK
  BY DEF IInv
<1> QED
  BY <1>1, InitIInv, NextIInv, PTL DEF Spec

LEMMA Known == IInv => NothingForgotten
<1> SUFFICES ASSUME IInv  PROVE NothingForgotten
  OBVIOUS
<1>1. ASSUME NEW x \in made
      PROVE  row[For[x[1]]] = x[1] \/ step[x[1]] \in 1..Saving \/ x[1] \in failed
  <2>1. x[1] \in Setups
    BY DEF IInv, TypeOK
  <2>2. step[x[1]] \in 0..9 /\ step[x[1]] # 0
    BY <2>1, CallNumbers DEF IInv, TypeOK, Begun
  <2> QED
    BY <2>1, <2>2, CallNumbers DEF IInv, Rows
<1> QED
  BY <1>1 DEF NothingForgotten, IInv, Running

\* Every AWS resource that exists is in the row of its stage, or its setup is at
\* work, or has thrown; and every channel that runs is in the row of its stage,
\* so that it can be stopped.
THEOREM ResourcesKnown == Spec => []NothingForgotten
BY Known, InitIInv, NextIInv, PTL DEF Spec

-----------------------------------------------------------------------------
\* Refinement

\* How one stage looks.
Look(s) ==
  IF row[s] # NoSetup THEN "ready"
  ELSE IF \A r \in Setups : For[r] = s => ~Built(r) THEN "bare"
  ELSE IF \A r \in Setups : For[r] = s /\ Built(r) => r \in failed THEN "broken"
  ELSE "building"

LEMMA Looks ==
  /\ StageState = [s \in Stages |-> Look(s)]
  /\ StageState' = [s \in Stages |-> Look(s)']
BY DEF StageState, Look

LEMMA SameLook ==
  ASSUME NEW s \in Stages, row'[s] = row[s],
         \A r \in Setups : For[r] = s => (Built(r)' <=> Built(r)) /\ (r \in failed' <=> r \in failed)
  PROVE  Look(s)' = Look(s)
BY DEF Look

LEMMA StateSame ==
  ASSUME \A s \in Stages : Look(s)' = Look(s)
  PROVE  UNCHANGED StageState
BY Looks

LEMMA StateMoves ==
  ASSUME NEW s \in Stages, \A t \in Stages \ {s} : Look(t)' = Look(t),
         \/ Look(s)' = Look(s)
         \/ Look(s) = "bare" /\ Look(s)' \in {"building", "broken"}
         \/ Look(s) = "building" /\ Look(s)' \in {"ready", "broken"}
  PROVE  [Organiser!Next]_StageState
<1>1. CASE Look(s)' = Look(s)
  BY <1>1, StateSame
<1>2. ASSUME NEW from, NEW to, Look(s) = from, Look(s)' = to
      PROVE  Organiser!Move(s, from, to)
  BY <1>2, Looks DEF Organiser!Move
<1> QED
  BY <1>1, <1>2 DEF Organiser!Next

\* The steps of a setup, seen from its stage.
LEMMA CreateLook ==
  ASSUME IInv, NEW r \in Setups, Create(r)
  PROVE  [Organiser!Next]_StageState
<1> DEFINE s == For[r]
<1> USE CallNumbers, LiveManagementAssumption
<1>0. /\ step[r] \in 1..7 /\ r \notin failed /\ ~Taken(r)
      /\ made' = made \cup {<<r, step[r]>>}
      /\ UNCHANGED <<failed, row>> /\ s \in Stages
  BY DEF Create, Refused
<1>1. \A q \in Setups : q # r => (Built(q)' <=> Built(q))
  BY <1>0 DEF Built
<1>2. \A t \in Stages \ {s} : Look(t)' = Look(t)
  BY <1>0, <1>1, SameLook
<1>3. CASE step[r] = 1
  <2>1. \A q \in Setups : For[q] = s => ~Built(q)
    BY <1>0, <1>3 DEF Taken, Named, Built
  <2>2. row[s] = NoSetup
    BY <2>1, <1>0 DEF IInv, TypeOK, Rows, Held
  <2>3. Built(r)'
    BY <1>0, <1>3 DEF Built
  <2>4. Look(s) = "bare"
    BY <2>1, <2>2 DEF Look
  <2>5. Look(s)' = "building"
    BY <2>2, <2>3, <1>0 DEF Look
  <2> QED
    BY <1>0, <1>2, <2>4, <2>5, StateMoves
<1>4. CASE step[r] # 1
  <2>1. Built(r)' <=> Built(r)
    BY <1>0, <1>4 DEF Built
  <2>2. \A t \in Stages : Look(t)' = Look(t)
    BY <1>0, <1>1, <2>1, SameLook
  <2> QED
    BY <2>2, StateSame
<1> QED
  BY <1>3, <1>4

LEMMA SaveLook ==
  ASSUME IInv, NEW r \in Setups, Save(r)
  PROVE  [Organiser!Next]_StageState
<1> DEFINE s == For[r]
<1> USE CallNumbers, LiveManagementAssumption
<1>0. /\ step[r] = 8 /\ r \notin failed /\ s \in Stages
      /\ row' = [row EXCEPT ![s] = r] /\ UNCHANGED <<made, failed>>
  BY DEF Save
<1>1. \A t \in Stages \ {s} : Look(t)' = Look(t)
  <2> SUFFICES ASSUME NEW t \in Stages \ {s}  PROVE Look(t)' = Look(t)
    OBVIOUS
  <2>1. row'[t] = row[t]
    BY <1>0 DEF IInv, TypeOK
  <2> QED
    BY <1>0, <2>1, SameLook DEF Built
<1>2. row[s] = NoSetup /\ Built(r)
  BY <1>0, SaveFirst DEF IInv, TypeOK, Held
<1>3. Look(s) = "building"
  BY <1>0, <1>2 DEF Look
<1>4. Look(s)' = "ready"
  BY <1>0 DEF Look, IInv, TypeOK
<1> QED
  BY <1>0, <1>1, <1>3, <1>4, StateMoves

LEMMA ThrowLook ==
  ASSUME IInv, NEW r \in Setups, Throw(r)
  PROVE  [Organiser!Next]_StageState
<1> DEFINE s == For[r]
<1> USE CallNumbers, LiveManagementAssumption
<1>0. /\ step[r] \in 1..8 /\ r \notin failed /\ failed' = failed \cup {r}
      /\ UNCHANGED row /\ s \in Stages
      /\ made' = made \/ (step[r] \in 1..7 /\ ~Taken(r) /\ made' = made \cup {<<r, step[r]>>})
  BY DEF Throw, Refused
<1>1. \A q \in Setups : q # r => (Built(q)' <=> Built(q)) /\ (q \in failed' <=> q \in failed)
  BY <1>0 DEF Built
<1>2. \A t \in Stages \ {s} : Look(t)' = Look(t)
  BY <1>0, <1>1, SameLook
<1>3. CASE row[s] # NoSetup
  BY <1>0, <1>2, <1>3, StateMoves DEF Look
<1>4. CASE row[s] = NoSetup /\ Built(r)
  <2>1. \A q \in Setups : For[q] = s /\ Built(q) => q = r
    BY <1>4 DEF IInv, Alone
  <2>2. Built(r)' /\ \A q \in Setups : For[q] = s /\ Built(q)' => q = r
    BY <1>0, <1>1, <1>4, <2>1 DEF Built
  <2>3. Look(s) = "building"
    BY <1>0, <1>4 DEF Look
  <2>4. Look(s)' = "broken"
    BY <1>0, <1>4, <2>2 DEF Look
  <2> QED
    BY <1>0, <1>2, <2>3, <2>4, StateMoves
<1>5. CASE row[s] = NoSetup /\ ~Built(r) /\ Built(r)'
  <2>1. \A q \in Setups : For[q] = s => ~Built(q)
    BY <1>0, <1>5 DEF Built, Taken, Named
  <2>2. \A q \in Setups : For[q] = s /\ Built(q)' => q = r
    BY <1>1, <2>1
  <2>3. Look(s) = "bare" /\ Look(s)' = "broken"
    BY <1>0, <1>5, <2>1, <2>2 DEF Look
  <2> QED
    BY <1>0, <1>2, <2>3, StateMoves
<1>6. CASE row[s] = NoSetup /\ ~Built(r) /\ ~Built(r)'
  <2>1. Look(s)' = Look(s)
    BY <1>0, <1>1, <1>6 DEF Look
  <2> QED
    BY <1>0, <1>2, <2>1, StateMoves
<1> QED
  BY <1>3, <1>4, <1>5, <1>6

\* A stage that is asked for too early changes nothing: no setup that has
\* thrown before its first call holds a package channel.
LEMMA SetupLook ==
  ASSUME IInv, NEW r \in Setups, SetupInfra(r)
  PROVE  UNCHANGED StageState
<1>1. UNCHANGED <<made, row>> /\ failed' \in {failed, failed \cup {r}} /\ step[r] = 0
  BY DEF SetupInfra
<1>2. ~Built(r)
  BY <1>1, CallNumbers DEF IInv, Begun, Built
<1>3. \A s \in Stages : Look(s)' = Look(s)
  BY <1>1, <1>2 DEF Look, Built
<1> QED
  BY <1>3, StateSame

LEMMA StageStep == IInv /\ [Next]_vars => [Organiser!Next]_StageState
<1> SUFFICES ASSUME IInv, [Next]_vars  PROVE [Organiser!Next]_StageState
  OBVIOUS
<1>0. ASSUME UNCHANGED <<failed, row>>, \A r \in Setups : Built(r)' = Built(r)
      PROVE  UNCHANGED StageState
  BY <1>0, SameLook, StateSame
<1>1. CASE SetupNext
  BY <1>1, SetupLook, CreateLook, SaveLook, ThrowLook DEF SetupNext
<1>2. CASE TeardownNext
  BY <1>0, <1>2, LessMade DEF TeardownNext
<1>3. CASE ChannelNext
  <2>1. CASE CallFails
    BY <1>0, <2>1 DEF CallFails, Built
  <2>2. ASSUME NEW s \in Stages,
               StartMediaLiveChannel(s) \/ StopMediaLiveChannel(s) \/ LambdaDestroy(s)
        PROVE  UNCHANGED StageState
    BY <1>0, <2>2, LessMade
  <2> QED
    BY <1>3, <2>1, <2>2 DEF ChannelNext
<1>4. CASE \E s \in Stages : Begin(s)
  BY <1>0, <1>4 DEF Begin, Built
<1>5. CASE UNCHANGED vars
  BY <1>0, <1>5 DEF vars, Built
<1> QED
  BY <1>1, <1>2, <1>3, <1>4, <1>5 DEF Next

\* setupInfra implements Provisioning, whatever else goes on: no stage is built
\* twice, none goes back from ready or broken, and half-built ones are broken.
THEOREM ProvisionsStages == Spec => Provisions
<1>1. Init => Organiser!Init
  <2> SUFFICES ASSUME Init  PROVE Organiser!Init
    OBVIOUS
  <2>1. \A s \in Stages : Look(s) = "bare"
    BY DEF Init, Look, Built
  <2> QED
    BY <2>1, Looks DEF Organiser!Init
<1> QED
  BY <1>1, InitIInv, NextIInv, StageStep, PTL DEF Spec, Provisions, Organiser!Spec

-----------------------------------------------------------------------------
\* Bags of jobs

BagOver(B, S) == DOMAIN B \subseteq S /\ \A x \in DOMAIN B : B[x] \in Nat \ {0}

\* What adding a job, and taking one, makes of the queue.
LEMMA AddFacts ==
  ASSUME NEW S, BagOver(queue, S), NEW j \in S, queue' = queue (+) SetToBag({j})
  PROVE  BagOver(queue', S) /\ DOMAIN queue' = DOMAIN queue \cup {j}
BY DEF BagOver, (+), SetToBag

LEMMA TakeFacts ==
  ASSUME NEW S, BagOver(queue, S), NEW j, queue' = queue (-) SetToBag({j})
  PROVE  /\ BagOver(queue', S) /\ DOMAIN queue' \subseteq DOMAIN queue
         /\ DOMAIN queue \ {j} \subseteq DOMAIN queue'
BY DEF BagOver, (-), SetToBag

-----------------------------------------------------------------------------
\* Types

Jobs == [name : {"message", "start", "stop", "destroyInfra", "destroyDistribution"},
         stage : Stages, id : Events \cup {NoId}, attempt : 1..MaxAttempts]
Resting  == [at : {"idle"}]
Requests == Resting \cup
  [at : {"tell", "clear", "stop", "remove", "scheduleStop", "scheduleDestroy"},
   stage : Stages, rest : SUBSET Stages]
Handlers == Resting \cup
  [at : {"read", "post", "next", "done", "hung"}, job : Jobs,
   channel : Setups \cup {NoSetup}, late : BOOLEAN]

StreamTypes ==
  /\ onLive \in [Stages -> BOOLEAN] /\ timers \in [Stages -> Nat]
  /\ asked \in [Stages -> {"start", "finish"}]
  /\ request \in [Clients -> Requests] /\ work \in [Workers -> Handlers]
  /\ BagOver(queue, Jobs)
  /\ DOMAIN left = Uses \cup {"fault", "stages"} /\ left.stages \subseteq Stages

LEMMA SpendStages ==
  ASSUME StreamTypes, NEW use \in Uses, Spend(use)
  PROVE  DOMAIN left' = Uses \cup {"fault", "stages"} /\ left'.stages \subseteq Stages
<1>1. use # "stages"
  BY DEF Uses
<1>2. DOMAIN left' = DOMAIN left /\ left'["stages"] = left["stages"]
  BY <1>1 DEF StreamTypes, Spend
<1> QED
  BY <1>2 DEF StreamTypes

LEMMA NewJobs ==
  ASSUME NEW s \in Stages, NEW id \in Events \cup {NoId},
         NEW name \in {"message", "start", "stop", "destroyInfra", "destroyDistribution"}
  PROVE  Job(name, s, id) \in Jobs
BY StageLiveAssumption DEF Job, Jobs

LEMMA AddKeeps ==
  ASSUME StreamTypes, NEW j \in Jobs, Add(j) \/ AddWithId(j)
  PROVE  /\ BagOver(queue', Jobs) /\ DOMAIN queue \subseteq DOMAIN queue'
         /\ DOMAIN queue' \subseteq DOMAIN queue \cup {j}
         /\ Add(j) => j \in DOMAIN queue'
         /\ queue' # queue => j \in DOMAIN queue'
<1>1. queue' = queue \/ queue' = queue (+) SetToBag({j})
  BY DEF Add, AddWithId
<1>2. Add(j) => queue' = queue (+) SetToBag({j})
  BY DEF Add
<1>3. BagOver(queue, Jobs)
  BY DEF StreamTypes
<1>4. queue' = queue (+) SetToBag({j}) =>
        BagOver(queue', Jobs) /\ DOMAIN queue' = DOMAIN queue \cup {j}
  BY <1>3, AddFacts
<1> QED
  BY <1>1, <1>2, <1>3, <1>4

LEMMA StreamInitTypes == StreamInit => StreamTypes
<1> SUFFICES ASSUME StreamInit  PROVE StreamTypes
  OBVIOUS
<1>1. BagOver(queue, Jobs)
  BY DEF StreamInit, BagOver, EmptyBag, SetToBag
<1>2. request \in [Clients -> Requests] /\ work \in [Workers -> Handlers]
  BY DEF StreamInit, Idle, Requests, Handlers, Resting
<1> QED
  BY <1>1, <1>2, StageLiveAssumption DEF StreamInit, StreamTypes

\* A request, or a handler, that goes on.
LEMMA RequestGoesOn ==
  ASSUME StreamTypes, NEW q \in Clients, request[q].at # "idle"
  PROVE  /\ request[q].stage \in Stages /\ request[q].rest \subseteq Stages
         /\ \A to \in {"tell", "clear", "stop", "remove", "scheduleStop", "scheduleDestroy"} :
              [request EXCEPT ![q].at = to] \in [Clients -> Requests]
         /\ [request EXCEPT ![q] = Idle] \in [Clients -> Requests]
BY DEF StreamTypes, Requests, Resting, Idle

LEMMA HandlerGoesOn ==
  ASSUME StreamTypes, NEW w \in Workers, work[w].at # "idle"
  PROVE  /\ work[w].job \in Jobs /\ work[w].late \in BOOLEAN
         /\ work[w].job.stage \in Stages /\ work[w].job.attempt \in 1..MaxAttempts
         /\ \A to \in {"read", "post", "next", "done", "hung"} :
              Move(w, to) => work' \in [Workers -> Handlers]
         /\ [work EXCEPT ![w] = Idle] \in [Workers -> Handlers]
<1>1. work[w].job \in Jobs /\ work[w].late \in BOOLEAN
  BY DEF StreamTypes, Handlers, Resting
<1>2. \A to \in {"read", "post", "next", "done", "hung"} :
        Move(w, to) => work' \in [Workers -> Handlers]
  BY DEF StreamTypes, Handlers, Resting, Move
<1>3. [work EXCEPT ![w] = Idle] \in [Workers -> Handlers]
  BY DEF StreamTypes, Handlers, Resting, Idle
<1> QED
  BY <1>1, <1>2, <1>3 DEF Jobs

LEMMA ChannelRead ==
  ASSUME NEW h \in Handlers, h.at # "idle", NEW ch \in Setups \cup {NoSetup}
  PROVE  [h EXCEPT !.at = "post", !.channel = ch] \in Handlers
BY DEF Handlers, Resting

LEMMA AskTypes ==
  ASSUME StreamTypes, NEW q \in Clients, NEW s \in left.stages,
         StartLive(q, s) \/ FinishLive(q, s) \/ StartPreview(q, s) \/ UpdateEventInfo(q, s)
  PROVE  StreamTypes'
<1>0. s \in Stages /\ {"start", "finish", "preview", "update"} \subseteq Uses
  BY DEF StreamTypes, Uses
<1>1. \A at \in {"tell", "clear", "stop", "remove"} :
        [request EXCEPT ![q] = Asking(at, s)] \in [Clients -> Requests]
  BY <1>0 DEF StreamTypes, Asking, Requests
<1>2. CASE StartLive(q, s)
  <2>1. DOMAIN left' = Uses \cup {"fault", "stages"} /\ left'.stages \subseteq Stages
    BY <1>0, <1>2, SpendStages DEF StartLive
  <2>2. request' \in [Clients -> Requests]
    BY <1>1, <1>2 DEF StartLive, StreamTypes
  <2> QED
    BY <1>0, <1>2, <2>1, <2>2 DEF StartLive, StreamTypes
<1>3. CASE FinishLive(q, s)
  <2>1. DOMAIN left' = Uses \cup {"fault", "stages"} /\ left'.stages \subseteq Stages
    BY <1>0, <1>3, SpendStages DEF FinishLive
  <2>2. request' \in [Clients -> Requests]
    BY <1>1, <1>3 DEF FinishLive, StreamTypes
  <2> QED
    BY <1>0, <1>3, <2>1, <2>2 DEF FinishLive, StreamTypes
<1>4. CASE StartPreview(q, s)
  <2>1. DOMAIN left' = Uses \cup {"fault", "stages"} /\ left'.stages \subseteq Stages
    BY <1>0, <1>4, SpendStages DEF StartPreview
  <2>2. request' \in [Clients -> Requests]
    BY <1>1, <1>4 DEF StartPreview
  <2>3. BagOver(queue', Jobs)
    BY <1>0, <1>4, NewJobs, AddKeeps DEF StartPreview
  <2> QED
    BY <1>4, <2>1, <2>2, <2>3 DEF StartPreview, StreamTypes, history
<1>5. CASE UpdateEventInfo(q, s)
  <2>1. DOMAIN left' = Uses \cup {"fault", "stages"} /\ left'.stages \subseteq Stages
    BY <1>0, <1>5, SpendStages DEF UpdateEventInfo
  <2>2. request' \in [Clients -> Requests]
    BY <1>1, <1>5 DEF UpdateEventInfo
  <2> QED
    BY <1>5, <2>1, <2>2 DEF UpdateEventInfo, StreamTypes, history
<1> QED
  BY <1>2, <1>3, <1>4, <1>5

LEMMA ServeTypes ==
  ASSUME StreamTypes, NEW q \in Clients, Serve(q)
  PROVE  StreamTypes'
<1>1. CASE ClearOnLive(q)
  <2>1. request' \in [Clients -> Requests]
    BY <1>1, RequestGoesOn DEF ClearOnLive, Continue
  <2> QED
    BY <1>1, <2>1 DEF ClearOnLive, Cleared, StreamTypes, history
<1>2. CASE Tell(q)
  <2>1. request' \in [Clients -> Requests] /\ request[q].stage \in Stages
    BY <1>2, RequestGoesOn DEF Tell, Finish
  <2>2. BagOver(queue', Jobs)
    BY <1>2, <2>1, NewJobs, AddKeeps DEF Tell
  <2> QED
    BY <1>2, <2>1, <2>2 DEF Tell, StreamTypes, history
<1>3. CASE PreviewStop(q)
  <2>1. request' \in [Clients -> Requests] /\ request[q].stage \in Stages
    BY <1>3, RequestGoesOn DEF PreviewStop, Finish
  <2>2. StopOfPreview(request[q].stage) \in Jobs
    BY <2>1, NewJobs DEF StopOfPreview
  <2>3. BagOver(queue', Jobs)
    BY <1>3, <2>2, AddKeeps DEF PreviewStop
  <2> QED
    BY <1>3, <2>1, <2>3 DEF PreviewStop, StreamTypes, history
<1>4. CASE RemoveJobs(q)
  <2>1. BagOver(queue', Jobs)
    BY <1>4 DEF RemoveJobs, StreamTypes, BagOver, BagToSet
  <2>2. request' \in [Clients -> Requests]
    <3> DEFINE stages == {s \in Stages : EventOf[s] = EventOf[request[q].stage]}
               next == [request[q] EXCEPT !.at = "scheduleStop", !.rest = stages]
    <3> stages \subseteq Stages
      OBVIOUS
    <3> HIDE DEF stages
    <3>1. next \in Requests
      BY <1>4 DEF RemoveJobs, StreamTypes, Requests, Resting
    <3>2. request' = [request EXCEPT ![q] = next]
      BY <1>4 DEF RemoveJobs, StreamTypes, stages
    <3> QED
      BY <3>1, <3>2 DEF StreamTypes
  <2> QED
    BY <1>4, <2>1, <2>2 DEF RemoveJobs, StreamTypes
<1>5. CASE ScheduleStop(q)
  <2> PICK s \in request[q].rest :
        /\ AddWithId(Job("stop", s, EventOf[s]))
        /\ request' = [request EXCEPT ![q].at = "scheduleDestroy", ![q].stage = s,
                                      ![q].rest = @ \ {s}]
    BY <1>5 DEF ScheduleStop
  <2>1. s \in Stages /\ EventOf[s] \in Events
    BY <1>5, RequestGoesOn, StageLiveAssumption DEF ScheduleStop
  <2>2. BagOver(queue', Jobs)
    BY <2>1, NewJobs, AddKeeps
  <2>3. request' \in [Clients -> Requests]
    BY <1>5, <2>1 DEF ScheduleStop, StreamTypes, Requests, Resting
  <2> QED
    BY <1>5, <2>2, <2>3 DEF ScheduleStop, StreamTypes
<1>6. CASE ScheduleDestroy(q)
  <2>1. request' \in [Clients -> Requests] /\ request[q].stage \in Stages
    BY <1>6, RequestGoesOn DEF ScheduleDestroy, Finish, Continue
  <2>2. BagOver(queue', Jobs)
    BY <1>6, <2>1, NewJobs, AddKeeps, StageLiveAssumption DEF ScheduleDestroy
  <2> QED
    BY <1>6, <2>1, <2>2 DEF ScheduleDestroy, StreamTypes, history
<1> QED
  BY <1>1, <1>2, <1>3, <1>4, <1>5, <1>6 DEF Serve

LEMMA HandleTypes ==
  ASSUME StreamTypes, TypeOK, NEW w \in Workers, Handle(w)
  PROVE  StreamTypes'
<1>0. work[w].at # "idle"
  BY DEF Handle, SendMessage, ReadRow, Posts, PostStart, PostStop, PostDestroy,
         AddDestroyDistribution, PostDestroyDistribution, PostFails, JobDone
<1>1. CASE SendMessage(w)
  <2>1. Move(w, "hung") \/ Move(w, "done")
    BY <1>1 DEF SendMessage, SentEvent
  <2> QED
    BY <1>0, <1>1, <2>1, HandlerGoesOn DEF SendMessage, StreamTypes, history
<1>2. CASE ReadRow(w)
  <2>1. work' \in [Workers -> Handlers]
    <3>1. row[work[w].job.stage] \in Setups \cup {NoSetup}
      BY <1>0, HandlerGoesOn DEF TypeOK
    <3> DEFINE next == [work[w] EXCEPT !.at = "post", !.channel = row[work[w].job.stage]]
    <3>2. next \in Handlers
      BY <1>0, <3>1, ChannelRead DEF StreamTypes
    <3>3. Move(w, "hung") \/ work' = [work EXCEPT ![w] = next]
      BY <1>2 DEF ReadRow, StreamTypes
    <3> QED
      BY <1>0, <3>2, <3>3, HandlerGoesOn DEF StreamTypes
  <2> QED
    BY <1>2, <2>1 DEF ReadRow, StreamTypes, history
<1>3. ASSUME Move(w, "done") \/ Move(w, "next") \/ Move(w, "hung"),
             UNCHANGED <<onLive, timers, request, queue, left, asked>>
      PROVE  StreamTypes'
  BY <1>0, <1>3, HandlerGoesOn DEF StreamTypes
<1>4. CASE AddDestroyDistribution(w)
  <2>1. BagOver(queue', Jobs)
    BY <1>0, <1>4, HandlerGoesOn, NewJobs, AddKeeps DEF AddDestroyDistribution
  <2> QED
    BY <1>0, <1>4, <2>1, HandlerGoesOn DEF AddDestroyDistribution, StreamTypes, history
<1>5. CASE JobDone(w)
  BY <1>0, <1>5, HandlerGoesOn DEF JobDone, StreamTypes, history
<1> QED
  BY <1>1, <1>2, <1>3, <1>4, <1>5
  DEF Handle, PostStart, PostStop, PostDestroy, PostDestroyDistribution, PostFails, history

LEMMA WorkerTypes ==
  ASSUME StreamTypes, NEW w \in Workers, Take(w) \/ Timeout(w) \/ HandlerDies(w)
  PROVE  StreamTypes'
<1>1. CASE Take(w)
  <2> PICK j \in BagToSet(queue) :
        queue' = queue (-) SetToBag({j}) /\ work' = [work EXCEPT ![w] = Handler(j)]
    BY <1>1 DEF Take
  <2>1. BagOver(queue', Jobs)
    BY TakeFacts DEF StreamTypes
  <2>2. j \in Jobs
    BY DEF StreamTypes, BagOver, BagToSet
  <2>3. work' \in [Workers -> Handlers]
    BY <2>2 DEF StreamTypes, Handler, Handlers
  <2> QED
    BY <1>1, <2>1, <2>3 DEF Take, StreamTypes
<1>2. CASE Timeout(w)
  <2>0. work[w].at # "idle" /\ "slow" \in Uses
    BY <1>2 DEF Timeout, Active, Uses
  <2>1. BagOver(queue', Jobs)
    <3> DEFINE j == work[w].job
    <3>1. CASE j.attempt < MaxAttempts
      <4>1. Again(j) \in Jobs
        BY <2>0, <3>1, HandlerGoesOn, StageLiveAssumption DEF Again, Jobs
      <4>2. queue' = queue (+) SetToBag({Again(j)})
        BY <1>2, <3>1 DEF Timeout
      <4> QED
        BY <4>1, <4>2, AddFacts DEF StreamTypes
    <3>2. CASE ~(j.attempt < MaxAttempts)
      BY <1>2, <3>2 DEF Timeout, StreamTypes
    <3> QED
      BY <3>1, <3>2
  <2>2. work' \in [Workers -> Handlers]
    <3>1. [work EXCEPT ![w].late = TRUE] \in [Workers -> Handlers]
      BY <2>0 DEF StreamTypes, Handlers, Resting
    <3> QED
      BY <1>2, <2>0, <3>1, HandlerGoesOn DEF Timeout
  <2>3. DOMAIN left' = Uses \cup {"fault", "stages"} /\ left'.stages \subseteq Stages
    BY <1>2, <2>0, SpendStages DEF Timeout, StreamTypes
  <2> QED
    BY <1>2, <2>1, <2>2, <2>3 DEF Timeout, StreamTypes
<1>3. CASE HandlerDies(w)
  <2>0. work[w].at # "idle" /\ "death" \in Uses
    BY <1>3 DEF HandlerDies, Active, Uses
  <2>1. BagOver(queue', Jobs)
    BY <1>3, <2>0, HandlerGoesOn, AddKeeps DEF HandlerDies
  <2>2. DOMAIN left' = Uses \cup {"fault", "stages"} /\ left'.stages \subseteq Stages
    BY <1>3, <2>0, SpendStages DEF HandlerDies
  <2> QED
    BY <1>3, <2>0, <2>1, <2>2, HandlerGoesOn DEF HandlerDies, StreamTypes, history
<1> QED
  BY <1>1, <1>2, <1>3

LEMMA OtherTypes ==
  ASSUME StreamTypes,
         \/ Manage /\ UNCHANGED <<onLive, timers, request, queue, work, history>>
         \/ \E s \in left.stages : DestroyInfra(s)
         \/ \E s \in Stages : TimerFires(s) \/ TimerDies(s)
         \/ \E q \in Clients : RequestDies(q)
  PROVE  StreamTypes'
<1>0. {"setup", "teardown", "destroy", "death"} \subseteq Uses
  BY DEF Uses
<1>1. CASE Manage /\ UNCHANGED <<onLive, timers, request, queue, work, history>>
  <2>1. UNCHANGED left \/ Spend("setup") \/ Spend("teardown")
    BY <1>1 DEF Manage
  <2>2. DOMAIN left' = Uses \cup {"fault", "stages"} /\ left'.stages \subseteq Stages
    BY <1>0, <2>1, SpendStages DEF StreamTypes
  <2> QED
    BY <1>1, <2>2 DEF StreamTypes, history
<1>2. ASSUME NEW s \in left.stages, DestroyInfra(s)  PROVE StreamTypes'
  <2>0. s \in Stages
    BY DEF StreamTypes
  <2>1. BagOver(queue', Jobs)
    BY <1>2, <2>0, NewJobs, AddKeeps DEF DestroyInfra
  <2>2. DOMAIN left' = Uses \cup {"fault", "stages"} /\ left'.stages \subseteq Stages
    BY <1>0, <1>2, SpendStages DEF DestroyInfra
  <2> QED
    BY <1>2, <2>1, <2>2 DEF DestroyInfra, StreamTypes, history
<1>3. ASSUME NEW s \in Stages, TimerFires(s)  PROVE StreamTypes'
  BY <1>3 DEF TimerFires, StreamTypes, history
<1>4. ASSUME NEW s \in Stages, TimerDies(s)  PROVE StreamTypes'
  <2>1. DOMAIN left' = Uses \cup {"fault", "stages"} /\ left'.stages \subseteq Stages
    BY <1>0, <1>4, SpendStages DEF TimerDies
  <2> QED
    BY <1>4, <2>1 DEF TimerDies, StreamTypes, history
<1>5. ASSUME NEW q \in Clients, RequestDies(q)  PROVE StreamTypes'
  <2>1. DOMAIN left' = Uses \cup {"fault", "stages"} /\ left'.stages \subseteq Stages
    BY <1>0, <1>5, SpendStages DEF RequestDies
  <2> QED
    BY <1>5, <2>1, RequestGoesOn DEF RequestDies, Finish, StreamTypes
<1> QED
  BY <1>1, <1>2, <1>3, <1>4, <1>5

LEMMA StreamTypesKept ==
  ASSUME StreamTypes, TypeOK, [StreamNext]_all
  PROVE  StreamTypes'
<1>1. CASE UNCHANGED all
  BY <1>1 DEF all, history, StreamTypes
<1>2. CASE Ask
  BY <1>2, AskTypes DEF Ask
<1> QED
  BY <1>1, <1>2, ServeTypes, HandleTypes, WorkerTypes, OtherTypes DEF StreamNext

-----------------------------------------------------------------------------
\* What LiveManagement promises

\* Each step is a step of LiveManagement or leaves its variables alone.
LEMMA ManageStep ==
  ASSUME StreamTypes, [StreamNext]_all
  PROVE  [Next]_vars
<1>1. CASE Manage
  BY <1>1 DEF Manage, Next, SetupNext, TeardownNext
<1>2. CASE Ask
  BY <1>2 DEF Ask, StartLive, FinishLive, StartPreview, UpdateEventInfo, manage, vars
<1>3. CASE (\E s \in left.stages : DestroyInfra(s)) \/ (\E s \in Stages : TimerFires(s) \/ TimerDies(s))
  BY <1>3 DEF DestroyInfra, TimerFires, TimerDies, manage, vars
<1>4. ASSUME NEW q \in Clients, Serve(q) \/ RequestDies(q)
      PROVE  UNCHANGED vars
  BY <1>4 DEF Serve, ClearOnLive, Tell, PreviewStop, RemoveJobs, ScheduleStop, ScheduleDestroy,
              RequestDies, manage, vars
<1>5. ASSUME NEW w \in Workers, Take(w) \/ Timeout(w) \/ HandlerDies(w)
      PROVE  UNCHANGED vars
  BY <1>5 DEF Take, Timeout, HandlerDies, manage, vars
<1>6. ASSUME NEW w \in Workers, Handle(w)
      PROVE  [Next]_vars
  <2>1. CASE UNCHANGED manage
    BY <2>1 DEF manage, vars
  <2>2. CASE PostStart(w) \/ PostStop(w) \/ PostDestroy(w) \/ PostDestroyDistribution(w)
    <3>1. work[w].job.stage \in Stages
      BY <2>2, HandlerGoesOn DEF PostStart, PostStop, PostDestroy, PostDestroyDistribution, Posts
    <3> QED
      BY <2>2, <3>1 DEF PostStart, PostStop, PostDestroy, PostDestroyDistribution,
                        Next, TeardownNext, ChannelNext
  <2> QED
    BY <1>6, <2>1, <2>2 DEF Handle, SendMessage, ReadRow, AddDestroyDistribution, PostFails,
                            JobDone, Next, ChannelNext
<1>7. CASE UNCHANGED all
  BY <1>7 DEF all, manage, vars
<1> QED
  BY <1>1, <1>2, <1>3, <1>4, <1>5, <1>6, <1>7 DEF StreamNext

StreamInv == StreamTypes /\ IInv

LEMMA StreamInitInv == StreamInit => StreamInv
BY StreamInitTypes, InitIInv DEF StreamInit, StreamInv

LEMMA StreamStep == StreamInv /\ [StreamNext]_all => StreamInv'
BY StreamTypesKept, ManageStep, NextIInv DEF StreamInv, IInv

\* With previews, jobs, retries and deaths around it, nothing that a setup has
\* made is forgotten, and every channel that runs can be stopped.
THEOREM StreamResourcesKnown == StreamSpec => []NothingForgotten
<1>1. StreamInv => NothingForgotten
  BY Known DEF StreamInv
<1> QED
  BY <1>1, StreamInitInv, StreamStep, PTL DEF StreamSpec

\* With all of this around it, a stage is still built at most once.
THEOREM StreamProvisions == StreamSpec => Provisions
<1>1. StreamInit => Init
  BY DEF StreamInit
<1>2. StreamInv /\ [StreamNext]_all => [Next]_vars
  BY ManageStep DEF StreamInv
<1> QED
  BY <1>1, <1>2, StreamInitInv, StreamStep, ProvisionsStages, PTL DEF StreamSpec, Spec

-----------------------------------------------------------------------------
\* Finished stages

\* Whoever was asked to finish last has no timer, and is off live or about to be.
FinishInv == \A s \in Stages : asked[s] = "finish" =>
  s \in hasty \/ (timers[s] = 0 /\ (onLive[s] => Finishing(s)))

LEMMA FinishStep == StreamTypes /\ FinishInv /\ [StreamNext]_all => FinishInv'
<1> SUFFICES ASSUME StreamTypes, FinishInv, [StreamNext]_all, NEW s \in Stages, asked'[s] = "finish"
             PROVE  s \in hasty' \/ (timers'[s] = 0 /\ (onLive'[s] => Finishing(s)'))
  BY DEF FinishInv
<1>0. asked[s] = "finish" => s \in hasty \/ (timers[s] = 0 /\ (onLive[s] => Finishing(s)))
  BY DEF FinishInv
<1> DEFINE Clearing(q) == request[q].at = "clear" /\ request[q].stage = s
<1>a. Finishing(s) <=> \E q \in Clients : Clearing(q)
  BY DEF Finishing
<1>b. Finishing(s)' <=> \E q \in Clients : request'[q].at = "clear" /\ request'[q].stage = s
  BY DEF Finishing
<1>c. ASSUME UNCHANGED <<onLive, timers, asked, hasty>>,
             \A q \in Clients : Clearing(q) => request'[q] = request[q]
      PROVE  s \in hasty' \/ (timers'[s] = 0 /\ (onLive'[s] => Finishing(s)'))
  BY <1>0, <1>a, <1>b, <1>c
<1>1. ASSUME NEW q \in Clients, NEW t \in left.stages, StartLive(q, t)
      PROVE  s \in hasty' \/ (timers'[s] = 0 /\ (onLive'[s] => Finishing(s)'))
  <2>1. t # s /\ asked[s] = "finish"
    BY <1>1 DEF StartLive, StreamTypes
  <2>2. \A p \in Clients : Clearing(p) => request'[p] = request[p]
    BY <1>1 DEF StartLive, StreamTypes
  <2>3. timers'[s] = timers[s] /\ onLive' = onLive /\ hasty \subseteq hasty'
    BY <1>1, <2>1 DEF StartLive, StreamTypes
  <2> QED
    BY <1>0, <1>a, <1>b, <2>1, <2>2, <2>3
<1>2. ASSUME NEW q \in Clients, NEW t \in left.stages, FinishLive(q, t)
      PROVE  s \in hasty' \/ (timers'[s] = 0 /\ (onLive'[s] => Finishing(s)'))
  <2>1. \A p \in Clients : Clearing(p) => request'[p] = request[p]
    BY <1>2 DEF FinishLive, StreamTypes
  <2>2. hasty \subseteq hasty' /\ timers' = timers /\ onLive' = onLive
    BY <1>2 DEF FinishLive
  <2>3. CASE t # s
    <3>1. asked[s] = "finish"
      BY <1>2, <2>3 DEF FinishLive, StreamTypes
    <3> QED
      BY <1>0, <1>a, <1>b, <2>1, <2>2, <3>1
  <2>4. CASE t = s /\ timers[s] > 0
    BY <1>2, <2>4 DEF FinishLive
  <2>5. CASE t = s /\ timers[s] = 0
    <3>1. onLive[s] => request'[q].at = "clear" /\ request'[q].stage = s
      BY <1>2, <2>5 DEF FinishLive, StreamTypes, Asking
    <3> QED
      BY <1>b, <2>2, <2>5, <3>1
  <2> QED
    BY <2>3, <2>4, <2>5 DEF StreamTypes
<1>3. ASSUME NEW q \in Clients, ClearOnLive(q)
      PROVE  s \in hasty' \/ (timers'[s] = 0 /\ (onLive'[s] => Finishing(s)'))
  <2>1. UNCHANGED <<timers, asked, hasty>>
    BY <1>3 DEF ClearOnLive, history
  <2>2. CASE request[q].stage = s
    <3>1. ~onLive'[s]
      BY <1>3, <2>2 DEF ClearOnLive, StreamTypes, Cleared
    <3> QED
      BY <1>0, <2>1, <3>1
  <2>3. CASE request[q].stage # s
    <3>1. \A p \in Clients : Clearing(p) => request'[p] = request[p]
      BY <1>3, <2>3 DEF ClearOnLive, StreamTypes, Continue
    <3>2. onLive'[s] = onLive[s]
      BY <1>3, <2>3 DEF ClearOnLive, StreamTypes
    <3> QED
      BY <1>0, <1>a, <1>b, <2>1, <3>1, <3>2
  <2> QED
    BY <2>2, <2>3
<1>4. ASSUME NEW q \in Clients, Serve(q), ~ClearOnLive(q)
      PROVE  s \in hasty' \/ (timers'[s] = 0 /\ (onLive'[s] => Finishing(s)'))
  <2>1. UNCHANGED <<onLive, timers, asked, hasty>> /\ request[q].at # "clear"
    BY <1>4 DEF Serve, Tell, PreviewStop, RemoveJobs, ScheduleStop, ScheduleDestroy, history
  <2>2. \A p \in Clients \ {q} : request'[p] = request[p]
    BY <1>4 DEF Serve, Tell, PreviewStop, RemoveJobs, ScheduleStop, ScheduleDestroy,
                Finish, Continue, StreamTypes
  <2> QED
    BY <1>c, <2>1, <2>2
<1>5. ASSUME NEW q \in Clients, RequestDies(q)
      PROVE  s \in hasty' \/ (timers'[s] = 0 /\ (onLive'[s] => Finishing(s)'))
  <2>1. \A p \in Clients \ {q} : request'[p] = request[p]
    BY <1>5 DEF RequestDies, Finish, StreamTypes
  <2>2. UNCHANGED <<onLive, timers, asked>> /\ hasty \subseteq hasty'
    BY <1>5 DEF RequestDies
  <2>3. Clearing(q) => s \in hasty'
    BY <1>5 DEF RequestDies
  <2> QED
    BY <1>0, <1>a, <1>b, <2>1, <2>2, <2>3
<1>6. ASSUME NEW t \in Stages, TimerFires(t) \/ TimerDies(t)
      PROVE  s \in hasty' \/ (timers'[s] = 0 /\ (onLive'[s] => Finishing(s)'))
  <2>1. UNCHANGED <<request, asked, hasty>> /\ timers[t] > 0
    BY <1>6 DEF TimerFires, TimerDies, history
  <2>2. t # s => timers'[s] = timers[s] /\ onLive'[s] = onLive[s]
    BY <1>6 DEF TimerFires, TimerDies, StreamTypes
  <2>3. timers[s] \in Nat
    BY DEF StreamTypes
  <2> QED
    BY <1>0, <1>a, <1>b, <2>1, <2>2, <2>3
<1>7. ASSUME NEW q \in Clients, NEW t \in left.stages, StartPreview(q, t) \/ UpdateEventInfo(q, t)
      PROVE  s \in hasty' \/ (timers'[s] = 0 /\ (onLive'[s] => Finishing(s)'))
  <2>1. UNCHANGED <<onLive, timers, asked, hasty>> /\ request[q].at = "idle"
    BY <1>7 DEF StartPreview, UpdateEventInfo, history
  <2>2. \A p \in Clients \ {q} : request'[p] = request[p]
    BY <1>7 DEF StartPreview, UpdateEventInfo, StreamTypes
  <2> QED
    BY <1>c, <2>1, <2>2
<1>8. CASE Manage /\ UNCHANGED <<onLive, timers, request, queue, work, history>>
  BY <1>c, <1>8 DEF history
<1>9. CASE \E t \in left.stages : DestroyInfra(t)
  BY <1>c, <1>9 DEF DestroyInfra, history
<1>10. ASSUME NEW w \in Workers, Take(w) \/ Handle(w) \/ Timeout(w) \/ HandlerDies(w)
       PROVE  UNCHANGED <<onLive, timers, asked, hasty, request>>
  BY <1>10 DEF Take, Timeout, HandlerDies, Handle, SendMessage, ReadRow, PostStart, PostStop,
               PostDestroy, AddDestroyDistribution, PostDestroyDistribution, PostFails, JobDone, history
<1>11. CASE UNCHANGED all
  BY <1>c, <1>11 DEF all, history
<1> QED
  BY <1>1, <1>2, <1>3, <1>4, <1>5, <1>6, <1>7, <1>8, <1>9, <1>10, <1>11, <1>c DEF StreamNext, Ask

\* A stage that was asked to finish last stays off live (updateLive, its timer
\* of 25 seconds), for any number of stages, organisers, deaths and requests,
\* unless it was asked within the 25 seconds or a finish met another or died.
THEOREM FinishedStay == StreamSpec => []StaysFinished
<1>1. StreamInit => FinishInv
  BY DEF StreamInit, FinishInv
<1>2. FinishInv => StaysFinished
  BY DEF FinishInv, StaysFinished
<1>3. StreamInv => StreamTypes
  BY DEF StreamInv
<1> QED
  BY <1>1, <1>2, <1>3, StreamInitInv, StreamStep, FinishStep, PTL DEF StreamSpec

-----------------------------------------------------------------------------
\* The scheduled job

LEMMA ScheduleStep == StreamTypes /\ ScheduleKept /\ [StreamNext]_all => ScheduleKept'
<1> SUFFICES ASSUME StreamTypes, ScheduleKept, [StreamNext]_all, NEW e \in kept' \ robbed'
             PROVE  \E j \in DOMAIN queue' : j.id = e
  BY DEF ScheduleKept, BagToSet
<1>0. e \in kept \ robbed => \E j \in DOMAIN queue : j.id = e
  BY DEF ScheduleKept, BagToSet
<1>a. ASSUME UNCHANGED <<kept, robbed>>, DOMAIN queue \subseteq DOMAIN queue'
      PROVE  \E j \in DOMAIN queue' : j.id = e
  BY <1>0, <1>a
<1>1. ASSUME NEW q \in Clients, RemoveJobs(q)
      PROVE  \E j \in DOMAIN queue' : j.id = e
  <2> DEFINE d == EventOf[request[q].stage]
  <2>1. e \in kept /\ e # d /\ e \notin robbed /\ e \notin Namesakes[d]
    BY <1>1 DEF RemoveJobs
  <2>2. PICK j \in DOMAIN queue : j.id = e
    BY <1>0, <2>1
  <2>3. j \in DOMAIN queue'
    BY <1>1, <2>1, <2>2 DEF RemoveJobs, BagToSet, Matches
  <2> QED
    BY <2>2, <2>3
<1>2. ASSUME NEW q \in Clients, ScheduleStop(q)
      PROVE  \E j \in DOMAIN queue' : j.id = e
  <2> PICK s \in request[q].rest :
        /\ AddWithId(Job("stop", s, EventOf[s]))
        /\ IF queue' # queue
           THEN kept' = kept \cup {EventOf[s]} /\ robbed' = robbed \ {EventOf[s]}
           ELSE UNCHANGED <<kept, robbed>>
    BY <1>2 DEF ScheduleStop
  <2> DEFINE new == Job("stop", s, EventOf[s])
  <2>0. new \in Jobs /\ new.id = EventOf[s]
    BY <1>2, RequestGoesOn, StageLiveAssumption, NewJobs DEF ScheduleStop, Job
  <2>1. DOMAIN queue \subseteq DOMAIN queue' /\ (queue' # queue => new \in DOMAIN queue')
    BY <2>0, AddKeeps
  <2>2. CASE queue' # queue /\ e = EventOf[s]
    BY <2>0, <2>1, <2>2
  <2>3. CASE ~(queue' # queue /\ e = EventOf[s])
    BY <1>0, <2>1, <2>3
  <2> QED
    BY <2>2, <2>3
<1>3. ASSUME NEW q \in Clients, Serve(q), ~RemoveJobs(q), ~ScheduleStop(q)
      PROVE  \E j \in DOMAIN queue' : j.id = e
  <2>0. UNCHANGED <<kept, robbed>>
    BY <1>3 DEF Serve, ClearOnLive, Tell, PreviewStop, ScheduleDestroy, history
  <2>1. CASE ClearOnLive(q)
    BY <1>a, <2>0, <2>1 DEF ClearOnLive
  <2>2. CASE Tell(q) \/ PreviewStop(q) \/ ScheduleDestroy(q)
    <3>1. request[q].stage \in Stages
      BY <2>2, RequestGoesOn DEF Tell, PreviewStop, ScheduleDestroy
    <3>2. \E j \in Jobs : Add(j) \/ AddWithId(j)
      BY <2>2, <3>1, NewJobs, StageLiveAssumption DEF Tell, PreviewStop, ScheduleDestroy, StopOfPreview
    <3> QED
      BY <1>a, <2>0, <3>2, AddKeeps
  <2> QED
    BY <1>3, <2>1, <2>2 DEF Serve
<1>4. ASSUME NEW w \in Workers, Take(w)
      PROVE  \E j \in DOMAIN queue' : j.id = e
  <2> PICK j \in DOMAIN queue : queue' = queue (-) SetToBag({j}) /\ kept' = kept \ {j.id}
    BY <1>4 DEF Take, BagToSet
  <2>1. DOMAIN queue \ {j} \subseteq DOMAIN queue'
    BY TakeFacts DEF StreamTypes
  <2>2. e \in kept \ robbed /\ e # j.id
    BY <1>4 DEF Take
  <2> QED
    BY <1>0, <2>1, <2>2
<1>5. ASSUME NEW w \in Workers, Handle(w)
      PROVE  \E j \in DOMAIN queue' : j.id = e
  <2>0. UNCHANGED <<kept, robbed>>
    BY <1>5 DEF Handle, SendMessage, ReadRow, PostStart, PostStop, PostDestroy,
         AddDestroyDistribution, PostDestroyDistribution, PostFails, JobDone, history
  <2>1. CASE AddDestroyDistribution(w)
    <3>1. Job("destroyDistribution", work[w].job.stage, NoId) \in Jobs
      BY <2>1, HandlerGoesOn, NewJobs DEF AddDestroyDistribution
    <3> QED
      BY <1>a, <2>0, <2>1, <3>1, AddKeeps DEF AddDestroyDistribution
  <2>2. CASE ~AddDestroyDistribution(w)
    <3>1. UNCHANGED queue
      BY <1>5, <2>2 DEF Handle, SendMessage, ReadRow, PostStart, PostStop, PostDestroy,
           PostDestroyDistribution, PostFails, JobDone
    <3> QED
      BY <1>a, <2>0, <3>1
  <2> QED
    BY <2>1, <2>2
<1>6. ASSUME NEW w \in Workers, Timeout(w)
      PROVE  \E j \in DOMAIN queue' : j.id = e
  <2>1. CASE queue' = queue
    BY <1>6, <1>a, <2>1 DEF Timeout
  <2>2. CASE queue' # queue
    <3>1. work[w].at # "idle" /\ work[w].job.attempt < MaxAttempts
      BY <1>6, <2>2 DEF Timeout, Active
    <3>2. Again(work[w].job) \in Jobs
      BY <3>1, HandlerGoesOn, StageLiveAssumption DEF Again, Jobs
    <3>3. queue' = queue (+) SetToBag({Again(work[w].job)})
      BY <1>6, <3>1 DEF Timeout
    <3>4. BagOver(queue, Jobs)
      BY DEF StreamTypes
    <3>5. DOMAIN queue' = DOMAIN queue \cup {Again(work[w].job)}
      BY <3>2, <3>3, <3>4, AddFacts
    <3> QED
      BY <1>6, <1>a, <3>5 DEF Timeout
  <2> QED
    BY <2>1, <2>2
<1>7. ASSUME NEW w \in Workers, HandlerDies(w)
      PROVE  \E j \in DOMAIN queue' : j.id = e
  <2>1. work[w].job \in Jobs
    BY <1>7, HandlerGoesOn DEF HandlerDies, Active
  <2> QED
    BY <1>7, <1>a, <2>1, AddKeeps DEF HandlerDies, history
<1>8. CASE Ask
  <2>1. CASE \E q \in Clients, s \in left.stages : StartPreview(q, s)
    <3> PICK s \in Stages : Add(Job("start", s, NoId))
      BY <2>1 DEF StartPreview, StreamTypes
    <3> QED
      BY <1>a, <2>1, NewJobs, AddKeeps DEF StartPreview, history
  <2> QED
    BY <1>8, <1>a, <2>1 DEF Ask, StartLive, FinishLive, UpdateEventInfo, history
<1>9. CASE \E s \in left.stages : DestroyInfra(s)
  <2> PICK s \in Stages : Add(Job("stop", s, NoId))
    BY <1>9 DEF DestroyInfra, StreamTypes
  <2> QED
    BY <1>9, <1>a, NewJobs, AddKeeps DEF DestroyInfra, history
<1>10. CASE \/ Manage /\ UNCHANGED <<onLive, timers, request, queue, work, history>>
            \/ \E s \in Stages : TimerFires(s) \/ TimerDies(s)
            \/ \E q \in Clients : RequestDies(q)
            \/ UNCHANGED all
  BY <1>10, <1>a DEF TimerFires, TimerDies, RequestDies, all, history
<1> QED
  BY <1>1, <1>2, <1>3, <1>4, <1>5, <1>6, <1>7, <1>8, <1>9, <1>10 DEF StreamNext

\* The job under the id of an event stays until it is taken (removeJobs,
\* addDestroyInfraToQueue), unless the update of an event whose id begins its
\* own removes it; for any events, ids and requests.
THEOREM SchedulesKept == StreamSpec => []ScheduleKept
<1>1. StreamInit => ScheduleKept
  BY DEF StreamInit, ScheduleKept
<1>2. StreamInv => StreamTypes
  BY DEF StreamInv
<1> QED
  BY <1>1, <1>2, StreamInitInv, StreamStep, ScheduleStep, PTL DEF StreamSpec

-----------------------------------------------------------------------------
\* Previews

IsStart(j, s) == j.name = "start" /\ j.stage = s
IsStop(j, s)  == j.name = "stop" /\ j.stage = s /\ j.id = NoId
\* Handlers of jobs that Bull still has, or that will go on in spite of it.
Starts(w, s) == IsStart(work[w].job, s) /\ (w \in Active \/ work[w].at \in {"read", "post"})
Stops(w, s)  == IsStop(work[w].job, s) /\ w \in Active /\ work[w].at \in {"read", "post", "hung"}
StopNext(q, s) == request[q].at = "stop" /\ request[q].stage = s

\* A stop that has not been carried out yet.
StopAhead(s) ==
  \/ \E j \in DOMAIN queue : IsStop(j, s)
  \/ \E w \in Workers : Stops(w, s)
  \/ \E q \in Clients : StopNext(q, s)
StartAhead(s) == (\E j \in DOMAIN queue : IsStart(j, s)) \/ \E w \in Workers : Starts(w, s)
Excused(s) == s \in overtaken \cup stopLost

\* A start that is still to come has its stop after it, too.
PreviewInv == \A s \in Stages :
  row[s] \in running \/ StartAhead(s) => StopAhead(s) \/ Excused(s)

LEMMA StartForms ==
  ASSUME NEW s \in Stages
  PROVE  StartsDue(s) <=> StartAhead(s)
BY DEF StartsDue, StartAhead, Starts, IsStart, Outstanding, Active, BagToSet

LEMMA StopForms ==
  ASSUME NEW s \in Stages, StopAhead(s)
  PROVE  StopsDue(s)
BY DEF StopsDue, StopAhead, Stops, StopNext, IsStop, Outstanding, BagToSet

\* What the environment and requests do to jobs: they add them.
LEMMA OnlyAdded ==
  ASSUME StreamTypes, PreviewInv, DOMAIN queue \subseteq DOMAIN queue',
         NEW j \in Jobs, DOMAIN queue' \subseteq DOMAIN queue \cup {j},
         UNCHANGED <<work, row, overtaken, stopLost>>,
         \A s \in Stages : row[s] \in running' => row[s] \in running,
         \A s \in Stages, q \in Clients : StopNext(q, s) => StopNext(q, s)' \/ (j \in DOMAIN queue' /\ IsStop(j, s)),
         \A s \in Stages : j \in DOMAIN queue' /\ IsStart(j, s) => StopAhead(s)'
  PROVE  PreviewInv'
<1> SUFFICES ASSUME NEW s \in Stages, row'[s] \in running' \/ StartAhead(s)'
             PROVE  StopAhead(s)' \/ Excused(s)'
  BY DEF PreviewInv
<1>1. \A w \in Workers : (Starts(w, s)' <=> Starts(w, s)) /\ (Stops(w, s)' <=> Stops(w, s))
  BY DEF Starts, Stops, Active
<1>2. StopAhead(s) => StopAhead(s)'
  BY <1>1 DEF StopAhead
<1>3. StartAhead(s)' => StartAhead(s) \/ StopAhead(s)'
  BY <1>1 DEF StartAhead
<1> QED
  BY <1>2, <1>3 DEF PreviewInv, Excused

\* ... or leave them alone.
LEMMA NothingAdded ==
  ASSUME PreviewInv, UNCHANGED <<queue, work, overtaken, stopLost>>,
         \A s \in Stages : row'[s] \in running' => row[s] \in running,
         \A s \in Stages, q \in Clients : StopNext(q, s) => StopNext(q, s)'
  PROVE  PreviewInv'
<1> SUFFICES ASSUME NEW s \in Stages, row'[s] \in running' \/ StartAhead(s)'
             PROVE  StopAhead(s)' \/ Excused(s)'
  BY DEF PreviewInv
<1>1. \A w \in Workers : (Starts(w, s)' <=> Starts(w, s)) /\ (Stops(w, s)' <=> Stops(w, s))
  BY DEF Starts, Stops, Active
<1> QED
  BY <1>1 DEF PreviewInv, Excused, StopAhead, StartAhead

LEMMA ManageRuns ==
  ASSUME IInv, Manage
  PROVE  \A s \in Stages : row'[s] \in running' => row[s] \in running
<1>1. ASSUME NEW r \in Setups, Save(r)
      PROVE  \A s \in Stages : row'[s] \in running' => row[s] \in running
  <2>1. row[For[r]] = NoSetup
    BY <1>1, SaveFirst DEF Save
  <2>2. r \notin running
    BY <2>1, LiveManagementAssumption DEF IInv, Running
  <2> QED
    BY <1>1, <2>2 DEF Save, IInv, TypeOK
<1>2. ASSUME NEW r \in Setups, SetupInfra(r) \/ Create(r) \/ Throw(r)
      PROVE  UNCHANGED <<row, running>>
  BY <1>2 DEF SetupInfra, Create, Throw
<1>3. ASSUME NEW s \in Stages, \/ Begin(s) \/ Describe(s) \/ StopFirst(s) \/ DeleteChannel(s)
                               \/ DeletePackage(s) \/ DeleteInput(s)
      PROVE  row' = row /\ running' \subseteq running
  BY <1>3 DEF Begin, Describe, StopFirst, DeleteChannel, DeletePackage, DeleteInput
<1> QED
  BY <1>1, <1>2, <1>3 DEF Manage

LEMMA AskPreview ==
  ASSUME StreamTypes, PreviewInv, NEW q \in Clients, NEW s \in left.stages,
         StartLive(q, s) \/ FinishLive(q, s) \/ StartPreview(q, s) \/ UpdateEventInfo(q, s)
  PROVE  PreviewInv'
<1>0. s \in Stages
  BY DEF StreamTypes
<1>1. \A p \in Clients, t \in Stages : StopNext(p, t) => StopNext(p, t)'
  BY DEF StartLive, FinishLive, StartPreview, UpdateEventInfo, StreamTypes, StopNext
<1>2. CASE StartPreview(q, s)
  <2> DEFINE j == Job("start", s, NoId)
  <2>1. j \in Jobs /\ Add(j)
    BY <1>0, <1>2, NewJobs DEF StartPreview
  <2>2. DOMAIN queue \subseteq DOMAIN queue' /\ DOMAIN queue' \subseteq DOMAIN queue \cup {j}
    BY <2>1, AddKeeps
  <2>3. \A t \in Stages : IsStart(j, t) => t = s
    BY DEF IsStart, Job
  <2>4. StopAhead(s)'
    BY <1>2 DEF StartPreview, StreamTypes, Asking, StopAhead, StopNext
  <2> HIDE DEF j
  <2>5. UNCHANGED <<row, running, work, overtaken, stopLost>>
    BY <1>2 DEF StartPreview, manage, history
  <2>6. \A t \in Stages, p \in Clients :
          StopNext(p, t) => StopNext(p, t)' \/ (j \in DOMAIN queue' /\ IsStop(j, t))
    BY <1>1
  <2>7. \A t \in Stages : j \in DOMAIN queue' /\ IsStart(j, t) => StopAhead(t)'
    BY <2>3, <2>4
  <2>8. \A t \in Stages : row[t] \in running' => row[t] \in running
    BY <2>5
  <2> QED
    BY <2>1, <2>2, <2>5, <2>6, <2>7, <2>8, OnlyAdded
<1>3. CASE ~StartPreview(q, s)
  <2>1. UNCHANGED <<row, running, work, overtaken, stopLost, queue>>
    BY <1>3 DEF StartLive, FinishLive, UpdateEventInfo, manage, history
  <2> QED
    BY <1>1, <2>1, NothingAdded
<1> QED
  BY <1>2, <1>3

LEMMA ServePreview ==
  ASSUME StreamTypes, PreviewInv, NEW q \in Clients, Serve(q)
  PROVE  PreviewInv'
<1>0. UNCHANGED <<row, running, work, overtaken, stopLost>>
  BY DEF Serve, ClearOnLive, Tell, PreviewStop, RemoveJobs, ScheduleStop, ScheduleDestroy,
         manage, history
<1>1. \A p \in Clients \ {q} : request'[p] = request[p]
  BY DEF Serve, ClearOnLive, Tell, PreviewStop, RemoveJobs, ScheduleStop, ScheduleDestroy,
         Finish, Continue, StreamTypes
<1>a. ASSUME request[q].at # "stop"
      PROVE  \A p \in Clients, t \in Stages : StopNext(p, t) => StopNext(p, t)'
  BY <1>1, <1>a DEF StopNext
<1>2. CASE ClearOnLive(q)
  BY <1>0, <1>2, <1>a, NothingAdded DEF ClearOnLive
<1>3. CASE Tell(q) \/ ScheduleStop(q) \/ ScheduleDestroy(q)
  <2>1. PICK j \in Jobs : (Add(j) \/ AddWithId(j)) /\ j.name # "start"
    <3>1. CASE Tell(q)
      <4> DEFINE new == Job("message", request[q].stage, NoId)
      <4>1. new \in Jobs /\ Add(new)
        BY <3>1, RequestGoesOn, NewJobs DEF Tell
      <4>2. new.name # "start"
        BY DEF Job
      <4> HIDE DEF new
      <4> QED
        BY <4>1, <4>2
    <3>2. CASE ScheduleStop(q)
      <4> PICK s \in request[q].rest : AddWithId(Job("stop", s, EventOf[s]))
        BY <3>2 DEF ScheduleStop
      <4>1. s \in Stages /\ EventOf[s] \in Events
        BY <3>2, RequestGoesOn, StageLiveAssumption DEF ScheduleStop
      <4> DEFINE new == Job("stop", s, EventOf[s])
      <4>2. new \in Jobs /\ AddWithId(new)
        BY <4>1, NewJobs
      <4>3. new.name # "start"
        BY DEF Job
      <4> HIDE DEF new
      <4> QED
        BY <4>2, <4>3
    <3>3. CASE ScheduleDestroy(q)
      <4>1. request[q].stage \in Stages /\ EventOf[request[q].stage] \in Events
        BY <3>3, RequestGoesOn, StageLiveAssumption DEF ScheduleDestroy
      <4> DEFINE new == Job("destroyInfra", request[q].stage, EventOf[request[q].stage])
      <4>2. new \in Jobs /\ AddWithId(new)
        BY <3>3, <4>1, NewJobs DEF ScheduleDestroy
      <4>3. new.name # "start"
        BY DEF Job
      <4> HIDE DEF new
      <4> QED
        BY <4>2, <4>3
    <3> QED
      BY <1>3, <3>1, <3>2, <3>3
  <2>2. DOMAIN queue \subseteq DOMAIN queue' /\ DOMAIN queue' \subseteq DOMAIN queue \cup {j}
    BY <2>1, AddKeeps
  <2>3. \A p \in Clients, t \in Stages : StopNext(p, t) => StopNext(p, t)'
    BY <1>3, <1>a DEF Tell, ScheduleStop, ScheduleDestroy
  <2>4. \A t \in Stages : ~IsStart(j, t)
    BY <2>1 DEF IsStart
  <2>5. \A t \in Stages, p \in Clients :
          StopNext(p, t) => StopNext(p, t)' \/ (j \in DOMAIN queue' /\ IsStop(j, t))
    BY <2>3
  <2>6. \A t \in Stages : j \in DOMAIN queue' /\ IsStart(j, t) => StopAhead(t)'
    BY <2>4
  <2>7. \A t \in Stages : row[t] \in running' => row[t] \in running
    BY <1>0
  <2> QED
    BY <1>0, <2>1, <2>2, <2>5, <2>6, <2>7, OnlyAdded
<1>4. CASE PreviewStop(q)
  <2> DEFINE s == request[q].stage
             j == Job("stop", s, NoId)
  <2>1. s \in Stages /\ j \in Jobs
    BY <1>4, RequestGoesOn, NewJobs DEF PreviewStop
  <2>2. Add(j)
    BY <1>4 DEF PreviewStop, StopOfPreview, Job
  <2>3. /\ DOMAIN queue \subseteq DOMAIN queue' /\ DOMAIN queue' \subseteq DOMAIN queue \cup {j}
        /\ j \in DOMAIN queue'
    BY <2>1, <2>2, AddKeeps
  <2>4. IsStop(j, s) /\ \A t \in Stages : ~IsStart(j, t)
    BY DEF IsStop, IsStart, Job
  <2>5. \A p \in Clients, t \in Stages : StopNext(p, t) => StopNext(p, t)' \/ IsStop(j, t)
    BY <1>1, <2>4 DEF StopNext
  <2> HIDE DEF j
  <2>6. \A t \in Stages, p \in Clients :
          StopNext(p, t) => StopNext(p, t)' \/ (j \in DOMAIN queue' /\ IsStop(j, t))
    BY <2>3, <2>5
  <2>7. \A t \in Stages : j \in DOMAIN queue' /\ IsStart(j, t) => StopAhead(t)'
    BY <2>4
  <2>8. \A t \in Stages : row[t] \in running' => row[t] \in running
    BY <1>0
  <2> QED
    BY <1>0, <2>1, <2>3, <2>6, <2>7, <2>8, OnlyAdded
<1>5. CASE RemoveJobs(q)
  <2>1. \A s \in Stages, j \in DOMAIN queue : IsStop(j, s) => j \in DOMAIN queue'
    <3>1. NoId \notin Namesakes[EventOf[request[q].stage]]
      BY <1>5, RequestGoesOn, StageLiveAssumption DEF RemoveJobs
    <3> QED
      BY <1>5, <3>1 DEF RemoveJobs, Matches, BagToSet, IsStop
  <2>2. DOMAIN queue' \subseteq DOMAIN queue
    BY <1>5 DEF RemoveJobs, BagToSet
  <2>3. \A p \in Clients, t \in Stages : StopNext(p, t) => StopNext(p, t)'
    BY <1>5, <1>a DEF RemoveJobs
  <2> SUFFICES ASSUME NEW s \in Stages, row'[s] \in running' \/ StartAhead(s)'
               PROVE  StopAhead(s)' \/ Excused(s)'
    BY DEF PreviewInv
  <2>4. \A w \in Workers : (Starts(w, s)' <=> Starts(w, s)) /\ (Stops(w, s)' <=> Stops(w, s))
    BY <1>0 DEF Starts, Stops, Active
  <2>5. StopAhead(s) => StopAhead(s)'
    BY <2>1, <2>3, <2>4 DEF StopAhead
  <2>6. StartAhead(s)' => StartAhead(s)
    BY <2>2, <2>4 DEF StartAhead
  <2> QED
    BY <1>0, <2>5, <2>6 DEF PreviewInv, Excused
<1> QED
  BY <1>2, <1>3, <1>4, <1>5 DEF Serve

\* A handler moves on; if it adds jobs, then no starts.
LEMMA OneHandler ==
  ASSUME PreviewInv, NEW w \in Workers, UNCHANGED <<request, row>>,
         DOMAIN queue \subseteq DOMAIN queue',
         \A s \in Stages, j \in DOMAIN queue' : IsStart(j, s) => j \in DOMAIN queue,
         \A v \in Workers \ {w} : work'[v] = work[v],
         overtaken \subseteq overtaken', stopLost \subseteq stopLost',
         \A s \in Stages : row[s] \in running' => row[s] \in running \/ StartAhead(s) \/ StopAhead(s) \/ Excused(s)',
         \A s \in Stages : Starts(w, s)' => Starts(w, s),
         \A s \in Stages : Stops(w, s) /\ (row[s] \in running' \/ StartAhead(s)') => Stops(w, s)' \/ Excused(s)'
  PROVE  PreviewInv'
<1> SUFFICES ASSUME NEW s \in Stages, row'[s] \in running' \/ StartAhead(s)'
             PROVE  StopAhead(s)' \/ Excused(s)'
  BY DEF PreviewInv
<1>1. \A v \in Workers \ {w} : (Starts(v, s)' <=> Starts(v, s)) /\ (Stops(v, s)' <=> Stops(v, s))
  BY DEF Starts, Stops, Active
<1>2. StartAhead(s)' => StartAhead(s)
  BY <1>1 DEF StartAhead
<1>3. StopAhead(s) => StopAhead(s)' \/ Excused(s)'
  BY <1>1 DEF StopAhead, StopNext
<1>4. Excused(s) => Excused(s)'
  BY DEF Excused
<1> QED
  BY <1>2, <1>3, <1>4 DEF PreviewInv

LEMMA HandlePreview ==
  ASSUME StreamTypes, IInv, PreviewInv, NEW w \in Workers, Handle(w)
  PROVE  PreviewInv'
<1> DEFINE s0 == work[w].job.stage
<1>0. work[w].at # "idle" /\ UNCHANGED <<request, row, stopLost>>
  BY DEF Handle, SendMessage, ReadRow, Posts, PostStart, PostStop, PostDestroy,
         AddDestroyDistribution, PostDestroyDistribution, PostFails, JobDone,
         StartMediaLiveChannel, StopMediaLiveChannel, LambdaDestroy, DeleteInput, CallFails,
         manage, history
<1>1. \A v \in Workers \ {w} : work'[v] = work[v]
  BY DEF Handle, SendMessage, ReadRow, PostStart, PostStop, PostDestroy,
         AddDestroyDistribution, PostDestroyDistribution, PostFails, JobDone, Move, StreamTypes
<1>2. overtaken \subseteq overtaken'
  BY DEF Handle, SendMessage, ReadRow, PostStart, PostStop, PostDestroy,
         AddDestroyDistribution, PostDestroyDistribution, PostFails, JobDone, history
\* Nothing but the point of the handler changes.
<1>a. \A to : Move(w, to) => work'[w].job = work[w].job /\ work'[w].late = work[w].late /\ work'[w].at = to
  BY <1>0 DEF Move, StreamTypes, Handlers, Resting
<1>3. CASE SendMessage(w)
  <2>1. \A s \in Stages : ~IsStart(work[w].job, s) /\ ~IsStop(work[w].job, s)
    BY <1>3 DEF SendMessage, IsStart, IsStop
  <2>2. work'[w].job = work[w].job
    BY <1>3, <1>a DEF SendMessage, SentEvent
  <2>3. \A s \in Stages : ~Starts(w, s)' /\ ~Stops(w, s)
    BY <2>1, <2>2 DEF Starts, Stops, IsStart
  <2>4. UNCHANGED <<queue, running>>
    BY <1>3 DEF SendMessage, manage
  <2> QED
    BY <1>0, <1>1, <1>2, <2>3, <2>4, OneHandler
<1>4. CASE ReadRow(w)
  <2>1. /\ work'[w].job = work[w].job /\ work'[w].late = work[w].late
        /\ work'[w].at \in {"post", "hung"} /\ work[w].at = "read"
    BY <1>4, <1>0, <1>a DEF ReadRow, StreamTypes, Handlers, Resting
  <2>2. \A s \in Stages : (Starts(w, s)' => Starts(w, s)) /\ (Stops(w, s) => Stops(w, s)')
    BY <2>1 DEF Starts, Stops, IsStart, IsStop, Active
  <2>3. UNCHANGED <<queue, running>>
    BY <1>4 DEF ReadRow, manage
  <2> QED
    BY <1>0, <1>1, <1>2, <2>2, <2>3, OneHandler
<1>5. CASE PostStart(w)
  <2>1. /\ work'[w].job = work[w].job /\ work'[w].late = work[w].late /\ work'[w].at = "done"
        /\ work[w].at = "post" /\ work[w].job.name = "start"
    BY <1>5, <1>a DEF PostStart, Posts
  <2>2. \A s \in Stages : (Starts(w, s)' => Starts(w, s)) /\ ~Stops(w, s)
    BY <2>1 DEF Starts, Stops, IsStart, IsStop, Active
  <2>3. s0 \in Stages /\ StartAhead(s0)
    BY <1>0, <2>1, HandlerGoesOn DEF StartAhead, Starts, IsStart
  <2>4. queue' = queue /\ running' = running \cup {row[s0]} /\ row[s0] # NoSetup
    BY <1>5 DEF PostStart, StartMediaLiveChannel, HasChannel
  <2>5. \A s \in Stages : row[s] = row[s0] => s = s0
    BY <2>3, <2>4 DEF IInv, Rows
  <2>6. \A s \in Stages : row[s] \in running' => row[s] \in running \/ StartAhead(s)
    BY <2>3, <2>4, <2>5
  <2> QED
    BY <1>0, <1>1, <1>2, <2>2, <2>4, <2>6, OneHandler
<1>6. CASE PostStop(w)
  <2>1. /\ work'[w].job = work[w].job /\ work'[w].late = work[w].late /\ work'[w].at = "done"
        /\ work[w].at = "post" /\ work[w].job.name = "stop"
    BY <1>6, <1>a DEF PostStop, Posts
  <2>2. \A s \in Stages : ~Starts(w, s)'
    BY <2>1 DEF Starts, IsStart
  <2> PICK s1 \in Stages : s1 = s0
    BY <1>0, HandlerGoesOn
  <2>3. queue' = queue /\ running' = running \ {row[s1]}
    BY <1>6 DEF PostStop, StopMediaLiveChannel
  <2>4. StartAhead(s1)' => StartAhead(s1)
    <3>1. \A v \in Workers \ {w} : Starts(v, s1)' <=> Starts(v, s1)
      BY <1>1 DEF Starts, Active
    <3> QED
      BY <2>2, <2>3, <3>1 DEF StartAhead
  <2>5. StartAhead(s1)' => Excused(s1)'
    BY <1>6, <2>4, StartForms DEF PostStop, Excused
  <2>6. \A s \in Stages : Stops(w, s) => s = s1
    BY DEF Stops, IsStop
  <2>7. \A s \in Stages : Stops(w, s) /\ (row[s] \in running' \/ StartAhead(s)') => Excused(s)'
    BY <2>3, <2>5, <2>6
  <2> QED
    BY <1>0, <1>1, <1>2, <2>2, <2>3, <2>7, OneHandler
<1>7. CASE PostDestroy(w) \/ PostDestroyDistribution(w)
  <2>1. \A s \in Stages : ~IsStart(work[w].job, s) /\ ~IsStop(work[w].job, s)
    BY <1>7 DEF PostDestroy, PostDestroyDistribution, Posts, IsStart, IsStop
  <2>2. work'[w].job = work[w].job
    BY <1>7, <1>a DEF PostDestroy, PostDestroyDistribution
  <2>3. \A s \in Stages : ~Starts(w, s)' /\ ~Stops(w, s)
    BY <2>1, <2>2 DEF Starts, Stops, IsStart
  <2>4. UNCHANGED queue /\ running' \subseteq running
    BY <1>7 DEF PostDestroy, PostDestroyDistribution, LambdaDestroy, DeleteInput
  <2> QED
    BY <1>0, <1>1, <1>2, <2>3, <2>4, OneHandler
<1>8. CASE AddDestroyDistribution(w)
  <2>1. /\ work'[w].job = work[w].job /\ work'[w].late = work[w].late /\ work'[w].at = "done"
        /\ work[w].at = "next"
    BY <1>8, <1>a DEF AddDestroyDistribution
  <2>2. \A s \in Stages : (Starts(w, s)' => Starts(w, s)) /\ ~Stops(w, s)
    BY <2>1 DEF Starts, Stops, IsStart, Active
  <2> DEFINE new == Job("destroyDistribution", s0, NoId)
  <2>3. new \in Jobs /\ Add(new)
    BY <1>0, <1>8, HandlerGoesOn, NewJobs DEF AddDestroyDistribution
  <2>4. \A s \in Stages : ~IsStart(new, s)
    BY DEF Job, IsStart
  <2> HIDE DEF new
  <2>5. DOMAIN queue \subseteq DOMAIN queue' /\ DOMAIN queue' \subseteq DOMAIN queue \cup {new}
    BY <2>3, AddKeeps
  <2>6. \A s \in Stages, j \in DOMAIN queue' : IsStart(j, s) => j \in DOMAIN queue
    BY <2>4, <2>5
  <2>7. UNCHANGED running
    BY <1>8 DEF AddDestroyDistribution, manage
  <2> QED
    BY <1>0, <1>1, <1>2, <2>2, <2>5, <2>6, <2>7, OneHandler
<1>9. CASE PostFails(w)
  <2>1. /\ work'[w].job = work[w].job /\ work'[w].late = work[w].late /\ work'[w].at = "hung"
        /\ work[w].at = "post"
    BY <1>9, <1>a DEF PostFails
  <2>2. \A s \in Stages : (Starts(w, s)' => Starts(w, s)) /\ (Stops(w, s) => Stops(w, s)')
    BY <2>1 DEF Starts, Stops, IsStart, IsStop, Active
  <2>3. UNCHANGED <<queue, running>>
    BY <1>9 DEF PostFails, CallFails, manage
  <2> QED
    BY <1>0, <1>1, <1>2, <2>2, <2>3, OneHandler
<1>10. CASE JobDone(w)
  <2>1. work'[w].at = "idle"
    BY <1>10 DEF JobDone, Idle, StreamTypes
  <2>2. \A s \in Stages : ~Starts(w, s)' /\ ~Stops(w, s)
    BY <1>10, <2>1 DEF Starts, Stops, Active, JobDone
  <2>3. UNCHANGED <<queue, running>>
    BY <1>10 DEF JobDone, manage
  <2> QED
    BY <1>0, <1>1, <1>2, <2>2, <2>3, OneHandler
<1> QED
  BY <1>3, <1>4, <1>5, <1>6, <1>7, <1>8, <1>9, <1>10 DEF Handle

LEMMA WorkerPreview ==
  ASSUME StreamTypes, PreviewInv, NEW w \in Workers, Take(w) \/ Timeout(w) \/ HandlerDies(w)
  PROVE  PreviewInv'
<1> SUFFICES ASSUME NEW s \in Stages, row'[s] \in running' \/ StartAhead(s)'
             PROVE  StopAhead(s)' \/ Excused(s)'
  BY DEF PreviewInv
<1>0. UNCHANGED <<row, running, request, overtaken>> /\ (Excused(s) => Excused(s)')
  BY DEF Take, Timeout, HandlerDies, manage, history, Excused
<1>1. \A v \in Workers \ {w} : (Starts(v, s)' <=> Starts(v, s)) /\ (Stops(v, s)' <=> Stops(v, s))
  <2>1. \A v \in Workers \ {w} : work'[v] = work[v]
    BY DEF Take, Timeout, HandlerDies, StreamTypes
  <2> QED
    BY <2>1 DEF Starts, Stops, Active
<1>a. ASSUME StartAhead(s)' => StartAhead(s), StopAhead(s) => StopAhead(s)' \/ Excused(s)'
      PROVE  StopAhead(s)' \/ Excused(s)'
  BY <1>0, <1>a DEF PreviewInv
<1>2. CASE Take(w)
  <2> PICK j \in DOMAIN queue :
        queue' = queue (-) SetToBag({j}) /\ work' = [work EXCEPT ![w] = Handler(j)]
    BY <1>2 DEF Take, BagToSet
  <2>1. DOMAIN queue \ {j} \subseteq DOMAIN queue' /\ DOMAIN queue' \subseteq DOMAIN queue
    BY TakeFacts DEF StreamTypes
  <2>2. work'[w].job = j /\ work'[w].at = "read" /\ ~work'[w].late
    BY DEF Handler, StreamTypes
  <2>3. ~Stops(w, s) /\ (Stops(w, s)' <=> IsStop(j, s)) /\ (Starts(w, s)' <=> IsStart(j, s))
    BY <1>2, <2>2 DEF Stops, Starts, IsStop, IsStart, Active, Take
  <2>4. StartAhead(s)' => StartAhead(s)
    BY <1>1, <2>1, <2>3 DEF StartAhead
  <2>5. StopAhead(s) => StopAhead(s)'
    BY <1>0, <1>1, <2>1, <2>3 DEF StopAhead, StopNext
  <2> QED
    BY <1>a, <2>4, <2>5
<1>3. CASE Timeout(w)
  <2> DEFINE j == work[w].job
  <2>0. /\ work[w].at \notin {"idle", "done"} /\ w \in Active
        /\ j \in Jobs /\ j.attempt \in 1..MaxAttempts
    BY <1>3, HandlerGoesOn DEF Timeout, Active
  <2>1. Starts(w, s)' => Starts(w, s)
    <3>1. work' = [work EXCEPT ![w] = Idle] \/ work' = [work EXCEPT ![w].late = TRUE]
      BY <1>3 DEF Timeout
    <3>2. work'[w].at = "idle" \/ (work'[w].at = work[w].at /\ work'[w].job = work[w].job /\ work'[w].late)
      BY <2>0, <3>1 DEF Idle, StreamTypes, Handlers, Resting
    <3> QED
      BY <2>0, <3>2 DEF Starts, IsStart, Active
  <2>2. CASE j.attempt < MaxAttempts
    <3>1. Again(j) \in Jobs /\ (IsStart(Again(j), s) => IsStart(j, s)) /\ (IsStop(j, s) => IsStop(Again(j), s))
      BY <2>0, <2>2, StageLiveAssumption DEF Again, Jobs, IsStart, IsStop
    <3>2. queue' = queue (+) SetToBag({Again(j)})
      BY <1>3, <2>2 DEF Timeout
    <3>3. BagOver(queue, Jobs)
      BY DEF StreamTypes
    <3>4. DOMAIN queue' = DOMAIN queue \cup {Again(j)}
      BY <3>1, <3>2, <3>3, AddFacts
    <3>5. IsStart(j, s) => Starts(w, s)
      BY <2>0 DEF Starts
    <3>6. StartAhead(s)' => StartAhead(s)
      BY <1>1, <2>1, <3>1, <3>4, <3>5 DEF StartAhead
    <3>7. StopAhead(s) => StopAhead(s)'
      <4>1. Stops(w, s) => IsStop(Again(j), s)
        BY <3>1 DEF Stops
      <4> QED
        BY <1>0, <1>1, <3>4, <4>1 DEF StopAhead, StopNext
    <3> QED
      BY <1>a, <3>6, <3>7
  <2>3. CASE ~(j.attempt < MaxAttempts)
    <3>1. queue' = queue /\ j.attempt = MaxAttempts
      BY <1>3, <2>0, <2>3, StageLiveAssumption DEF Timeout
    <3>2. Stops(w, s) => Excused(s)'
      BY <1>3, <3>1 DEF Timeout, Stops, IsStop, Excused
    <3>3. StartAhead(s)' => StartAhead(s)
      BY <1>1, <2>1, <3>1 DEF StartAhead
    <3>4. StopAhead(s) => StopAhead(s)' \/ Excused(s)'
      BY <1>0, <1>1, <3>1, <3>2 DEF StopAhead, StopNext
    <3> QED
      BY <1>a, <3>3, <3>4
  <2> QED
    BY <2>2, <2>3
<1>4. CASE HandlerDies(w)
  <2> DEFINE j == work[w].job
  <2>0. w \in Active /\ work[w].at # "idle" /\ j \in Jobs /\ Add(j) /\ work'[w].at = "idle"
    BY <1>4, HandlerGoesOn DEF HandlerDies, Active, Idle, StreamTypes
  <2>1. DOMAIN queue' = DOMAIN queue \cup {j}
    BY <2>0, AddKeeps
  <2>2. (IsStart(j, s) => Starts(w, s)) /\ ~Starts(w, s)' /\ (Stops(w, s) => IsStop(j, s))
    BY <2>0 DEF Starts, Stops, Active
  <2>3. StartAhead(s)' => StartAhead(s)
    BY <1>1, <2>1, <2>2 DEF StartAhead
  <2>4. StopAhead(s) => StopAhead(s)'
    BY <1>0, <1>1, <2>1, <2>2 DEF StopAhead, StopNext
  <2> QED
    BY <1>a, <2>3, <2>4
<1> QED
  BY <1>2, <1>3, <1>4

LEMMA PreviewStep == StreamInv /\ PreviewInv /\ [StreamNext]_all => PreviewInv'
<1> SUFFICES ASSUME StreamTypes, IInv, PreviewInv, [StreamNext]_all  PROVE PreviewInv'
  BY DEF StreamInv
<1>1. CASE Manage /\ UNCHANGED <<onLive, timers, request, queue, work, history>>
  <2>1. \A s \in Stages, q \in Clients : StopNext(q, s) => StopNext(q, s)'
    BY <1>1 DEF StopNext
  <2> QED
    BY <1>1, <2>1, ManageRuns, NothingAdded DEF history
<1>2. CASE Ask
  BY <1>2, AskPreview DEF Ask
<1>3. ASSUME NEW s \in left.stages, DestroyInfra(s)  PROVE PreviewInv'
  <2> DEFINE j == Job("stop", s, NoId)
  <2>1. j \in Jobs /\ Add(j)
    BY <1>3, NewJobs DEF DestroyInfra, StreamTypes
  <2>2. DOMAIN queue \subseteq DOMAIN queue' /\ DOMAIN queue' \subseteq DOMAIN queue \cup {j}
    BY <2>1, AddKeeps
  <2>3. \A t \in Stages : ~IsStart(j, t)
    BY DEF IsStart, Job
  <2> HIDE DEF j
  <2>4. UNCHANGED <<row, running, work, overtaken, stopLost, request>>
    BY <1>3 DEF DestroyInfra, manage, history
  <2>5. \A t \in Stages, p \in Clients :
          StopNext(p, t) => StopNext(p, t)' \/ (j \in DOMAIN queue' /\ IsStop(j, t))
    BY <2>4 DEF StopNext
  <2>6. \A t \in Stages : j \in DOMAIN queue' /\ IsStart(j, t) => StopAhead(t)'
    BY <2>3
  <2>7. \A t \in Stages : row[t] \in running' => row[t] \in running
    BY <2>4
  <2> QED
    BY <2>1, <2>2, <2>4, <2>5, <2>6, <2>7, OnlyAdded
<1>4. CASE (\E s \in Stages : TimerFires(s) \/ TimerDies(s)) \/ UNCHANGED all
  <2>1. UNCHANGED <<row, running, work, queue, overtaken, stopLost, request>>
    BY <1>4 DEF TimerFires, TimerDies, all, manage, history
  <2>2. \A t \in Stages, p \in Clients : StopNext(p, t) => StopNext(p, t)'
    BY <2>1 DEF StopNext
  <2> QED
    BY <2>1, <2>2, NothingAdded
<1>5. ASSUME NEW q \in Clients, RequestDies(q)  PROVE PreviewInv'
  <2>0. UNCHANGED <<row, running, work, queue, overtaken>>
    BY <1>5 DEF RequestDies, manage
  <2> SUFFICES ASSUME NEW s \in Stages, row'[s] \in running' \/ StartAhead(s)'
               PROVE  StopAhead(s)' \/ Excused(s)'
    BY DEF PreviewInv
  <2>1. \A w \in Workers : (Starts(w, s)' <=> Starts(w, s)) /\ (Stops(w, s)' <=> Stops(w, s))
    BY <2>0 DEF Starts, Stops, Active
  <2>2. \A p \in Clients : StopNext(p, s) => StopNext(p, s)' \/ Excused(s)'
    BY <1>5 DEF RequestDies, Finish, StopNext, Excused, StreamTypes
  <2>3. (Excused(s) => Excused(s)') /\ (StartAhead(s)' => StartAhead(s))
    BY <1>5, <2>0, <2>1 DEF RequestDies, Excused, StartAhead
  <2>4. StopAhead(s) => StopAhead(s)' \/ Excused(s)'
    BY <2>0, <2>1, <2>2 DEF StopAhead
  <2> QED
    BY <2>0, <2>3, <2>4 DEF PreviewInv
<1> QED
  BY <1>1, <1>2, <1>3, <1>4, <1>5, ServePreview, HandlePreview, WorkerPreview DEF StreamNext

\* A channel that a preview has started has a stop still to come (startPreview,
\* the handlers of its two jobs), however many previews, retries, hung handlers
\* and deaths there are, unless the stop went before the start, was given up
\* after its attempts or died with its request.
THEOREM PreviewsAreStopped == StreamSpec => []PreviewsStop
<1>1. StreamInit => PreviewInv
  <2> SUFFICES ASSUME StreamInit  PROVE PreviewInv
    OBVIOUS
  <2>1. DOMAIN queue = {} /\ running = {}
    BY DEF StreamInit, Init, EmptyBag, SetToBag
  <2>2. \A w \in Workers, s \in Stages : ~Starts(w, s)
    BY DEF StreamInit, Starts, Active, Idle
  <2> QED
    BY <2>1, <2>2 DEF PreviewInv, StartAhead
<1>2. PreviewInv => PreviewsStop
  BY StopForms DEF PreviewInv, PreviewsStop, Excused
<1> QED
  BY <1>1, <1>2, StreamInitInv, StreamStep, PreviewStep, PTL DEF StreamSpec
=============================================================================
