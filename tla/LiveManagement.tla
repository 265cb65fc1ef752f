--------------------------- MODULE LiveManagement ---------------------------
(***************************************************************************)
(* The live infrastructure of stages (src/src/modules/liveManagement): a   *)
(* setup makes seven AWS resources one after the other and saves their ids *)
(* in the row of the stage at the end; a teardown deletes them, by the ids *)
(* of the row or by name.  One step is one AWS call or one statement.      *)
(***************************************************************************)
EXTENDS Naturals, Sequences, EncoderSettings

CONSTANTS
  Stages,   \* rows of event_stages
  Setups,   \* requests setupInfra
  For,      \* For[r]: the stage a setup is for
  EventOf,  \* EventOf[s]: its event
  NoSetup,  \* in a row without ids
  Faults    \* bound: calls of AWS or Postgres that fail

ASSUME LiveManagementAssumption ==
  /\ For \in [Setups -> Stages] /\ NoSetup \notin Setups /\ Faults \in Nat

VARIABLES
  begun,    \* stages whose event's startDate has passed
  step,     \* per setup: 0 before, then its next call, Len(Calls) + 1 is the UPDATE
  failed,   \* setups that have thrown
  made,     \* resources that exist, <<setup, call>>
  row,      \* per stage: the setup whose ids its row holds
  running,  \* setups whose channel is running
  teardown, \* per stage: the next call of a teardown, "none" without
  faults    \* what is left of Faults

vars == <<begun, step, failed, made, row, running, teardown, faults>>

Calls == <<"package channel", "parameter", "endpoint", "security group",
           "input", "live channel", "distribution">>
Saving == Len(Calls) + 1
Saved  == Len(Calls) + 2
PackageChannel == 1
Endpoint       == 3
Input          == 5
LiveChannel    == 6

\* event-E-stage-S and event-E-stage-S-hls are fixed names; every other
\* resource gets an id or a name of its own.
Named == {PackageChannel, Endpoint}
NameOf(s) == <<EventOf[s], s>>

Init ==
  /\ begun = {} /\ failed = {} /\ made = {} /\ running = {}
  /\ step = [r \in Setups |-> 0]
  /\ row = [s \in Stages |-> NoSetup]
  /\ teardown = [s \in Stages |-> "none"]
  /\ faults \in 0..Faults

\* The startDate of the event passes.
Begin(s) ==
  /\ s \notin begun /\ begun' = begun \cup {s}
  /\ UNCHANGED <<step, failed, made, row, running, teardown, faults>>

-----------------------------------------------------------------------------
\* Setup

SetupInfra(r) ==
  /\ step[r] = 0 /\ r \notin failed
  /\ IF For[r] \in begun
     THEN step' = [step EXCEPT ![r] = 1] /\ UNCHANGED failed
     ELSE failed' = failed \cup {r} /\ UNCHANGED step
  /\ UNCHANGED <<begun, made, row, running, teardown, faults>>

\* Mutant: names that no other setup takes.
NeverTaken(r) == FALSE
\* AWS refuses a name that exists.
Taken(r) ==
  /\ step[r] \in Named
  /\ \E q \in Setups : For[q] = For[r] /\ <<q, step[r]>> \in made

\* The destinations createMediaLiveChannel gives the encoder settings.
Destinations == {"destination1"}
Refused(r) == Taken(r) \/ (step[r] = LiveChannel /\ ~Accepted(Destinations))

Create(r) ==
  /\ step[r] \in DOMAIN Calls /\ r \notin failed /\ ~Refused(r)
  /\ made' = made \cup {<<r, step[r]>>}
  /\ step' = [step EXCEPT ![r] = @ + 1]
  /\ UNCHANGED <<begun, failed, row, running, teardown, faults>>

Save(r) ==
  /\ step[r] = Saving /\ r \notin failed
  /\ row' = [row EXCEPT ![For[r]] = r]
  /\ step' = [step EXCEPT ![r] = Saved]
  /\ UNCHANGED <<begun, failed, made, running, teardown, faults>>

\* A call is refused, or fails, or the process dies in it, and the exception
\* leaves setupInfra.  What the call was to make may exist all the same.
Throw(r) ==
  /\ step[r] \in 1..Saving /\ r \notin failed
  /\ failed' = failed \cup {r}
  /\ \/ Refused(r) /\ UNCHANGED <<made, faults>>
     \/ /\ ~Refused(r) /\ faults > 0 /\ faults' = faults - 1
        /\ \/ UNCHANGED made
           \/ step[r] \in DOMAIN Calls /\ made' = made \cup {<<r, step[r]>>}
  /\ UNCHANGED <<begun, step, row, running, teardown>>

-----------------------------------------------------------------------------
\* The channel, by the id of the row

HasChannel(s) == row[s] # NoSetup /\ <<row[s], LiveChannel>> \in made

StartMediaLiveChannel(s) ==
  /\ HasChannel(s) /\ running' = running \cup {row[s]}
  /\ UNCHANGED <<begun, step, failed, made, row, teardown, faults>>

StopMediaLiveChannel(s) ==
  /\ HasChannel(s) /\ running' = running \ {row[s]}
  /\ UNCHANGED <<begun, step, failed, made, row, teardown, faults>>

-----------------------------------------------------------------------------
\* destroyInfra: the calls of a teardown

At(s, call) == teardown[s] = call
Goto(s, call) == teardown' = [teardown EXCEPT ![s] = call]

Describe(s) ==
  /\ At(s, "none") /\ HasChannel(s)
  /\ Goto(s, IF row[s] \in running THEN "stop" ELSE "delete")
  /\ UNCHANGED <<begun, step, failed, made, row, running, faults>>

StopFirst(s) ==
  /\ At(s, "stop") /\ Goto(s, "delete") /\ running' = running \ {row[s]}
  /\ UNCHANGED <<begun, step, failed, made, row, faults>>

\* waitFor has returned; MediaLive does not delete a channel that runs.
DeleteChannel(s) ==
  /\ At(s, "delete")
  /\ IF HasChannel(s) /\ row[s] \notin running
     THEN made' = made \ {<<row[s], LiveChannel>>} /\ Goto(s, "package")
     ELSE Goto(s, "failed") /\ UNCHANGED made
  /\ UNCHANGED <<begun, step, failed, row, running, faults>>

\* Mutant: the names the setup has used.
NameOfStage(s) == <<EventOf[s], s>>
\* deleteMediaPackageEndpoint and deleteMediaPackageChannel ask for event-E-hls
\* and event-E, without the stage.
NameDeleted(s) == <<EventOf[s]>>

\* The first of the two finds nothing by its name and throws, so that the
\* package channel stays and the distribution is never disabled.
DeletePackage(s) ==
  /\ At(s, "package")
  /\ LET found == {x \in made : x[2] \in Named /\ NameOf(For[x[1]]) = NameDeleted(s)}
     IN  /\ made' = made \ found
         /\ Goto(s, IF found = {} THEN "failed" ELSE "done")
  /\ UNCHANGED <<begun, step, failed, row, running, faults>>

\* deleteCDNDistributionAndMediaLiveInput: MediaLive keeps an input that is
\* attached, and CloudFront a distribution that nobody has disabled.
DeleteInput(s) ==
  /\ row[s] # NoSetup /\ ~HasChannel(s)
  /\ made' = made \ {<<row[s], Input>>}
  /\ UNCHANGED <<begun, step, failed, row, running, teardown, faults>>

\* What the function behind LAMBDA_DESTROY_INFRA can do with what it is told,
\* the ids of channel and distribution: delete the one, disable the other.
LambdaDestroy(s) ==
  /\ HasChannel(s)
  /\ made' = made \ {<<row[s], LiveChannel>>} /\ running' = running \ {row[s]}
  /\ UNCHANGED <<begun, step, failed, row, teardown, faults>>

\* A call for a channel that fails changes nothing.
CallFails ==
  /\ faults > 0 /\ faults' = faults - 1
  /\ UNCHANGED <<begun, step, failed, made, row, running, teardown>>

-----------------------------------------------------------------------------
SetupNext == \E r \in Setups : SetupInfra(r) \/ Create(r) \/ Save(r) \/ Throw(r)
TeardownNext == \E s \in Stages :
  \/ Describe(s) \/ StopFirst(s) \/ DeleteChannel(s) \/ DeletePackage(s)
  \/ DeleteInput(s)
ChannelNext ==
  \/ CallFails
  \/ \E s \in Stages :
       StartMediaLiveChannel(s) \/ StopMediaLiveChannel(s) \/ LambdaDestroy(s)

Next ==
  \/ SetupNext \/ TeardownNext \/ ChannelNext
  \/ \E s \in Stages : Begin(s)

Spec == Init /\ [][Next]_vars

-----------------------------------------------------------------------------
\* Properties

TypeOK ==
  /\ begun \subseteq Stages /\ failed \subseteq Setups /\ faults \in Nat
  /\ step \in [Setups -> 0..Saved]
  /\ made \subseteq Setups \X DOMAIN Calls
  /\ row \in [Stages -> Setups \cup {NoSetup}]
  /\ running \subseteq Setups
  /\ teardown \in [Stages -> {"none", "stop", "delete", "package", "failed", "done"}]

\* Every AWS resource can still be found: the row of its stage has its id, or
\* its setup is at work.  Only setups that threw leave what nobody knows ...
NothingForgotten ==
  /\ \A x \in made : LET r == x[1] IN
       row[For[r]] = r \/ step[r] \in 1..Saving \/ r \in failed
\* ... and a channel that runs is in the row of its stage: it can be stopped.
  /\ \A r \in running : row[For[r]] = r

\* How the stages look to an organiser: bare until a setup has its package
\* channel, broken for good if that setup throws.
Built(r) == <<r, PackageChannel>> \in made
StageState == [s \in Stages |->
  IF row[s] # NoSetup THEN "ready"
  ELSE IF \A r \in Setups : For[r] = s => ~Built(r) THEN "bare"
  ELSE IF \A r \in Setups : For[r] = s /\ Built(r) => r \in failed THEN "broken"
  ELSE "building"]

Organiser == INSTANCE Provisioning WITH state <- StageState
\* setupInfra implements Provisioning: a stage is built at most once, by one
\* setup, although setups of a stage run at the same time and fail anywhere.
Provisions == Organiser!Spec
=============================================================================
