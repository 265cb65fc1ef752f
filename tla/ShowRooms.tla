----------------------------- MODULE ShowRooms -----------------------------
(***************************************************************************)
(* Show rooms of sponsors (src/src/modules/showRoom): a Vonage session and *)
(* a broadcast, whose ids live in Redis keys of the sponsor.  Requests     *)
(* send several commands at once and do not wait for the answers; Redis    *)
(* carries out those of one process in order and those of others between   *)
(* them.  Requests that only read are left out.                            *)
(***************************************************************************)
EXTENDS Budgeting, Sequences

CONSTANTS
  Shows,    \* sponsors at an event
  Calls,    \* requests, numbered as they come; a session or a broadcast is
            \* named by the request it is from
  NoValue,  \* no such key
  Garbage   \* what SET makes of the id in an answer that has none

ASSUME ShowRoomsAssumption ==
  /\ Calls \subseteq Nat /\ NoValue \notin Calls /\ Garbage \notin Calls
  /\ NoValue # "online"

Keys == {"session", "token", "jwt", "state", "broadcast"}

VARIABLES
  key,      \* per sponsor: its Redis keys
  call,     \* per request: where it is, what it has read and still to send
  onAir,    \* broadcasts Vonage transmits
  told,     \* per sponsor: what linked users have heard last
  failed,   \* history: sponsors a request for which has failed
  crossed,  \* history: sponsors two requests for which were at work at once
  repeated  \* history: sponsors with another broadcast while one was on air

showHistory == <<failed, crossed, repeated>>
showState == <<key, call, onAir, told, showHistory>>

NoCall == [at |-> "none", show |-> NoValue, jwt |-> NoValue, id |-> NoValue,
           commands |-> <<>>]
NoKeys == [k \in Keys |-> NoValue]

ShowsInit ==
  /\ key = [s \in Shows |-> NoKeys] /\ call = [c \in Calls |-> NoCall]
  /\ onAir = {} /\ told = [s \in Shows |-> "stop"]
  /\ failed = {} /\ crossed = {} /\ repeated = {}
  /\ left \in Budgets

Busy(c) == call[c].at \notin {"none", "over"} \/ call[c].commands # <<>>
BusyAt(s) == {c \in Calls : call[c].show = s /\ Busy(c)}
Go(c, point) == call' = [call EXCEPT ![c].at = point]

Arrive(c, s, point, use) ==
  /\ call[c].at = "none" /\ Spend(use)
  /\ \A d \in Calls : d < c => call[d].at # "none"
  /\ call' = [call EXCEPT ![c].at = point, ![c].show = s]
  /\ crossed' = IF BusyAt(s) = {} THEN crossed ELSE crossed \cup {s}
  /\ UNCHANGED <<key, onAir, told, failed, repeated>>

\* The next command of a request reaches Redis: <<key, value>>.
Command(c) ==
  /\ call[c].commands # <<>>
  /\ LET do == Head(call[c].commands) IN key' = [key EXCEPT ![call[c].show][do[1]] = do[2]]
  /\ call' = [call EXCEPT ![c].commands = Tail(@)]
  /\ UNCHANGED <<onAir, told, left, showHistory>>

\* The job that tells linked users is added; commands may still be on their way.
Tell(c) ==
  /\ call[c].at \in {"tellStart", "tellStop"} /\ Go(c, "over")
  /\ told' = [told EXCEPT ![call[c].show] = IF call[c].at = "tellStart" THEN "start" ELSE "stop"]
  /\ UNCHANGED <<key, onAir, left, showHistory>>

-----------------------------------------------------------------------------
\* startSponsorRoom

StartSponsorRoom(c, s) == Arrive(c, s, "create", "open")

\* Mutant: the state before the data.
StateFirst(c) == <<<<"state", "online">>, <<"session", c>>, <<"token", c>>, <<"jwt", c>>>>
Sets(c) == <<<<"session", c>>, <<"token", c>>, <<"jwt", c>>, <<"state", "online">>>>

CreateSession(c) ==
  /\ call[c].at = "create"
  /\ call' = [call EXCEPT ![c].at = "tellStart", ![c].commands = Sets(c)]
  /\ UNCHANGED <<key, onAir, told, left, showHistory>>

\* The exception is returned as a value, and users are told all the same.
CreateFails(c) ==
  /\ call[c].at = "create" /\ Spend("fault") /\ Go(c, "tellStart")
  /\ failed' = failed \cup {call[c].show}
  /\ UNCHANGED <<key, onAir, told, crossed, repeated>>

-----------------------------------------------------------------------------
\* startBroadcastSponsorRoom

StartBroadcast(c, s) == Arrive(c, s, "jwt", "broadcast")

ReadJwt(c) ==
  /\ call[c].at = "jwt"
  /\ call' = [call EXCEPT ![c].at = "session", ![c].jwt = key[call[c].show].jwt]
  /\ UNCHANGED <<key, onAir, told, left, showHistory>>

ReadSession(c) ==
  /\ call[c].at = "session"
  /\ call' = [call EXCEPT ![c].at = "post", ![c].id = key[call[c].show].session]
  /\ UNCHANGED <<key, onAir, told, left, showHistory>>

ShowOf(b) == call[b].show
\* Vonage needs a token and a session.
PostBroadcast(c) ==
  LET s == call[c].show
      valid == call[c].jwt # NoValue /\ call[c].id # NoValue
      Answer(id) == call' = [call EXCEPT ![c].at = "over", ![c].commands = <<<<"broadcast", id>>>>]
  IN  /\ call[c].at = "post"
      /\ \/ /\ valid /\ Answer(c) /\ onAir' = onAir \cup {c}
            /\ repeated' = IF \E b \in onAir : ShowOf(b) = s THEN repeated \cup {s} ELSE repeated
            /\ UNCHANGED <<failed, left>>
         \/ /\ ~valid /\ Answer(Garbage)
            /\ failed' = failed \cup {s} /\ UNCHANGED <<onAir, repeated, left>>
         \/ /\ valid /\ Spend("fault") /\ Answer(Garbage)
            /\ failed' = failed \cup {s} /\ UNCHANGED <<onAir, repeated>>
      /\ UNCHANGED <<key, told, crossed>>

-----------------------------------------------------------------------------
\* stopSponsorRoom

StopSponsorRoom(c, s) == Arrive(c, s, "stopId", "close")

ReadBroadcast(c) ==
  /\ call[c].at = "stopId"
  /\ call' = [call EXCEPT ![c].at = "stopJwt", ![c].id = key[call[c].show].broadcast]
  /\ UNCHANGED <<key, onAir, told, left, showHistory>>

RemovedKeys == <<"session", "token", "jwt", "state", "broadcast">>

ReadStopJwt(c) ==
  /\ call[c].at = "stopJwt"
  /\ call' = [call EXCEPT ![c].at = "dels", ![c].jwt = key[call[c].show].jwt,
       ![c].commands = [i \in DOMAIN RemovedKeys |-> <<RemovedKeys[i], NoValue>>]]
  /\ UNCHANGED <<key, onAir, told, left, showHistory>>

\* Mutant: the id is looked up when it is needed.
LookedUp(c) == key[call[c].show].broadcast
StoppedId(c) == call[c].id

\* After all five DELs.  A broadcast that Vonage does not stop runs for ninety
\* minutes; the request answers with an error and users are not told.
PostStop(c) ==
  /\ call[c].at = "dels" /\ call[c].commands = <<>>
  /\ \/ /\ Go(c, "tellStop") /\ UNCHANGED <<left, failed>>
        /\ onAir' = IF call[c].jwt = NoValue THEN onAir ELSE onAir \ {StoppedId(c)}
     \/ /\ Spend("fault") /\ Go(c, "over") /\ UNCHANGED onAir
        /\ failed' = failed \cup {call[c].show}
  /\ UNCHANGED <<key, told, crossed, repeated>>

ShowsNext == \E c \in Calls :
  \/ Command(c) \/ Tell(c)
  \/ \E s \in Shows : StartSponsorRoom(c, s) \/ StartBroadcast(c, s) \/ StopSponsorRoom(c, s)
  \/ CreateSession(c) \/ CreateFails(c)
  \/ ReadJwt(c) \/ ReadSession(c) \/ PostBroadcast(c)
  \/ ReadBroadcast(c) \/ ReadStopJwt(c) \/ PostStop(c)

ShowsSpec == ShowsInit /\ [][ShowsNext]_<<showState, left>>

-----------------------------------------------------------------------------
\* Properties

\* A room that is online has a session, a token and a JWT, unless it is being
\* stopped, and in the end those of one start; two requests that were at work
\* for it at once may leave anything.
Stopping(s) == \E c \in BusyAt(s) : call[c].at = "dels"
Ids(s) == {key[s].session, key[s].token, key[s].jwt}
OnlineHasSession == \A s \in Shows \ crossed :
  key[s].state = "online" =>
    \/ Stopping(s)
    \/ Ids(s) \subseteq Calls /\ (BusyAt(s) = {} => \E c \in Calls : Ids(s) = {c})

\* A broadcast on air can be stopped: its id is in its key, on its way to it,
\* or read by a request that stops it; a second start of the room or of a
\* broadcast, a failure or a crossing request loses it.
BroadcastStoppable == \A b \in onAir : LET s == ShowOf(b) IN
  \/ key[s].broadcast = b \/ call[b].commands # <<>> \/ s \in failed \cup crossed \cup repeated
  \/ \E c \in Calls : call[c].at \in {"stopJwt", "dels"} /\ call[c].id = b
=============================================================================
