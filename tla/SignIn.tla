------------------------------- MODULE SignIn -------------------------------
(***************************************************************************)
(* The one device a user is signed in with (user.gateway.ts and            *)
(* validateSignIn of user.service.ts): the field of the user in the hash   *)
(* loggedUsers is `<socket>--<hash>', or `null--<hash>' until the device   *)
(* connects.  A hash is named by the sign-in that makes it, a socket by    *)
(* its device.  Other users have fields of their own.                      *)
(***************************************************************************)
EXTENDS Budgeting

CONSTANTS
  Devices,
  Nobody    \* the socket `null'

ASSUME SignInAssumption == Nobody \notin Devices

VARIABLES
  logged,    \* loggedUsers: [socket, hash], hash 0 as long as there is no field
  device,    \* per device: its hash (0 for none), connected or not, and asking
  signIns,   \* sign-ins so far
  signedOut, \* devices that have been sent signOut since they last signed in
  met,   \* history: another sign-in or connection came between a HGET and its HSET
  retaken    \* history: a device has connected with a hash that was not the last

signState == <<logged, device, signIns, signedOut, met, retaken>>

SignedOff == [hash |-> 0, online |-> FALSE, at |-> "idle"]

SignInInit ==
  /\ logged = [socket |-> Nobody, hash |-> 0]
  /\ device = [d \in Devices |-> SignedOff]
  /\ signIns = 0 /\ signedOut = {} /\ met = FALSE /\ retaken = FALSE
  /\ left \in Budgets

Asking(d) == device[d].at = "set"

\* validateSignIn without a hash: HGET, and signOut to the socket that is in
\* it; to `null' it reaches nobody.
SignIn(d) ==
  /\ device[d] = SignedOff /\ Spend("signIn")
  /\ device' = [device EXCEPT ![d].at = "set"]
  /\ signedOut' = signedOut \cup ({logged.socket} \ {Nobody})
  /\ met' = (met \/ \E c \in Devices : Asking(c))
  /\ UNCHANGED <<logged, signIns, retaken>>

\* HSET of a new hash, which the answer takes to the device.
SetHash(d) ==
  /\ Asking(d) /\ signIns' = signIns + 1
  /\ logged' = [socket |-> Nobody, hash |-> signIns + 1]
  /\ device' = [device EXCEPT ![d].at = "idle", ![d].hash = signIns + 1]
  /\ signedOut' = signedOut \ {d}
  /\ UNCHANGED <<met, retaken, left>>

\* Mutant: the hash without the socket.
NoSocket(d) == [socket |-> Nobody, hash |-> device[d].hash]
Entry(d) == [socket |-> d, hash |-> device[d].hash]

\* handleConnection of the user gateway asks nobody whether the hash is still
\* the last.
ConnectUser(d) ==
  /\ device[d].hash # 0 /\ ~device[d].online /\ Spend("connectUser")
  /\ device' = [device EXCEPT ![d].online = TRUE]
  /\ logged' = Entry(d)
  /\ retaken' = (retaken \/ device[d].hash # logged.hash)
  /\ met' = (met \/ \E c \in Devices \ {d} : Asking(c))
  /\ UNCHANGED <<signIns, signedOut>>

\* There is no handleDisconnect: the field keeps the socket.
DisconnectUser(d) ==
  /\ device[d].online
  /\ device' = [device EXCEPT ![d].online = FALSE]
  /\ UNCHANGED <<logged, signIns, signedOut, met, retaken, left>>

\* validateSignIn with a hash: a device that is told it is not the last one, or
\* has been sent signOut, may forget its hash
\* and sign in again.
Forget(d) ==
  /\ device[d].hash # 0
  /\ device[d].hash # logged.hash \/ d \in signedOut
  /\ device' = [device EXCEPT ![d].hash = 0, ![d].online = FALSE]
  /\ UNCHANGED <<logged, signIns, signedOut, met, retaken, left>>

SignInNext == \E d \in Devices :
  SignIn(d) \/ SetHash(d) \/ ConnectUser(d) \/ DisconnectUser(d) \/ Forget(d)

SignInSpec == SignInInit /\ [][SignInNext]_<<signState, left>>

-----------------------------------------------------------------------------
\* Properties

\* A device that is connected and no longer the last one to sign in has been
\* sent signOut, unless a device has connected with an older hash, or a sign-in
\* met another one, or a connection, between its HGET and its HSET.
SupersededTold == \A d \in Devices :
  device[d].online /\ device[d].hash \notin {0, logged.hash}
    => d \in signedOut \/ met \/ retaken
=============================================================================
