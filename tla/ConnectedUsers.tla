--------------------------- MODULE ConnectedUsers ---------------------------
(***************************************************************************)
(* Who is connected to the gateways of chat and card wallet, and what is   *)
(* sent to them (src/src/modules/chat, cardWallet, shared/gateways).  A    *)
(* Redis hash has a field per user, the socket that came last, and one per *)
(* sponsor, a list of sockets that is read, changed and written back.  The *)
(* commands of one process reach Redis in order, those of two in any       *)
(* order; the sockets of one field may be at different processes.          *)
(***************************************************************************)
EXTENDS Budgeting

CONSTANTS
  Sockets, Fields,
  FieldOf,     \* FieldOf[s]: the user, in one of the namespaces, or the sponsor
  SponsorFields,
  Talk,        \* [kind, from, to]: who may send what to whom
  Messages,    \* numbered as they are sent
  MaxAttempts  \* of a job of the queue 'chat'

ASSUME ConnectedUsersAssumption ==
  /\ FieldOf \in [Sockets -> Fields] /\ SponsorFields \subseteq Fields
  /\ Talk \subseteq [kind : {"toSponsor", "toUser", "ask", "answer"}, from : Fields, to : Fields]
  /\ Messages \subseteq Nat /\ MaxAttempts \in Nat \ {0}

VARIABLES
  hash,     \* connectedUsersChat, connectedUsersCardWallet: field -> sockets
  online,   \* connected sockets
  up, down, \* per socket: where handleConnection and handleDisconnect are
  message,  \* per message: what is done of it, and who has received it
  cards,    \* rows of card_wallet, by asker and asked
  together, \* history: users two sockets of which were there at once, and
            \* sponsors two handlers for which were at work at once
  hasty     \* history: sockets that left before handleConnection had finished

hubState == <<hash, online, up, down, message, cards, together, hasty>>

Listed(f) == IF f \in DOMAIN hash THEN hash[f] ELSE {}
Write(f, sockets) == hash' = [g \in DOMAIN hash \cup {f} |-> IF g = f THEN sockets ELSE hash[g]]
IsSponsor(s) == FieldOf[s] \in SponsorFields
Unsent == [at |-> "none", kind |-> "none", to |-> {}, field |-> {}, pair |-> <<>>, from |-> {},
           attempt |-> 1, due |-> {}, got |-> {}]

HubInit ==
  /\ hash = <<>> /\ online = {} /\ cards = {}
  /\ up = [s \in Sockets |-> [at |-> "none", read |-> {}]] /\ down = up
  /\ message = [m \in Messages |-> Unsent]
  /\ together = {} /\ hasty = {}
  /\ left \in Budgets

-----------------------------------------------------------------------------
\* handleConnection and handleDisconnect

Peers(s) == {t \in Sockets \ {s} : FieldOf[t] = FieldOf[s]}
AtWork(s) == up[s].at \in {"validate", "get", "set"} \/ down[s].at \in {"get", "set"}
\* Others of the field that a step of s may disturb.
Near(s) == {t \in Peers(s) : AtWork(t) \/ (~IsSponsor(s) /\ t \in online)}
Meet(s) == together' = IF Near(s) = {} THEN together ELSE together \cup {FieldOf[s]}

Connect(s) ==
  /\ up[s].at = "none" /\ Spend("connect")
  /\ online' = online \cup {s} /\ up' = [up EXCEPT ![s].at = "validate"] /\ Meet(s)
  /\ UNCHANGED <<hash, down, message, cards, hasty>>

\* The token is good; userId and sponsorGuid are set.
Validated(s) ==
  /\ up[s].at = "validate"
  /\ up' = [up EXCEPT ![s].at = IF IsSponsor(s) THEN "get" ELSE "set"]
  /\ UNCHANGED <<hash, online, down, message, cards, together, hasty, left>>

\* Any process may fail to get a token validated in time: a socket that leaves
\* before has no userId yet, and HDEL of `undefined' removes nothing.
Disconnect(s) ==
  /\ s \in online /\ Spend("disconnect")
  /\ online' = online \ {s}
  /\ down' = [down EXCEPT ![s].at = IF up[s].at = "validate" THEN "over"
                                    ELSE IF IsSponsor(s) THEN "get" ELSE "set"]
  /\ hasty' = IF up[s].at = "in" THEN hasty ELSE hasty \cup {s}
  /\ message' = [m \in Messages |-> [message[m] EXCEPT !.due = @ \ {s}]]
  /\ Meet(s)
  /\ UNCHANGED <<hash, up, cards>>

\* addToHashList
ReadToAdd(s) ==
  /\ up[s].at = "get"
  /\ up' = [up EXCEPT ![s] = [at |-> "set", read |-> Listed(FieldOf[s])]]
  /\ UNCHANGED <<hash, online, down, message, cards, together, hasty, left>>

\* HSET: the list with the new socket, or the socket of the user.
Register(s) ==
  /\ up[s].at = "set"
  /\ Write(FieldOf[s], IF IsSponsor(s) THEN up[s].read \cup {s} ELSE {s})
  /\ up' = [up EXCEPT ![s].at = "in"]
  /\ UNCHANGED <<online, down, message, cards, together, hasty, left>>

\* removeFromHashList, after the HGET of the same socket's connection.  Without
\* the field JSON.parse([]) throws.
ReadToRemove(s) ==
  /\ down[s].at = "get" /\ up[s].at # "get"
  /\ down' = [down EXCEPT ![s] = [read |-> Listed(FieldOf[s]),
                                  at |-> IF FieldOf[s] \in DOMAIN hash THEN "set" ELSE "over"]]
  /\ UNCHANGED <<hash, online, up, message, cards, together, hasty, left>>

\* Mutant: the field is deleted, as for a user.
Nothing(sockets, s) == {}
Without(sockets, s) == sockets \ {s}

\* HDEL of the user, whoever is there by now, or HSET of the shorter list.
Unregister(s) ==
  /\ down[s].at = "set" /\ up[s].at = "in"
  /\ IF IsSponsor(s) THEN Write(FieldOf[s], Without(down[s].read, s))
     ELSE hash' = [g \in DOMAIN hash \ {FieldOf[s]} |-> hash[g]]
  /\ down' = [down EXCEPT ![s].at = "over"]
  /\ UNCHANGED <<online, up, message, cards, together, hasty, left>>

-----------------------------------------------------------------------------
\* message and messageRead of chat, requestCard and responseCard of card wallet.
\* What is sent after a DynamoDB call by a user is a job, else it is in line.

Settled(s) == s \in online /\ up[s].at = "in"
Becomes(m, record) == message' = [message EXCEPT ![m] = record]
Moves(m, point) == message' = [message EXCEPT ![m].at = point]

\* Whoever is sent to should receive what is sent while it is there.
New(kind, s, f) ==
  [Unsent EXCEPT !.kind = kind, !.field = f, !.pair = <<FieldOf[s], f>>, !.from = {s},
                 !.at = IF kind = "answer" THEN "get" ELSE "call",
                 !.due = {t \in Sockets : FieldOf[t] = f /\ Settled(t)}]

Send(m, kind, s, f) ==
  /\ message[m].at = "none" /\ \A n \in Messages : n < m => message[n].at # "none"
  /\ s \in online /\ up[s].at # "validate" /\ Spend(kind)
  /\ [kind |-> kind, from |-> FieldOf[s], to |-> f] \in Talk
  /\ Becomes(m, New(kind, s, f))
  /\ UNCHANGED <<hash, online, up, down, cards, together, hasty>>

\* DynamoDB has put the message, or marked it as read.
Stored(m) ==
  /\ message[m].at = "call" /\ message[m].kind # "ask" /\ Moves(m, "get")
  /\ UNCHANGED <<hash, online, up, down, cards, together, hasty, left>>

\* verifyIfRelationshipExists; who has the card already is answered at the
\* socket it asks from.
VerifyRelationship(m) ==
  /\ message[m].at = "call" /\ message[m].kind = "ask"
  /\ IF message[m].pair \in cards
     THEN Becomes(m, [message[m] EXCEPT !.at = "emit", !.to = message[m].from,
                                    !.due = message[m].from \cap online])
     ELSE Moves(m, "get")
  /\ UNCHANGED <<hash, online, up, down, cards, together, hasty, left>>

\* HGET; responseCard still has to save the card.
LookUp(m) ==
  /\ message[m].at = "get"
  /\ Becomes(m, [message[m] EXCEPT !.to = Listed(message[m].field),
                               !.at = IF message[m].kind = "answer" THEN "save" ELSE "emit"])
  /\ UNCHANGED <<hash, online, up, down, cards, together, hasty, left>>

\* A row of card_wallet: who has asked and who was asked.
CardWallet(m) == <<message[m].field, message[m].pair[1]>>

\* The primary key is asker, asked and event: a second row throws.
SaveCard(m) ==
  /\ message[m].at = "save"
  /\ Moves(m, IF CardWallet(m) \in cards THEN "failed" ELSE "emit")
  /\ cards' = cards \cup {CardWallet(m)}
  /\ UNCHANGED <<hash, online, up, down, together, hasty, left>>

\* responseCard without `accept' saves nothing.
Refuse(m) ==
  /\ message[m].at = "save" /\ Moves(m, "emit")
  /\ UNCHANGED <<hash, online, up, down, cards, together, hasty, left>>

Emit(m) ==
  /\ message[m].at = "emit"
  /\ Becomes(m, [message[m] EXCEPT !.at = "sent", !.got = @ \cup (message[m].to \cap online)])
  /\ UNCHANGED <<hash, online, up, down, cards, together, hasty, left>>

\* Mutant: the job is not tried again.
Once(m) == FALSE
\* A job that fails, hangs or dies is tried again.
Retried(m) == message[m].attempt < MaxAttempts

Fails(m) ==
  /\ message[m].at \in {"call", "get", "save", "emit"} /\ Spend("fault")
  /\ IF message[m].at # "call" /\ message[m].kind = "toSponsor" /\ Retried(m)
     THEN Becomes(m, [message[m] EXCEPT !.at = "get", !.attempt = @ + 1])
     ELSE Moves(m, IF message[m].at = "call" THEN "unsaid" ELSE "failed")
  /\ UNCHANGED <<hash, online, up, down, cards, together, hasty>>

HubNext ==
  \/ \E s \in Sockets :
       \/ Connect(s) \/ Validated(s) \/ Disconnect(s)
       \/ ReadToAdd(s) \/ Register(s) \/ ReadToRemove(s) \/ Unregister(s)
  \/ \E m \in Messages :
       \/ Stored(m) \/ VerifyRelationship(m) \/ LookUp(m) \/ SaveCard(m) \/ Refuse(m) \/ Emit(m) \/ Fails(m)
       \/ \E s \in Sockets, talk \in Talk : Send(m, talk.kind, s, talk.to)

HubSpec == HubInit /\ [][HubNext]_<<hubState, left>>

-----------------------------------------------------------------------------
\* Properties

\* A socket that is there is listed and one that has gone is not, whatever the
\* order in which commands of different processes reach Redis, unless it left
\* before it was listed, or another socket of the user was there, or two
\* handlers of the sponsor's sockets were at work, at the same time.
EntriesTrue == \A s \in Sockets : LET f == FieldOf[s] IN
  f \notin together =>
    /\ Settled(s) => s \in Listed(f)
    /\ down[s].at = "over" => s \notin Listed(f) \/ s \in hasty

\* Who is there from when something is sent to it until it is dealt with has
\* received it: a job in spite of failures, anything else unless it failed.
Delivered == \A m \in Messages :
  \/ message[m].at \notin {"sent", "failed"} \/ message[m].field \in together
  \/ message[m].due \subseteq message[m].got
  \/ message[m].at = "failed" /\ (message[m].kind # "toSponsor" \/ message[m].attempt = MaxAttempts)
=============================================================================
