-------------------------- MODULE AccountsTheorems --------------------------
(***************************************************************************)
(* That an account in use stays its owner's, that an import binds nobody   *)
(* twice, that whoever was mailed a ticket code is bound to the event, and *)
(* that whoever was bound is mailed, for any users, files, events, slots   *)
(* and clients, and any failures, deaths and repetitions, unless what the  *)
(* properties name has happened.                                           *)
(***************************************************************************)
EXTENDS Accounts, SequenceTheorems, FiniteSetTheorems, TLAPS

-----------------------------------------------------------------------------
\* Types

\* The jobs of the queue 'user', and what their handlers keep.
Jobs == [name : {"save", "mail"}, emails : SUBSET Users, event : Events, attempt : Nat]
Stages == {"filter", "find", "insert", "bind", "add", "mail", "done", "hung"}
Handling == [at : Stages,
             job : Jobs, emails : SUBSET Users, found : SUBSET Users,
             seen : SUBSET Users, late : BOOLEAN]
Requests ==
  {Idle} \cup [at : {"get", "claim", "insert"}, user : Users, guid : Guids]
    \cup [at : {"lines"}, file : Files, todo : Seq(SUBSET Cells)]

AccountsOK ==
  /\ rows \subseteq Users /\ fresh \subseteq Users
  /\ guid \in [Users -> Guids \cup {NoGuid}] /\ claimed \in [Users -> Guids \cup {NoGuid}]
  /\ contested \subseteq Users
HandlersOK ==
  /\ work \in [Workers -> {Idle} \cup Handling]
  /\ held \in [Workers -> SUBSET Users]
LinksOK == tickets \in [Pairs -> Nat] /\ byHand \in [Pairs -> Nat]
QueueOK == DOMAIN queue \subseteq Jobs /\ \A j \in DOMAIN queue : queue[j] \in Nat \ {0}
HistoryOK ==
  /\ mailed \subseteq Pairs /\ raced \subseteq Pairs /\ overlap \subseteq Pairs
  /\ unsent \subseteq Pairs
Types == /\ AccountsOK /\ HandlersOK /\ LinksOK /\ QueueOK /\ HistoryOK
         /\ request \in [Clients -> Requests]

\* A slot handles a job unless it is idle.
LEMMA BusySlots ==
  ASSUME HandlersOK, NEW w \in Workers
  PROVE  /\ work[w].at # "idle" <=> work[w] \in Handling
         /\ work[w].at = "idle" <=> work[w] = Idle
BY DEF HandlersOK, Handling, Idle, Stages

\* What a command may do to what its handler keeps.
LEMMA HandlingEdits ==
  ASSUME NEW l \in Handling
  PROVE  /\ \A p \in Stages : [l EXCEPT !.at = p] \in Handling
         /\ \A p \in Stages, E \in SUBSET Users : [l EXCEPT !.emails = E, !.at = p] \in Handling
         /\ \A F, S \in SUBSET Users :
              [l EXCEPT !.at = "insert", !.found = F, !.seen = S] \in Handling
         /\ [l EXCEPT !.late = TRUE] \in Handling
BY DEF Handling, Stages

\* A handler that has started has a job of its name.
Started(j) == [at |-> IF j.name = "save" THEN "filter" ELSE "mail", job |-> j,
               emails |-> j.emails, found |-> {}, seen |-> {}, late |-> FALSE]

\* Where the commands of a handler leave it.
LEMMA Moves ==
  ASSUME HandlersOK, NEW w \in Workers
  PROVE  /\ \A p : Move(w, p) => work'[w] = [work[w] EXCEPT !.at = p]
         /\ Take(w) => \E j \in DOMAIN queue :
              queue' = queue (-) SetToBag({j}) /\ work'[w] = Started(j)
         /\ Filter(w) => LET E == Unregistered(Of(w).emails, Of(w).event) IN
              work'[w] = [work[w] EXCEPT !.emails = E,
                                         !.at = IF E = {} THEN "done" ELSE "find"]
         /\ Find(w) => work'[w] = [work[w] EXCEPT !.at = "insert",
              !.found = work[w].emails \cap rows, !.seen = work[w].emails \cap rows]
         /\ SendEmails(w) => \E batch \in SUBSET work[w].emails :
              LET E == work[w].emails \ batch
                  sent == PairsOf(batch, Of(w).event) IN
              /\ work'[w] = [work[w] EXCEPT !.emails = E,
                                            !.at = IF E = {} THEN "done" ELSE "mail"]
              /\ \/ mailed' = mailed \cup sent /\ unsent' = unsent
                 \/ unsent' = unsent \cup sent /\ mailed' = mailed
         /\ JobDone(w) \/ HandlerDies(w) => work'[w] = Idle
         /\ Timeout(w) => work'[w] = IF work[w].at = "hung" THEN Idle
                                     ELSE [work[w] EXCEPT !.late = TRUE]
<1>1. w \in DOMAIN work
  BY DEF HandlersOK
<1>2. \A p : Move(w, p) => work'[w] = [work[w] EXCEPT !.at = p]
  BY <1>1 DEF Move
<1>3. Take(w) => \E j \in DOMAIN queue :
        queue' = queue (-) SetToBag({j}) /\ work'[w] = Started(j)
  BY <1>1 DEF Take, BagToSet, Started
<1>4. ASSUME Filter(w)
      PROVE  LET E == Unregistered(Of(w).emails, Of(w).event) IN
              work'[w] = [work[w] EXCEPT !.emails = E,
                                         !.at = IF E = {} THEN "done" ELSE "find"]
  BY <1>1, <1>4 DEF Filter
<1>5. Find(w) => work'[w] = [work[w] EXCEPT !.at = "insert",
        !.found = work[w].emails \cap rows, !.seen = work[w].emails \cap rows]
  BY <1>1 DEF Find, Existing
<1>6. ASSUME SendEmails(w)
      PROVE  \E batch \in SUBSET work[w].emails :
              LET E == work[w].emails \ batch
                  sent == PairsOf(batch, Of(w).event) IN
              /\ work'[w] = [work[w] EXCEPT !.emails = E,
                                            !.at = IF E = {} THEN "done" ELSE "mail"]
              /\ \/ mailed' = mailed \cup sent /\ unsent' = unsent
                 \/ unsent' = unsent \cup sent /\ mailed' = mailed
  BY <1>1, <1>6 DEF SendEmails, Rest
<1>7. JobDone(w) \/ HandlerDies(w) => work'[w] = Idle
  BY <1>1 DEF JobDone, HandlerDies
<1>8. Timeout(w) => work'[w] = IF work[w].at = "hung" THEN Idle
                               ELSE [work[w] EXCEPT !.late = TRUE]
  BY <1>1 DEF Timeout
<1> QED
  BY <1>2, <1>3, <1>4, <1>5, <1>6, <1>7, <1>8

\* The handlers in the other slots keep what they have.
LEMMA OthersStay ==
  ASSUME HandlersOK, NEW w \in Workers, Handle(w)
  PROVE  \A v \in Workers \ {w} : work'[v] = work[v] /\ held'[v] = held[v]
<1>1. CASE Take(w) \/ Filter(w) \/ Find(w) \/ SendEmails(w) \/ JobDone(w) \/ Timeout(w)
  BY <1>1 DEF Take, Filter, Find, SendEmails, JobDone, Timeout, HandlersOK
<1>2. CASE Insert(w) \/ Bind(w) \/ AddMail(w)
  BY <1>2 DEF Insert, Bind, AddMail, Move, HandlersOK
<1>3. CASE Fails(w) \/ HandlerDies(w)
  BY <1>3 DEF Fails, HandlerDies, Move, HandlersOK
<1> QED
  BY <1>1, <1>2, <1>3 DEF Handle

\* What a handler keeps has its type.
LEMMA WorkTypes ==
  ASSUME HandlersOK, QueueOK, NEW w \in Workers, Handle(w)
  PROVE  HandlersOK'
<1>0. /\ w \in DOMAIN work /\ held[w] \in SUBSET Users
      /\ work[w].at # "idle" => work[w] \in Handling
  BY BusySlots DEF HandlersOK
<1>a. ASSUME NEW l \in {Idle} \cup Handling, work' = [work EXCEPT ![w] = l],
             NEW h \in SUBSET Users, held' = held \/ held' = [held EXCEPT ![w] = h]
      PROVE  HandlersOK'
  BY <1>a DEF HandlersOK
<1>b. /\ \A p \in Stages : work[w].at # "idle" => [work[w] EXCEPT !.at = p] \in Handling
      /\ \A p : Move(w, p) => work' = [work EXCEPT ![w] = [work[w] EXCEPT !.at = p]]
  BY <1>0, HandlingEdits DEF Move
<1>1. CASE Take(w)
  <2>1. PICK j \in DOMAIN queue : work' = [work EXCEPT ![w] = Started(j)]
    BY <1>1 DEF Take, BagToSet, Started
  <2>2. Started(j) \in Handling
    BY <2>1 DEF Started, Handling, Jobs, QueueOK, Stages
  <2>3. held' = held
    BY <1>1 DEF Take
  <2> QED
    BY <1>a, <2>1, <2>2, <2>3
<1>2. CASE Filter(w)
  <2>1. PICK E : E = Unregistered(Of(w).emails, Of(w).event)
    OBVIOUS
  <2>2. PICK p \in Stages : p = IF E = {} THEN "done" ELSE "find"
    BY DEF Stages
  <2>3. work[w] \in Handling
    BY <1>0, <1>2 DEF Filter
  <2>4. E \in SUBSET Users
    BY <2>1, <2>3 DEF Unregistered, Of, Handling, Jobs
  <2>5. PICK l : l = [work[w] EXCEPT !.emails = E, !.at = p]
    OBVIOUS
  <2>6. l \in Handling
    BY <2>3, <2>4, <2>5, HandlingEdits
  <2>7. work' = [work EXCEPT ![w] = l] /\ held' = held
    BY <1>2, <2>1, <2>2, <2>5 DEF Filter
  <2> QED
    BY <1>a, <2>6, <2>7
<1>3. CASE Find(w)
  <2>1. PICK F \in SUBSET Users : F = work[w].emails \cap rows
    BY <1>0, <1>3 DEF Find, Handling
  <2>2. PICK l : l = [work[w] EXCEPT !.at = "insert", !.found = F, !.seen = F]
    OBVIOUS
  <2>3. l \in Handling
    BY <1>0, <1>3, <2>1, <2>2, HandlingEdits DEF Find
  <2>4. work' = [work EXCEPT ![w] = l] /\ held' = held
    BY <1>3, <2>1, <2>2 DEF Find, Existing
  <2> QED
    BY <1>a, <2>3, <2>4
<1>4. CASE Insert(w) \/ Bind(w) \/ AddMail(w) \/ Fails(w)
  <2>1. work[w] \in Handling
    BY <1>0, <1>4 DEF Insert, Bind, AddMail, Fails
  <2>2. \E p \in {"bind", "add", "done", "hung"} : Move(w, p)
    BY <1>4 DEF Insert, Bind, AddMail, Fails
  <2>3. PICK p \in {"bind", "add", "done", "hung"} : Move(w, p)
    BY <2>2
  <2>4. PICK l : l = [work[w] EXCEPT !.at = p]
    OBVIOUS
  <2>5. l \in Handling /\ work' = [work EXCEPT ![w] = l]
    BY <1>b, <2>1, <2>3, <2>4, HandlingEdits DEF Stages
  <2>6. \/ held' = held \/ held' = [held EXCEPT ![w] = {}]
        \/ held' = [held EXCEPT ![w] = work[w].emails \ rows]
    BY <1>4 DEF Insert, Bind, AddMail, Fails
  <2>7. work[w].emails \ rows \in SUBSET Users
    BY <2>1 DEF Handling
  <2>8. {} \in SUBSET Users
    OBVIOUS
  <2>9. PICK h \in SUBSET Users : held' = held \/ held' = [held EXCEPT ![w] = h]
    BY <2>6, <2>7, <2>8
  <2> QED
    BY <1>a, <2>5, <2>9
<1>5. CASE SendEmails(w)
  <2>1. PICK batch : work' = [work EXCEPT ![w].emails = Rest(work[w].emails, batch),
                              ![w].at = IF Rest(work[w].emails, batch) = {} THEN "done" ELSE "mail"]
    BY <1>5 DEF SendEmails
  <2>2. PICK E : E = work[w].emails \ batch
    OBVIOUS
  <2>3. PICK p \in Stages : p = IF E = {} THEN "done" ELSE "mail"
    BY DEF Stages
  <2>4. PICK l : l = [work[w] EXCEPT !.emails = E, !.at = p]
    OBVIOUS
  <2>5. work[w] \in Handling
    BY <1>0, <1>5 DEF SendEmails
  <2>6. E \in SUBSET Users
    BY <2>2, <2>5 DEF Handling
  <2>7. l \in Handling
    BY <2>4, <2>5, <2>6, HandlingEdits
  <2>8. work' = [work EXCEPT ![w] = l] /\ held' = held
    BY <1>5, <2>1, <2>2, <2>3, <2>4 DEF SendEmails, Rest
  <2> QED
    BY <1>a, <2>7, <2>8
<1>6. CASE JobDone(w) \/ HandlerDies(w)
  <2>1. /\ work' = [work EXCEPT ![w] = Idle]
        /\ held' = held \/ held' = [held EXCEPT ![w] = {}]
    BY <1>6 DEF JobDone, HandlerDies
  <2> QED
    BY <1>a, <2>1
<1>7. CASE Timeout(w)
  <2>1. work[w] \in Handling /\ held' = held
    BY <1>0, <1>7 DEF Timeout, Active
  <2>2. \/ work' = [work EXCEPT ![w] = Idle]
        \/ work' = [work EXCEPT ![w] = [work[w] EXCEPT !.late = TRUE]]
    BY <1>7 DEF Timeout
  <2>3. [work[w] EXCEPT !.late = TRUE] \in Handling
    BY <2>1, HandlingEdits
  <2> QED
    BY <1>a, <2>1, <2>2, <2>3
<1> QED
  BY <1>1, <1>2, <1>3, <1>4, <1>5, <1>6, <1>7 DEF Handle

\* Adding a job to the bag, and taking one out of it.
LEMMA QueuePlus ==
  ASSUME QueueOK, NEW j \in Jobs, Add(j)
  PROVE  QueueOK' /\ DOMAIN queue' = DOMAIN queue \cup {j}
BY DEF QueueOK, Add, (+), SetToBag

\* A job that is taken may have been there more than once.
LEMMA QueueMinus ==
  ASSUME QueueOK, NEW j, queue' = queue (-) SetToBag({j})
  PROVE  /\ QueueOK' /\ DOMAIN queue' \subseteq DOMAIN queue
         /\ DOMAIN queue \subseteq DOMAIN queue' \cup {j}
BY DEF QueueOK, (-), SetToBag

\* The job of a handler is one of the queue.
LEMMA JobTypes ==
  ASSUME HandlersOK, NEW w \in Workers, work[w].at # "idle"
  PROVE  /\ Of(w) \in Jobs /\ [Of(w) EXCEPT !.attempt = @ + 1] \in Jobs
         /\ Job("mail", work[w].emails, Of(w).event) \in Jobs
<1>1. work[w] \in Handling
  BY BusySlots
<1>2. PICK j \in Jobs : j = Of(w)
  BY <1>1 DEF Handling, Of
<1>3. [j EXCEPT !.attempt = @ + 1] \in Jobs
  BY DEF Jobs
<1>4. work[w].emails \in SUBSET Users
  BY <1>1 DEF Handling
<1>5. Job("mail", work[w].emails, j.event) \in Jobs
  BY <1>4 DEF Job, Jobs
<1> QED
  BY <1>2, <1>3, <1>5

\* Which jobs a command adds or takes.
LEMMA HandlerQueue ==
  ASSUME HandlersOK, QueueOK, NEW w \in Workers, Handle(w)
  PROVE  QueueOK'
<1>1. CASE Take(w)
  BY <1>1, Moves, QueueMinus
<1>2. CASE Filter(w) \/ Find(w) \/ Insert(w) \/ Bind(w) \/ SendEmails(w) \/ Fails(w) \/ JobDone(w)
  BY <1>2 DEF Filter, Find, Insert, Bind, SendEmails, Fails, JobDone, QueueOK
<1>3. CASE AddMail(w)
  <2>1. work[w].at # "idle" /\ Add(Job("mail", work[w].emails, Of(w).event))
    BY <1>3 DEF AddMail
  <2> QED
    BY <2>1, JobTypes, QueuePlus
<1>4. CASE Timeout(w)
  <2>1. work[w].at # "idle"
    BY <1>4 DEF Timeout, Active
  <2>2. Add([Of(w) EXCEPT !.attempt = @ + 1]) \/ queue' = queue
    BY <1>4 DEF Timeout
  <2>3. PICK j \in Jobs : j = [Of(w) EXCEPT !.attempt = @ + 1]
    BY <2>1, JobTypes
  <2> QED
    BY <2>2, <2>3, QueuePlus DEF QueueOK
<1>5. CASE HandlerDies(w)
  <2>1. work[w].at # "idle"
    BY <1>5 DEF HandlerDies
  <2>2. Add(Of(w)) \/ queue' = queue
    BY <1>5 DEF HandlerDies
  <2> QED
    BY <2>1, <2>2, JobTypes, QueuePlus DEF QueueOK
<1> QED
  BY <1>1, <1>2, <1>3, <1>4, <1>5 DEF Handle

\* The rest of the types under a command of a handler.
LEMMA HandlerTypes ==
  ASSUME Types, NEW w \in Workers, Handle(w)
  PROVE  Types'
<1>0. /\ AccountsOK /\ HandlersOK /\ LinksOK /\ QueueOK /\ HistoryOK
      /\ HandlersOK' /\ QueueOK' /\ request' = request
  <2>1. request' = request
    BY DEF Handle, Take, Filter, Find, Insert, Bind, AddMail, SendEmails, Fails, JobDone,
           Timeout, HandlerDies
  <2> QED
    BY <2>1, WorkTypes, HandlerQueue DEF Types
<1>1. AccountsOK'
  <2>1. CASE Bind(w)
    <3>1. held[w] \subseteq Users
      BY <1>0 DEF HandlersOK
    <3> QED
      BY <1>0, <2>1, <3>1 DEF Bind, AccountsOK, history
  <2>2. CASE ~Bind(w)
    <3>1. UNCHANGED <<rows, fresh, guid, claimed, contested>>
      BY <2>2 DEF Handle, Take, Filter, Find, Insert, AddMail, SendEmails, Fails, JobDone,
                  Timeout, HandlerDies, users, history
    <3> QED
      BY <1>0, <3>1 DEF AccountsOK
  <2> QED
    BY <2>1, <2>2
<1>2. LinksOK'
  <2>1. CASE Bind(w)
    <3>1. byHand' = byHand
      BY <2>1 DEF Bind
    <3>2. PICK bound : BindUsersToEvent(bound)
      BY <2>1 DEF Bind
    <3> QED
      BY <1>0, <3>1, <3>2 DEF BindUsersToEvent, LinksOK
  <2>2. CASE ~Bind(w)
    <3>1. UNCHANGED <<tickets, byHand>>
      BY <2>2 DEF Handle, Take, Filter, Find, Insert, AddMail, SendEmails, Fails, JobDone,
                  Timeout, HandlerDies, links
    <3> QED
      BY <1>0, <3>1 DEF LinksOK
  <2> QED
    BY <2>1, <2>2
<1>3. HistoryOK'
  <2>0. work[w].at # "idle" =>
          \A emails \in SUBSET Users : PairsOf(emails, Of(w).event) \in SUBSET Pairs
    <3> SUFFICES ASSUME work[w].at # "idle", NEW emails \in SUBSET Users
                 PROVE  PairsOf(emails, Of(w).event) \in SUBSET Pairs
      OBVIOUS
    <3>1. PICK j \in Jobs : j = Of(w)
      BY <1>0, JobTypes
    <3>2. Of(w).event \in Events
      BY <3>1 DEF Jobs
    <3> QED
      BY <3>2 DEF PairsOf, Pairs
  <2>1. work[w].at # "idle" => work[w].emails \in SUBSET Users /\ Of(w).emails \in SUBSET Users
    BY <1>0, BusySlots DEF Handling, Of, Jobs
  <2>2. CASE Take(w) \/ Find(w) \/ Bind(w) \/ AddMail(w) \/ JobDone(w)
    BY <1>0, <2>2 DEF Take, Find, Bind, AddMail, JobDone, HistoryOK, history
  <2>3. CASE Filter(w)
    <3>1. PICK others : overlap' = overlap \cup
            PairsOf(Unregistered(Of(w).emails, Of(w).event) \cap others, Of(w).event)
      BY <2>3 DEF Filter
    <3>2. PICK E : E = Unregistered(Of(w).emails, Of(w).event) \cap others
      OBVIOUS
    <3>3. E \in SUBSET Users /\ work[w].at # "idle"
      BY <2>1, <2>3, <3>2 DEF Unregistered, Filter
    <3>4. PairsOf(E, Of(w).event) \subseteq Pairs
      BY <2>0, <3>3
    <3>5. mailed' = mailed /\ raced' = raced /\ unsent' = unsent
      BY <2>3 DEF Filter
    <3> QED
      BY <1>0, <3>1, <3>2, <3>4, <3>5 DEF HistoryOK
  <2>4. CASE Insert(w)
    <3>1. PICK E : E = (work[w].emails \cap rows) \ work[w].seen
      OBVIOUS
    <3>2. E \in SUBSET Users /\ work[w].at # "idle"
      BY <2>1, <2>4, <3>1 DEF Insert
    <3>3. PairsOf(E, Of(w).event) \subseteq Pairs
      BY <2>0, <3>2
    <3>4. raced' = raced \cup PairsOf(E, Of(w).event) /\ mailed' = mailed /\ unsent' = unsent
          /\ overlap' = overlap
      BY <2>4, <3>1 DEF Insert
    <3> QED
      BY <1>0, <3>3, <3>4 DEF HistoryOK
  <2>5. CASE SendEmails(w)
    <3>1. PICK batch \in SUBSET work[w].emails :
             LET sent == PairsOf(batch, Of(w).event) IN
             \/ mailed' = mailed \cup sent /\ unsent' = unsent
             \/ unsent' = unsent \cup sent /\ mailed' = mailed
      BY <1>0, <2>5, Moves
    <3>2. batch \in SUBSET Users /\ work[w].at # "idle"
      BY <2>1, <2>5 DEF SendEmails
    <3>3. PairsOf(batch, Of(w).event) \subseteq Pairs
      BY <2>0, <3>2
    <3>4. raced' = raced /\ overlap' = overlap
      BY <2>5 DEF SendEmails
    <3> QED
      BY <1>0, <3>1, <3>3, <3>4 DEF HistoryOK
  <2>6. CASE Fails(w) \/ Timeout(w) \/ HandlerDies(w)
    <3>0. work[w].at # "idle"
      BY <2>6 DEF Fails, Timeout, HandlerDies, Active
    <3>1. \/ unsent' = unsent \/ unsent' = unsent \cup PairsOf(work[w].emails, Of(w).event)
          \/ unsent' = unsent \cup PairsOf(Of(w).emails, Of(w).event)
      BY <2>6 DEF Fails, Timeout, HandlerDies, Lost
    <3>2. /\ PairsOf(work[w].emails, Of(w).event) \subseteq Pairs
          /\ PairsOf(Of(w).emails, Of(w).event) \subseteq Pairs
      BY <2>0, <2>1, <3>0
    <3>3. mailed' = mailed /\ raced' = raced /\ overlap' = overlap
      BY <2>6 DEF Fails, Timeout, HandlerDies
    <3> QED
      BY <1>0, <3>1, <3>2, <3>3 DEF HistoryOK
  <2> QED
    BY <2>2, <2>3, <2>4, <2>5, <2>6 DEF Handle
<1> QED
  BY <1>0, <1>1, <1>2, <1>3 DEF Types

\* A request keeps its user and its guid, or its file, until it is over.
LEMMA RequestTypes ==
  ASSUME Types, NEW q \in Clients, Serve(q)
  PROVE  /\ request' \in [Clients -> Requests]
         /\ \A p \in Clients \ {q} : request'[p] = request[p]
<1>0. /\ request \in [Clients -> Requests] /\ Idle \in Requests
  BY DEF Types, Requests
<1>a. ASSUME NEW l \in Requests, request' = [request EXCEPT ![q] = l]
      PROVE  /\ request' \in [Clients -> Requests]
             /\ \A p \in Clients \ {q} : request'[p] = request[p]
  BY <1>0, <1>a
<1>b. /\ request[q].at \in {"get", "claim", "insert"} =>
           request[q] \in [at : {"get", "claim", "insert"}, user : Users, guid : Guids]
      /\ request[q].at = "lines" =>
           request[q] \in [at : {"lines"}, file : Files, todo : Seq(SUBSET Cells)]
  BY <1>0 DEF Requests, Idle
<1>1. ASSUME NEW u \in Users, NEW g \in Guids, Create(q, u, g)
      PROVE  \E l \in Requests : request' = [request EXCEPT ![q] = l]
  <2>1. [at |-> "get", user |-> u, guid |-> g] \in Requests
    BY DEF Requests
  <2> QED
    BY <1>1, <2>1 DEF Create
<1>2. ASSUME Get(q)
      PROVE  \E l \in Requests : request' = [request EXCEPT ![q] = l]
  <2>1. \/ request' = [request EXCEPT ![q].at = "claim"]
        \/ request' = [request EXCEPT ![q].at = "insert"]
        \/ request' = [request EXCEPT ![q] = Idle]
    BY <1>2 DEF Get
  <2>2. [request[q] EXCEPT !.at = "claim"] \in Requests
    BY <1>2, <1>b DEF Get, Requests
  <2>3. [request[q] EXCEPT !.at = "insert"] \in Requests
    BY <1>2, <1>b DEF Get, Requests
  <2> QED
    BY <1>0, <2>1, <2>2, <2>3
<1>3. ASSUME Save(q) \/ UploadFails(q)
      PROVE  \E l \in Requests : request' = [request EXCEPT ![q] = l]
  BY <1>0, <1>3 DEF Save, UploadFails
<1>4. ASSUME NEW f \in Files, ProcessCsvFile(q, f)
      PROVE  \E l \in Requests : request' = [request EXCEPT ![q] = l]
  <2>1. f.lines \in Seq(SUBSET Cells)
    BY AccountsAssumption, SMT
  <2>2. [at |-> "lines", file |-> f, todo |-> f.lines] \in Requests
    BY <2>1 DEF Requests
  <2> QED
    BY <1>4, <2>2 DEF ProcessCsvFile
<1>5. ASSUME ReadLine(q)
      PROVE  \E l \in Requests : request' = [request EXCEPT ![q] = l]
  <2>1. PICK todo \in Seq(SUBSET Cells) : todo = request[q].todo
    BY <1>5, <1>b DEF ReadLine
  <2>2. CASE todo = <<>>
    BY <1>0, <1>5, <2>1, <2>2 DEF ReadLine
  <2>3. CASE todo # <<>>
    <3>1. Tail(todo) \in Seq(SUBSET Cells)
      BY <2>3, HeadTailProperties
    <3>2. PICK rest \in Seq(SUBSET Cells) : rest = Tail(todo)
      BY <3>1
    <3>3. [request[q] EXCEPT !.todo = rest] \in Requests
      BY <1>5, <1>b DEF ReadLine, Requests
    <3>4. request' = [request EXCEPT ![q] = [request[q] EXCEPT !.todo = rest]]
      BY <1>5, <2>1, <2>3, <3>2 DEF ReadLine
    <3> QED
      BY <3>3, <3>4
  <2> QED
    BY <2>2, <2>3
<1>6. \E l \in Requests : request' = [request EXCEPT ![q] = l]
  BY <1>1, <1>2, <1>3, <1>4, <1>5 DEF Serve
<1> QED
  BY <1>6, <1>a

\* A line of a file becomes a job for its event.
LEMMA LineJob ==
  ASSUME Types, NEW q \in Clients, ReadLine(q)
  PROVE  /\ QueueOK'
         /\ \/ queue' = queue
            \/ \E j \in Jobs : j.name = "save" /\ DOMAIN queue' = DOMAIN queue \cup {j}
<1>0. QueueOK /\ request[q] \in Requests
  BY DEF Types
<1>1. request[q].file \in Files
  BY <1>0 DEF ReadLine, Requests, Idle
<1>2. request[q].file.event \in Events
  BY <1>1, AccountsAssumption, SMT
<1>3. PICK E : E = Head(request[q].todo) \cap Users
  OBVIOUS
<1>4. queue' = queue \/ Add(Job("save", E, request[q].file.event))
  BY <1>3 DEF ReadLine
<1>5. PICK j : j = Job("save", E, request[q].file.event)
  OBVIOUS
<1>6. j \in Jobs /\ j.name = "save"
  BY <1>2, <1>3, <1>5 DEF Job, Jobs
<1>7. Add(j) => QueueOK' /\ DOMAIN queue' = DOMAIN queue \cup {j}
  BY <1>0, <1>6, QueuePlus
<1> QED
  BY <1>0, <1>4, <1>5, <1>6, <1>7 DEF QueueOK

\* A request and an organiser keep the types.
LEMMA OtherTypes ==
  ASSUME Types, Organise \/ (\E q \in Clients : Serve(q)) \/ UNCHANGED vars
  PROVE  Types'
<1>0. /\ AccountsOK /\ HandlersOK /\ LinksOK /\ QueueOK /\ HistoryOK
      /\ request \in [Clients -> Requests]
  BY DEF Types
<1>1. CASE Organise
  <2>1. PICK u \in Users, e \in Events :
          \/ UpdateUserInfo(u) \/ RedeemEventCode(u, e)
          \/ \E valid \in BOOLEAN : BindUserEvent(u, e, valid)
    BY <1>1 DEF Organise
  <2>2. CASE UpdateUserInfo(u)
    <3>1. AccountsOK'
      BY <1>0, <2>2 DEF UpdateUserInfo, AccountsOK
    <3>2. UNCHANGED <<held, links, mailed, request, queue, work, raced, overlap, unsent>>
      BY <2>2 DEF UpdateUserInfo
    <3> QED
      BY <1>0, <3>1, <3>2 DEF Types, HandlersOK, LinksOK, QueueOK, HistoryOK, links
  <2>3. CASE RedeemEventCode(u, e)
    BY <1>0, <2>3 DEF RedeemEventCode, Types, AccountsOK, HandlersOK, LinksOK, QueueOK,
                      HistoryOK, users, history
  <2>4. ASSUME NEW valid \in BOOLEAN, BindUserEvent(u, e, valid)
        PROVE  Types'
    <3>1. byHand' = [byHand EXCEPT ![<<u, e>>] = @ + 1] /\ tickets' = tickets
      BY <2>4 DEF BindUserEvent, LinkUserToEvent
    <3>2. LinksOK'
      BY <1>0, <3>1 DEF LinksOK, Pairs
    <3>3. UNCHANGED <<users, held, mailed, request, queue, work, history>>
      BY <2>4 DEF BindUserEvent
    <3> QED
      BY <1>0, <3>2, <3>3 DEF Types, AccountsOK, HandlersOK, QueueOK, HistoryOK, users, history
  <2> QED
    BY <2>1, <2>2, <2>3, <2>4
<1>2. ASSUME NEW q \in Clients, Serve(q)
      PROVE  Types'
  <2>1. request' \in [Clients -> Requests]
    BY <1>2, RequestTypes
  <2>2. UNCHANGED <<held, links, mailed, work, history>>
    BY <1>2 DEF Serve, Create, Get, Save, ProcessCsvFile, ReadLine, UploadFails
  <2>3. QueueOK'
    <3>1. CASE ReadLine(q)
      BY <3>1, LineJob
    <3>2. CASE ~ReadLine(q)
      <4>1. queue' = queue
        BY <1>2, <3>2 DEF Serve, Create, Get, Save, ProcessCsvFile, UploadFails
      <4> QED
        BY <1>0, <4>1 DEF QueueOK
    <3> QED
      BY <3>1, <3>2
  <2>4. rows' \subseteq Users /\ fresh' \subseteq Users /\ guid' \in [Users -> Guids \cup {NoGuid}]
    <3>1. CASE Save(q)
      <4>1. request[q].user \in Users /\ request[q].guid \in Guids
        BY <1>0, <3>1 DEF Save, Requests, Idle
      <4>2. \/ UNCHANGED users
            \/ /\ rows' = rows \cup {request[q].user}
               /\ guid' = [guid EXCEPT ![request[q].user] = request[q].guid]
               /\ fresh' = fresh \/ fresh' = fresh \cup {request[q].user}
        BY <3>1 DEF Save
      <4>3. rows \subseteq Users /\ fresh \subseteq Users /\ guid \in [Users -> Guids \cup {NoGuid}]
        BY <1>0 DEF AccountsOK
      <4> QED
        BY <4>1, <4>2, <4>3 DEF users
    <3>2. CASE ~Save(q)
      <4>1. UNCHANGED users
        BY <1>2, <3>2 DEF Serve, Create, Get, ReadLine, ProcessCsvFile, UploadFails
      <4> QED
        BY <1>0, <4>1 DEF AccountsOK, users
    <3> QED
      BY <3>1, <3>2
  <2> QED
    BY <1>0, <2>1, <2>2, <2>3, <2>4
       DEF Types, AccountsOK, HandlersOK, LinksOK, HistoryOK, links, history
<1>3. CASE UNCHANGED vars
  BY <1>0, <1>3 DEF vars, Types, AccountsOK, HandlersOK, LinksOK, QueueOK, HistoryOK,
                    users, links, history
<1> QED
  BY <1>1, <1>2, <1>3

\* The types are kept.
LEMMA TypesStep == Types /\ [Next]_vars => Types'
BY HandlerTypes, OtherTypes DEF Next

\* They hold at first.
LEMMA TypesInit == Init => Types
<1> SUFFICES ASSUME Init
             PROVE  Types
  OBVIOUS
<1>1. AccountsOK
  BY DEF Init, AccountsOK
<1>2. HandlersOK
  BY DEF Init, HandlersOK
<1>3. LinksOK
  BY DEF Init, LinksOK, NoCount
<1>4. QueueOK
  BY DEF Init, QueueOK, EmptyBag, SetToBag
<1>5. HistoryOK
  BY DEF Init, HistoryOK
<1>6. request \in [Clients -> Requests]
  BY DEF Init, Requests
<1> QED
  BY <1>1, <1>2, <1>3, <1>4, <1>5, <1>6 DEF Types

-----------------------------------------------------------------------------
\* Accounts in use

\* A registration that is about to take over a row found it new, and the row
\* still is, or counts as contested.
ClaimsNew ==
  \A q \in Clients : request[q].at = "claim" => request[q].user \in fresh \cup contested

\* What is known of the accounts is inductive.
LEMMA ClaimsStep ==
  ASSUME Types, ClaimsNew, ClaimedOnce, [Next]_vars
  PROVE  ClaimsNew' /\ ClaimedOnce'
<1>0. /\ AccountsOK /\ HandlersOK /\ request \in [Clients -> Requests]
  BY DEF Types
<1>1. ASSUME UNCHANGED <<users, request, claimed, contested>>
      PROVE  ClaimsNew' /\ ClaimedOnce'
  BY <1>1 DEF ClaimsNew, ClaimedOnce, users
<1>2. ASSUME NEW w \in Workers, Handle(w)
      PROVE  ClaimsNew' /\ ClaimedOnce'
  <2>1. CASE Bind(w)
    BY <2>1 DEF Bind, ClaimsNew, ClaimedOnce, history
  <2>2. CASE ~Bind(w)
    <3>1. UNCHANGED <<users, request, claimed, contested>>
      BY <1>2, <2>2 DEF Handle, Take, Filter, Find, Insert, AddMail, SendEmails, Fails,
                        JobDone, Timeout, HandlerDies, history
    <3> QED
      BY <1>1, <3>1
  <2> QED
    BY <2>1, <2>2
<1>3. ASSUME NEW u \in Users, UpdateUserInfo(u)
      PROVE  ClaimsNew' /\ ClaimedOnce'
  <2>1. /\ fresh' = fresh \ {u} /\ rows' = rows /\ guid' = guid /\ request' = request
        /\ claimed' = IF u \in fresh THEN [claimed EXCEPT ![u] = guid[u]] ELSE claimed
        /\ contested' = IF \E q \in Clients : request[q].at = "claim" /\ request[q].user = u
                        THEN contested \cup {u} ELSE contested
    BY <1>3 DEF UpdateUserInfo
  <2>2. ClaimsNew'
    BY <2>1 DEF ClaimsNew
  <2>3. ASSUME NEW v \in rows, v \notin fresh', v \notin contested'
        PROVE  guid[v] = claimed'[v]
    <3>1. contested \subseteq contested'
      BY <2>1
    <3>2. CASE v = u /\ u \in fresh
      BY <1>0, <2>1, <3>2 DEF AccountsOK
    <3>3. CASE ~(v = u /\ u \in fresh)
      BY <1>0, <2>1, <2>3, <3>1, <3>3 DEF AccountsOK, ClaimedOnce
    <3> QED
      BY <3>2, <3>3
  <2> QED
    BY <2>1, <2>2, <2>3 DEF ClaimedOnce
<1>4. CASE \E u \in Users, e \in Events :
             RedeemEventCode(u, e) \/ \E valid \in BOOLEAN : BindUserEvent(u, e, valid)
  BY <1>1, <1>4 DEF RedeemEventCode, BindUserEvent, history
<1>5. ASSUME NEW q \in Clients, Serve(q)
      PROVE  ClaimsNew' /\ ClaimedOnce'
  <2>0. /\ UNCHANGED <<claimed, contested>>
        /\ \A p \in Clients \ {q} : request'[p] = request[p]
        /\ request[q] \in Requests
    BY <1>0, <1>5, RequestTypes DEF Serve, Create, Get, Save, ProcessCsvFile, ReadLine,
                                    UploadFails, history
  <2>1. CASE Save(q)
    <3>1. request'[q] = Idle
      BY <1>0, <2>1 DEF Save
    <3>2. fresh \subseteq fresh'
      BY <2>1 DEF Save, users
    <3>3. ClaimsNew'
      BY <2>0, <3>1, <3>2 DEF ClaimsNew, Idle
    <3>4. CASE UNCHANGED users
      BY <2>0, <3>3, <3>4 DEF ClaimedOnce, users
    <3>5. CASE ~UNCHANGED users
      <4>1. PICK u \in Users : u = request[q].user
        BY <1>0, <2>1 DEF Save, Requests, Idle
      <4>2. /\ rows' = rows \cup {u} /\ guid' = [guid EXCEPT ![u] = request[q].guid]
            /\ fresh' = IF request[q].at = "insert" THEN fresh \cup {u} ELSE fresh
        BY <2>1, <3>5, <4>1 DEF Save
      <4>3. u \in fresh' \cup contested
        BY <2>1, <4>1, <4>2 DEF Save, ClaimsNew
      <4>4. \A v \in Users \ {u} : guid'[v] = guid[v]
        BY <1>0, <4>2 DEF AccountsOK
      <4>5. ASSUME NEW v \in rows', v \notin fresh', v \notin contested'
            PROVE  guid'[v] = claimed'[v]
        <5>1. v # u /\ v \in rows /\ v \notin fresh /\ v \notin contested
          BY <2>0, <3>2, <4>2, <4>3, <4>5
        <5>2. guid[v] = claimed[v] /\ v \in Users
          BY <1>0, <5>1 DEF ClaimedOnce, AccountsOK
        <5> QED
          BY <2>0, <4>4, <5>1, <5>2
      <4> QED
        BY <3>3, <4>5 DEF ClaimedOnce
    <3> QED
      BY <3>3, <3>4, <3>5
  <2>2. CASE ~Save(q)
    <3>1. UNCHANGED users
      BY <1>5, <2>2 DEF Serve, Create, Get, ReadLine, ProcessCsvFile, UploadFails
    <3>2. request'[q].at = "claim" => request'[q].user \in fresh
      <4>1. CASE Get(q)
        <5>1. /\ request[q] \in [at : {"get", "claim", "insert"}, user : Users, guid : Guids]
          BY <2>0, <4>1 DEF Get, Requests, Idle
        <5>2. PICK u : u = request[q].user
          OBVIOUS
        <5>3. CASE MayTake(u) /\ u \in rows
          <6>1. request'[q] = [request[q] EXCEPT !.at = "claim"]
            BY <1>0, <4>1, <5>2, <5>3 DEF Get
          <6> QED
            BY <5>1, <5>2, <5>3, <6>1 DEF MayTake
        <5>4. CASE MayTake(u) /\ u \notin rows
          <6>1. request'[q] = [request[q] EXCEPT !.at = "insert"]
            BY <1>0, <4>1, <5>2, <5>4 DEF Get
          <6> QED
            BY <5>1, <6>1
        <5>5. CASE ~MayTake(u)
          <6>1. request'[q] = Idle
            BY <1>0, <4>1, <5>2, <5>5 DEF Get
          <6> QED
            BY <6>1 DEF Idle
        <5> QED
          BY <5>3, <5>4, <5>5
      <4>2. CASE \/ (\E u \in Users, g \in Guids : Create(q, u, g))
                 \/ (\E f \in Files : ProcessCsvFile(q, f)) \/ UploadFails(q)
        BY <1>0, <4>2 DEF Create, ProcessCsvFile, UploadFails, Idle
      <4>3. CASE ReadLine(q)
        <5>1. request[q] \in [at : {"lines"}, file : Files, todo : Seq(SUBSET Cells)]
          BY <2>0, <4>3 DEF ReadLine, Requests, Idle
        <5>2. request'[q] = Idle \/ \E rest : request'[q] = [request[q] EXCEPT !.todo = rest]
          BY <1>0, <4>3 DEF ReadLine
        <5>3. request'[q].at \in {"idle", "lines"}
          <6>1. CASE request'[q] = Idle
            BY <6>1 DEF Idle
          <6>2. ASSUME NEW rest, request'[q] = [request[q] EXCEPT !.todo = rest]
                PROVE  request'[q].at = "lines"
            BY <5>1, <6>2
          <6> QED
            BY <5>2, <6>1, <6>2
        <5> QED
          BY <5>3
      <4> QED
        BY <1>5, <2>2, <4>1, <4>2, <4>3 DEF Serve
    <3> QED
      BY <2>0, <3>1, <3>2 DEF ClaimsNew, ClaimedOnce, users
  <2> QED
    BY <2>1, <2>2
<1>6. CASE UNCHANGED vars
  BY <1>1, <1>6 DEF vars, history
<1> QED
  BY <1>2, <1>3, <1>4, <1>5, <1>6 DEF Next, Organise

\* An account in use stays its owner's, however many registrations with its
\* address are under way, unless one had looked while it was still new.
THEOREM AccountsAreKept == Spec => []ClaimedOnce
<1> DEFINE Inv == Types /\ ClaimsNew /\ ClaimedOnce
<1>1. Init => Inv
  <2>1. Init => ClaimsNew
    BY DEF Init, ClaimsNew, Idle
  <2>2. Init => ClaimedOnce
    BY DEF Init, ClaimedOnce
  <2> QED
    BY <2>1, <2>2, TypesInit
<1>2. Inv /\ [Next]_vars => Inv'
  BY TypesStep, ClaimsStep
<1>3. Inv => ClaimedOnce
  OBVIOUS
<1> HIDE DEF Inv
<1> QED
  BY <1>1, <1>2, <1>3, PTL DEF Spec

-----------------------------------------------------------------------------
\* Who is bound once

\* A handler between filterAlreadyRegisteredEmails and its commit.
Binds(w) == work[w].at \in {"find", "insert", "bind"}

\* Two of them at the same address of the same event count as an overlap ...
Apart == \A v, w \in Workers :
  v # w /\ Binds(v) /\ Binds(w) /\ Of(v).event = Of(w).event =>
    \A u \in work[v].emails \cap work[w].emails : <<u, Of(w).event>> \in overlap

\* ... and otherwise nobody has bound what one of them is about to bind.
BindsOwn(w) ==
  /\ work[w].at = "insert" => work[w].found \subseteq work[w].emails
  /\ work[w].at = "bind" => work[w].found \cup held[w] \subseteq work[w].emails
BindsFirst(w) ==
  Binds(w) => \A u \in work[w].emails :
    <<u, Of(w).event>> \in overlap \/ tickets[<<u, Of(w).event>>] = 0
OnceKnown == Apart /\ (\A w \in Workers : BindsOwn(w) /\ BindsFirst(w)) /\ BoundOnce

\* A handler that stops binding, or goes on with the same addresses.
LEMMA OnceGoesOn ==
  ASSUME OnceKnown, NEW w \in Workers,
         \A v \in Workers \ {w} : work'[v] = work[v] /\ held'[v] = held[v],
         tickets' = tickets, overlap \subseteq overlap',
         Binds(w)' => /\ Binds(w) /\ work'[w].emails = work[w].emails
                      /\ work'[w].job = work[w].job,
         BindsOwn(w)'
  PROVE  OnceKnown'
<1>1. BoundOnce'
  BY DEF OnceKnown, BoundOnce
<1>2. \A v \in Workers : BindsOwn(v)'
  BY DEF OnceKnown, BindsOwn
<1>3. \A v \in Workers : Binds(v)' => /\ Binds(v) /\ work'[v].emails = work[v].emails
                                      /\ Of(v)' = Of(v)
  BY DEF Binds, Of
<1>4. \A v \in Workers : BindsFirst(v)'
  BY <1>3 DEF OnceKnown, BindsFirst
<1>5. Apart'
  BY <1>3 DEF OnceKnown, Apart
<1> QED
  BY <1>1, <1>2, <1>4, <1>5 DEF OnceKnown

\* The commands that neither start to bind nor bind.
LEMMA OnceQuiet ==
  ASSUME Types, OnceKnown, NEW w \in Workers, Handle(w), ~Filter(w), ~Bind(w)
  PROVE  OnceKnown'
<1>0. /\ HandlersOK /\ \A v \in Workers \ {w} : work'[v] = work[v] /\ held'[v] = held[v]
      /\ work[w].at # "idle" => work[w] \in Handling
  BY OthersStay, BusySlots DEF Types
<1>1. tickets' = tickets /\ overlap' = overlap
  BY DEF Handle, Take, Find, Insert, AddMail, SendEmails, Fails, JobDone, Timeout,
         HandlerDies, links, history
<1>2. CASE Take(w)
  <2>1. PICK j : work'[w] = Started(j)
    BY <1>0, <1>2, Moves
  <2>2. ~Binds(w)' /\ BindsOwn(w)'
    BY <2>1 DEF Started, Binds, BindsOwn
  <2> QED
    BY <1>0, <1>1, <2>2, OnceGoesOn
<1>3. CASE Find(w)
  <2>1. work'[w] = [work[w] EXCEPT !.at = "insert", !.found = work[w].emails \cap rows,
                                   !.seen = work[w].emails \cap rows]
    BY <1>0, <1>3, Moves
  <2>2. work[w].at = "find" /\ work[w] \in Handling
    BY <1>0, <1>3 DEF Find
  <2>3. /\ work'[w].at = "insert" /\ work'[w].emails = work[w].emails
        /\ work'[w].job = work[w].job /\ work'[w].found = work[w].emails \cap rows
    BY <2>1, <2>2 DEF Handling
  <2>4. Binds(w) /\ BindsOwn(w)'
    BY <2>2, <2>3 DEF Binds, BindsOwn
  <2> QED
    BY <1>0, <1>1, <2>3, <2>4, OnceGoesOn
<1>4. CASE Insert(w)
  <2>1. work'[w] = [work[w] EXCEPT !.at = "bind"] /\ held'[w] = work[w].emails \ rows
    BY <1>0, <1>4, Moves DEF Insert, HandlersOK
  <2>2. work[w].at = "insert" /\ work[w] \in Handling
    BY <1>0, <1>4 DEF Insert
  <2>3. /\ work'[w].at = "bind" /\ work'[w].emails = work[w].emails
        /\ work'[w].job = work[w].job /\ work'[w].found = work[w].found
    BY <2>1, <2>2 DEF Handling
  <2>4. work[w].found \subseteq work[w].emails
    BY <2>2 DEF OnceKnown, BindsOwn
  <2>5. Binds(w) /\ BindsOwn(w)'
    BY <2>1, <2>2, <2>3, <2>4 DEF Binds, BindsOwn
  <2> QED
    BY <1>0, <1>1, <2>3, <2>5, OnceGoesOn
<1>5. CASE AddMail(w) \/ SendEmails(w) \/ Fails(w)
  <2>0. work[w] \in Handling
    BY <1>0, <1>5 DEF AddMail, SendEmails, Fails
  <2>1. work'[w].at \in {"done", "mail", "hung"}
    <3>1. CASE AddMail(w)
      <4>1. work'[w] = [work[w] EXCEPT !.at = "done"]
        BY <1>0, <3>1, Moves DEF AddMail
      <4> QED
        BY <2>0, <4>1 DEF Handling
    <3>2. CASE SendEmails(w)
      <4>1. PICK batch :
               work'[w] = [work[w] EXCEPT !.emails = work[w].emails \ batch,
                 !.at = IF work[w].emails \ batch = {} THEN "done" ELSE "mail"]
        BY <1>0, <3>2, Moves
      <4>2. PICK E : E = work[w].emails \ batch
        OBVIOUS
      <4>3. PICK p \in {"done", "mail"} : p = IF E = {} THEN "done" ELSE "mail"
        OBVIOUS
      <4>4. work'[w] = [work[w] EXCEPT !.emails = E, !.at = p]
        BY <4>1, <4>2, <4>3
      <4> QED
        BY <2>0, <4>3, <4>4 DEF Handling
    <3>3. CASE Fails(w)
      <4>1. work'[w] = [work[w] EXCEPT !.at = "hung"]
        BY <1>0, <3>3, Moves DEF Fails
      <4> QED
        BY <2>0, <4>1 DEF Handling
    <3> QED
      BY <1>5, <3>1, <3>2, <3>3
  <2>2. ~Binds(w)' /\ BindsOwn(w)'
    BY <2>1 DEF Binds, BindsOwn
  <2> QED
    BY <1>0, <1>1, <2>2, OnceGoesOn
<1>6. CASE JobDone(w) \/ HandlerDies(w) \/ (Timeout(w) /\ work[w].at = "hung")
  <2>1. work'[w] = Idle
    BY <1>0, <1>6, Moves
  <2>2. ~Binds(w)' /\ BindsOwn(w)'
    BY <2>1 DEF Binds, BindsOwn, Idle
  <2> QED
    BY <1>0, <1>1, <2>2, OnceGoesOn
<1>7. CASE Timeout(w) /\ work[w].at # "hung"
  <2>1. work'[w] = [work[w] EXCEPT !.late = TRUE] /\ held' = held
    BY <1>0, <1>7, Moves DEF Timeout
  <2>2. work[w] \in Handling
    BY <1>0, <1>7 DEF Timeout, Active
  <2>3. /\ work'[w].at = work[w].at /\ work'[w].emails = work[w].emails
        /\ work'[w].job = work[w].job /\ work'[w].found = work[w].found
    BY <2>1, <2>2 DEF Handling
  <2>4. (Binds(w)' => Binds(w)) /\ BindsOwn(w)'
    BY <2>1, <2>3 DEF OnceKnown, BindsOwn, Binds
  <2> QED
    BY <1>0, <1>1, <2>3, <2>4, OnceGoesOn
<1> QED
  BY <1>2, <1>3, <1>4, <1>5, <1>6, <1>7 DEF Handle

\* The filter leaves addresses that nobody has bound, and finds who else is at
\* them.
LEMMA OnceFilter ==
  ASSUME Types, OnceKnown, NEW w \in Workers, Filter(w)
  PROVE  OnceKnown'
<1>0. /\ HandlersOK /\ LinksOK /\ Handle(w)
      /\ \A v \in Workers \ {w} : work'[v] = work[v] /\ held'[v] = held[v]
  BY OthersStay DEF Types, Handle
<1>1. work[w].at = "filter" /\ work[w] \in Handling /\ Of(w) \in Jobs
  BY <1>0, BusySlots, JobTypes DEF Filter
<1>2. PICK e \in Events : e = Of(w).event
  BY <1>1 DEF Jobs
<1>3. PICK E \in SUBSET Users : E = Unregistered(Of(w).emails, e)
  BY <1>1 DEF Unregistered, Jobs
<1>4. /\ work'[w].emails = E /\ work'[w].job = work[w].job
      /\ work'[w].at \in {"done", "find"}
  <2>1. work'[w] = [work[w] EXCEPT !.emails = E, !.at = IF E = {} THEN "done" ELSE "find"]
    BY <1>0, <1>2, <1>3, Moves
  <2> QED
    BY <1>1, <2>1 DEF Handling
<1>5. tickets' = tickets
  BY DEF Filter, links
<1>6. /\ overlap \subseteq overlap'
      /\ \A v \in Workers : Binds(v) /\ Of(v).event = e =>
           \A u \in E \cap work[v].emails : <<u, e>> \in overlap'
  <2>1. overlap' = overlap \cup
          PairsOf(E \cap UNION {work[v].emails : v \in {v \in Workers : Binding(v, e)}}, e)
    BY <1>2, <1>3 DEF Filter
  <2>2. \A v \in Workers : Binds(v) /\ Of(v).event = e => Binding(v, e)
    BY DEF Binds, Binding
  <2>3. PICK O : O = UNION {work[v].emails : v \in {v \in Workers : Binding(v, e)}}
    OBVIOUS
  <2>4. \A v \in Workers : Binds(v) /\ Of(v).event = e => work[v].emails \subseteq O
    BY <2>2, <2>3
  <2>5. overlap' = overlap \cup ((E \cap O) \X {e})
    BY <2>1, <2>3 DEF PairsOf
  <2> QED
    BY <2>4, <2>5
<1>7. \A u \in E : tickets[<<u, e>>] = 0
  BY <1>0, <1>2, <1>3 DEF Unregistered, LinksOK, Pairs
<1>8. BoundOnce'
  BY <1>5, <1>6 DEF OnceKnown, BoundOnce
<1>9. Of(w)' = Of(w) /\ \A v \in Workers \ {w} : /\ Of(v)' = Of(v) /\ (Binds(v)' <=> Binds(v))
                                                 /\ BindsOwn(v)' <=> BindsOwn(v)
  BY <1>0, <1>4 DEF Of, Binds, BindsOwn
<1>10. ~Binds(w) /\ BindsOwn(w)'
  BY <1>1, <1>4 DEF Binds, BindsOwn
<1>11. \A v \in Workers : BindsOwn(v)'
  BY <1>9, <1>10 DEF OnceKnown
<1>12. ASSUME NEW v \in Workers
       PROVE  BindsFirst(v)'
  <2>1. CASE v = w
    BY <1>2, <1>4, <1>5, <1>7, <1>9, <2>1 DEF BindsFirst
  <2>2. CASE v # w
    BY <1>0, <1>5, <1>6, <1>9, <2>2 DEF OnceKnown, BindsFirst
  <2> QED
    BY <2>1, <2>2
<1>13. Apart'
  <2> SUFFICES ASSUME NEW v \in Workers, NEW x \in Workers, v # x, Binds(v)', Binds(x)',
                      Of(v)'.event = Of(x)'.event,
                      NEW u \in work'[v].emails \cap work'[x].emails
               PROVE  <<u, Of(x)'.event>> \in overlap'
    BY DEF Apart
  <2>1. CASE v = w
    BY <1>0, <1>2, <1>4, <1>6, <1>9, <2>1
  <2>2. CASE x = w
    BY <1>0, <1>2, <1>4, <1>6, <1>9, <2>2
  <2>3. CASE v # w /\ x # w
    BY <1>0, <1>6, <1>9, <2>3 DEF OnceKnown, Apart
  <2> QED
    BY <2>1, <2>2, <2>3
<1> QED
  BY <1>8, <1>11, <1>12, <1>13 DEF OnceKnown

\* A handler binds each of its addresses once, and nobody binds them after it.
LEMMA OnceBind ==
  ASSUME Types, OnceKnown, NEW w \in Workers, Bind(w)
  PROVE  OnceKnown'
<1>0. /\ HandlersOK /\ LinksOK /\ Handle(w)
      /\ \A v \in Workers \ {w} : work'[v] = work[v] /\ held'[v] = held[v]
  BY OthersStay DEF Types, Handle
<1>1. work[w].at = "bind" /\ work[w] \in Handling /\ Of(w) \in Jobs
  BY <1>0, BusySlots, JobTypes DEF Bind
<1>2. PICK e \in Events : e = Of(w).event
  BY <1>1 DEF Jobs
<1>3. PICK F : F = work[w].found \cup held[w]
  OBVIOUS
<1>4. F \subseteq work[w].emails /\ Binds(w)
  BY <1>1, <1>3 DEF OnceKnown, BindsOwn, Binds
<1>5. \A p \in Pairs : tickets'[p] = tickets[p] + IF p \in F \X {e} THEN 1 ELSE 0
  BY <1>2, <1>3 DEF Bind, BindUsersToEvent, PairsOf
<1>6. overlap' = overlap
  BY DEF Bind, history
<1>7. work'[w].at = "add"
  <2>1. work'[w] = [work[w] EXCEPT !.at = "add"]
    BY <1>0, Moves DEF Bind
  <2> QED
    BY <1>1, <2>1 DEF Handling
<1>8. \A v \in Workers \ {w} : /\ Of(v)' = Of(v) /\ (Binds(v)' <=> Binds(v))
                               /\ BindsOwn(v)' <=> BindsOwn(v)
  BY <1>0 DEF Of, Binds, BindsOwn
<1>9. ~Binds(w)' /\ BindsOwn(w)'
  BY <1>7 DEF Binds, BindsOwn
<1>10. BoundOnce'
  <2> SUFFICES ASSUME NEW p \in Pairs \ overlap
               PROVE  tickets'[p] <= 1
    BY <1>6 DEF BoundOnce
  <2>1. CASE p \in F \X {e}
    <3>1. tickets[p] = 0
      BY <1>2, <1>4, <2>1 DEF OnceKnown, BindsFirst
    <3> QED
      BY <1>5, <2>1, <3>1
  <2>2. CASE p \notin F \X {e}
    BY <1>0, <1>5, <2>2 DEF OnceKnown, BoundOnce, LinksOK
  <2> QED
    BY <2>1, <2>2
<1>11. ASSUME NEW v \in Workers
       PROVE  BindsFirst(v)'
  <2> SUFFICES ASSUME v # w, Binds(v), NEW u \in work[v].emails,
                      <<u, Of(v).event>> \notin overlap
               PROVE  tickets'[<<u, Of(v).event>>] = 0
    BY <1>0, <1>6, <1>8, <1>9 DEF BindsFirst
  <2>1. tickets[<<u, Of(v).event>>] = 0
    BY DEF OnceKnown, BindsFirst
  <2>2. <<u, Of(v).event>> \notin F \X {e}
    BY <1>2, <1>4 DEF OnceKnown, Apart
  <2>3. <<u, Of(v).event>> \in Pairs
    <3>1. work[v] \in Handling /\ Of(v) \in Jobs
      BY <1>0, BusySlots, JobTypes DEF Binds
    <3> QED
      BY <3>1 DEF Handling, Jobs, Pairs
  <2> QED
    BY <1>5, <2>1, <2>2, <2>3
<1>12. Apart'
  BY <1>0, <1>6, <1>8, <1>9 DEF OnceKnown, Apart
<1>13. \A v \in Workers : BindsOwn(v)'
  BY <1>8, <1>9 DEF OnceKnown
<1> QED
  BY <1>10, <1>11, <1>12, <1>13 DEF OnceKnown

\* What is known of bindings is inductive.
LEMMA OnceStep ==
  ASSUME Types, OnceKnown, [Next]_vars
  PROVE  OnceKnown'
<1>1. ASSUME NEW w \in Workers, Handle(w)
      PROVE  OnceKnown'
  BY <1>1, OnceQuiet, OnceFilter, OnceBind
<1>2. CASE ~\E w \in Workers : Handle(w)
  <2>1. UNCHANGED <<work, held, tickets, overlap>>
    BY <1>2 DEF Next, Organise, Serve, UpdateUserInfo, RedeemEventCode, BindUserEvent, Create,
                Get, Save, ProcessCsvFile, ReadLine, UploadFails, vars, links, history
  <2> QED
    BY <2>1 DEF OnceKnown, Apart, Binds, BindsOwn, BindsFirst, BoundOnce, Of
<1> QED
  BY <1>1, <1>2

\* An import binds nobody twice, however often its job is repeated, unless two
\* handlers were at the same address at the same time.
THEOREM ImportsBindOnce == Spec => []BoundOnce
<1>1. Init => Types /\ OnceKnown
  BY TypesInit DEF Init, OnceKnown, Apart, Binds, BindsOwn, BindsFirst, BoundOnce, Idle, NoCount
<1>2. Types /\ OnceKnown /\ [Next]_vars => (Types /\ OnceKnown)'
  BY TypesStep, OnceStep
<1>3. OnceKnown => BoundOnce
  BY DEF OnceKnown
<1> QED
  BY <1>1, <1>2, <1>3, PTL DEF Spec

-----------------------------------------------------------------------------
\* Who is mailed

\* A handler goes on with its job, and with the same addresses.
Goes(w) == work'[w].job = work[w].job /\ work'[w].late = work[w].late
GoesOn(w) == Goes(w) /\ work'[w].emails = work[w].emails

\* What a handler sends: a batch, or nothing of it.
Sends(w, batch) ==
  /\ work'[w].emails = work[w].emails \ batch /\ work'[w].at \in {"mail", "done"}
  /\ work'[w].at = "done" => work'[w].emails = {}
  /\ \/ mailed' = mailed \cup PairsOf(batch, Of(w).event) /\ unsent' = unsent
     \/ unsent' = unsent \cup PairsOf(batch, Of(w).event) /\ mailed' = mailed

\* What the commands of a handler leave in its slot, field by field.
LEMMA Fields ==
  ASSUME HandlersOK, NEW w \in Workers
  PROVE  /\ Filter(w) => /\ Goes(w) /\ work'[w].at \in {"done", "find"}
                         /\ work'[w].at = "done" => work'[w].emails = {}
         /\ Find(w) => /\ GoesOn(w) /\ work'[w].at = "insert"
                       /\ work'[w].found = work'[w].seen /\ work'[w].seen = work[w].emails \cap rows
         /\ Insert(w) => /\ GoesOn(w) /\ work'[w].at = "bind" /\ work'[w].found = work[w].found
         /\ Bind(w) => GoesOn(w) /\ work'[w].at = "add"
         /\ AddMail(w) => GoesOn(w) /\ work'[w].at = "done"
         /\ Fails(w) => GoesOn(w) /\ work'[w].at = "hung"
         /\ SendEmails(w) => Goes(w) /\ \E batch \in SUBSET work[w].emails : Sends(w, batch)
         /\ Timeout(w) /\ work[w].at # "hung" =>
              /\ work'[w].at = work[w].at /\ work'[w].job = work[w].job /\ work'[w].late
              /\ work'[w].emails = work[w].emails
              /\ work'[w].found = work[w].found /\ work'[w].seen = work[w].seen
<1>0. work[w].at # "idle" => work[w] \in Handling
  BY BusySlots
<1>1. PICK l : l = work[w]
  OBVIOUS
<1>2. ASSUME Filter(w)
      PROVE  /\ Goes(w) /\ work'[w].at \in {"done", "find"}
             /\ work'[w].at = "done" => work'[w].emails = {}
  <2>1. PICK E : E = Unregistered(Of(w).emails, Of(w).event)
    OBVIOUS
  <2>2. PICK p : p = IF E = {} THEN "done" ELSE "find"
    OBVIOUS
  <2>3. work'[w] = [l EXCEPT !.emails = E, !.at = p]
    BY <1>1, <1>2, <2>1, <2>2, Moves
  <2>4. l \in Handling
    BY <1>0, <1>1, <1>2 DEF Filter
  <2>5. /\ work'[w].job = l.job /\ work'[w].emails = E /\ work'[w].at = p
        /\ work'[w].late = l.late
    BY <2>3, <2>4 DEF Handling
  <2> QED
    BY <1>1, <2>2, <2>5 DEF Goes
<1>3. ASSUME Find(w)
      PROVE  /\ GoesOn(w) /\ work'[w].at = "insert"
             /\ work'[w].found = work'[w].seen /\ work'[w].seen = work[w].emails \cap rows
  <2>1. PICK F : F = work[w].emails \cap rows
    OBVIOUS
  <2>2. work'[w] = [l EXCEPT !.at = "insert", !.found = F, !.seen = F]
    BY <1>1, <1>3, <2>1, Moves
  <2>3. l \in Handling
    BY <1>0, <1>1, <1>3 DEF Find
  <2>4. /\ work'[w].job = l.job /\ work'[w].emails = l.emails /\ work'[w].at = "insert"
        /\ work'[w].late = l.late /\ work'[w].found = F /\ work'[w].seen = F
    BY <2>2, <2>3 DEF Handling
  <2> QED
    BY <1>1, <2>1, <2>4 DEF GoesOn, Goes
<1>4. ASSUME NEW p \in Stages, Move(w, p), work[w].at # "idle"
      PROVE  GoesOn(w) /\ work'[w].at = p /\ work'[w].found = work[w].found
  <2>1. work'[w] = [l EXCEPT !.at = p] /\ l \in Handling
    BY <1>0, <1>1, <1>4, Moves
  <2>2. /\ work'[w].job = l.job /\ work'[w].emails = l.emails /\ work'[w].at = p
        /\ work'[w].late = l.late /\ work'[w].found = l.found
    BY <2>1 DEF Handling
  <2> QED
    BY <1>1, <2>2 DEF GoesOn, Goes
<1>5. /\ Insert(w) => Move(w, "bind") /\ work[w].at # "idle"
      /\ Bind(w) => Move(w, "add") /\ work[w].at # "idle"
      /\ AddMail(w) => Move(w, "done") /\ work[w].at # "idle"
      /\ Fails(w) => Move(w, "hung") /\ work[w].at # "idle"
  BY DEF Insert, Bind, AddMail, Fails
<1>6. /\ Insert(w) => GoesOn(w) /\ work'[w].at = "bind" /\ work'[w].found = work[w].found
      /\ Bind(w) => GoesOn(w) /\ work'[w].at = "add"
      /\ AddMail(w) => GoesOn(w) /\ work'[w].at = "done"
      /\ Fails(w) => GoesOn(w) /\ work'[w].at = "hung"
  BY <1>4, <1>5 DEF Stages
<1>7. ASSUME SendEmails(w)
      PROVE  Goes(w) /\ \E batch \in SUBSET work[w].emails : Sends(w, batch)
  <2>1. PICK batch \in SUBSET l.emails :
          /\ work'[w] = [l EXCEPT !.emails = l.emails \ batch,
                                  !.at = IF l.emails \ batch = {} THEN "done" ELSE "mail"]
          /\ \/ mailed' = mailed \cup PairsOf(batch, Of(w).event) /\ unsent' = unsent
             \/ unsent' = unsent \cup PairsOf(batch, Of(w).event) /\ mailed' = mailed
    BY <1>1, <1>7, Moves
  <2>2. PICK E : E = l.emails \ batch
    OBVIOUS
  <2>3. PICK p : p = IF E = {} THEN "done" ELSE "mail"
    OBVIOUS
  <2>4. work'[w] = [l EXCEPT !.emails = E, !.at = p]
    BY <2>1, <2>2, <2>3
  <2>5. l \in Handling
    BY <1>0, <1>1, <1>7 DEF SendEmails
  <2>6. /\ work'[w].job = l.job /\ work'[w].emails = E /\ work'[w].at = p
        /\ work'[w].late = l.late
    BY <2>4, <2>5 DEF Handling
  <2>7. Sends(w, batch)
    BY <1>1, <2>1, <2>2, <2>3, <2>6 DEF Sends
  <2>8. Goes(w)
    BY <1>1, <2>6 DEF Goes
  <2> QED
    BY <1>1, <2>7, <2>8
<1>8. ASSUME Timeout(w), work[w].at # "hung"
      PROVE  /\ work'[w].at = work[w].at /\ work'[w].job = work[w].job /\ work'[w].late
             /\ work'[w].emails = work[w].emails
             /\ work'[w].found = work[w].found /\ work'[w].seen = work[w].seen
  <2>1. work'[w] = [l EXCEPT !.late = TRUE] /\ l \in Handling
    BY <1>0, <1>1, <1>8, Moves DEF Timeout, Active
  <2>2. /\ work'[w].at = l.at /\ work'[w].job = l.job /\ work'[w].late = TRUE
        /\ work'[w].emails = l.emails /\ work'[w].found = l.found /\ work'[w].seen = l.seen
    BY <2>1 DEF Handling
  <2> QED
    BY <1>1, <2>2
<1> QED
  BY <1>2, <1>3, <1>6, <1>7, <1>8

\* A handler's job once more.
Repeats(j, w) == j.name = Of(w).name /\ j.emails = Of(w).emails /\ j.event = Of(w).event

\* What the commands of a handler add to the queue and take from it.
LEMMA QueueEdits ==
  ASSUME HandlersOK, QueueOK, NEW w \in Workers
  PROVE  /\ Take(w) => \E j \in DOMAIN queue :
              /\ work'[w] = Started(j) /\ DOMAIN queue' \subseteq DOMAIN queue
              /\ DOMAIN queue \subseteq DOMAIN queue' \cup {j}
         /\ AddMail(w) =>
              DOMAIN queue' = DOMAIN queue \cup {Job("mail", work[w].emails, Of(w).event)}
         /\ Timeout(w) =>
              \/ /\ \E j : Repeats(j, w) /\ DOMAIN queue' = DOMAIN queue \cup {j}
                 /\ unsent' = unsent
              \/ /\ queue' = queue /\ unsent \subseteq unsent'
                 /\ Of(w).name = "mail" => PairsOf(Of(w).emails, Of(w).event) \subseteq unsent'
         /\ HandlerDies(w) => IF work[w].late THEN queue' = queue
                              ELSE DOMAIN queue' = DOMAIN queue \cup {Of(w)}
<1>1. ASSUME Take(w)
      PROVE  \E j \in DOMAIN queue :
               /\ work'[w] = Started(j) /\ DOMAIN queue' \subseteq DOMAIN queue
               /\ DOMAIN queue \subseteq DOMAIN queue' \cup {j}
  <2>1. PICK j \in DOMAIN queue : queue' = queue (-) SetToBag({j}) /\ work'[w] = Started(j)
    BY <1>1, Moves
  <2> QED
    BY <2>1, QueueMinus
<1>2. ASSUME AddMail(w)
      PROVE  DOMAIN queue' = DOMAIN queue \cup {Job("mail", work[w].emails, Of(w).event)}
  <2>1. Add(Job("mail", work[w].emails, Of(w).event)) /\ work[w].at # "idle"
    BY <1>2 DEF AddMail
  <2> QED
    BY <2>1, JobTypes, QueuePlus
<1>3. ASSUME Timeout(w)
      PROVE  \/ /\ \E j : Repeats(j, w) /\ DOMAIN queue' = DOMAIN queue \cup {j}
                /\ unsent' = unsent
             \/ /\ queue' = queue /\ unsent \subseteq unsent'
                /\ Of(w).name = "mail" => PairsOf(Of(w).emails, Of(w).event) \subseteq unsent'
  <2>1. work[w].at # "idle"
    BY <1>3 DEF Timeout, Active
  <2>2. CASE Of(w).attempt < MaxAttempts
    <3>1. PICK i \in Jobs : i = Of(w)
      BY <2>1, JobTypes
    <3>2. PICK j \in Jobs : j = [i EXCEPT !.attempt = @ + 1]
      BY <2>1, <3>1, JobTypes
    <3>3. Add(j) /\ unsent' = unsent
      BY <1>3, <2>2, <3>1, <3>2 DEF Timeout
    <3>4. j.name = i.name /\ j.emails = i.emails /\ j.event = i.event
      BY <3>2 DEF Jobs
    <3>5. Repeats(j, w) /\ DOMAIN queue' = DOMAIN queue \cup {j}
      BY <3>1, <3>3, <3>4, QueuePlus DEF Repeats
    <3> QED
      BY <3>3, <3>5
  <2>3. CASE ~(Of(w).attempt < MaxAttempts)
    BY <1>3, <2>3 DEF Timeout
  <2> QED
    BY <2>2, <2>3
<1>4. ASSUME HandlerDies(w)
      PROVE  IF work[w].late THEN queue' = queue ELSE DOMAIN queue' = DOMAIN queue \cup {Of(w)}
  <2>1. work[w].at # "idle"
    BY <1>4 DEF HandlerDies
  <2> QED
    BY <1>4, <2>1, JobTypes, QueuePlus DEF HandlerDies
<1> QED
  BY <1>1, <1>2, <1>3, <1>4

\* Whom a job or a handler is to mail is bound, or was inserted by somebody
\* else's transaction; whom a handler is to bind it has found or inserted.
Covered(emails, e) == \A u \in emails : <<u, e>> \in raced \/ tickets[<<u, e>>] > 0
BindsAll(w) ==
  /\ work[w].at = "insert" => work[w].found = work[w].seen
  /\ work[w].at = "bind" =>
       \A u \in work[w].emails :
         u \in work[w].found \/ u \in held[w] \/ <<u, Of(w).event>> \in raced
  /\ work[w].at = "add" => Covered(work[w].emails, Of(w).event)
  /\ work[w].at = "mail" => Of(w).name = "mail" /\ work[w].emails \subseteq Of(w).emails
  /\ work[w].at # "idle" /\ Of(w).name = "mail" => Covered(Of(w).emails, Of(w).event)
MailKnown ==
  /\ MailedAreBound /\ \A w \in Workers : BindsAll(w)
  /\ \A j \in DOMAIN queue : j.name = "mail" => Covered(j.emails, j.event)

\* Nothing unbinds, so who is covered stays covered.
LEMMA CoveredStays ==
  ASSUME Types, [Next]_vars
  PROVE  /\ raced \subseteq raced' /\ \A p \in Pairs : tickets[p] > 0 => tickets'[p] > 0
         /\ \A E \in SUBSET Users, e \in Events : Covered(E, e) => Covered(E, e)'
<1>1. raced \subseteq raced'
  BY DEF Next, Organise, Serve, Handle, UpdateUserInfo, RedeemEventCode, BindUserEvent, Create,
         Get, Save, ProcessCsvFile, ReadLine, UploadFails, Take, Filter, Find, Insert, Bind,
         AddMail, SendEmails, Fails, JobDone, Timeout, HandlerDies, vars, history
<1>2. \A p \in Pairs : tickets[p] > 0 => tickets'[p] > 0
  <2>1. CASE \E w \in Workers : Bind(w)
    <3>1. PICK bound : BindUsersToEvent(bound)
      BY <2>1 DEF Bind
    <3> QED
      BY <3>1 DEF BindUsersToEvent, Types, LinksOK
  <2>2. CASE ~\E w \in Workers : Bind(w)
    <3>1. tickets' = tickets
      BY <2>2 DEF Next, Organise, Serve, Handle, UpdateUserInfo, RedeemEventCode,
           BindUserEvent, Create, Get, Save, ProcessCsvFile, ReadLine, UploadFails, Take,
           Filter, Find, Insert, AddMail, SendEmails, Fails, JobDone, Timeout, HandlerDies,
           vars, links
    <3> QED
      BY <3>1
  <2> QED
    BY <2>1, <2>2
<1>3. ASSUME NEW E \in SUBSET Users, NEW e \in Events, Covered(E, e)
      PROVE  Covered(E, e)'
  <2>1. \A u \in E : <<u, e>> \in Pairs
    BY DEF Pairs
  <2> QED
    BY <1>1, <1>2, <1>3, <2>1 DEF Covered
<1> QED
  BY <1>1, <1>2, <1>3

\* The part of it that concerns the handler.
LEMMA MailHandler ==
  ASSUME Types, MailKnown, NEW w \in Workers, Handle(w)
  PROVE  BindsAll(w)'
<1>0. /\ HandlersOK /\ HandlersOK' /\ LinksOK /\ QueueOK /\ [Next]_vars
      /\ Handle(w)
  BY WorkTypes DEF Types, Next
<1>1. CASE work'[w].at = "idle"
  BY <1>1 DEF BindsAll
<1>2. CASE Take(w)
  <2>1. PICK j \in DOMAIN queue : work'[w] = Started(j)
    BY <1>0, <1>2, QueueEdits
  <2>2. j \in Jobs
    BY <1>0 DEF QueueOK
  <2>3. /\ work'[w].job = j /\ work'[w].emails = j.emails
        /\ work'[w].at = IF j.name = "save" THEN "filter" ELSE "mail"
    BY <2>1 DEF Started
  <2>4. j.name \in {"save", "mail"} /\ j.emails \in SUBSET Users /\ j.event \in Events
    BY <2>2 DEF Jobs
  <2>5. j.name = "mail" => Covered(j.emails, j.event)'
    BY <1>0, <2>1, <2>4, CoveredStays DEF MailKnown
  <2> QED
    BY <2>3, <2>4, <2>5 DEF BindsAll, Of
<1>3. CASE work'[w].at # "idle" /\ ~Take(w)
  <2>0. work[w] \in Handling /\ Of(w) \in Jobs /\ work[w].at # "idle"
    <3>1. work[w].at # "idle"
      BY <1>3 DEF Handle, Take, Filter, Find, Insert, Bind, AddMail, SendEmails, Fails,
                  JobDone, Timeout, HandlerDies, Active
    <3> QED
      BY <1>0, <3>1, BusySlots, JobTypes
  <2>1. PICK j \in Jobs, E \in SUBSET Users : j = Of(w) /\ E = work[w].emails
    BY <2>0 DEF Handling
  <2>2. j.emails \in SUBSET Users /\ j.event \in Events
    BY DEF Jobs
  <2>3. /\ BindsAll(w) /\ (j.name = "mail" => Covered(j.emails, j.event)')
        /\ Covered(E, j.event) => Covered(E, j.event)'
    BY <1>0, <2>0, <2>1, <2>2, CoveredStays DEF MailKnown, BindsAll
  <2>4. Of(w)' = work'[w].job
    BY DEF Of
  <2>5. CASE Filter(w)
    BY <1>0, <2>1, <2>3, <2>4, <2>5, Fields DEF BindsAll, Goes, Of
  <2>6. CASE Find(w)
    BY <1>0, <2>1, <2>3, <2>4, <2>6, Fields DEF BindsAll, GoesOn, Goes, Of
  <2>7. CASE Insert(w)
    <3>1. /\ work'[w].at = "bind" /\ work'[w].emails = E /\ work'[w].found = work[w].found
          /\ Of(w)' = j /\ held'[w] = E \ rows
      BY <1>0, <2>1, <2>4, <2>7, Fields DEF GoesOn, Goes, Of, Insert, HandlersOK
    <3>2. work[w].found = work[w].seen
      BY <2>3, <2>7 DEF BindsAll, Insert
    <3>3. \A u \in (E \cap rows) \ work[w].seen : <<u, j.event>> \in raced'
      BY <2>1, <2>7 DEF Insert, PairsOf
    <3> QED
      BY <2>3, <3>1, <3>2, <3>3 DEF BindsAll
  <2>8. CASE Bind(w)
    <3>1. work'[w].at = "add" /\ work'[w].emails = E /\ Of(w)' = j
      BY <1>0, <2>1, <2>4, <2>8, Fields DEF GoesOn, Goes, Of
    <3>2. work[w].at = "bind" /\ raced' = raced
      BY <2>8 DEF Bind, history
    <3>3. PICK F : F = work[w].found \cup held[w]
      OBVIOUS
    <3>4. \A p \in Pairs : tickets'[p] = tickets[p] + IF p \in F \X {j.event} THEN 1 ELSE 0
      BY <2>1, <2>8, <3>3 DEF Bind, BindUsersToEvent, PairsOf
    <3>5. ASSUME NEW u \in E, <<u, j.event>> \notin raced'
          PROVE  tickets'[<<u, j.event>>] > 0
      <4>1. u \in F
        BY <2>1, <2>3, <3>2, <3>3, <3>5 DEF BindsAll
      <4>2. PICK p \in Pairs : p = <<u, j.event>>
        BY <2>2 DEF Pairs
      <4>3. tickets'[p] = tickets[p] + 1 /\ tickets[p] \in Nat
        BY <1>0, <3>4, <4>1, <4>2 DEF LinksOK
      <4> QED
        BY <4>2, <4>3
    <3>6. Covered(E, j.event)'
      BY <3>5 DEF Covered
    <3> QED
      BY <2>3, <3>1, <3>6 DEF BindsAll
  <2>9. CASE AddMail(w) \/ Fails(w)
    BY <1>0, <2>1, <2>3, <2>4, <2>9, Fields DEF BindsAll, GoesOn, Goes, Of
  <2>10. CASE SendEmails(w)
    <3>1. /\ Goes(w) /\ work'[w].at \in {"mail", "done"} /\ work'[w].emails \subseteq E
      BY <1>0, <2>1, <2>10, Fields DEF Sends
    <3>2. j.name = "mail" /\ E \subseteq j.emails
      BY <2>1, <2>3, <2>10 DEF BindsAll, SendEmails
    <3> QED
      BY <2>1, <2>3, <2>4, <3>1, <3>2 DEF BindsAll, Goes, Of
  <2>11. CASE Timeout(w)
    <3>1. work[w].at # "hung"
      <4>1. work[w].at = "hung" => work'[w] = Idle
        BY <1>0, <2>11 DEF Timeout, HandlersOK
      <4> QED
        BY <1>3, <4>1 DEF Idle
    <3>2. /\ work'[w].at = work[w].at /\ work'[w].job = j /\ work'[w].emails = E
          /\ work'[w].found = work[w].found /\ work'[w].seen = work[w].seen
      BY <1>0, <2>1, <2>11, <3>1, Fields DEF Of
    <3>3. held' = held /\ raced' = raced /\ Of(w)' = j
      BY <2>4, <2>11, <3>2 DEF Timeout
    <3> QED
      BY <2>1, <2>3, <3>2, <3>3 DEF BindsAll
  <2>12. CASE JobDone(w) \/ HandlerDies(w)
    <3>1. work'[w] = Idle
      BY <1>0, <2>12 DEF JobDone, HandlerDies, HandlersOK
    <3> QED
      BY <1>3, <3>1 DEF Idle
  <2> QED
    BY <1>0, <1>3, <2>5, <2>6, <2>7, <2>8, <2>9, <2>10, <2>11, <2>12 DEF Handle
<1> QED
  BY <1>1, <1>2, <1>3

\* Who is mailed and what is still to be mailed is inductive.
LEMMA MailStep ==
  ASSUME Types, MailKnown, [Next]_vars
  PROVE  MailKnown'
<1>0. HandlersOK /\ LinksOK /\ QueueOK /\ mailed \subseteq Pairs
  BY DEF Types, HistoryOK
<1>1. ASSUME NEW j \in Jobs, j.name = "mail" => Covered(j.emails, j.event)
      PROVE  j.name = "mail" => Covered(j.emails, j.event)'
  BY <1>1, CoveredStays DEF Jobs
<1>2. \A j \in DOMAIN queue : j.name = "mail" => Covered(j.emails, j.event)'
  BY <1>0, <1>1 DEF MailKnown, QueueOK
<1>3. mailed' = mailed => MailedAreBound'
  BY <1>0, CoveredStays DEF MailKnown, MailedAreBound
<1>4. ASSUME NEW w \in Workers, Handle(w)
      PROVE  MailKnown'
  <2>1. ASSUME NEW v \in Workers
        PROVE  BindsAll(v)'
    <3>1. CASE v = w
      BY <1>4, <3>1, MailHandler
    <3>2. CASE v # w
      <4>1. work'[v] = work[v] /\ held'[v] = held[v] /\ Of(v)' = Of(v)
        BY <1>0, <1>4, <3>2, OthersStay DEF Of
      <4>2. BindsAll(v)
        BY DEF MailKnown
      <4>3. CASE work[v].at = "idle"
        BY <4>1, <4>3 DEF BindsAll
      <4>4. CASE work[v].at # "idle"
        <5>1. work[v] \in Handling /\ Of(v) \in Jobs
          BY <1>0, <4>4, BusySlots, JobTypes
        <5>2. PICK j \in Jobs, E \in SUBSET Users : j = Of(v) /\ E = work[v].emails
          BY <5>1 DEF Handling
        <5>3. j.emails \in SUBSET Users /\ j.event \in Events
          BY DEF Jobs
        <5>4. /\ Covered(E, j.event) => Covered(E, j.event)'
              /\ Covered(j.emails, j.event) => Covered(j.emails, j.event)'
              /\ raced \subseteq raced'
          BY <5>3, CoveredStays
        <5> QED
          BY <4>1, <4>2, <5>2, <5>4 DEF BindsAll
      <4> QED
        BY <4>3, <4>4
    <3> QED
      BY <3>1, <3>2
  <2>2. \A j \in DOMAIN queue' : j.name = "mail" => Covered(j.emails, j.event)'
    <3>1. CASE AddMail(w)
      <4>1. work[w].at = "add" /\ work[w] \in Handling /\ Of(w) \in Jobs
        BY <1>0, <3>1, BusySlots, JobTypes DEF AddMail
      <4>2. PICK E \in SUBSET Users, e \in Events : E = work[w].emails /\ e = Of(w).event
        BY <4>1 DEF Handling, Jobs
      <4>3. Covered(E, e)'
        BY <4>1, <4>2, CoveredStays DEF MailKnown, BindsAll
      <4>4. DOMAIN queue' = DOMAIN queue \cup {Job("mail", E, e)}
        BY <1>0, <3>1, <4>2, QueueEdits
      <4> QED
        BY <1>2, <4>3, <4>4 DEF Job
    <3>2. CASE Timeout(w) \/ HandlerDies(w)
      <4>1. work[w].at # "idle" /\ Of(w) \in Jobs
        <5>1. work[w].at # "idle"
          BY <3>2 DEF Timeout, HandlerDies, Active
        <5> QED
          BY <1>0, <5>1, JobTypes
      <4>2. PICK i \in Jobs : i = Of(w)
        BY <4>1
      <4>3. i.name = "mail" => Covered(i.emails, i.event)'
        BY <1>1, <4>1, <4>2 DEF MailKnown, BindsAll
      <4>4. \A j \in DOMAIN queue' \ DOMAIN queue :
              j.name = i.name /\ j.emails = i.emails /\ j.event = i.event
        <5>1. CASE Timeout(w)
          <6>1. \/ queue' = queue
                \/ \E j : Repeats(j, w) /\ DOMAIN queue' = DOMAIN queue \cup {j}
            BY <1>0, <5>1, QueueEdits
          <6> QED
            BY <4>2, <6>1 DEF Repeats
        <5>2. CASE HandlerDies(w)
          <6>1. queue' = queue \/ DOMAIN queue' = DOMAIN queue \cup {i}
            BY <1>0, <4>2, <5>2, QueueEdits
          <6> QED
            BY <6>1
        <5> QED
          BY <3>2, <5>1, <5>2
      <4> QED
        BY <1>2, <4>3, <4>4
    <3>3. CASE ~(AddMail(w) \/ Timeout(w) \/ HandlerDies(w))
      <4>1. DOMAIN queue' \subseteq DOMAIN queue
        <5>1. CASE Take(w)
          BY <1>0, <5>1, QueueEdits
        <5>2. CASE ~Take(w)
          BY <1>4, <3>3, <5>2 DEF Handle, Filter, Find, Insert, Bind, SendEmails, Fails, JobDone
        <5> QED
          BY <5>1, <5>2
      <4> QED
        BY <1>2, <4>1
    <3> QED
      BY <3>1, <3>2, <3>3
  <2>3. MailedAreBound'
    <3>1. CASE SendEmails(w)
      <4>1. work[w].at = "mail" /\ work[w] \in Handling /\ Of(w) \in Jobs
        BY <1>0, <3>1, BusySlots, JobTypes DEF SendEmails
      <4>2. PICK batch \in SUBSET work[w].emails :
              mailed' = mailed \/ mailed' = mailed \cup PairsOf(batch, Of(w).event)
        BY <1>0, <3>1, Fields DEF Sends
      <4>3. PICK j \in Jobs : j = Of(w)
        BY <4>1
      <4>4. batch \subseteq j.emails /\ Covered(j.emails, j.event)'
        BY <1>1, <4>1, <4>2, <4>3 DEF MailKnown, BindsAll
      <4>5. \A p \in PairsOf(batch, j.event) : p \in raced' \/ tickets'[p] > 0
        BY <4>4 DEF Covered, PairsOf
      <4>6. \A p \in mailed : p \in raced' \/ tickets'[p] > 0
        BY <1>0, CoveredStays DEF MailKnown, MailedAreBound
      <4> QED
        BY <4>2, <4>3, <4>5, <4>6 DEF MailedAreBound
    <3>2. CASE ~SendEmails(w)
      <4>1. mailed' = mailed
        BY <1>4, <3>2 DEF Handle, Take, Filter, Find, Insert, Bind, AddMail, Fails, JobDone,
                          Timeout, HandlerDies
      <4> QED
        BY <1>3, <4>1
    <3> QED
      BY <3>1, <3>2
  <2> QED
    BY <2>1, <2>2, <2>3 DEF MailKnown
<1>5. CASE ~\E w \in Workers : Handle(w)
  <2>1. UNCHANGED <<work, held, tickets, raced, mailed>>
    BY <1>5 DEF Next, Organise, Serve, UpdateUserInfo, RedeemEventCode, BindUserEvent, Create,
                Get, Save, ProcessCsvFile, ReadLine, UploadFails, vars, links, history
  <2>2. \A j \in DOMAIN queue' \ DOMAIN queue : j.name = "save"
    <3>1. CASE \E q \in Clients : ReadLine(q)
      BY <3>1, LineJob
    <3>2. CASE ~\E q \in Clients : ReadLine(q)
      <4>1. queue' = queue
        BY <1>5, <3>2 DEF Next, Organise, Serve, UpdateUserInfo, RedeemEventCode,
                  BindUserEvent, Create, Get, Save, ProcessCsvFile, UploadFails, vars
      <4> QED
        BY <4>1
    <3> QED
      BY <3>1, <3>2
  <2>3. \A j \in DOMAIN queue' : j.name = "mail" => Covered(j.emails, j.event)'
    BY <1>2, <2>2
  <2>4. \A w \in Workers : BindsAll(w)'
    BY <2>1 DEF MailKnown, BindsAll, Covered, Of
  <2> QED
    BY <1>3, <2>1, <2>3, <2>4 DEF MailKnown
<1> QED
  BY <1>4, <1>5

\* Who was mailed a ticket code is bound to the event and can redeem it,
\* whatever fails, dies or is repeated.
THEOREM CodesCanBeRedeemed == Spec => []MailedAreBound
<1>1. Init => Types /\ MailKnown
  BY TypesInit DEF Init, MailKnown, MailedAreBound, BindsAll, Idle, EmptyBag, SetToBag
<1>2. Types /\ MailKnown /\ [Next]_vars => (Types /\ MailKnown)'
  BY TypesStep, MailStep
<1>3. MailKnown => MailedAreBound
  BY DEF MailKnown
<1> QED
  BY <1>1, <1>2, <1>3, PTL DEF Spec

-----------------------------------------------------------------------------
\* Who is invited

\* A handler has mailed, or given up, whoever it does not still have to mail.
MailsAll(w) ==
  /\ work[w].at \in {"mail", "done"} /\ Of(w).name = "mail" =>
       \A u \in Of(w).emails :
         u \in work[w].emails \/ <<u, Of(w).event>> \in mailed \/ <<u, Of(w).event>> \in unsent
  /\ work[w].at = "done" /\ Of(w).name = "mail" => work[w].emails = {}
  /\ work[w].at \in {"filter", "find", "insert", "bind", "add"} => Of(w).name = "save"
SentKnown == InvitationsSent /\ \A w \in Workers : MailsAll(w)

\* Nothing is unmailed, and nothing is found again.
LEMMA SentGrows ==
  ASSUME Types, [Next]_vars
  PROVE  mailed \subseteq mailed' /\ unsent \subseteq unsent'
<1>1. mailed \subseteq mailed'
  BY DEF Next, Organise, Serve, Handle, UpdateUserInfo, RedeemEventCode, BindUserEvent, Create,
         Get, Save, ProcessCsvFile, ReadLine, UploadFails, Take, Filter, Find, Insert, Bind,
         AddMail, SendEmails, Fails, JobDone, Timeout, HandlerDies, vars
<1>2. unsent \subseteq unsent'
  BY DEF Next, Organise, Serve, Handle, UpdateUserInfo, RedeemEventCode, BindUserEvent, Create,
         Get, Save, ProcessCsvFile, ReadLine, UploadFails, Take, Filter, Find, Insert, Bind,
         AddMail, SendEmails, Fails, JobDone, Timeout, HandlerDies, vars, history
<1> QED
  BY <1>1, <1>2

\* A handler that goes on keeps its job, and keeps working on it.
LEMMA JobStays ==
  ASSUME HandlersOK, NEW w \in Workers, Handle(w), work[w].at # "idle",
         ~Timeout(w), ~HandlerDies(w), ~JobDone(w)
  PROVE  /\ Of(w)' = Of(w) /\ work'[w].at # "idle"
         /\ work'[w].late = work[w].late
<1>1. ~Take(w)
  BY DEF Take
<1>2. Goes(w) /\ work'[w].at # "idle"
  <2>1. CASE Filter(w)
    BY <2>1, Fields
  <2>2. CASE Find(w) \/ Insert(w) \/ Bind(w) \/ AddMail(w) \/ Fails(w)
    BY <2>2, Fields DEF GoesOn
  <2>3. CASE SendEmails(w)
    BY <2>3, Fields DEF Sends
  <2> QED
    BY <1>1, <2>1, <2>2, <2>3 DEF Handle
<1> QED
  BY <1>2 DEF Goes, Of

\* The part of it that concerns the handler.
LEMMA SentHandler ==
  ASSUME Types, SentKnown, NEW w \in Workers, Handle(w)
  PROVE  MailsAll(w)'
<1>0. /\ HandlersOK /\ QueueOK /\ [Next]_vars /\ MailsAll(w)
      /\ mailed \subseteq mailed' /\ unsent \subseteq unsent'
  BY SentGrows DEF Types, Next, SentKnown
<1>1. CASE JobDone(w) \/ HandlerDies(w) \/ (Timeout(w) /\ work[w].at = "hung")
  <2>1. work'[w] = Idle
    BY <1>0, <1>1 DEF JobDone, HandlerDies, Timeout, HandlersOK
  <2> QED
    BY <2>1 DEF MailsAll, Idle
<1>2. CASE Take(w)
  <2>1. PICK j \in DOMAIN queue : work'[w] = Started(j)
    BY <1>0, <1>2, QueueEdits
  <2>2. j \in Jobs
    BY <1>0 DEF QueueOK
  <2>3. /\ work'[w].job = j /\ work'[w].emails = j.emails
        /\ work'[w].at = IF j.name = "save" THEN "filter" ELSE "mail"
    BY <2>1 DEF Started
  <2> QED
    BY <2>3 DEF MailsAll, Of
<1>3. CASE Timeout(w) /\ work[w].at # "hung"
  <2>1. work'[w].at = work[w].at /\ work'[w].emails = work[w].emails /\ Of(w)' = Of(w)
    BY <1>0, <1>3, Fields DEF Of
  <2> QED
    BY <1>0, <2>1 DEF MailsAll
<1>4. CASE SendEmails(w)
  <2>1. PICK batch \in SUBSET work[w].emails : Sends(w, batch)
    BY <1>0, <1>4, Fields
  <2>2. Of(w)' = Of(w) /\ work[w].at = "mail"
    BY <1>0, <1>4, Fields DEF Goes, Of, SendEmails
  <2>3. \A u \in batch : <<u, Of(w).event>> \in mailed' \/ <<u, Of(w).event>> \in unsent'
    BY <2>1 DEF Sends, PairsOf
  <2>4. \A u \in work[w].emails : u \in batch \/ u \in work'[w].emails
    BY <2>1 DEF Sends
  <2>5. Of(w).name = "mail" => \A u \in Of(w).emails :
          \/ u \in work'[w].emails \/ <<u, Of(w).event>> \in mailed'
          \/ <<u, Of(w).event>> \in unsent'
    BY <1>0, <2>2, <2>3, <2>4 DEF MailsAll
  <2> QED
    BY <2>1, <2>2, <2>5 DEF MailsAll, Sends
<1>5. CASE Filter(w) \/ Find(w) \/ Insert(w) \/ Bind(w) \/ AddMail(w) \/ Fails(w)
  <2>1. work[w].at \in {"filter", "find", "insert", "bind", "add"}
    BY <1>5 DEF Filter, Find, Insert, Bind, AddMail, Fails
  <2>2. Of(w)' = Of(w)
    BY <1>0, <1>5, Fields DEF Goes, GoesOn, Of
  <2>3. Of(w)'.name = "save"
    BY <1>0, <2>1, <2>2 DEF MailsAll
  <2> QED
    BY <2>3 DEF MailsAll
<1> QED
  BY <1>1, <1>2, <1>3, <1>4, <1>5 DEF Handle

\* A mail that is due is still due after a handler's step, or is sent or lost.
LEMMA StillDue ==
  ASSUME Types, SentKnown, NEW w \in Workers, Handle(w), NEW p \in Pairs,
         p \notin mailed', p \notin unsent', MailDue(p)
  PROVE  MailDue(p)'
<1>0. /\ HandlersOK /\ QueueOK /\ [Next]_vars /\ MailsAll(w)
      /\ p \notin mailed /\ p \notin unsent
      /\ \A v \in Workers \ {w} : work'[v] = work[v]
  BY SentGrows, OthersStay DEF Types, Next, SentKnown
<1>1. ASSUME NEW v \in Workers, work[v].at = "add", p \in PairsOf(work[v].emails, Of(v).event)
      PROVE  MailDue(p)'
  <2>1. CASE v # w
    <3>1. work'[v].at = "add" /\ p \in PairsOf(work'[v].emails, Of(v)'.event)
      BY <1>0, <1>1, <2>1 DEF Of, PairsOf
    <3> QED
      BY <3>1 DEF MailDue, PairsOf
  <2>2. CASE v = w /\ AddMail(w)
    <3>1. Job("mail", work[w].emails, Of(w).event) \in DOMAIN queue'
      BY <1>0, <2>2, QueueEdits
    <3>2. PICK j \in DOMAIN queue' : j = Job("mail", work[w].emails, Of(w).event)
      BY <3>1
    <3>3. j.name = "mail" /\ p \in PairsOf(j.emails, j.event)
      BY <1>1, <2>2, <3>2 DEF Job
    <3> QED
      BY <3>3 DEF MailDue, BagToSet, PairsOf
  <2>3. CASE v = w /\ (Fails(w) \/ HandlerDies(w))
    BY <1>1, <2>3 DEF Fails, HandlerDies, Lost
  <2>4. CASE v = w /\ Timeout(w)
    <3>1. work'[w].at = "add" /\ p \in PairsOf(work'[w].emails, Of(w)'.event)
      BY <1>0, <1>1, <2>4, Fields DEF Of, PairsOf
    <3> QED
      BY <3>1 DEF MailDue, PairsOf
  <2> QED
    BY <1>1, <2>1, <2>2, <2>3, <2>4
       DEF Handle, Take, Filter, Find, Insert, Bind, SendEmails, JobDone
<1>2. ASSUME NEW j \in DOMAIN queue', j.name = "mail", p \in PairsOf(j.emails, j.event)
      PROVE  MailDue(p)'
  BY <1>2 DEF MailDue, BagToSet, PairsOf
<1>3. ASSUME NEW v \in Workers, work'[v].at # "idle", ~work'[v].late, Of(v)'.name = "mail",
             p \in PairsOf(Of(v)'.emails, Of(v)'.event)
      PROVE  MailDue(p)'
  BY <1>3 DEF MailDue, Active, PairsOf
<1>4. ASSUME NEW j \in DOMAIN queue, j.name = "mail", p \in PairsOf(j.emails, j.event)
      PROVE  MailDue(p)'
  <2>1. CASE Take(w)
    <3>1. PICK i \in DOMAIN queue : /\ work'[w] = Started(i)
                                    /\ DOMAIN queue \subseteq DOMAIN queue' \cup {i}
      BY <1>0, <2>1, QueueEdits
    <3>2. CASE j = i
      <4>1. work'[w].job = j /\ work'[w].at # "idle" /\ ~work'[w].late
        BY <3>1, <3>2 DEF Started
      <4>2. Of(w)' = j
        BY <4>1 DEF Of
      <4> QED
        BY <1>3, <1>4, <4>1, <4>2
    <3>3. CASE j # i
      BY <1>2, <1>4, <3>1, <3>3
    <3> QED
      BY <3>2, <3>3
  <2>2. CASE ~Take(w)
    <3>1. DOMAIN queue \subseteq DOMAIN queue'
      <4>1. CASE AddMail(w) \/ Timeout(w) \/ HandlerDies(w)
        BY <1>0, <4>1, QueueEdits
      <4>2. CASE ~(AddMail(w) \/ Timeout(w) \/ HandlerDies(w))
        BY <2>2, <4>2 DEF Handle, Filter, Find, Insert, Bind, SendEmails, Fails, JobDone
      <4> QED
        BY <4>1, <4>2
    <3> QED
      BY <1>2, <1>4, <3>1
  <2> QED
    BY <2>1, <2>2
<1>5. ASSUME NEW v \in Active, Of(v).name = "mail", p \in PairsOf(Of(v).emails, Of(v).event)
      PROVE  MailDue(p)'
  <2>0. v \in Workers /\ work[v].at # "idle" /\ ~work[v].late
    BY DEF Active
  <2>1. CASE v # w
    <3>1. work'[v] = work[v] /\ Of(v)' = Of(v)
      BY <1>0, <2>0, <2>1 DEF Of
    <3> QED
      BY <1>3, <1>5, <2>0, <3>1
  <2>2. CASE v = w /\ Timeout(w)
    <3>1. CASE \E j : Repeats(j, w) /\ DOMAIN queue' = DOMAIN queue \cup {j}
      BY <1>2, <1>5, <2>2, <3>1 DEF Repeats
    <3>2. CASE ~\E j : Repeats(j, w) /\ DOMAIN queue' = DOMAIN queue \cup {j}
      BY <1>0, <1>5, <2>2, <3>2, QueueEdits
    <3> QED
      BY <3>1, <3>2
  <2>3. CASE v = w /\ HandlerDies(w)
    <3>1. DOMAIN queue' = DOMAIN queue \cup {Of(w)}
      BY <1>0, <2>0, <2>3, QueueEdits
    <3>2. PICK j \in DOMAIN queue' : j = Of(w)
      BY <3>1
    <3> QED
      BY <1>2, <1>5, <2>3, <3>2
  <2>4. CASE v = w /\ JobDone(w)
    <3>1. work[w].at = "done" /\ work[w].emails = {}
      BY <1>0, <1>5, <2>0, <2>4 DEF JobDone, MailsAll
    <3>2. \A u \in Of(w).emails : <<u, Of(w).event>> \in mailed \/ <<u, Of(w).event>> \in unsent
      BY <1>0, <1>5, <2>4, <3>1 DEF MailsAll
    <3> QED
      BY <1>0, <1>5, <2>4, <3>2 DEF PairsOf
  <2>5. CASE v = w /\ ~Timeout(w) /\ ~HandlerDies(w) /\ ~JobDone(w)
    <3>1. Of(w)' = Of(w) /\ work'[w].at # "idle" /\ work'[w].late = work[w].late
      BY <1>0, <2>0, <2>5, JobStays
    <3> QED
      BY <1>3, <1>5, <2>0, <2>5, <3>1
  <2> QED
    BY <2>1, <2>2, <2>3, <2>4, <2>5
<1> QED
  BY <1>1, <1>4, <1>5 DEF MailDue, BagToSet

\* Who is bound and what is still to be mailed is inductive.
LEMMA SentStep ==
  ASSUME Types, OnceKnown, SentKnown, [Next]_vars
  PROVE  SentKnown'
<1>0. /\ HandlersOK /\ LinksOK /\ QueueOK
      /\ mailed \subseteq mailed' /\ unsent \subseteq unsent'
  BY SentGrows DEF Types
<1>1. ASSUME NEW w \in Workers, Handle(w)
      PROVE  SentKnown'
  <2>0. \A v \in Workers \ {w} : work'[v] = work[v]
    BY <1>0, <1>1, OthersStay
  <2>1. ASSUME NEW v \in Workers
        PROVE  MailsAll(v)'
    <3>1. CASE v = w
      BY <1>1, <3>1, SentHandler
    <3>2. CASE v # w
      BY <1>0, <2>0, <3>2 DEF SentKnown, MailsAll, Of
    <3> QED
      BY <3>1, <3>2
  <2>2. ASSUME NEW p \in Pairs, tickets'[p] > 0, p \notin mailed', p \notin unsent'
        PROVE  MailDue(p)'
    <3>1. CASE tickets[p] > 0
      <4>1. MailDue(p)
        BY <1>0, <2>2, <3>1 DEF SentKnown, InvitationsSent
      <4> QED
        BY <1>1, <2>2, <4>1, StillDue
    <3>2. CASE ~(tickets[p] > 0)
      <4>1. Bind(w)
        <5>1. ~Bind(w) => tickets' = tickets
          BY <1>1 DEF Handle, Take, Filter, Find, Insert, AddMail, SendEmails, Fails, JobDone,
                      Timeout, HandlerDies, links
        <5> QED
          BY <2>2, <3>2, <5>1
      <4>2. PICK F : F = work[w].found \cup held[w]
        OBVIOUS
      <4>3. tickets'[p] = tickets[p] + IF p \in PairsOf(F, Of(w).event) THEN 1 ELSE 0
        BY <4>1, <4>2 DEF Bind, BindUsersToEvent
      <4>4. p \in PairsOf(F, Of(w).event)
        BY <1>0, <2>2, <3>2, <4>3 DEF LinksOK
      <4>5. F \subseteq work[w].emails
        BY <4>1, <4>2 DEF Bind, OnceKnown, BindsOwn
      <4>6. work'[w].at = "add" /\ work'[w].emails = work[w].emails /\ Of(w)' = Of(w)
        BY <1>0, <4>1, Fields DEF GoesOn, Goes, Of
      <4>7. p \in PairsOf(work'[w].emails, Of(w)'.event)
        BY <4>4, <4>5, <4>6 DEF PairsOf
      <4> QED
        BY <4>6, <4>7 DEF MailDue, PairsOf
    <3> QED
      BY <3>1, <3>2
  <2> QED
    BY <2>1, <2>2 DEF SentKnown, InvitationsSent
<1>2. CASE ~\E w \in Workers : Handle(w)
  <2>1. UNCHANGED <<work, tickets, mailed, unsent>>
    BY <1>2 DEF Next, Organise, Serve, UpdateUserInfo, RedeemEventCode, BindUserEvent, Create,
                Get, Save, ProcessCsvFile, ReadLine, UploadFails, vars, links, history
  <2>2. DOMAIN queue \subseteq DOMAIN queue'
    <3>1. CASE \E q \in Clients : ReadLine(q)
      BY <3>1, LineJob
    <3>2. CASE ~\E q \in Clients : ReadLine(q)
      <4>1. queue' = queue
        BY <1>2, <3>2 DEF Next, Organise, Serve, UpdateUserInfo, RedeemEventCode,
                  BindUserEvent, Create, Get, Save, ProcessCsvFile, UploadFails, vars
      <4> QED
        BY <4>1
    <3> QED
      BY <3>1, <3>2
  <2>3. \A w \in Workers : MailsAll(w)'
    BY <2>1 DEF SentKnown, MailsAll, Of
  <2>4. \A p \in Pairs : MailDue(p) => MailDue(p)'
    BY <2>1, <2>2 DEF MailDue, BagToSet, Active, Of, PairsOf
  <2>5. InvitationsSent'
    BY <2>1, <2>4 DEF SentKnown, InvitationsSent
  <2> QED
    BY <2>3, <2>5 DEF SentKnown
<1> QED
  BY <1>1, <1>2

\* Everybody an import has bound is mailed, or will be, unless the mail was
\* given up, refused, or lost between the commit and the add of its job.
THEOREM EveryBoundUserIsInvited == Spec => []InvitationsSent
<1>1. Init => Types /\ OnceKnown /\ SentKnown
  <2>1. Init => OnceKnown
    BY DEF Init, OnceKnown, Apart, Binds, BindsOwn, BindsFirst, BoundOnce, Idle, NoCount
  <2>2. Init => SentKnown
    BY DEF Init, SentKnown, InvitationsSent, MailsAll, Idle, NoCount
  <2> QED
    BY <2>1, <2>2, TypesInit
<1>2. Types /\ OnceKnown /\ SentKnown /\ [Next]_vars => (Types /\ OnceKnown /\ SentKnown)'
  BY TypesStep, OnceStep, SentStep
<1>3. SentKnown => InvitationsSent
  BY DEF SentKnown
<1> QED
  BY <1>1, <1>2, <1>3, PTL DEF Spec
=============================================================================
