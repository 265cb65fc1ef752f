------------------------------ MODULE Accounts ------------------------------
(***************************************************************************)
(* Users, their links to events and their invitations (src/src/modules/    *)
(* user, userEvents): a CSV file becomes one job of the queue 'user' a     *)
(* line, whose handler saves and binds in one transaction and leaves the   *)
(* mail to another job.  A transaction shows its rows when it commits; one *)
(* that inserts an e-mail waits for another that holds it.                 *)
(***************************************************************************)
EXTENDS Naturals, Sequences, FiniteSets, Bags

CONSTANTS
  Users,       \* e-mail addresses
  Cells,       \* what stands in a CSV file, invalid addresses too
  Guids,       \* ids of Cognito
  NoGuid,      \* of a user that was saved by an import
  Events,
  Files,       \* uploads, [event, lines]: a line is a set of cells
  Batch,       \* destinations of one bulk mail (49)
  Workers, Clients, MaxAttempts,
  Budgets      \* bounds: how often the environment does each thing

Uses == {"upload", "create", "update", "link", "redeem", "slow", "death", "fault"}

ASSUME AccountsAssumption ==
  /\ Users \subseteq Cells /\ NoGuid \notin Guids
  /\ Files \subseteq [event : Events, lines : Seq(SUBSET Cells)]
  /\ Batch \in Nat \ {0} /\ MaxAttempts \in Nat \ {0} /\ Budgets \subseteq [Uses -> Nat]

VARIABLES
  rows,     \* users that have a row
  fresh,    \* those with is_new
  guid,     \* per user: the guid of the row
  held,     \* per slot: rows its transaction has inserted
  tickets,  \* per user and event: rows of user_events with the ticket code
  byHand,   \* the same: rows linked by an organiser, redeemed
  roles,    \* the same: rows of user_events_roles
  redeemed, \* pairs whose ticket rows are redeemed
  mailed,   \* pairs SES has sent the code to
  request, queue, work, left,
  claimed,  \* history, per user: the guid when the row stopped being new
  contested,\* history: users updated while a creation was about to overwrite them
  raced,    \* history: pairs inserted by another transaction after the SELECT
  overlap,  \* history: pairs handled by two handlers at the same time
  unsent    \* history: pairs whose mail was lost after the commit

users   == <<rows, fresh, guid>>
links   == <<tickets, byHand, roles, redeemed>>
history == <<claimed, contested, raced, overlap, unsent>>
vars    == <<users, held, links, mailed, request, queue, work, left, history>>

Pairs == Users \X Events
Idle == [at |-> "idle"]
NoCount == [p \in Pairs |-> 0]
Job(name, emails, e) == [name |-> name, emails |-> emails, event |-> e, attempt |-> 1]
Add(j) == queue' = queue (+) SetToBag({j})
Spend(use) == left[use] > 0 /\ left' = [left EXCEPT ![use] = @ - 1]

Init ==
  /\ rows \in SUBSET Users /\ fresh = rows /\ guid = [u \in Users |-> NoGuid]
  /\ held = [w \in Workers |-> {}]
  /\ tickets = NoCount /\ byHand = NoCount /\ roles = NoCount
  /\ redeemed = {} /\ mailed = {}
  /\ request = [q \in Clients |-> Idle] /\ work = [w \in Workers |-> Idle]
  /\ queue = EmptyBag /\ left \in Budgets
  /\ claimed = guid /\ contested = {} /\ raced = {} /\ overlap = {} /\ unsent = {}

-----------------------------------------------------------------------------
\* Accounts

\* Mutant: an account can be taken over.
TakenOver(u) == TRUE
MayTake(u) == u \notin rows \/ u \in fresh

\* ValidateIfUserIsUnique looks for a row with this e-mail and this guid.
Create(q, u, g) ==
  /\ request[q].at = "idle" /\ Spend("create")
  /\ ~(u \in rows /\ guid[u] = g)
  /\ request' = [request EXCEPT ![q] = [at |-> "get", user |-> u, guid |-> g]]
  /\ UNCHANGED <<users, held, links, mailed, queue, work, history>>

Get(q) ==
  /\ request[q].at = "get"
  /\ LET u == request[q].user
     IN  IF MayTake(u)
         THEN request' = [request EXCEPT ![q].at = IF u \in rows THEN "claim" ELSE "insert"]
         ELSE request' = [request EXCEPT ![q] = Idle]
  /\ UNCHANGED <<users, held, links, mailed, queue, work, left, history>>

\* e-mail and guid are unique: the second row, or the second use, throws.
Save(q) ==
  /\ request[q].at \in {"insert", "claim"}
  /\ LET u == request[q].user  g == request[q].guid
         clash == \/ \E v \in Users \ {u} : guid[v] = g
                  \/ request[q].at = "insert" /\ u \in rows
     IN  /\ request[q].at = "insert" => \A w \in Workers : u \notin held[w]
         /\ IF clash THEN UNCHANGED users
            ELSE /\ rows' = rows \cup {u} /\ guid' = [guid EXCEPT ![u] = g]
                 /\ fresh' = IF request[q].at = "insert" THEN fresh \cup {u} ELSE fresh
  /\ request' = [request EXCEPT ![q] = Idle]
  /\ UNCHANGED <<held, links, mailed, queue, work, left, history>>

\* The client clears is_new with the first change of the profile.
UpdateUserInfo(u) ==
  /\ Spend("update") /\ u \in rows /\ guid[u] # NoGuid
  /\ fresh' = fresh \ {u}
  /\ claimed' = IF u \in fresh THEN [claimed EXCEPT ![u] = guid[u]] ELSE claimed
  /\ contested' = IF \E q \in Clients : request[q].at = "claim" /\ request[q].user = u
                  THEN contested \cup {u} ELSE contested
  /\ UNCHANGED <<rows, guid, held, links, mailed, request, queue, work,
                 raced, overlap, unsent>>

LinkUserToEvent(u, e) == byHand' = [byHand EXCEPT ![<<u, e>>] = @ + 1]
LinkUserAndRoleToEvent(u, e) == roles' = [roles EXCEPT ![<<u, e>>] = @ + 1]

\* bindUserEvent, one transaction.  A role that does not exist is skipped.
BindUserEvent(u, e, roleIsValid) ==
  /\ Spend("link") /\ u \in rows
  /\ LinkUserToEvent(u, e)
  /\ IF roleIsValid THEN LinkUserAndRoleToEvent(u, e) ELSE UNCHANGED roles
  /\ UNCHANGED <<users, held, tickets, redeemed, mailed, request, queue, work, history>>

\* checkCode and the UPDATE: nothing deletes rows between them.
RedeemEventCode(u, e) ==
  /\ Spend("redeem") /\ tickets[<<u, e>>] > 0
  /\ redeemed' = redeemed \cup {<<u, e>>}
  /\ UNCHANGED <<users, held, tickets, byHand, roles, mailed, request, queue, work, history>>

-----------------------------------------------------------------------------
\* Import: processCsvFile

ProcessCsvFile(q, f) ==
  /\ request[q].at = "idle" /\ Spend("upload")
  /\ request' = [request EXCEPT ![q] = [at |-> "lines", file |-> f, todo |-> f.lines]]
  /\ UNCHANGED <<users, held, links, mailed, queue, work, history>>

ReadLine(q) ==
  /\ request[q].at = "lines"
  /\ LET todo == request[q].todo
         emails == Head(todo) \cap Users
     IN  IF todo = <<>>
         THEN request' = [request EXCEPT ![q] = Idle] /\ UNCHANGED queue
         ELSE /\ request' = [request EXCEPT ![q].todo = Tail(todo)]
              /\ IF emails = {} THEN UNCHANGED queue
                 ELSE Add(Job("save", emails, request[q].file.event))
  /\ UNCHANGED <<users, held, links, mailed, work, left, history>>

\* A malformed line or the death of the process: the lines before are queued.
UploadFails(q) ==
  /\ request[q].at = "lines" /\ Spend("fault")
  /\ request' = [request EXCEPT ![q] = Idle]
  /\ UNCHANGED <<users, held, links, mailed, queue, work, history>>

-----------------------------------------------------------------------------
\* Handlers

Active == {w \in Workers : work[w].at # "idle" /\ ~work[w].late}
Of(w) == work[w].job
PairsOf(emails, e) == emails \X {e}
Move(w, point) == work' = [work EXCEPT ![w].at = point]

Take(w) ==
  /\ work[w].at = "idle"
  /\ \E j \in BagToSet(queue) :
       /\ queue' = queue (-) SetToBag({j})
       /\ work' = [work EXCEPT ![w] =
            [at |-> IF j.name = "save" THEN "filter" ELSE "mail", job |-> j,
             emails |-> j.emails, found |-> {}, seen |-> {}, late |-> FALSE]]
  /\ UNCHANGED <<users, held, links, mailed, request, left, history>>

\* Mutant: nobody is filtered out.
Everybody(emails, e) == emails
Unregistered(emails, e) == {u \in emails : tickets[<<u, e>>] + byHand[<<u, e>>] = 0}

Binding(w, e) == work[w].at \in {"find", "insert", "bind"} /\ Of(w).event = e

\* filterAlreadyRegisteredEmails, before the transaction.
Filter(w) ==
  /\ work[w].at = "filter"
  /\ LET e == Of(w).event
         emails == Unregistered(Of(w).emails, e)
         others == UNION {work[v].emails : v \in {v \in Workers : Binding(v, e)}}
     IN  /\ work' = [work EXCEPT ![w].emails = emails,
                                 ![w].at = IF emails = {} THEN "done" ELSE "find"]
         /\ overlap' = overlap \cup PairsOf(emails \cap others, e)
  /\ UNCHANGED <<users, held, links, mailed, request, queue, left,
                 claimed, contested, raced, unsent>>

\* Mutant: only the ids that the INSERT returns.
OnlyNew(emails) == {}
Existing(emails) == emails \cap rows

Find(w) ==
  /\ work[w].at = "find"
  /\ work' = [work EXCEPT ![w].at = "insert", ![w].found = Existing(work[w].emails),
                          ![w].seen = work[w].emails \cap rows]
  /\ UNCHANGED <<users, held, links, mailed, request, queue, left, history>>

\* ON CONFLICT DO NOTHING returns the ids of the rows it has inserted.
Insert(w) ==
  /\ work[w].at = "insert"
  /\ \A v \in Workers \ {w} : held[v] \cap work[w].emails = {}
  /\ held' = [held EXCEPT ![w] = work[w].emails \ rows]
  /\ raced' = raced \cup
       PairsOf((work[w].emails \cap rows) \ work[w].seen, Of(w).event)
  /\ Move(w, "bind")
  /\ UNCHANGED <<users, links, mailed, request, queue, left, claimed, contested,
                 overlap, unsent>>

BindUsersToEvent(bound) ==
  tickets' = [p \in Pairs |-> tickets[p] + (IF p \in bound THEN 1 ELSE 0)]

\* The users are bound and the transaction commits.
Bind(w) ==
  /\ work[w].at = "bind"
  /\ BindUsersToEvent(PairsOf(work[w].found \cup held[w], Of(w).event))
  /\ rows' = rows \cup held[w] /\ fresh' = fresh \cup held[w]
  /\ held' = [held EXCEPT ![w] = {}]
  /\ Move(w, "add")
  /\ UNCHANGED <<guid, byHand, roles, redeemed, mailed, request, queue, left, history>>

AddMail(w) ==
  /\ work[w].at = "add" /\ Move(w, "done")
  /\ Add(Job("mail", work[w].emails, Of(w).event))
  /\ UNCHANGED <<users, held, links, mailed, request, left, history>>

\* Mutant: what does not fit in a bulk mail is left out.
NoRest(emails, batch) == {}
Rest(emails, batch) == emails \ batch

\* sendToQueue sends a batch after the other, and EmailService swallows what
\* SES says.
SendEmails(w) ==
  /\ work[w].at = "mail"
  /\ \E batch \in SUBSET work[w].emails :
       /\ Cardinality(batch) = Batch \/ (Cardinality(batch) < Batch /\ batch = work[w].emails)
       /\ LET rest == Rest(work[w].emails, batch)
              sent == PairsOf(batch, Of(w).event)
          IN  /\ work' = [work EXCEPT ![w].emails = rest,
                                      ![w].at = IF rest = {} THEN "done" ELSE "mail"]
              /\ \/ mailed' = mailed \cup sent /\ UNCHANGED <<left, unsent>>
                 \/ Spend("fault") /\ unsent' = unsent \cup sent /\ UNCHANGED mailed
  /\ UNCHANGED <<users, held, links, request, queue, claimed, contested, raced, overlap>>

\* What is lost when a handler goes no further: after the commit a repeated job
\* finds everybody registered.
Lost(w) == IF work[w].at = "add" THEN PairsOf(work[w].emails, Of(w).event) ELSE {}

\* An exception is logged, the transaction rolled back, jobDone() not called.
Fails(w) ==
  /\ work[w].at \in {"filter", "find", "insert", "bind", "add"} /\ Spend("fault")
  /\ Move(w, "hung") /\ held' = [held EXCEPT ![w] = {}]
  /\ unsent' = unsent \cup Lost(w)
  /\ UNCHANGED <<users, links, mailed, request, queue, claimed, contested, raced, overlap>>

JobDone(w) ==
  /\ work[w].at = "done" \/ (work[w].at = "hung" /\ work[w].late)
  /\ work' = [work EXCEPT ![w] = Idle]
  /\ UNCHANGED <<users, held, links, mailed, request, queue, left, history>>

\* After 100 seconds the job is repeated; a slow handler goes on all the same.
Timeout(w) ==
  /\ w \in Active /\ work[w].at # "done"
  /\ IF Of(w).attempt < MaxAttempts
     THEN Add([Of(w) EXCEPT !.attempt = @ + 1]) /\ UNCHANGED unsent
     ELSE /\ UNCHANGED queue
          /\ unsent' = IF Of(w).name = "mail"
                       THEN unsent \cup PairsOf(Of(w).emails, Of(w).event) ELSE unsent
  /\ IF work[w].at = "hung"
     THEN work' = [work EXCEPT ![w] = Idle] /\ UNCHANGED left
     ELSE work' = [work EXCEPT ![w].late = TRUE] /\ Spend("slow")
  /\ UNCHANGED <<users, held, links, mailed, request, claimed, contested, raced, overlap>>

HandlerDies(w) ==
  /\ work[w].at # "idle" /\ Spend("death")
  /\ work' = [work EXCEPT ![w] = Idle] /\ held' = [held EXCEPT ![w] = {}]
  /\ IF work[w].late THEN UNCHANGED queue ELSE Add(Of(w))
  /\ unsent' = unsent \cup Lost(w)
  /\ UNCHANGED <<users, links, mailed, request, claimed, contested, raced, overlap>>

-----------------------------------------------------------------------------
Organise == \E u \in Users, e \in Events :
  \/ UpdateUserInfo(u) \/ RedeemEventCode(u, e)
  \/ \E valid \in BOOLEAN : BindUserEvent(u, e, valid)

Serve(q) ==
  \/ \E u \in Users, g \in Guids : Create(q, u, g)
  \/ \E f \in Files : ProcessCsvFile(q, f)
  \/ Get(q) \/ Save(q) \/ ReadLine(q) \/ UploadFails(q)

Handle(w) ==
  \/ Take(w) \/ Filter(w) \/ Find(w) \/ Insert(w) \/ Bind(w) \/ AddMail(w)
  \/ SendEmails(w) \/ Fails(w) \/ JobDone(w) \/ Timeout(w) \/ HandlerDies(w)

Next ==
  \/ Organise
  \/ \E q \in Clients : Serve(q)
  \/ \E w \in Workers : Handle(w)

Spec == Init /\ [][Next]_vars

-----------------------------------------------------------------------------
\* Properties

\* Who was mailed a ticket code is bound to the event and can redeem it, unless
\* another transaction inserted the address between SELECT and INSERT.
MailedAreBound == \A p \in mailed \ raced : tickets[p] > 0

\* Everybody an import has bound is mailed, or will be, unless the mail was
\* given up, refused, or lost between the commit and the add of its job.
MailDue(p) ==
  \/ \E w \in Workers : work[w].at = "add" /\ p \in PairsOf(work[w].emails, Of(w).event)
  \/ \E j \in BagToSet(queue) \cup {Of(w) : w \in Active} :
       j.name = "mail" /\ p \in PairsOf(j.emails, j.event) /\ ~(p \in mailed)
InvitationsSent == \A p \in Pairs :
  tickets[p] > 0 => p \in mailed \cup unsent \/ MailDue(p)

\* An import binds nobody twice, however often its job is repeated, unless two
\* handlers were at the same address at the same time.
BoundOnce == \A p \in Pairs \ overlap : tickets[p] <= 1

\* An account in use stays its owner's: a later registration with the same
\* address takes over only rows that are new when it looks.
ClaimedOnce == \A u \in rows \ (fresh \cup contested) : guid[u] = claimed[u]
=============================================================================
