# TLA+ models of the ENGAGE API

The program is a NestJS back end: `main.ts` forks one process per CPU and
replaces each that dies, the processes share Redis (keys, socket.io adapter,
Bull queues) and Postgres, and call Twilio, Vonage and AWS. Its behaviour under
concurrency is in what those processes do to the same keys and rows between two
`await`s. That is what these modules are about: one step is one Redis command,
one statement, one call of a service or one Bull call, and everything may run
in between.

Every definition that stands for code has a row in `PROJECT.json` ("map") with
the lines it is translated from. Paths below are relative to `src/src`.

## Inventory

| component (code) | state | operations | what is hard | what makes it correct |
|---|---|---|---|---|
| Network rooms (`modules/networkRoom`) | lists `queue`, `queueSwitch`, `roomsTwilio`; sorted set `rooms`; two flags; redis-lock keys; jobs; fields of sockets | gateway: requestRoom, switchRoom, cancelRequest, handleDisconnect; Twilio's callback; jobs createRooms, clearExpiredRooms, findAvailableRooms, sendRoomToPairs, switchRoom | LRANGE and LTRIM apart, ZSCORE and ZINCRBY apart, handlers that return without jobDone(), keys that expire, wake-ups | nobody waits twice or is trimmed away unread, rooms hold four, counts keep up with guests, two waiters are paired |
| `parallel` (`shared/utils/controlFlow.utils.ts`) | four counters | spawn, done | counters that move twice | window kept; who is told when |
| Intermissions (`modules/event`) | isOnIntermission, intermissionStartedAt, intermissionTime; delayed jobs | start, finish, both jobs, getIntermissionStatus | check before a queued write, stale delayed jobs, retries | ends, by its own clock, with its data |
| Live viewers (`modules/event`, `shared/gateways`) | attendeesConnected, attendees, admins, connectedUsersEvents, viewersCounter | handleConnection, connectToLive, disconnectToLive, handleDisconnect, changeViewersCounter | read-modify-write on lists and on the count, jobs without an order | every viewer counted once and told |
| Stage live, infrastructure jobs (`event.service.ts:63-133`, `event.processor.ts`) | column `on_live`, timers of 25 s, jobs with and without an id | updateLive, startPreviewLiveInfra, destroyInfra, updateEventInfo with removeJobs and addDestroyInfraToQueue, five job handlers | a timer against a stop, a repeated start against a stop, one id for several jobs, a pattern that matches too much | a finished stage stays finished, a preview stops, a schedule stays |
| Live management (`modules/liveManagement`) | seven AWS resources per stage, the row with their ids | setupInfra, start and stop channel, destroyInfra, deleteCDNDistributionAndMediaLiveInput | ids are saved last, two setups at once, names | what exists is known; a stage is built once |
| Events: paging, update (`event.service.ts`, `event.repository.ts`) | Postgres | four lists, update | `skip`, `ended`; a shift and an update, not in a transaction | no page is missed; schedules move once |
| Stages and schedules (`modules/eventStageSchedule`) | Postgres | create, update, verifyDateInBetween | a test before the insert | no schedule starts within another |
| Images (hero, avatar, banner, logo) | URL column, S3 object | upload, replace, remove, PUT of the row, creation of a sponsor | two stores written side by side | the URL names an object; no object is left over |
| Chat, card wallet (`modules/chat`, `modules/cardWallet`) | hashes of connected users, DynamoDB, card_wallet | connect, disconnect, message, messageRead, requestCard, responseCard | a late disconnect, lists read and written back | who is there is listed and reached |
| Sign-in (`user.gateway.ts`, `user.service.ts:77`) | `loggedUsers` | validateSignIn, connect | HGET and HSET apart | an old device is told |
| User import (`user.processor.ts`) | users, registrations, jobs | split, filter, save, bind, mail in batches of 49 | repeated jobs, two handlers with one address, commit before mail | who is bound is mailed, and the reverse, once |
| Users, registrations (`user.service.ts`, `modules/userEvents`) | Postgres | create, updateUserInfo, bindUserEvent, redeemEventCode | look first, save later | an account stays its owner's |
| Show rooms (`modules/showRoom`) | five keys per sponsor, Vonage's broadcasts | start, broadcast, stop | keys set without waiting | online means a session; a broadcast can be stopped |
| Sponsors, speakers, roles, interests | Postgres | single statements, but for a sponsor's images | little | the database's own constraints |
| Guards, pipes, filters, configuration, log, tokens | none | one request | nothing | - |

How they interact: `event` starts the jobs of `networkRoom`
(`addRoomsToQueue`), deletes its keys when an intermission ends and owns the flag
that keeps its `clearExpiredRooms` chains going; `event` queues the live
management jobs, whose handlers call its functions; the gateways of `chat` and
`cardWallet` share code with that of live viewers; gateways wake `networkRoom`
jobs by events of one process; everything else meets in Redis or Postgres only.

Bull and redis-lock are external and modelled from their use: a handler that
takes `(job, jobDone)` is finished only by `jobDone()`, so that one that logs an
exception hangs until the job times out; a job is then tried again up to its
attempts while the old handler, if it was merely slow, goes on; a job of a dead
process is queued again; a job with the id of one that Bull still has is
ignored; `lock()` is SET NX PX 5000 tried every 50 ms, and `unlock()` leaves a
key alone that is no longer its own. AWS, Twilio, Vonage, SES and DynamoDB are
what the code needs of them: a call succeeds, fails, or is refused because of
what exists.

## Modules

`RedisList` (LRANGE, LTRIM, LPOP, LREM as operators), `ControlFlow` (which
completion of a batch reports it) and `Budgeting` (budgets) are used by the rest.

**NetworkRoom** is the core. Variables are the Redis keys (a sorted set is the
pair `listed`, `score`), lock holders, the bag of jobs, and per slot of Bull the
next command `pc`, the job it answers for and its local variables; `background`,
`timers`, `changed`, `switched` are promises, timers and emitted events a process
still holds; `guests` is who was sent to a room and has not left. Actions are
named after the handler and the command (`PairsRange`, `PairsTrim`, ...): a handler
has the guard `pc[w] = ...` and goes on by `Goto`. `Take`, `Timeout`, `Crash`,
`Acquire`, `Expire` are Bull's, the cluster's and redis-lock's doings. History
variables (`lost`, `disturbed`, `skipped`, `displaced`, `paired`, `tainted`) record
what properties speak of and guard nothing. `Starts` gives each behaviour who
sits where at first and how much the environment does.
Simplified: one event; Twilio's answer and its failure are one step
(`PairsRoom`); the nine DELs at the end of an intermission are one step.

**Parallel** is `parallel(promises, finish, concurrency)`, **Batch** what its caller
sees of it. `done` counts `++processed` and then `processed++`, so a batch
reports on completion (n+1)/2 if n is odd and never if n is even; `Parallel`
implements `Batch`, and `NetworkRoom` uses the same operator `FinishesAt` for
createRooms.

**Intermission** takes the start and end of intermissions apart: requests that
have looked and not yet added their job, jobs with attempts, SETs and DELs in
the order they are sent to one connection, the delayed end job with the
intermission whose clock it is (`of`, a history value the code does not carry).
The data keys are one variable, `data`.

**LivePresence** runs the four handlers of each socket side by side: nothing makes a
message of a client wait for the last one. A list is a set, `NoList` the missing field. `again`,
`torn`, `overlapped`, `clamped`, `asked` are history. Left out: connections
with an invalid token. A crash is the crash of a slot of changeViewersCounter;
sockets of a dead process just disconnect.

**LiveManagement** makes the seven resources of a stage (`step` is the next call of
each setup, `made` what exists, `row` the setup whose ids the row holds), starts and
stops channels and tears down. A resource is `<<setup, call>>`. Only package
channel and endpoint have names fixed by the stage, so a second setup of a stage
is refused at its first call (`Taken`). The names a teardown deletes lack the
stage: package channels stay for good, and with them the refusal.
**EncoderSettings** are the names within the settings that `createMediaLiveChannel` sends;
`Accepted` says that every name refers to something.
**Provisioning** is what an organiser can rely on: a stage goes from bare to
building to ready, or is broken, and never back. `StageState` maps to it.

**StageLive** extends LiveManagement with the requests of organisers (`request`, a
statement or a Bull call a step), timers in memory, the queue, and handlers that
read the row and call the functions above. `Namesakes[e]` are the events whose jobs
`removeJobs('*event<e>*')` matches. `kept` are the events whose
scheduled job should be there; `hasty`, `overtaken`, `stopLost`, `robbed` are causes.

**Accounts** has a transaction per import job (`held` are rows no other transaction
sees, and on which other inserts wait), links by ticket and by hand counted as rows
(`tickets`, `byHand`), and the mail job with its batches. `request` are
registrations and uploads.

**Images**, **ShowRooms**, **Agenda**, **ConnectedUsers** and **SignIn** are small and share no
state; they extend `Budgeting`, and **MCContent** runs them together, each
behaviour for one of them. In *Images* an upload's calls are a set `pending` in which
each may arrive next; in *ShowRooms* commands are a sequence, as one
connection carries them in order; in *Agenda* an editor goes from statement to
statement and `lists` is what the pages are cut from (its count leaves out
running events, and in a list by user counts those of everybody); in *ConnectedUsers*
a message carries whom it found; in *SignIn* hashes are numbered as they
are made. Histories (`broken`, `overlapped`, `restored`; `failed`, `crossed`, `repeated`;
`due`, `touched`, `hurried`, `torn`; `together`, `hasty`; `met`, `retaken`) guard nothing.

**NetworkRoomTheorems, NetworkRoomGuests, ParallelTheorems, LivePresenceTheorems,
IntermissionTheorems, StageLiveTheorems, AccountsTheorems, ContentTheorems** hold the proofs; **MC...** modules hold the instances.

## Runs

All runs are exhaustive within their bounds. `CHECK_DEADLOCK FALSE` because
clients may stop asking, and then nothing is left to do.

| run | instance | shows |
|---|---|---|
| seating | 3 sockets, 3 requests, a cancel, a disconnect, 2 slots | `KeyExcludes`, `NoDuplicateWaiting`, `LostOnlyIfDisturbed`, `PairsServed` |
| switching | four starts: a room of two with 3 requests, one of three with 2, rooms of two and one with a guest that leaves, the same with 3 switch requests and a cancel | `TypeOK`, `ScoreBound` (the last place is not given twice), `GuestsCounted`, `SkippedOnlyIfDisplaced` |
| pooling | batches of 2 and 3 rooms, clearExpiredRooms, a guest that leaves, the end of the intermission | `PoolUnused` |
| faults | 2 requests, a death, an expired key and a slow job, 2 attempts | `GuestsCounted` |
| service | 3 requests of 2 sockets, one refusal of Twilio, fairness | `PairsGetRoom` |
| batches | batches of 0 to 5, concurrency none to 3 | `Window`, `Reports` (refinement of Batch), `EvenDrains` |
| intermissions | 2 starts, a finish by hand, a death or a slow job, 2 attempts, 2 slots, fairness | `StatusKnown`, `OwnClockOnly`, `IntermissionEnds`, `ChainsEnd` |
| presence | a viewer and an administrator, 2 messages besides connecting and disconnecting, 2 slots, a death | `CountedOnce`, `ViewersTold`, `GoneOrThrown` |
| viewers | the same | violation of `AmountOfViewers`, below |
| streaming | 2 setups of one stage, a stage of event 1 and one of event 10, 2 requests at a time, 2 slots, 2 attempts, five budgets; fairness | `NothingForgotten`, `StaysFinished`, `PreviewsStop`, `ScheduleKept`, `Provisions` (refinement), `QueueDrains` |
| accounts | 2 addresses and an invalid cell, 3 files, mails of one, 2 slots, 2 requests at a time, 2 attempts, four budgets | `MailedAreBound`, `InvitationsSent`, `BoundOnce`, `ClaimedOnce` |
| content | the five small components, fifteen budgets | `UrlServed`, `OrphansExplained`, `OnlineHasSession`, `BroadcastStoppable`, `ShiftedOnce`, `PagesComplete`, `EntriesTrue`, `Delivered`, `SupersededTold` |

Why these bounds are enough to be of interest. Two slots are two handlers, which
is what every race here needs; a lock queue of three is a repetition of
two. Three sockets are a pair and one who is left, moved or trimmed. Rooms hold
four, so a room of two with three requests crosses the limit. A batch of 2 is
the even one that hangs, one of 3 the odd one that reports at half. Attempts
are 2 instead of 3: one repetition. Budgets bound how often the environment
does each thing and are spent in guards only; every other step is free. With
PoolLow = 0 the pool is never called low, and with 1 it is, instead of 8. The two
messages of `presence` are enough for one socket to enter and leave and
disconnect, or for two to enter.
In `streaming` two setups of one stage are what its name protects from; e10 is
there for the pattern. In `accounts` a mail of one makes two addresses two
batches; two files with the same address make two transactions that want it.
In `content` pages hold 2 of at most 5 events, so that lists
end within, at and after a page; two zones of which one shifts; two sockets
each for a user and a sponsor and one each for two card holders; three images are an upload that meets
another and a removal. Each budget gives one component two or three
of the things whose order matters, with a failure or without.

Conditional properties name the causes they exempt by a history variable; without
the exemption TLC finds the race that the hazards list describes.
`LostOnlyIfDisturbed` says each waiter dropped unread was displaced by one
command between LRANGE and LTRIM; `OwnClockOnly` allows a finish by hand, a
double start or a repeated job, each of which alone suffices for a stale end;
`CountedOnce` separates what handlers ask for from what toggles that do not
overlap make of it; `GuestsCounted` exempts `tainted` rooms; `StaysFinished` exempts
stages asked again within 25 seconds (`hasty`): a finish in that time is ignored and the
timer puts the stage on live; `PreviewsStop` a stop carried out before its
start (`overtaken`) or given up; `ScheduleKept` an event of which another with a
shorter id was updated (`robbed`); `BoundOnce` an address that two handlers had at once,
`MailedAreBound` one inserted by another transaction after the SELECT (`raced`), `ClaimedOnce` one
updated before it was overwritten (`contested`); `EntriesTrue` users with two
sockets there at once (`together`).

**Fairness.** `NetworkRoom`: weak for handlers, listeners and taking jobs
(Node's event loop, Bull's polling), weak for timing out a job that hangs,
strong for acquiring a lock: redis-lock polls, and a poller meets a free
key again and again. Nobody has to ask, leave, fail or crash. `Intermission`:
weak for requests, taking jobs (a delayed job comes due), handlers, the time-out of hung
jobs. `Parallel`: promises resolve. `StageLive`: weak for what a request has still
to do, for taking jobs, handlers and time-outs, the same reasons; timers, setups
and teardowns need none for `QueueDrains`. The other modules have no liveness property.
`IntermissionEnds` holds for one fault per behaviour. With a slow start and a
crash together the repeated job can set the key after every end has run and
lose its own; then an intermission stays on. The run says so by a shared budget.

## Finding

`viewers`: `toggleViewersCounter` (event.service.ts:468) sends INCR or DECR, then
GET, then SETs what it read. With one viewer that enters and leaves, the
two jobs may overlap so that the SET of the first comes after the DECR of the
second, whose GET reads it: the count is 1 for good with nobody in the live,
where event.controller.ts:290 documents 'Amount of viewerrs on event was
successfully retrieved'.

Other things met while modelling, without a property of their own.

- *Jobs.* `Object(params).keys()` (event.service.ts:360) throws for every connected
  linked user, so that the jobs that announce intermissions and stages hang and
  are repeated in vain. A pair that is switched leaves its job without jobDone().
- *Network rooms.* The timer of createRooms emits `SwitchRoom`, to which nobody
  listens (`switchRoom` is the listener's name). A late status callback puts a
  room that was removed back into the list (networkRoom.service.ts:44). A socket that
  disconnects between the LREM and the RPUSH of its request stays queued
  (networkRoom.gateway.ts:146).
- *Viewers, chat, cards.* An administrator that never entered the live is looked up
  under an undefined field, `JSON.parse([])` throws, and the socket stays in
  `connectedUsersEvents`. HDEL of a user does not look at the socket: the
  disconnect of the old one removes the entry of the new. A socket that leaves
  before its token is validated stays listed for good. responseCard
  emits to the socket it read before it saved; a second acceptance of one card throws and
  the asker is not told.
- *Sign-in.* A device that connects with an old hash takes the session back; one that has
  signed in and not yet connected cannot be told.
- *Live infrastructure.* The endpoint documented 'Stop and destroy live infra'
  (event.controller.ts:359) only queues a stop. A teardown never deletes package
  channels or endpoints, whose names it spells without the stage. The stop and
  destroy jobs of all stages of an event share one id, so only the first is kept.
  An event that is created has no stages yet, and its creation schedules nothing.
- *Agenda.* A change of time zone of an event without stages fails (`IN ()`); a shift
  adds the offset of the new zone and does not take the old one's away; the test of a new
  schedule looks at its start only, in all stages of all events; the count of upcoming events
  leaves out running ones, so that the last page may be missed, and the lists by user
  are counted by everybody's events, so that `ended` may never come.
- *Images.* removeAvatar reads the URL while it clears it and may find nothing to
  delete. A PUT of an event or sponsor may bring an older URL back. The upload of a
  sponsor's image without an id is answered before it is done.

## Proofs

For every value of the constants (sockets, rooms, stages, slots, budgets), checked by
TLAPS; assumptions are the named ASSUMEs of the modules.

- `TypesKept` (NetworkRoomTheorems): `TypeOK` is inductive only with `LocalsInUse`,
  which says what the locals of a handler are at each of its commands: a handler
  about to ZINCRBY has chosen a room, `Tail` and `Head` get nonempty lists.
- `KeysExclude`: who is inside a critical section holds its key (`HoldsKey`),
  inductive while no key expires under its holder. That assumption,
  `Budget["expire"] = 0`, is part of the theorem; run `faults` has expiries.
- `ScoresBounded`: a handler about to count has room for it (`PlaceFor`), and
  only the holder of the one key raises a score above two; sendRoomToPairs,
  Twilio's callback and clearExpiredRooms write the same set without the key but
  only to two or downwards. Same assumption.
- `NobodyWaitsTwice`: the socket of a requestRoom between LREM and RPUSH is not in
  the queue, and there is at most one (`OneRequest`). The gateway's key is not one of
  those that `Expire` gives away; it is held for two commands only.
- `PoolRoomsUnused` (NetworkRoomGuests): a room Twilio has created and nobody was sent to is
  in no handler's locals, has no guests and no score, and the pool has each room once
  (`FreshRooms`). A handler that has taken a room out of the pool and not listed it yet is then the only one
  to have it (`OwnRooms`): neither needs a key, so expired keys, crashes and time-outs are allowed.
- `GuestsAreCounted`: guests and the place findAvailableRooms has counted and not given away
  do not outnumber the score and what handlers are to count (`Balanced`); `OwnRooms`
  says why a ZADD of two does not overwrite a count, `CountsKnown` which
  handlers have counts left. `Uncounted` is a sum, written as the number of points
  below a graph (`Total`): a fold could not be reasoned about (`TotalMoves`).
- `LossIsDisturbance` (NetworkRoomTheorems): a handler between LRANGE and LTRIM holds the key, so
  the list only grows at its tail or loses entries to LREM, which counts as a disturbance
  when it takes one of the two at the head; the handler will lose one waiter for each of
  those it has read that is not at the head any more (`TrimsRead`). Same assumption as `ScoresBounded`.
- `SkippingIsDisplacement`: the same for the entries a switch has still to pop, one by one,
  between its LRANGE and its last LPOP (`PopsRead`). Same assumption.
- `PairsAreServed` (NetworkRoomGuests): the queue is never longer than twice the emits, jobs
  and handlers that have yet to look at it, and one (`PairsAwaited`): each takes at most two away
  and wakes the next one while two are left. It needs that findAvailableRooms always has a
  place to give or passes on (`PlacesHeld`), so that keys must not expire, and that no process
  dies: both budgets are zero in the assumption, as they are in the run `seating`.
- `LRemFacts`, `CutFacts` (NetworkRoomTheorems): LREM, LRANGE and LTRIM keep lists free of duplicates.
- `Implements` (ParallelTheorems): the count of the closure is twice the
  completions, one less after the report, and meets the length at most once; so each
  step of Parallel is a step of Batch or stutters.
- `WindowKept`: what runs is what is attached and not completed, and after the report
  the one that reported as well (`Attached`); only that many promises can be open.
- `StatusIsKnown` (IntermissionTheorems): a start that is about to set isOnIntermission has the
  other keys set, or an end has deleted them between its commands (`StatusInv`).
- `ClocksAreOwn`: unless excused only one thing is under way at a time, from the request that
  is accepted over its job, the intermission and its delayed job to the last DEL (`Phase`);
  a clock that exists is then that of the intermission that is on. Counting jobs is not
  needed: the queue is empty or has one job.
- `TypesKept` and `CountNotNegative` (LivePresenceTheorems): a handler writes back
  only a list it found (`ListFound`); a count below zero has a toggle that is
  still to write it, or to be run again after a death, and what is written is
  not negative. `NotNegative` is inductive given the types.
- `GoneAreRemoved`: unless something was under way when a socket left, its
  handleConnection is over, so that nothing lists it again after the SREM (`GoneInv`).
- `ViewersAreTold`: while no list was torn, a handler about to write back the list has read
  what still stands there, so it takes out nobody else (`ViewersInv`).
- `EachIsCountedOnce`: what was asked is the number of sockets whose toggle up is added
  and whose toggle down is not (`AskedInv`), and the count lacks just the toggles
  that wait, with one worker at most between its INCR and its SET (`TogglesInv`).
- `ResourcesKnown` (StageLiveTheorems): of the setups of a stage at most one has
  its package channel, since that has the one name of the stage and is never deleted (`Held`, `Alone`);
  only that setup goes on, and so only it writes the row (`Rows`). What it made is
  then in the row, or it is at work, or it threw.
- `ProvisionsStages`: the same invariant shows each step to be one of
  Provisioning or none: the package channel of a stage takes it from bare to
  building, the UPDATE to ready, a throw to broken.
- `StreamResourcesKnown`, `StreamProvisions`: each step of the
  jobs, requests and timers is a step of LiveManagement or leaves it alone, so both carry over.
- `FinishedStay`: a stage asked to finish last, and not `hasty`, has no timer and is off live
  unless a request is about to clear it (`FinishInv`).
- `SchedulesKept`: `ScheduleKept` is inductive given the types: only RemoveJobs and Take remove a
  job with an id, and both take the event out of `kept` or name it as robbed.
- `PreviewsAreStopped`: a start that Bull has, or a handler is about to carry out,
  has a stop behind it that is not carried out yet, or an excuse (`PreviewInv`).
- `AccountsAreKept` (AccountsTheorems): who is about to overwrite a row found it new, and it
  still is, or the update that changed this counts as contested (`ClaimsNew`).
- `ImportsBindOnce`: two handlers between the filter and the commit at the same address count as an
  overlap (`Apart`), and what one of them is about to bind nobody has bound (`BindsFirst`), since
  the SELECT of the filter comes before and only a commit binds.
- `CodesCanBeRedeemed`: found and inserted rows together are all addresses of the job but the
  raced ones, so that after the commit all are bound; a mail job, queued, repeated or at
  work, is for such addresses only (`BindsAll`), and nothing unbinds.
- `EveryBoundUserIsInvited`: a handler of a mail job has sent or given up whoever it does not
  still have to mail (`MailsAll`), and a job goes from the queue to a handler and back without
  a gap but for the ones `unsent` names.
- `UrlsAreServed` (ContentTheorems): columns, forms and requests name images of
  their own holder only (`Owners`), so requests of other holders do not matter. A request
  that read the URL a column still has will itself change the column (`Replaces`), which is why
  its delete may arrive at any time; what a column will name is there or coming (`Kept`).
- `OrphansAreExplained`: while nothing disturbs a holder, one request is at work, it has read what
  the column names, and each object is in the column or about to be written there or deleted
  by it (`Working`, `Explained`).
- `OnlineRoomsHaveSessions`: the commands a request has still to
  send are the last ones of a start, a broadcast or a stop (`Forms`), so those
  sent before them are known, and where requests have not crossed they are what the keys
  hold (`Rooms`): a room goes online last and stops being online before the DELs end.
- `BroadcastsAreStoppable`: unless excused there is one broadcast on air for a sponsor, its
  id on its way or in its key, and a stop that took it out of the key has read it
  together with a token (`Broadcasts`); an id is that of the sponsor's own broadcast (`Own`).
- `SupersededAreTold`: unless a sign-in was met or an old hash came
  back, the field has the socket of the last device if that is connected, every connected
  device with an older hash was sent signOut, and while a sign-in has looked and not
  written everybody connected was told (`SignInInv`).
- `SchedulesShiftOnce`: a schedule is where it should be, or its event is between
  the two statements of exactly one update (`ShiftInv`).
- `StartsAreApart`: schedules that pass the test start outside of those saved before,
  as long as none was saved or changed in between (`TestInv`). `StartsApart` is stated by the theorem only.
- `PagesAreComplete`: pages before the last are full, so that `skip` reaches the count only with
  all seen (`PageInv`).

- `EntriesAreTrue`: unless two sockets of a field were at work together, at most one of them is in
  a handler (`Occupied`, `Apart`), so that what it has read of the list still stands
  when it writes it back, but for itself (`Entries`); other fields do not matter.
- `MessagesAreDelivered`: who is due when a message is sent is settled, so that the
  list the handler or job looks up has it, whichever attempt this is, and those found are who gets it
  (`Reaches`). It rests on `EntriesInv`.

Only model-checked: `PairsGetRoom`, `EvenDrains`, `IntermissionEnds`, `ChainsEnd` and
`QueueDrains`, all liveness (fairness and ENABLED are beyond the prover).

## Not modelled

PROJECT.json has each part with its reason. SQL, validation and formatting of single
requests; interests and categories, speakers, the editing of roles and of profiles,
cards and calls of sponsors (single statements without state between them);
guards, pipes other than verifyDateInBetween and the ones that guard an
action, filters, wiring and configuration; log and tokens; the text of mails; image resizing;
reading old messages, cards and events; the layout commands of show rooms; what AWS does beyond
refusing; the start-up of the cluster; migrations and seeds. Properties of every pair of
setups are for one region; CloudFront's and MediaLive's own states are two,
running and not.

## Plan

What would add most now.

1. An allocator of seats as an abstract specification that NetworkRoom implements
   outside of the exempted cases; a job life cycle shared by the queues.
2. Proofs: that NetworkRoom implements this allocator.
3. Two events in NetworkRoom; the cluster's start with seeds of the queues.
