------------------------ MODULE NetworkRoomTheorems -------------------------
(***************************************************************************)
(* NetworkRoom keeps its types: TypeOK, strengthened with what a handler's *)
(* locals hold at each of its commands (LocalsInUse), is inductive.  From  *)
(* there, what the locks of the network rooms protect, that nobody waits   *)
(* twice, and that a waiter is trimmed away or popped unread only when the *)
(* list changed under its reader (TrimsRead, PopsRead), for any number of  *)
(* sockets, rooms and handlers.  Where a theorem needs that no key expires *)
(* under its holder it says so: no budget has an expiry.  Crashed and      *)
(* timed-out handlers, lost emits, refusals of Twilio and the end of the   *)
(* intermission are all allowed.                                           *)
(***************************************************************************)
EXTENDS NetworkRoom, FiniteSetTheorems, SequenceTheorems, WellFoundedInduction, TLAPS

-----------------------------------------------------------------------------
\* What the Redis list commands preserve, for lists of any length

\* A set of natural numbers that is not empty has a least element.
LEMMA LeastExists ==
  ASSUME NEW S \in SUBSET Nat, S # {}
  PROVE  \E m \in S : \A i \in S : m <= i
<1>1. PICK m \in S : \A i \in S : ~(<<i, m>> \in OpToRel(<, Nat))
  BY WFMin, NatLessThanWellFounded
<1>2. \A i \in S : ~(i < m)
  BY <1>1 DEF OpToRel
<1> QED
  BY <1>2

\* The initial segments of a set of indices are finite, and grow by at most
\* one index at a time.
LEMMA SegmentGrows ==
  ASSUME NEW n \in Nat, NEW K \in SUBSET (1..n), NEW i \in 1..n
  PROVE  /\ i \in K => Cardinality(Upto(K, i)) = Cardinality(Upto(K, i - 1)) + 1
         /\ i \notin K => Upto(K, i) = Upto(K, i - 1)
<1>1. IsFiniteSet(Upto(K, i - 1))
  <2>1. IsFiniteSet(1..n)
    BY FS_Interval
  <2>2. Upto(K, i - 1) \subseteq 1..n
    BY DEF Upto
  <2> QED
    BY <2>1, <2>2, FS_Subset
<1>2. ASSUME i \in K
      PROVE  Cardinality(Upto(K, i)) = Cardinality(Upto(K, i - 1)) + 1
  <2>1. Upto(K, i) = Upto(K, i - 1) \cup {i}
    <3>1. \A j \in K : j <= i <=> j <= i - 1 \/ j = i
      OBVIOUS
    <3> QED
      BY <1>2, <3>1 DEF Upto
  <2>2. i \notin Upto(K, i - 1)
    BY DEF Upto
  <2> QED
    BY <1>1, <2>1, <2>2, FS_AddElement
<1>3. ASSUME i \notin K
      PROVE  Upto(K, i) = Upto(K, i - 1)
  <2>1. \A j \in K : j <= i <=> j <= i - 1
    BY <1>3
  <2> QED
    BY <2>1 DEF Upto
<1> QED
  BY <1>2, <1>3

\* The k-th smallest index exists and has k indices up to it.
LEMMA NthExists ==
  ASSUME NEW n \in Nat, NEW K \in SUBSET (1..n), NEW k \in 1..Cardinality(K)
  PROVE  /\ Nth(K, k) \in K
         /\ Cardinality(Upto(K, Nth(K, k))) = k
<1> DEFINE Enough == {i \in 1..n : Cardinality(Upto(K, i)) >= k}
<1>1. \A S \in SUBSET (1..n) : IsFiniteSet(S) /\ Cardinality(S) \in Nat
  <2>1. IsFiniteSet(1..n)
    BY FS_Interval
  <2> QED
    BY <2>1, FS_Subset, FS_CardinalityType
<1>2. Cardinality(K) \in Nat /\ k \in Nat /\ k >= 1
  BY <1>1
<1>3. \A i \in 0..n : Cardinality(Upto(K, i)) \in Nat
  <2>1. \A i \in 0..n : Upto(K, i) \in SUBSET (1..n)
    BY DEF Upto
  <2> QED
    BY <1>1, <2>1
<1>4. Cardinality(Upto(K, 0)) = 0
  <2>1. \A j \in K : ~(j <= 0)
    OBVIOUS
  <2>2. Upto(K, 0) = {}
    BY <2>1 DEF Upto
  <2> QED
    BY <2>2, FS_EmptySet
<1>5. n \in Enough
  <2>1. Upto(K, n) = K
    <3>1. \A j \in K : j <= n
      OBVIOUS
    <3> QED
      BY <3>1 DEF Upto
  <2>2. n # 0
    BY <1>2, <1>4, <2>1
  <2> QED
    BY <1>2, <2>1, <2>2
<1>6. PICK m \in Enough : \A i \in Enough : m <= i
  <2>1. Enough \in SUBSET Nat /\ Enough # {}
    BY <1>5
  <2> QED
    BY <2>1, LeastExists
<1>7. m \in 1..n /\ Cardinality(Upto(K, m)) >= k
  BY <1>6
<1>8. Cardinality(Upto(K, m - 1)) < k
  <2>1. CASE m = 1
    BY <1>2, <1>4, <2>1
  <2>2. CASE m > 1
    <3>1. m - 1 \in 1..n /\ m - 1 \notin Enough
      BY <1>6, <1>7, <2>2
    <3> QED
      BY <1>2, <1>3, <3>1
  <2> QED
    BY <1>7, <2>1, <2>2
<1>9. m \in K /\ Cardinality(Upto(K, m)) = k
  <2>1. /\ m \in K => Cardinality(Upto(K, m)) = Cardinality(Upto(K, m - 1)) + 1
        /\ m \notin K => Upto(K, m) = Upto(K, m - 1)
    BY <1>7, SegmentGrows
  <2>2. Cardinality(Upto(K, m)) \in Nat /\ Cardinality(Upto(K, m - 1)) \in Nat
    BY <1>3, <1>7
  <2> QED
    BY <1>2, <1>7, <1>8, <2>1, <2>2
<1> QED
  BY <1>9 DEF Nth

\* What LREM keeps: a list of no more elements, each an element of the list
\* other than the value, and each occurrence once.
THEOREM LRemFacts ==
  ASSUME NEW S, NEW list \in Seq(S), NEW value
  PROVE  /\ LRem(list, value) \in Seq(S)
         /\ Len(LRem(list, value)) <= Len(list)
         /\ \A i \in DOMAIN LRem(list, value) : LRem(list, value)[i] # value
         /\ \A v : (\A i \in DOMAIN list : list[i] # v)
                   => \A i \in DOMAIN LRem(list, value) : LRem(list, value)[i] # v
         /\ NoDuplicates(list) => NoDuplicates(LRem(list, value))
<1> DEFINE kept == {i \in DOMAIN list : list[i] # value}
           short == LRem(list, value)
<1>1. Len(list) \in Nat /\ DOMAIN list = 1..Len(list)
  BY LenProperties
<1>2. kept \in SUBSET (1..Len(list))
  BY <1>1
<1>3. Cardinality(kept) \in Nat /\ Cardinality(kept) <= Len(list)
  <2>1. IsFiniteSet(1..Len(list)) /\ Cardinality(1..Len(list)) = Len(list)
    BY <1>1, FS_Interval
  <2> QED
    BY <1>2, <2>1, FS_Subset, FS_CardinalityType
<1>4. \A k \in 1..Cardinality(kept) :
        Nth(kept, k) \in kept /\ Cardinality(Upto(kept, Nth(kept, k))) = k
  BY <1>1, <1>2, NthExists
<1>5. short = [k \in 1..Cardinality(kept) |-> list[Nth(kept, k)]]
  BY DEF LRem
<1> HIDE DEF kept, short
<1>6. \A k \in 1..Cardinality(kept) :
        short[k] = list[Nth(kept, k)] /\ Nth(kept, k) \in DOMAIN list
        /\ short[k] # value
  BY <1>4, <1>5 DEF kept
<1>7. \A i \in DOMAIN list : list[i] \in S
  BY <1>1, ElementOfSeq
<1>8. short \in Seq(S) /\ Len(short) = Cardinality(kept)
      /\ DOMAIN short = 1..Cardinality(kept)
  <2>1. \A k \in 1..Cardinality(kept) : short[k] \in S
    BY <1>6, <1>7
  <2> QED
    BY <1>3, <1>5, <2>1, IsASeq
<1>9. ASSUME NoDuplicates(list) PROVE NoDuplicates(short)
  <2> SUFFICES ASSUME NEW i \in DOMAIN short, NEW j \in DOMAIN short,
                      short[i] = short[j]
               PROVE  i = j
    BY DEF NoDuplicates
  <2>1. Nth(kept, i) = Nth(kept, j)
    BY <1>6, <1>8, <1>9 DEF NoDuplicates
  <2> QED
    BY <1>4, <1>8, <2>1
<1> QED
  BY <1>3, <1>6, <1>8, <1>9 DEF short

\* LRANGE and LTRIM cut a list in two parts without adding anything.
THEOREM CutFacts ==
  ASSUME NEW S, NEW list \in Seq(S), NEW n \in Nat
  PROVE  /\ First(list, n) \in Seq(S) /\ Len(First(list, n)) <= n
         /\ Rest(list, n) \in Seq(S)
         /\ \A i \in DOMAIN Rest(list, n) :
              i + n \in DOMAIN list /\ Rest(list, n)[i] = list[i + n]
         /\ NoDuplicates(list) => NoDuplicates(Rest(list, n))
<1>1. Len(list) \in Nat /\ DOMAIN list = 1..Len(list)
  BY LenProperties
<1>2. First(list, n) \in Seq(S) /\ Len(First(list, n)) <= n
  BY <1>1, SubSeqProperties DEF First
<1>3. /\ Rest(list, n) \in Seq(S)
      /\ \A i \in DOMAIN Rest(list, n) :
           i + n \in DOMAIN list /\ Rest(list, n)[i] = list[i + n]
  BY <1>1, SubSeqProperties DEF Rest
<1> QED
  BY <1>1, <1>2, <1>3 DEF NoDuplicates

-----------------------------------------------------------------------------
\* Facts about the helpers

\* The names of the commands a handler may be at.
LEMMA PointNames ==
  /\ \A key : Inside(key) \subseteq Points
  /\ "idle" \in Points /\ "hung" \in Points
  /\ "findLock" \in Points /\ "pairsLock" \in Points /\ "switchLock" \in Points
  /\ "createStart" \in Points /\ "createOne" \in Points
  /\ "clearPool" \in Points /\ "clearRooms" \in Points /\ "clearAgain" \in Points
  /\ "findQueue" \in Points /\ "findRange" \in Points /\ "findLen" \in Points
  /\ "findScore" \in Points /\ "findIncr" \in Points /\ "findPop" \in Points
  /\ "findMore" \in Points
  /\ "pairsLen" \in Points /\ "pairsRange" \in Points /\ "pairsTrim" \in Points
  /\ "pairsPool" \in Points /\ "pairsRoom" \in Points /\ "pairsZadd" \in Points
  /\ "switchLen" \in Points /\ "switchRange" \in Points
  /\ "switchCreate" \in Points /\ "switchZadd" \in Points
  /\ "switchQueue" \in Points /\ "switchRooms" \in Points
  /\ "switchTry" \in Points /\ "switchScore" \in Points
  /\ "switchPop" \in Points /\ "switchIncr" \in Points
  /\ "switchAfter" \in Points
BY DEF Points, FindPoints, PairsPoints, SwitchPoints, Inside

\* The locals of a handler stay locals when a command sets some of them.
LEMMA LocalsEdits ==
  ASSUME NEW l \in Locals
  PROVE  /\ \A i \in Nat : [l EXCEPT !.n = i] \in Locals
         /\ \A i \in Nat : [l EXCEPT !.n = i, !.todo = i] \in Locals
         /\ \A i \in Nat : [l EXCEPT !.todo = i] \in Locals
         /\ \A i \in Nat : [l EXCEPT !.pops = i] \in Locals
         /\ \A i \in Nat : [l EXCEPT !.incs = i] \in Locals
         /\ \A i, j, k \in Nat : [l EXCEPT !.todo = i, !.pops = j, !.incs = k] \in Locals
         /\ \A r \in Rooms : [l EXCEPT !.room = r] \in Locals
         /\ \A r \in Rooms : [l EXCEPT !.room = r, !.ids = <<>>] \in Locals
         /\ \A s \in Seq(Sockets) : [l EXCEPT !.ids = s] \in Locals
         /\ \A s \in Seq(Rooms) : [l EXCEPT !.rooms = s] \in Locals
         /\ \A s \in Seq(Sockets) :
              [l EXCEPT !.pair = TRUE, !.todo = 2, !.ids = s] \in Locals
         /\ \A r \in Rooms, s \in Seq(Sockets) :
              [l EXCEPT !.room = r, !.todo = 1, !.ids = s] \in Locals
<1>1. \A i \in Nat : [l EXCEPT !.n = i] \in Locals
  BY DEF Locals
<1>2. \A i \in Nat : [l EXCEPT !.n = i, !.todo = i] \in Locals
  BY DEF Locals
<1>3. \A i \in Nat : [l EXCEPT !.todo = i] \in Locals
  BY DEF Locals
<1>4. \A i \in Nat : [l EXCEPT !.pops = i] \in Locals
  BY DEF Locals
<1>5. \A i \in Nat : [l EXCEPT !.incs = i] \in Locals
  BY DEF Locals
<1>6. ASSUME NEW i \in Nat, NEW j \in Nat, NEW k \in Nat
      PROVE  [l EXCEPT !.todo = i, !.pops = j, !.incs = k] \in Locals
  BY DEF Locals
<1>7. \A r \in Rooms : [l EXCEPT !.room = r] \in Locals
  BY DEF Locals
<1>8. ASSUME NEW r \in Rooms
      PROVE  [l EXCEPT !.room = r, !.ids = <<>>] \in Locals
  <2>1. <<>> \in Seq(Sockets)
    OBVIOUS
  <2>2. \A s \in Seq(Sockets) : [l EXCEPT !.room = r, !.ids = s] \in Locals
    BY DEF Locals
  <2> QED
    BY <2>1, <2>2
<1>9. \A s \in Seq(Sockets) : [l EXCEPT !.ids = s] \in Locals
  BY DEF Locals
<1>10. \A s \in Seq(Rooms) : [l EXCEPT !.rooms = s] \in Locals
  BY DEF Locals
<1>11. \A s \in Seq(Sockets) :
          [l EXCEPT !.pair = TRUE, !.todo = 2, !.ids = s] \in Locals
  BY DEF Locals
<1>12. \A r \in Rooms, s \in Seq(Sockets) :
          [l EXCEPT !.room = r, !.todo = 1, !.ids = s] \in Locals
  BY DEF Locals
<1> QED
  BY <1>1, <1>2, <1>3, <1>4, <1>5, <1>6, <1>7, <1>8, <1>9, <1>10, <1>11, <1>12

\* What the helpers of a command write fits the variables of the handlers.
LEMMA Moves ==
  ASSUME HandlersOK, NEW w \in Workers
  PROVE  /\ \A p \in Points : Goto(w, p) => pc' \in [Workers -> Points]
         /\ \A l \in Locals : Bind(w, l) => loc' \in [Workers -> Locals]
         /\ JobDone(w) => /\ pc' \in [Workers -> Points] /\ loc' \in [Workers -> Locals]
                          /\ job' \in [Workers -> JobSet \cup {NoJob}]
         /\ HangUp(w) => /\ pc' \in [Workers -> Points] /\ loc' \in [Workers -> Locals]
                         /\ job' \in [Workers -> JobSet \cup {NoJob}]
         /\ \A key : Unlock(w, key) => lock' \in [LockKeys -> Workers \cup {Nobody}]
         /\ \A names : Adding(names) \in [JobSet -> Nat]
<1>1. NoLoc \in Locals
  BY DEF NoLoc, Locals
<1>2. "idle" \in Points /\ "hung" \in Points
  BY PointNames
<1>3. \A p \in Points : Goto(w, p) => pc' \in [Workers -> Points]
  BY DEF Goto, HandlersOK
<1>4. \A l \in Locals : Bind(w, l) => loc' \in [Workers -> Locals]
  BY DEF Bind, HandlersOK
<1>5. JobDone(w) => job' \in [Workers -> JobSet \cup {NoJob}]
  BY DEF JobDone, HandlersOK
<1>6. HangUp(w) => job' \in [Workers -> JobSet \cup {NoJob}]
  BY DEF HangUp, HandlersOK
<1>7. \A key : Unlock(w, key) => lock' \in [LockKeys -> Workers \cup {Nobody}]
  BY DEF Unlock, HandlersOK
<1>8. \A names : Adding(names) \in [JobSet -> Nat]
  BY DEF Adding, HandlersOK
<1> QED
  BY <1>1, <1>2, <1>3, <1>4, <1>5, <1>6, <1>7, <1>8 DEF JobDone, HangUp

\* A group of variables that a step leaves alone keeps its type.
LEMMA Kept ==
  /\ UNCHANGED lists /\ ListsOK => ListsOK'
  /\ UNCHANGED rooms /\ RoomsOK => RoomsOK'
  /\ UNCHANGED handlers /\ HandlersOK => HandlersOK'
  /\ UNCHANGED pending /\ PendingOK => PendingOK'
  /\ UNCHANGED gateway /\ GatewayOK => GatewayOK'
  /\ UNCHANGED twilio /\ TwilioOK => TwilioOK'
  /\ UNCHANGED history /\ HistoryOK => HistoryOK'
<1>1. UNCHANGED lists /\ ListsOK => ListsOK'
  BY DEF lists, ListsOK
<1>2. UNCHANGED rooms /\ RoomsOK => RoomsOK'
  BY DEF rooms, RoomsOK
<1>3. UNCHANGED handlers /\ HandlersOK => HandlersOK'
  BY DEF handlers, HandlersOK
<1>4. UNCHANGED pending /\ PendingOK => PendingOK'
  BY DEF pending, PendingOK, emitted
<1>5. UNCHANGED gateway /\ GatewayOK => GatewayOK'
  BY DEF gateway, GatewayOK
<1>6. UNCHANGED twilio /\ TwilioOK => TwilioOK'
  BY DEF twilio, TwilioOK
<1>7. UNCHANGED history /\ HistoryOK => HistoryOK'
  BY DEF history, HistoryOK, roomHistory, waitHistory, switchHistory
<1> QED
  BY <1>1, <1>2, <1>3, <1>4, <1>5, <1>6, <1>7

\* Elements, head and tail of a sequence over S.
LEMMA Elements ==
  ASSUME NEW S, NEW list \in Seq(S)
  PROVE  /\ \A i \in 1..Len(list) : list[i] \in S
         /\ list # <<>> => Head(list) \in S /\ Tail(list) \in Seq(S)
OBVIOUS

\* A nonempty set of indices has a greatest one: the last that LREM or
\* slice(-2) finds.
LEMMA GreatestExists ==
  ASSUME NEW n \in Nat, NEW S \in SUBSET (1..n), S # {}
  PROVE  Max(S) \in S
<1> DEFINE D == {d \in Nat : n - d \in S}
<1>1. PICK m \in D : \A d \in D : m <= d
  <2>1. PICK x \in S : TRUE
    OBVIOUS
  <2>2. n - x \in D
    BY <2>1
  <2> QED
    BY <2>2, LeastExists
<1>2. n - m \in S /\ \A y \in S : n - m >= y
  <2>1. ASSUME NEW y \in S  PROVE n - m >= y
    <3>0. y \in 1..n /\ n - y \in Nat /\ n - (n - y) = y
      OBVIOUS
    <3>1. n - y \in D
      BY <3>0
    <3>2. m <= n - y /\ m \in Nat
      BY <1>1, <3>1
    <3> QED
      BY <3>0, <3>2
  <2> QED
    BY <1>1, <2>1
<1> QED
  BY <1>2 DEF Max

-----------------------------------------------------------------------------
\* A command of a handler: where it goes on and with which locals

\* No command sends its handler to an unknown command or with odd locals.
LEMMA HandlerMoves ==
  ASSUME TypeOK, LocalsInUse, NEW w \in Workers, Handler(w)
  PROVE  HandlersOK'
<1> SUFFICES /\ lock' \in [LockKeys -> Workers \cup {Nobody}]
             /\ jobs' \in [JobSet -> Nat]
             /\ pc' \in [Workers -> Points]
             /\ job' \in [Workers -> JobSet \cup {NoJob}]
             /\ loc' \in [Workers -> Locals]
  BY DEF HandlersOK
<1>0. /\ HandlersOK /\ loc[w] \in Locals
      /\ lock \in [LockKeys -> Workers \cup {Nobody}]
      /\ jobs \in [JobSet -> Nat]
      /\ pc \in [Workers -> Points]
      /\ job \in [Workers -> JobSet \cup {NoJob}]
      /\ loc \in [Workers -> Locals]
  BY DEF TypeOK, HandlersOK
<1>a. loc[w] \in Locals
  BY <1>0
<1>b. /\ queue \in Seq(Sockets) /\ queueSwitch \in Seq([id : Sockets, room : Rooms])
      /\ Len(queue) \in Nat /\ Len(queueSwitch) \in Nat
  BY DEF TypeOK, ListsOK
<1>1. CASE FindQueue(w)
  <2>1. [loc[w] EXCEPT !.n = Len(queue)] \in Locals
    BY <1>a, <1>b DEF Locals
  <2> QED
    BY <1>0, <1>1, <2>1, Moves, PointNames DEF FindQueue
<1>2. CASE FindRange(w)
  <2>1. \A r \in InRange(LowestScore(loc[w].n), HighestScore) :
           [loc[w] EXCEPT !.room = r] \in Locals
    BY <1>0, LocalsEdits DEF TypeOK, RoomsOK, InRange
  <2> QED
    BY <1>0, <1>2, <2>1, Moves, PointNames DEF FindRange
<1>3. CASE FindCheck(w)
  BY <1>0, <1>3, Moves, PointNames DEF FindCheck
<1>4. CASE FindIncr(w)
  BY <1>0, <1>4, Moves, PointNames DEF FindIncr
<1>5. CASE FindPop(w)
  BY <1>0, <1>5, Moves, PointNames DEF FindPop
<1>6. CASE FindMore(w)
  BY <1>0, <1>6, Moves, PointNames DEF FindMore
<1>7. CASE PairsLen(w)
  BY <1>0, <1>7, Moves, PointNames DEF PairsLen
<1>8. CASE PairsRange(w)
  <2>1. [loc[w] EXCEPT !.ids = First(queue, 2)] \in Locals
    BY <1>0, LocalsEdits, CutFacts DEF TypeOK, ListsOK
  <2> QED
    BY <1>0, <1>8, <2>1, Moves, PointNames DEF PairsRange
<1>9. CASE PairsTrim(w)
  BY <1>0, <1>9, Moves, PointNames DEF PairsTrim
<1>10. CASE PairsPool(w)
  BY <1>0, <1>10, Moves, PointNames DEF PairsPool
<1>11. CASE PairsRoom(w)
  <2>1. PICK r \in Rooms : Bind(w, [loc[w] EXCEPT !.room = r, !.ids = <<>>])
    BY <1>11 DEF PairsRoom
  <2>2. [loc[w] EXCEPT !.room = r, !.ids = <<>>] \in Locals
    BY <1>0, LocalsEdits
  <2> QED
    BY <1>0, <1>11, <2>1, <2>2, Moves, PointNames DEF PairsRoom
<1>12. CASE PairsError(w)
  BY <1>0, <1>12, Moves, PointNames DEF PairsError
<1>13. CASE PairsZadd(w)
  BY <1>0, <1>13, Moves, PointNames DEF PairsZadd
<1>14. CASE SwitchLen(w)
  <2>1. [loc[w] EXCEPT !.n = Len(queueSwitch)] \in Locals
    BY <1>a, <1>b DEF Locals
  <2> QED
    BY <1>0, <1>14, <2>1, Moves, PointNames DEF SwitchLen
<1>15. CASE SwitchRange(w)
  <2> DEFINE ids == <<queueSwitch[1].id, queueSwitch[Max(Elsewhere)].id>>
  <2>1. CASE Elsewhere # {} /\ Bind(w, [loc[w] EXCEPT !.pair = TRUE, !.todo = 2, !.ids = ids])
    <3>1. queueSwitch \in Seq([id : Sockets, room : Rooms])
      BY DEF TypeOK, ListsOK
    <3>2. Elsewhere \in SUBSET (1..Len(queueSwitch)) /\ Len(queueSwitch) \in Nat
      BY <3>1 DEF Elsewhere
    <3>7. Max(Elsewhere) \in 1..Len(queueSwitch)
      BY <2>1, <3>2, GreatestExists
    <3>3. 1 \in 1..Len(queueSwitch)
      BY <3>2, <3>7
    <3>8. \A i \in 1..Len(queueSwitch) : queueSwitch[i] \in [id : Sockets, room : Rooms]
      BY <3>1, Elements
    <3>9. \A entry \in [id : Sockets, room : Rooms] : entry.id \in Sockets
      OBVIOUS
    <3>4. queueSwitch[1].id \in Sockets /\ queueSwitch[Max(Elsewhere)].id \in Sockets
      BY <3>7, <3>3, <3>8, <3>9
    <3>5. ids \in Seq(Sockets)
      BY <3>4
    <3>6. [loc[w] EXCEPT !.pair = TRUE, !.todo = 2, !.ids = ids] \in Locals
      BY <1>0, <3>5, LocalsEdits
    <3> QED
      BY <1>0, <1>15, <2>1, <3>6, Moves, PointNames DEF SwitchRange
  <2>2. CASE ~(Elsewhere # {} /\ Bind(w, [loc[w] EXCEPT !.pair = TRUE, !.todo = 2, !.ids = ids]))
    BY <1>0, <1>15, <2>2, Moves, PointNames DEF SwitchRange
  <2> QED
    BY <2>1, <2>2
<1>16. CASE SwitchCreate(w)
  <2>1. PICK r \in Rooms : Bind(w, [loc[w] EXCEPT !.room = r])
    BY <1>16 DEF SwitchCreate
  <2>2. [loc[w] EXCEPT !.room = r] \in Locals
    BY <1>0, LocalsEdits
  <2> QED
    BY <1>0, <1>16, <2>1, <2>2, Moves, PointNames DEF SwitchCreate
<1>17. CASE SwitchZadd(w)
  BY <1>0, <1>17, Moves, PointNames DEF SwitchZadd
<1>18. CASE SwitchQueue(w)
  <2>1. [loc[w] EXCEPT !.n = Len(queue)] \in Locals
    BY <1>a, <1>b DEF Locals
  <2> QED
    BY <1>0, <1>18, <2>1, Moves, PointNames DEF SwitchQueue
<1>19. CASE SwitchRooms(w)
  <2> DEFINE found == InRange(LowestScore(loc[w].n), 3)
  <2>1. Cardinality(found) \in Nat /\ found \subseteq Rooms
    BY RoomsAssumption, FS_Subset, FS_CardinalityType DEF TypeOK, RoomsOK, InRange
  <2>2. PICK order \in [1..Cardinality(found) -> found] :
           Bind(w, [loc[w] EXCEPT !.rooms = order])
    BY <1>19 DEF SwitchRooms
  <2>3. order \in Seq(Rooms)
    BY <2>1
  <2>4. [loc[w] EXCEPT !.rooms = order] \in Locals
    BY <1>0, <2>3, LocalsEdits
  <2> QED
    BY <1>0, <1>19, <2>1, <2>2, <2>3, <2>4, Moves, PointNames DEF SwitchRooms
<1>20. CASE SwitchTry(w)
  <2>1. loc[w].rooms \in Seq(Rooms)
    BY <1>0 DEF Locals
  <2>4. loc[w].rooms # <<>> =>
          Tail(loc[w].rooms) \in Seq(Rooms) /\ Head(loc[w].rooms) \in Rooms
    BY <2>1
  <2>2. loc[w].rooms # <<>> => [loc[w] EXCEPT !.rooms = Tail(loc[w].rooms)] \in Locals
    BY <1>a, <2>4 DEF Locals
  <2>3. ASSUME loc[w].rooms # <<>>, queueSwitch # <<>>
        PROVE  [loc[w] EXCEPT !.room = Head(loc[w].rooms), !.todo = 1,
                              !.ids = <<Head(queueSwitch).id>>] \in Locals
    <3>0. Head(queueSwitch) \in [id : Sockets, room : Rooms]
      BY <2>3, <1>b, Elements
    <3>1. Head(queueSwitch).id \in Sockets
      BY <3>0
    <3>2. <<Head(queueSwitch).id>> \in Seq(Sockets)
      BY <3>1
    <3> QED
      BY <1>a, <2>4, <2>3, <3>2 DEF Locals
  <2> QED
    BY <1>0, <1>20, <2>1, <2>2, <2>3, Moves, PointNames DEF SwitchTry
<1>21. CASE SwitchScore(w)
  <2> DEFINE k == loc[w].pops + IF HasPlace(loc[w].room) THEN 1 ELSE 0
  <2>1. loc[w].todo \in Nat /\ loc[w].pops \in Nat
    BY <1>0 DEF Locals
  <2>2. k \in Nat
    BY <2>1
  <2>4. \A i, j \in Nat :
           [loc[w] EXCEPT !.todo = i, !.pops = j, !.incs = j] \in Locals
    BY <1>a DEF Locals
  <2>3. loc[w].todo > 0 =>
          [loc[w] EXCEPT !.todo = @ - 1, !.pops = k, !.incs = CountMoved(k)] \in Locals
    <3>1. CASE loc[w].todo > 0
      <4>1. loc[w].todo - 1 \in Nat
        BY <2>1, <3>1
      <4>2. CountMoved(k) = k
        BY DEF CountMoved
      <4> HIDE DEF k
      <4> QED
        BY <2>2, <2>4, <4>1, <4>2
    <3> QED
      BY <3>1
  <2> QED
    BY <1>0, <1>21, <2>1, <2>2, <2>3, Moves, PointNames DEF SwitchScore
<1>22. CASE SwitchPop(w)
  <2>1. loc[w].pops \in Nat /\ loc[w].pops > 0
    BY <1>0, <1>22 DEF Locals, LocalsInUse, InUse, SwitchPop
  <2>2. [loc[w] EXCEPT !.pops = @ - 1] \in Locals
    BY <1>a, <2>1 DEF Locals
  <2> QED
    BY <1>0, <1>22, <2>1, <2>2, Moves, PointNames DEF SwitchPop
<1>23. CASE SwitchIncr(w)
  <2>1. loc[w].incs \in Nat /\ loc[w].incs > 0
    BY <1>0, <1>23 DEF Locals, LocalsInUse, InUse, SwitchIncr
  <2>2. [loc[w] EXCEPT !.incs = @ - 1] \in Locals
    BY <1>a, <2>1 DEF Locals
  <2> QED
    BY <1>0, <1>23, <2>1, <2>2, Moves, PointNames DEF SwitchIncr
<1>24. CASE SwitchAfter(w)
  BY <1>0, <1>24, Moves, PointNames DEF SwitchAfter
<1>25. CASE CreateStart(w)
  <2>1. \A n \in {FirstRooms, RepeatRooms} :
           [loc[w] EXCEPT !.n = n, !.todo = n] \in Locals
    BY <1>0, SizesAssumption, LocalsEdits
  <2> QED
    BY <1>0, <1>25, <2>1, Moves, PointNames DEF CreateStart
<1>26. CASE CreateOne(w)
  <2>1. loc[w].todo \in Nat /\ loc[w].todo > 0
    BY <1>0, <1>26 DEF Locals, LocalsInUse, InUse, CreateOne
  <2>2. [loc[w] EXCEPT !.todo = loc[w].todo - 1] \in Locals
    BY <1>a, <2>1 DEF Locals
  <2> QED
    BY <1>0, <1>26, <2>1, <2>2, Moves, PointNames DEF CreateOne
<1>27. CASE ClearPool(w)
  BY <1>0, <1>27, Moves, PointNames DEF ClearPool
<1>28. CASE ClearRooms(w)
  BY <1>0, <1>28, Moves, PointNames DEF ClearRooms
<1>29. CASE ClearAgain(w)
  BY <1>0, <1>29, Moves, PointNames DEF ClearAgain
<1> QED
  BY <1>1, <1>2, <1>3, <1>4, <1>5, <1>6, <1>7, <1>8, <1>9, <1>10, <1>11, <1>12, <1>13, <1>14, <1>15, <1>16, <1>17, <1>18, <1>19, <1>20, <1>21, <1>22, <1>23, <1>24, <1>25, <1>26, <1>27, <1>28, <1>29 DEF Handler

\* The budget stays natural.
LEMMA SpendType ==
  ASSUME left \in [Uses -> Nat]
  PROVE  \A use : Spend(use) => left' \in [Uses -> Nat]
<1> SUFFICES ASSUME NEW use, Spend(use)  PROVE left' \in [Uses -> Nat]
  OBVIOUS
<1>1. CASE use \in Uses
  BY <1>1 DEF Spend
<1>2. CASE use \notin Uses
  BY <1>2 DEF Spend
<1> QED
  BY <1>1, <1>2

-----------------------------------------------------------------------------
\* A command of a handler: every other variable

\* Positions among the first n entries of a list are finitely many.
LEMMA FewOf ==
  ASSUME NEW S, NEW list \in Seq(S), NEW n \in Nat, NEW I \in SUBSET (DOMAIN First(list, n))
  PROVE  Cardinality(I) \in Nat
<1>1. First(list, n) \in Seq(S)
  BY CutFacts
<1>2. DOMAIN First(list, n) = 1..Len(First(list, n)) /\ Len(First(list, n)) \in Nat
  BY <1>1
<1>3. IsFiniteSet(DOMAIN First(list, n))
  BY <1>2, FS_Interval
<1> QED
  BY <1>3, FS_Subset, FS_CardinalityType

\* How many of the waiters a command removes were not read is a number.
LEMMA OutsideType ==
  ASSUME ListsOK
  PROVE  \A others : Outside(queue, others) \in Nat
BY FewOf DEF Outside, ListsOK

\* A command of a handler keeps the type of every variable.
LEMMA HandlerTypes ==
  ASSUME TypeOK, LocalsInUse, NEW w \in Workers, Handler(w)
  PROVE  TypeOK'
<1>0. /\ ListsOK /\ RoomsOK /\ HandlersOK /\ PendingOK /\ GatewayOK /\ TwilioOK
      /\ HistoryOK /\ left \in [Uses -> Nat]
      /\ threeLength \in BOOLEAN /\ onIntermission \in BOOLEAN
  BY DEF TypeOK
<1>a. HandlersOK'
  BY HandlerMoves
<1>b. loc[w] \in Locals
  BY <1>0 DEF HandlersOK
<1>1. CASE FindQueue(w)
  BY <1>0, <1>a, <1>1, Kept DEF FindQueue, TypeOK, redis, flags
<1>2. CASE FindRange(w)
  BY <1>0, <1>a, <1>2, Kept DEF FindRange, TypeOK, redis, flags
<1>3. CASE FindCheck(w)
  BY <1>0, <1>a, <1>3, Kept DEF FindCheck, TypeOK, redis, flags
<1>4. CASE FindIncr(w)
  <2>1. RoomsOK'
    BY <1>0, <1>4 DEF FindIncr, ZSet, RoomsOK, LocalsInUse, InUse
  <2> QED
    BY <1>0, <1>a, <1>4, <2>1, Kept DEF FindIncr, TypeOK, redis, flags
<1>5. CASE FindPop(w)
  <2>1. ListsOK'
    BY <1>0, <1>5, CutFacts DEF FindPop, ListsOK
  <2>2. TwilioOK'
    BY <1>0, <1>5 DEF FindPop, SendRoom, TwilioOK, GatewayOK
  <2>3. HistoryOK'
    BY <1>0, <1>5, OutsideType DEF FindPop, Disturb, HistoryOK, roomHistory, switchHistory
  <2> QED
    BY <1>0, <1>a, <1>5, <2>1, <2>2, <2>3, Kept DEF FindPop, TypeOK, redis, flags
<1>6. CASE FindMore(w)
  <2>1. PendingOK'
    BY <1>0, <1>6 DEF FindMore, PendingOK
  <2> QED
    BY <1>0, <1>a, <1>6, <2>1, Kept DEF FindMore, TypeOK, redis, flags
<1>7. CASE PairsLen(w)
  BY <1>0, <1>a, <1>7, Kept DEF PairsLen, TypeOK, redis, flags
<1>8. CASE PairsRange(w)
  <2>1. Len(First(queue, 2)) \in Nat /\ Len(First(queue, 2)) <= 2
    BY <1>0, CutFacts DEF ListsOK
  <2>2. HistoryOK'
    BY <1>0, <1>8, <2>1 DEF PairsRange, HistoryOK, roomHistory, switchHistory
  <2> QED
    BY <1>0, <1>a, <1>8, <2>2, Kept DEF PairsRange, TypeOK, redis, flags
<1>9. CASE PairsTrim(w)
  <2>1. ListsOK'
    BY <1>0, <1>9, CutFacts DEF PairsTrim, ListsOK
  <2>2. HistoryOK'
    BY <1>0, <1>9, OutsideType DEF PairsTrim, HistoryOK, roomHistory, switchHistory
  <2> QED
    BY <1>0, <1>a, <1>9, <2>1, <2>2, Kept DEF PairsTrim, TypeOK, redis, flags
<1>10. CASE PairsPool(w)
  BY <1>0, <1>a, <1>10, Kept DEF PairsPool, TypeOK, redis, flags
<1>11. CASE PairsRoom(w)
  <2>1. pool # <<>> => Tail(pool) \in Seq(Rooms)
    BY <1>0, Elements DEF RoomsOK
  <2>2. RoomsOK'
    BY <1>0, <1>11, <2>1 DEF PairsRoom, PoolRest, RoomsOK, zset
  <2>3. TwilioOK'
    BY <1>0, <1>11 DEF PairsRoom, TwilioCreate, SendRoom, TwilioOK, GatewayOK
  <2>4. HistoryOK'
    BY <1>0, <1>11 DEF PairsRoom, HistoryOK, waitHistory, switchHistory
  <2> QED
    BY <1>0, <1>a, <1>11, <2>2, <2>3, <2>4, Kept DEF PairsRoom, TypeOK, redis, flags
<1>12. CASE PairsError(w)
  <2>1. left' \in [Uses -> Nat]
    BY <1>0, <1>12, SpendType DEF PairsError
  <2> QED
    BY <1>0, <1>a, <1>12, <2>1, Kept DEF PairsError, TypeOK, redis, flags
<1>13. CASE PairsZadd(w)
  <2>1. RoomsOK'
    BY <1>0, <1>13 DEF PairsZadd, ZSet, RoomsOK, LocalsInUse, InUse, PairScore
  <2> QED
    BY <1>0, <1>a, <1>13, <2>1, Kept DEF PairsZadd, TypeOK, redis, flags
<1>14. CASE SwitchLen(w)
  BY <1>0, <1>a, <1>14, Kept DEF SwitchLen, TypeOK, redis, flags
<1>15. CASE SwitchRange(w)
  <2>1. HistoryOK'
    BY <1>0, <1>15 DEF SwitchRange, HistoryOK, roomHistory, waitHistory
  <2> QED
    BY <1>0, <1>a, <1>15, <2>1, Kept DEF SwitchRange, TypeOK, redis, flags
<1>16. CASE SwitchCreate(w)
  <2>1. RoomsOK'
    BY <1>0, <1>16 DEF SwitchCreate, RoomsOK, zset
  <2>2. TwilioOK'
    BY <1>0, <1>16 DEF SwitchCreate, TwilioCreate, TwilioOK
  <2>3. HistoryOK'
    BY <1>0, <1>16 DEF SwitchCreate, HistoryOK, waitHistory, switchHistory
  <2> QED
    BY <1>0, <1>a, <1>16, <2>1, <2>2, <2>3, Kept DEF SwitchCreate, TypeOK, redis, flags
<1>17. CASE SwitchZadd(w)
  <2>1. RoomsOK'
    BY <1>0, <1>17 DEF SwitchZadd, ZSet, RoomsOK, LocalsInUse, InUse
  <2> QED
    BY <1>0, <1>a, <1>17, <2>1, Kept DEF SwitchZadd, TypeOK, redis, flags
<1>18. CASE SwitchQueue(w)
  BY <1>0, <1>a, <1>18, Kept DEF SwitchQueue, TypeOK, redis, flags
<1>19. CASE SwitchRooms(w)
  BY <1>0, <1>a, <1>19, Kept DEF SwitchRooms, TypeOK, redis, flags
<1>20. CASE SwitchTry(w)
  BY <1>0, <1>a, <1>20, Kept DEF SwitchTry, TypeOK, redis, flags
<1>21. CASE SwitchScore(w)
  <2>1. loc[w].ids \in Seq(Sockets)
    BY <1>b DEF Locals
  <2>2. TwilioOK'
    BY <1>0, <1>21, <2>1 DEF SwitchScore, SendRoom, TwilioOK, GatewayOK
  <2> QED
    BY <1>0, <1>a, <1>21, <2>2, Kept DEF SwitchScore, TypeOK, redis, flags
<1>22. CASE SwitchPop(w)
  <2>1. ListsOK'
    BY <1>0, <1>22, CutFacts DEF SwitchPop, ListsOK
  <2> DEFINE popped == First(queueSwitch, 1)
             others == {i \in DOMAIN popped : popped[i].id \notin ToSet(loc[w].ids)}
  <2>2. Cardinality(others) \in Nat
    BY <1>0, FewOf DEF ListsOK
  <2>3. skipped' = skipped + Cardinality(others)
    BY <1>22 DEF SwitchPop
  <2>4. HistoryOK'
    BY <1>0, <1>22, <2>2, <2>3 DEF SwitchPop, HistoryOK, roomHistory, waitHistory
  <2> QED
    BY <1>0, <1>a, <1>22, <2>1, <2>3, <2>4, Kept DEF SwitchPop, TypeOK, redis, flags
<1>23. CASE SwitchIncr(w)
  <2>1. RoomsOK'
    BY <1>0, <1>23 DEF SwitchIncr, ZSet, RoomsOK, LocalsInUse, InUse
  <2> QED
    BY <1>0, <1>a, <1>23, <2>1, Kept DEF SwitchIncr, TypeOK, redis, flags
<1>24. CASE SwitchAfter(w)
  <2>1. PendingOK'
    BY <1>0, <1>24 DEF SwitchAfter, PendingOK
  <2> QED
    BY <1>0, <1>a, <1>24, <2>1, Kept DEF SwitchAfter, TypeOK, redis, flags
<1>25. CASE CreateStart(w)
  <2>1. PendingOK'
    BY <1>0, <1>25 DEF CreateStart, PendingOK, emitted
  <2>2. threeLength' \in BOOLEAN
    BY <1>0, <1>25 DEF CreateStart
  <2> QED
    BY <1>0, <1>a, <1>25, <2>1, <2>2, Kept DEF CreateStart, TypeOK, redis, flags
<1>26. CASE CreateOne(w)
  <2>1. RoomsOK'
    BY <1>0, <1>26 DEF CreateOne, RoomsOK, zset
  <2>2. TwilioOK'
    BY <1>0, <1>26 DEF CreateOne, TwilioCreate, TwilioOK
  <2>3. loc[w].todo \in Nat /\ loc[w].todo > 0
    BY <1>b, <1>26 DEF Locals, LocalsInUse, InUse, CreateOne
  <2>4. PendingOK'
    BY <1>0, <1>26, <2>3 DEF CreateOne, PendingOK, emitted
  <2> QED
    BY <1>0, <1>a, <1>26, <2>1, <2>2, <2>4, Kept DEF CreateOne, TypeOK, redis, flags
<1>27. CASE ClearPool(w)
  <2>1. RoomsOK'
    BY <1>0, <1>27 DEF ClearPool, RoomsOK, zset
  <2> QED
    BY <1>0, <1>a, <1>27, <2>1, Kept DEF ClearPool, TypeOK, redis, flags
<1>28. CASE ClearRooms(w)
  <2>1. RoomsOK'
    BY <1>0, <1>28 DEF ClearRooms, RoomsOK
  <2> QED
    BY <1>0, <1>a, <1>28, <2>1, Kept DEF ClearRooms, TypeOK, redis, flags
<1>29. CASE ClearAgain(w)
  BY <1>0, <1>a, <1>29, Kept DEF ClearAgain, TypeOK, redis, flags
<1> QED
  BY <1>1, <1>2, <1>3, <1>4, <1>5, <1>6, <1>7, <1>8, <1>9, <1>10, <1>11, <1>12, <1>13, <1>14, <1>15, <1>16, <1>17, <1>18, <1>19, <1>20, <1>21, <1>22, <1>23, <1>24, <1>25, <1>26, <1>27, <1>28, <1>29 DEF Handler

-----------------------------------------------------------------------------
\* The other steps

\* Every job starts at a command.
LEMMA EntryPoints == \A name \in Names : Entry[name] \in Points
BY PointNames DEF Names, Entry

\* The history of the queue stays a number ...
LEMMA DisturbType ==
  ASSUME ListsOK, HistoryOK, NEW rest, Disturb(rest)
  PROVE  disturbed' \in Nat
BY OutsideType DEF Disturb, HistoryOK

\* ... and so does that of queueSwitch.
LEMMA DisplaceType ==
  ASSUME ListsOK, HistoryOK, NEW rest, Len(rest) \in Nat, Len(rest) <= Len(queueSwitch),
         Displace(rest)
  PROVE  displaced' \in Nat
<1>1. Len(queueSwitch) \in Nat
  BY DEF ListsOK
<1>2. Len(queueSwitch) - Len(rest) \in Nat
  BY <1>1
<1> QED
  BY <1>2 DEF Displace, HistoryOK

\* What requestRoom, switchRoom, cancelRequest and a disconnect take out.
LEMMA RemTypes ==
  ASSUME ListsOK
  PROVE  /\ \A s : LRem(queue, s) \in Seq(Sockets)
         /\ \A entry : /\ LRem(queueSwitch, entry) \in Seq([id : Sockets, room : Rooms])
                       /\ Len(LRem(queueSwitch, entry)) \in Nat
                       /\ Len(LRem(queueSwitch, entry)) <= Len(queueSwitch)
<1>1. queue \in Seq(Sockets) /\ queueSwitch \in Seq([id : Sockets, room : Rooms])
  BY DEF ListsOK
<1>2. \A s : LRem(queue, s) \in Seq(Sockets)
  BY <1>1, LRemFacts
<1>3. \A entry : /\ LRem(queueSwitch, entry) \in Seq([id : Sockets, room : Rooms])
                 /\ Len(LRem(queueSwitch, entry)) <= Len(queueSwitch)
  BY <1>1, LRemFacts
<1>4. \A entry : Len(LRem(queueSwitch, entry)) \in Nat
  BY <1>3
<1> QED
  BY <1>2, <1>3, <1>4

\* A socket that is taken out of both lists leaves lists.
LEMMA WithdrawTypes ==
  ASSUME ListsOK, HistoryOK, NEW s \in Sockets, Withdraw(s)
  PROVE  ListsOK' /\ disturbed' \in Nat /\ displaced' \in Nat
<1>1. disturbed' \in Nat
  BY DisturbType DEF Withdraw
<1>2. /\ queueSwitch' \in Seq([id : Sockets, room : Rooms])
      /\ Len(queueSwitch') \in Nat /\ Len(queueSwitch') <= Len(queueSwitch)
  <2>1. queueSwitch \in Seq([id : Sockets, room : Rooms])
    BY DEF ListsOK
  <2>2. Len(queueSwitch) \in Nat
    BY <2>1
  <2>3. queueSwitch' = queueSwitch \/ \E entry : queueSwitch' = LRem(queueSwitch, entry)
    BY DEF Withdraw
  <2> QED
    BY <2>1, <2>2, <2>3, RemTypes
<1>3. displaced' \in Nat
  BY <1>2, DisplaceType DEF Withdraw
<1>4. queue' \in Seq(Sockets)
  BY RemTypes DEF Withdraw
<1> QED
  BY <1>1, <1>2, <1>3, <1>4 DEF ListsOK

\* The handlers of the gateway keep every type.
LEMMA SocketTypes ==
  ASSUME TypeOK, NEW s \in Sockets, Socket(s)
  PROVE  TypeOK'
<1>0. /\ ListsOK /\ RoomsOK /\ HandlersOK /\ PendingOK /\ GatewayOK /\ TwilioOK
      /\ HistoryOK /\ left \in [Uses -> Nat]
      /\ threeLength \in BOOLEAN /\ onIntermission \in BOOLEAN
  BY DEF TypeOK
<1>1. CASE RequestRoom(s)
  <2>1. ListsOK'
    BY <1>0, <1>1, RemTypes DEF RequestRoom, ListsOK
  <2>2. GatewayOK'
    BY <1>0, <1>1 DEF RequestRoom, GatewayOK
  <2>3. HistoryOK'
    BY <1>0, <1>1, DisturbType DEF RequestRoom, HistoryOK, roomHistory, switchHistory
  <2> QED
    BY <1>0, <1>1, <2>1, <2>2, <2>3, Kept, SpendType DEF RequestRoom, TypeOK, flags
<1>2. CASE PushRequest(s)
  <2>1. ListsOK'
    BY <1>0, <1>2 DEF PushRequest, ListsOK
  <2>2. GatewayOK'
    BY <1>0, <1>2 DEF PushRequest, GatewayOK
  <2>3. PendingOK'
    BY <1>0, <1>2 DEF PushRequest, PendingOK
  <2> QED
    BY <1>0, <1>2, <2>1, <2>2, <2>3, Kept DEF PushRequest, TypeOK, flags
<1>3. CASE CancelRequest(s)
  <2>1. ListsOK'
    BY <1>0, <1>3, WithdrawTypes DEF CancelRequest
  <2>2. HistoryOK'
    BY <1>0, <1>3, WithdrawTypes DEF CancelRequest, HistoryOK, roomHistory
  <2> QED
    BY <1>0, <1>3, <2>1, <2>2, Kept, SpendType DEF CancelRequest, TypeOK, flags
<1>4. CASE Disconnect(s)
  <2>1. ListsOK'
    BY <1>0, <1>4, WithdrawTypes DEF Disconnect, ListsOK
  <2>2. HistoryOK'
    BY <1>0, <1>4, WithdrawTypes DEF Disconnect, HistoryOK, roomHistory
  <2>3. GatewayOK'
    BY <1>0, <1>4 DEF Disconnect, GatewayOK
  <2> QED
    BY <1>0, <1>4, <2>1, <2>2, <2>3, Kept, SpendType DEF Disconnect, TypeOK, flags
<1>5. ASSUME NEW r \in Rooms, RequestSwitch(s, r)
      PROVE  TypeOK'
  <2>1. ListsOK'
    BY <1>0, <1>5, RemTypes DEF RequestSwitch, ListsOK
  <2>2. displaced' \in Nat
    BY <1>0, <1>5, RemTypes, DisplaceType DEF RequestSwitch
  <2>3. HistoryOK'
    BY <1>0, <1>5, <2>2 DEF RequestSwitch, HistoryOK, roomHistory, waitHistory
  <2>4. GatewayOK'
    BY <1>0, <1>5 DEF RequestSwitch, GatewayOK
  <2> QED
    BY <1>0, <1>5, <2>1, <2>3, <2>4, Kept, SpendType DEF RequestSwitch, TypeOK, flags
<1>6. ASSUME NEW r \in Rooms, RoomStatus(s, r)
      PROVE  TypeOK'
  <2>1. RoomsOK'
    BY <1>0, <1>6 DEF RoomStatus, CountLeaving, ZSet, RoomsOK
  <2>2. TwilioOK'
    BY <1>0, <1>6 DEF RoomStatus, TwilioOK
  <2>3. PendingOK'
    BY <1>0, <1>6 DEF RoomStatus, PendingOK
  <2> QED
    BY <1>0, <1>6, <2>1, <2>2, <2>3, Kept, SpendType DEF RoomStatus, TypeOK, flags
<1>7. ASSUME NEW r \in Rooms, PushSwitch([id |-> s, room |-> r])
      PROVE  TypeOK'
  <2>1. ListsOK'
    BY <1>0, <1>7 DEF PushSwitch, ListsOK
  <2>2. GatewayOK'
    BY <1>0, <1>7 DEF PushSwitch, GatewayOK
  <2>3. PendingOK'
    BY <1>0, <1>7 DEF PushSwitch, PendingOK
  <2> QED
    BY <1>0, <1>7, <2>1, <2>2, <2>3, Kept DEF PushSwitch, TypeOK, flags
<1> QED
  BY <1>1, <1>2, <1>3, <1>4, <1>5, <1>6, <1>7 DEF Socket

\* Bull and redis-lock keep every type.
LEMMA WorkerTypes ==
  ASSUME TypeOK, LocalsInUse, NEW w \in Workers,
         Take(w) \/ Acquire(w) \/ Timeout(w) \/ Crash(w)
  PROVE  TypeOK'
<1>0. /\ ListsOK /\ RoomsOK /\ HandlersOK /\ PendingOK /\ GatewayOK /\ TwilioOK
      /\ HistoryOK /\ left \in [Uses -> Nat]
      /\ threeLength \in BOOLEAN /\ onIntermission \in BOOLEAN
      /\ lock \in [LockKeys -> Workers \cup {Nobody}]
      /\ jobs \in [JobSet -> Nat]
      /\ pc \in [Workers -> Points]
      /\ job \in [Workers -> JobSet \cup {NoJob}]
      /\ loc \in [Workers -> Locals]
  BY DEF TypeOK, HandlersOK
<1>1. CASE Take(w)
  <2>1. PICK j \in JobSet :
          /\ jobs[j] > 0
          /\ IF j[1] = "clearExpiredRooms" THEN Spend("delay") ELSE UNCHANGED left
          /\ jobs' = [jobs EXCEPT ![j] = @ - 1]
          /\ job' = [job EXCEPT ![w] = j]
          /\ Goto(w, Entry[j[1]])
    BY <1>1 DEF Take
  <2>2. Entry[j[1]] \in Points
    BY EntryPoints DEF JobSet
  <2>3. pc' \in [Workers -> Points]
    BY <1>0, <2>1, <2>2, Moves
  <2>4. jobs' \in [JobSet -> Nat] /\ job' \in [Workers -> JobSet \cup {NoJob}]
    BY <1>0, <2>1
  <2>5. HandlersOK'
    BY <1>0, <1>1, <2>3, <2>4 DEF Take, HandlersOK
  <2>6. left' \in [Uses -> Nat]
    BY <1>0, <2>1, SpendType
  <2> QED
    BY <1>0, <1>1, <2>5, <2>6, Kept DEF Take, TypeOK, redis, flags
<1>2. CASE Acquire(w)
  <2>1. pc[w] \in {"findLock", "pairsLock", "switchLock"}
    BY <1>2 DEF Acquire, KeyOf
  <2>2. Locked[pc[w]] \in Points
    BY <2>1, PointNames DEF Locked
  <2>3. pc' \in [Workers -> Points]
    BY <1>0, <1>2, <2>2, Moves DEF Acquire
  <2>4. lock' \in [LockKeys -> Workers \cup {Nobody}]
    BY <1>0, <1>2 DEF Acquire
  <2>5. HandlersOK'
    BY <1>0, <1>2, <2>3, <2>4 DEF Acquire, HandlersOK
  <2> QED
    BY <1>0, <1>2, <2>5, Kept DEF Acquire, TypeOK, redis, flags
<1>3. CASE Timeout(w)
  <2>1. pc[w] \in Points /\ "idle" \in Points
    BY <1>0, PointNames
  <2>2. pc' \in [Workers -> Points]
    BY <1>0, <1>3, <2>1, Moves DEF Timeout
  <2>3. jobs' \in [JobSet -> Nat] /\ job' \in [Workers -> JobSet \cup {NoJob}]
    BY <1>0, <1>3 DEF Timeout
  <2>4. HandlersOK'
    BY <1>0, <1>3, <2>2, <2>3 DEF Timeout, HandlersOK
  <2>5. left' \in [Uses -> Nat]
    BY <1>0, <1>3, SpendType DEF Timeout
  <2> QED
    BY <1>0, <1>3, <2>4, <2>5, Kept DEF Timeout, TypeOK, redis, flags
<1>4. CASE Crash(w)
  <2>1. jobs' \in [JobSet -> Nat]
    BY <1>0, <1>4 DEF Crash
  <2>2. HandlersOK'
    BY <1>0, <1>4, <2>1, Moves DEF Crash, HandlersOK
  <2>3. PendingOK'
    BY <1>0, <1>4 DEF Crash, PendingOK
  <2>4. pc[w] \in {"pairsZadd", "switchScore", "switchPop", "switchIncr"}
          => loc[w].room \in Rooms
    BY DEF LocalsInUse, InUse
  <2>5. tainted' \subseteq Rooms
    BY <1>0, <1>4, <2>4 DEF Crash, HistoryOK
  <2>6. HistoryOK'
    BY <1>0, <1>4, <2>5 DEF Crash, HistoryOK, waitHistory, switchHistory
  <2> QED
    BY <1>0, <1>4, <2>2, <2>3, <2>6, Kept, SpendType DEF Crash, TypeOK, redis, flags
<1> QED
  BY <1>1, <1>2, <1>3, <1>4

\* Events, timers and left-over promises keep every type.
LEMMA RestTypes ==
  ASSUME TypeOK,
         \/ OnChanged \/ OnSwitch \/ Background \/ ThreeLengthExpires \/ TimerFires
         \/ EndIntermission \/ (\E key \in LockKeys : Expire(key)) \/ UNCHANGED vars
  PROVE  TypeOK'
<1>0. /\ ListsOK /\ RoomsOK /\ HandlersOK /\ PendingOK /\ GatewayOK /\ TwilioOK
      /\ HistoryOK /\ left \in [Uses -> Nat]
      /\ threeLength \in BOOLEAN /\ onIntermission \in BOOLEAN
  BY DEF TypeOK
<1>a. \A names : Adding(names) \in [JobSet -> Nat]
  BY <1>0 DEF HandlersOK, Adding
<1>1. CASE OnChanged
  <2>1. HandlersOK'
    BY <1>0, <1>1, <1>a DEF OnChanged, HandlersOK
  <2>2. PendingOK'
    BY <1>0, <1>1 DEF OnChanged, PendingOK
  <2> QED
    BY <1>0, <1>1, <2>1, <2>2, Kept DEF OnChanged, TypeOK, redis, flags
<1>2. CASE OnSwitch
  <2>1. HandlersOK'
    BY <1>0, <1>2, <1>a DEF OnSwitch, HandlersOK
  <2>2. PendingOK'
    BY <1>0, <1>2 DEF OnSwitch, PendingOK
  <2> QED
    BY <1>0, <1>2, <2>1, <2>2, Kept DEF OnSwitch, TypeOK, redis, flags
<1>3. CASE Background
  <2>1. RoomsOK'
    BY <1>0, <1>3 DEF Background, RoomsOK, zset
  <2>2. TwilioOK'
    BY <1>0, <1>3 DEF Background, TwilioCreate, TwilioOK
  <2>3. PendingOK'
    BY <1>0, <1>3 DEF Background, PendingOK, emitted
  <2> QED
    BY <1>0, <1>3, <2>1, <2>2, <2>3, Kept DEF Background, TypeOK, flags
<1>4. CASE ThreeLengthExpires
  BY <1>0, <1>4, Kept DEF ThreeLengthExpires, TypeOK
<1>5. CASE TimerFires
  <2>1. PendingOK'
    BY <1>0, <1>5 DEF TimerFires, PendingOK
  <2> QED
    BY <1>0, <1>5, <2>1, Kept DEF TimerFires, TypeOK, redis, flags
<1>6. CASE EndIntermission
  <2>1. ListsOK'
    BY <1>6 DEF EndIntermission, ListsOK
  <2>2. RoomsOK'
    BY <1>6 DEF EndIntermission, RoomsOK
  <2>3. disturbed' \in Nat
    BY <1>0, <1>6, DisturbType DEF EndIntermission
  <2>4. displaced' \in Nat
    <3>1. Len(<<>>) = 0 /\ Len(queueSwitch) \in Nat
      BY <1>0 DEF ListsOK
    <3> QED
      BY <1>0, <1>6, <3>1, DisplaceType DEF EndIntermission
  <2>5. HistoryOK'
    BY <1>0, <1>6, <2>3, <2>4 DEF EndIntermission, HistoryOK, RoomsOK
  <2> QED
    BY <1>0, <1>6, <2>1, <2>2, <2>5, Kept, SpendType DEF EndIntermission, TypeOK
<1>7. ASSUME NEW key \in LockKeys, Expire(key)
      PROVE  TypeOK'
  <2>1. HandlersOK'
    BY <1>0, <1>7 DEF Expire, HandlersOK
  <2> QED
    BY <1>0, <1>7, <2>1, Kept, SpendType DEF Expire, TypeOK, redis, flags
<1>8. CASE UNCHANGED vars
  BY <1>0, <1>8, Kept DEF vars, TypeOK, redis, flags
<1> QED
  BY <1>1, <1>2, <1>3, <1>4, <1>5, <1>6, <1>7, <1>8

-----------------------------------------------------------------------------
\* What a command does to its own handler and to the others

\* What the helpers of a command do to its own handler and to the others.
LEMMA Effects ==
  ASSUME HandlersOK, NEW w \in Workers
  PROVE  /\ \A p : Goto(w, p) => /\ pc'[w] = p
                                 /\ \A v \in Workers \ {w} : pc'[v] = pc[v]
         /\ \A l : Bind(w, l) => /\ loc'[w] = l
                                 /\ \A v \in Workers \ {w} : loc'[v] = loc[v]
         /\ JobDone(w) => /\ pc'[w] = "idle" /\ loc'[w] = NoLoc
                          /\ \A v \in Workers \ {w} : pc'[v] = pc[v] /\ loc'[v] = loc[v]
         /\ HangUp(w) => /\ pc'[w] \in {"idle", "hung"} /\ loc'[w] = NoLoc
                         /\ \A v \in Workers \ {w} : pc'[v] = pc[v] /\ loc'[v] = loc[v]
<1>1. \A p : Goto(w, p) => /\ pc'[w] = p
                           /\ \A v \in Workers \ {w} : pc'[v] = pc[v]
  BY DEF HandlersOK, Goto
<1>2. \A l : Bind(w, l) => /\ loc'[w] = l
                           /\ \A v \in Workers \ {w} : loc'[v] = loc[v]
  BY DEF HandlersOK, Bind
<1> QED
  BY <1>1, <1>2 DEF JobDone, HangUp

\* A command of one handler moves no other handler.
LEMMA OthersStay ==
  ASSUME HandlersOK, NEW w \in Workers, Handler(w)
  PROVE  \A v \in Workers \ {w} : pc'[v] = pc[v] /\ loc'[v] = loc[v]
<1>1. CASE FindQueue(w)
  BY <1>1, Effects DEF FindQueue
<1>2. CASE FindRange(w)
  BY <1>2, Effects DEF FindRange
<1>3. CASE FindCheck(w)
  BY <1>3, Effects DEF FindCheck
<1>4. CASE FindIncr(w)
  BY <1>4, Effects DEF FindIncr
<1>5. CASE FindPop(w)
  BY <1>5, Effects DEF FindPop
<1>6. CASE FindMore(w)
  BY <1>6, Effects DEF FindMore
<1>7. CASE PairsLen(w)
  BY <1>7, Effects DEF PairsLen
<1>8. CASE PairsRange(w)
  BY <1>8, Effects DEF PairsRange
<1>9. CASE PairsTrim(w)
  BY <1>9, Effects DEF PairsTrim
<1>10. CASE PairsPool(w)
  BY <1>10, Effects DEF PairsPool
<1>11. CASE PairsRoom(w)
  BY <1>11, Effects DEF PairsRoom
<1>12. CASE PairsError(w)
  BY <1>12, Effects DEF PairsError
<1>13. CASE PairsZadd(w)
  BY <1>13, Effects DEF PairsZadd
<1>14. CASE SwitchLen(w)
  BY <1>14, Effects DEF SwitchLen
<1>15. CASE SwitchRange(w)
  BY <1>15, Effects DEF SwitchRange
<1>16. CASE SwitchCreate(w)
  BY <1>16, Effects DEF SwitchCreate
<1>17. CASE SwitchZadd(w)
  BY <1>17, Effects DEF SwitchZadd
<1>18. CASE SwitchQueue(w)
  BY <1>18, Effects DEF SwitchQueue
<1>19. CASE SwitchRooms(w)
  BY <1>19, Effects DEF SwitchRooms
<1>20. CASE SwitchTry(w)
  BY <1>20, Effects DEF SwitchTry
<1>21. CASE SwitchScore(w)
  BY <1>21, Effects DEF SwitchScore
<1>22. CASE SwitchPop(w)
  BY <1>22, Effects DEF SwitchPop
<1>23. CASE SwitchIncr(w)
  BY <1>23, Effects DEF SwitchIncr
<1>24. CASE SwitchAfter(w)
  BY <1>24, Effects DEF SwitchAfter
<1>25. CASE CreateStart(w)
  BY <1>25, Effects DEF CreateStart
<1>26. CASE CreateOne(w)
  BY <1>26, Effects DEF CreateOne
<1>27. CASE ClearPool(w)
  BY <1>27, Effects DEF ClearPool
<1>28. CASE ClearRooms(w)
  BY <1>28, Effects DEF ClearRooms
<1>29. CASE ClearAgain(w)
  BY <1>29, Effects DEF ClearAgain
<1> QED
  BY <1>1, <1>2, <1>3, <1>4, <1>5, <1>6, <1>7, <1>8, <1>9, <1>10, <1>11, <1>12, <1>13, <1>14, <1>15, <1>16, <1>17, <1>18, <1>19, <1>20, <1>21, <1>22, <1>23, <1>24, <1>25, <1>26, <1>27, <1>28, <1>29 DEF Handler

\* A handler that has given its job back has no locals.
LEMMA RestInUse ==
  \A p \in {"idle", "hung", "createStart", "clearPool", "findLock", "pairsLock",
           "switchLock", "switchLen", "findQueue", "pairsLen"} : InUse(p, NoLoc)
BY DEF InUse, NoLoc, SwitchPoints

\* Commands before which a handler has chosen neither a room nor sockets.
LEMMA FreeInUse ==
  \A l : \A p \in {"findQueue", "findRange", "findMore", "pairsLen", "pairsRange",
                   "pairsTrim", "pairsPool", "pairsRoom", "switchAfter",
                   "clearRooms", "clearAgain"} : InUse(p, l)
BY DEF InUse, SwitchPoints

\* A command leaves its handler with the locals that the next one needs.
LEMMA UseMoves ==
  ASSUME TypeOK, LocalsInUse, NEW w \in Workers, Handler(w)
  PROVE  InUse(pc'[w], loc'[w])
<1> DEFINE l == loc[w]
<1>0. HandlersOK /\ l \in Locals /\ InUse(pc[w], l)
  BY DEF TypeOK, HandlersOK, LocalsInUse
<1>a. l.todo \in Nat /\ l.incs \in Nat /\ l.pops \in Nat /\ l.n \in Nat
  BY <1>0 DEF Locals
<1>b. JobDone(w) \/ HangUp(w) => InUse(pc'[w], loc'[w])
  BY <1>0, Effects, RestInUse
<1>c. listed \subseteq Rooms
  BY DEF TypeOK, RoomsOK
<1> HIDE DEF l
<1>1. CASE FindQueue(w)
  BY <1>0, <1>b, <1>1, Effects, FreeInUse DEF FindQueue
<1>2. CASE FindRange(w)
  <2>1. CASE JobDone(w)
    BY <1>b, <2>1
  <2>2. CASE ~JobDone(w)
    <3>1. PICK r \in InRange(LowestScore(l.n), HighestScore) :
             Bind(w, [l EXCEPT !.room = r])
      BY <1>2, <2>2 DEF FindRange, l
    <3>2. r \in Rooms
      BY <1>c DEF InRange
    <3>3. pc'[w] = "findLen" /\ loc'[w] = [l EXCEPT !.room = r]
      BY <1>0, <1>2, <2>2, <3>1, Effects DEF FindRange
    <3>4. InUse("findLen", [l EXCEPT !.room = r])
      BY <1>0, <3>2 DEF InUse, SwitchPoints, Locals
    <3> QED
      BY <3>3, <3>4
  <2> QED
    BY <2>1, <2>2
<1>3. CASE FindCheck(w)
  <2>1. CASE JobDone(w)
    BY <1>b, <2>1
  <2>2. CASE ~JobDone(w)
    <3>0. /\ \/ pc[w] = "findLen" /\ Goto(w, "findScore")
             \/ pc[w] = "findScore" /\ Goto(w, "findIncr")
          /\ UNCHANGED loc
      BY <1>3, <2>2 DEF FindCheck
    <3>1. /\ \/ pc[w] = "findLen" /\ pc'[w] = "findScore"
             \/ pc[w] = "findScore" /\ pc'[w] = "findIncr"
          /\ loc'[w] = l
      BY <1>0, <3>0, Effects DEF l
    <3>2. /\ InUse("findLen", l) => InUse("findScore", l)
          /\ InUse("findScore", l) => InUse("findIncr", l)
      BY DEF InUse, SwitchPoints
    <3> QED
      BY <1>0, <3>1, <3>2
  <2> QED
    BY <2>1, <2>2
<1>4. CASE FindIncr(w)
  <2>1. pc[w] = "findIncr" /\ pc'[w] = "findPop" /\ loc'[w] = l
    BY <1>0, <1>4, Effects DEF FindIncr, l
  <2>2. InUse("findIncr", l) => InUse("findPop", l)
    BY <1>a DEF InUse, SwitchPoints
  <2> QED
    BY <1>0, <2>1, <2>2
<1>5. CASE FindPop(w)
  BY <1>0, <1>b, <1>5, Effects, FreeInUse DEF FindPop
<1>6. CASE FindMore(w)
  BY <1>0, <1>b, <1>6, Effects, FreeInUse DEF FindMore
<1>7. CASE PairsLen(w)
  BY <1>0, <1>b, <1>7, Effects, FreeInUse DEF PairsLen, l
<1>8. CASE PairsRange(w)
  BY <1>0, <1>b, <1>8, Effects, FreeInUse DEF PairsRange
<1>9. CASE PairsTrim(w)
  BY <1>0, <1>b, <1>9, Effects, FreeInUse DEF PairsTrim
<1>10. CASE PairsPool(w)
  BY <1>0, <1>b, <1>10, Effects, FreeInUse DEF PairsPool
<1>11. CASE PairsRoom(w)
  <2>1. PICK r \in Rooms : Bind(w, [l EXCEPT !.room = r, !.ids = <<>>])
    BY <1>11 DEF PairsRoom, l
  <2>2. pc'[w] = "pairsZadd" /\ loc'[w] = [l EXCEPT !.room = r, !.ids = <<>>]
    BY <1>0, <1>11, <2>1, Effects DEF PairsRoom
  <2>3. InUse("pairsZadd", [l EXCEPT !.room = r, !.ids = <<>>])
    BY <1>0 DEF InUse, SwitchPoints, Locals
  <2> QED
    BY <2>2, <2>3
<1>12. CASE PairsError(w)
  BY <1>0, <1>b, <1>12, Effects, FreeInUse DEF PairsError
<1>13. CASE PairsZadd(w)
  BY <1>0, <1>b, <1>13, Effects, FreeInUse DEF PairsZadd
<1>14. CASE SwitchLen(w)
  <2>1. pc[w] = "switchLen" /\ pc'[w] = "switchRange" /\ loc'[w] = [l EXCEPT !.n = Len(queueSwitch)]
    BY <1>0, <1>14, Effects DEF SwitchLen, l
  <2>2. InUse("switchLen", l) => InUse("switchRange", [l EXCEPT !.n = Len(queueSwitch)])
    BY <1>0, <1>a DEF InUse, SwitchPoints, Locals, NoLoc
  <2> QED
    BY <1>0, <2>1, <2>2
<1>15. CASE SwitchRange(w)
  <2> DEFINE ids == <<queueSwitch[1].id, queueSwitch[Max(Elsewhere)].id>>
             pair == [l EXCEPT !.pair = TRUE, !.todo = 2, !.ids = ids]
  <2>1. \/ JobDone(w)
        \/ Bind(w, pair) /\ Goto(w, "switchCreate")
        \/ Goto(w, "switchQueue") /\ UNCHANGED loc
    BY <1>15 DEF SwitchRange, l
  <2>2. pc[w] = "switchRange"
    BY <1>15 DEF SwitchRange
  <2>3. CASE Bind(w, pair) /\ Goto(w, "switchCreate")
    <3>1. pc'[w] = "switchCreate" /\ loc'[w] = pair
      BY <1>0, <2>3, Effects
    <3>2. Len(ids) = 2
      OBVIOUS
    <3>3. pair.todo = 2 /\ pair.incs = l.incs /\ pair.pops = l.pops /\ pair.ids = ids
      BY <1>0 DEF Locals
    <3> HIDE DEF pair, ids
    <3>4. InUse("switchRange", l) => InUse("switchCreate", pair)
      BY <3>2, <3>3 DEF InUse, SwitchPoints
    <3> QED
      BY <1>0, <2>2, <3>1, <3>4
  <2>4. CASE Goto(w, "switchQueue") /\ UNCHANGED loc
    <3>1. pc'[w] = "switchQueue" /\ loc'[w] = l
      BY <1>0, <2>4, Effects DEF l
    <3>2. InUse("switchRange", l) => InUse("switchQueue", l)
      BY DEF InUse, SwitchPoints
    <3> QED
      BY <1>0, <2>2, <3>1, <3>2
  <2> QED
    BY <1>b, <2>1, <2>3, <2>4
<1>16. CASE SwitchCreate(w)
  <2>1. PICK r \in Rooms : Bind(w, [l EXCEPT !.room = r])
    BY <1>16 DEF SwitchCreate, l
  <2>2. pc[w] = "switchCreate" /\ pc'[w] = "switchZadd" /\ loc'[w] = [l EXCEPT !.room = r]
    BY <1>0, <1>16, <2>1, Effects DEF SwitchCreate
  <2>3. InUse("switchCreate", l) => InUse("switchZadd", [l EXCEPT !.room = r])
    BY <1>0 DEF InUse, SwitchPoints, Locals
  <2> QED
    BY <1>0, <2>2, <2>3
<1>17. CASE SwitchZadd(w)
  <2>1. pc[w] = "switchZadd" /\ pc'[w] = "switchScore" /\ loc'[w] = l
    BY <1>0, <1>17, Effects DEF SwitchZadd, l
  <2>2. InUse("switchZadd", l) => InUse("switchScore", l)
    <3>1. l.todo = 2 /\ Len(l.ids) = 2 => l.todo > 0 /\ l.todo <= Len(l.ids)
      BY <1>a
    <3> QED
      BY <3>1 DEF InUse, SwitchPoints
  <2> QED
    BY <1>0, <2>1, <2>2
<1>18. CASE SwitchQueue(w)
  <2>1. pc[w] = "switchQueue" /\ pc'[w] = "switchRooms" /\ loc'[w] = [l EXCEPT !.n = Len(queue)]
    BY <1>0, <1>18, Effects DEF SwitchQueue, l
  <2>2. InUse("switchQueue", l) => InUse("switchRooms", [l EXCEPT !.n = Len(queue)])
    BY <1>0, <1>a DEF InUse, SwitchPoints, Locals, NoLoc
  <2> QED
    BY <1>0, <2>1, <2>2
<1>19. CASE SwitchRooms(w)
  <2>1. PICK order : Bind(w, [l EXCEPT !.rooms = order])
    BY <1>19 DEF SwitchRooms, l
  <2>2. pc[w] = "switchRooms" /\ pc'[w] = "switchTry" /\ loc'[w] = [l EXCEPT !.rooms = order]
    BY <1>0, <1>19, <2>1, Effects DEF SwitchRooms
  <2>3. InUse("switchRooms", l) => InUse("switchTry", [l EXCEPT !.rooms = order])
    BY <1>0 DEF InUse, SwitchPoints, Locals
  <2> QED
    BY <1>0, <2>2, <2>3
<1>20. CASE SwitchTry(w)
  <2> DEFINE next == [l EXCEPT !.rooms = Tail(l.rooms)]
             go == [l EXCEPT !.room = Head(l.rooms), !.todo = 1, !.ids = <<Head(queueSwitch).id>>]
  <2>1. /\ pc[w] = "switchTry"
        /\ \/ JobDone(w)
           \/ Bind(w, next) /\ UNCHANGED pc
           \/ l.rooms # <<>> /\ Bind(w, go) /\ Goto(w, "switchScore")
    BY <1>20 DEF SwitchTry, l
  <2>2. CASE Bind(w, next) /\ UNCHANGED pc
    <3>1. pc'[w] = "switchTry" /\ loc'[w] = next
      BY <1>0, <2>1, <2>2, Effects
    <3>2. InUse("switchTry", l) => InUse("switchTry", next)
      BY <1>0 DEF InUse, SwitchPoints, Locals
    <3> QED
      BY <1>0, <2>1, <3>1, <3>2
  <2>3. CASE l.rooms # <<>> /\ Bind(w, go) /\ Goto(w, "switchScore")
    <3>1. pc'[w] = "switchScore" /\ loc'[w] = go
      BY <1>0, <2>3, Effects
    <3>2. l.rooms \in Seq(Rooms)
      BY <1>0 DEF Locals
    <3>3. Head(l.rooms) \in Rooms
      BY <2>3, <3>2, Elements
    <3>4. /\ go.todo = 1 /\ go.incs = l.incs /\ go.pops = l.pops
          /\ Len(go.ids) = 1 /\ go.room = Head(l.rooms)
      BY <1>0 DEF Locals
    <3> HIDE DEF go
    <3>5. InUse("switchTry", l) => InUse("switchScore", go)
      BY <3>3, <3>4 DEF InUse, SwitchPoints
    <3> QED
      BY <1>0, <2>1, <3>1, <3>5
  <2> QED
    BY <1>b, <2>1, <2>2, <2>3
<1>21. CASE SwitchScore(w)
  <2> DEFINE k == l.pops + IF HasPlace(l.room) THEN 1 ELSE 0
             m == [l EXCEPT !.todo = @ - 1, !.pops = k, !.incs = CountMoved(k)]
             q == IF l.todo > 1 THEN "switchScore"
                  ELSE IF k > 0 THEN "switchPop" ELSE "switchAfter"
  <2>1. pc[w] = "switchScore" /\ Bind(w, m) /\ Goto(w, q)
    BY <1>21 DEF SwitchScore, l
  <2>2. pc'[w] = q /\ loc'[w] = m
    BY <1>0, <2>1, Effects
  <2>3. k \in Nat /\ m.todo = l.todo - 1 /\ m.pops = k /\ m.incs = k
        /\ m.ids = l.ids /\ m.room = l.room
    BY <1>0, <1>a DEF Locals, CountMoved
  <2>4. q \in {"switchScore", "switchPop", "switchAfter"}
        /\ (q = "switchScore" => l.todo > 1) /\ (q = "switchPop" => k > 0)
    OBVIOUS
  <2> HIDE DEF k, m, q
  <2>5. Len(l.ids) \in Nat
    BY <1>0 DEF Locals
  <2>6. InUse("switchScore", l) => InUse(q, m)
    BY <1>a, <2>3, <2>4, <2>5 DEF InUse, SwitchPoints
  <2> QED
    BY <1>0, <2>1, <2>2, <2>6
<1>22. CASE SwitchPop(w)
  <2> DEFINE m == [l EXCEPT !.pops = @ - 1]
             q == IF l.pops > 1 THEN "switchPop" ELSE "switchIncr"
  <2>1. pc[w] = "switchPop" /\ Bind(w, m) /\ Goto(w, q)
    BY <1>22 DEF SwitchPop, l
  <2>2. pc'[w] = q /\ loc'[w] = m
    BY <1>0, <2>1, Effects
  <2>3. InUse("switchPop", l) => InUse(q, m)
    BY <1>0, <1>a DEF InUse, SwitchPoints, Locals
  <2> QED
    BY <1>0, <2>1, <2>2, <2>3
<1>23. CASE SwitchIncr(w)
  <2> DEFINE m == [l EXCEPT !.incs = @ - 1]
             q == IF l.incs > 1 THEN "switchIncr" ELSE "switchAfter"
  <2>1. pc[w] = "switchIncr" /\ Bind(w, m) /\ Goto(w, q)
    BY <1>23 DEF SwitchIncr, l
  <2>2. pc'[w] = q /\ loc'[w] = m
    BY <1>0, <2>1, Effects
  <2>3. InUse("switchIncr", l) => InUse(q, m)
    BY <1>0, <1>a DEF InUse, SwitchPoints, Locals
  <2> QED
    BY <1>0, <2>1, <2>2, <2>3
<1>24. CASE SwitchAfter(w)
  BY <1>0, <1>b, <1>24, Effects, FreeInUse DEF SwitchAfter
<1>25. CASE CreateStart(w)
  <2> DEFINE n == IF job[w][1] = "createRooms" THEN FirstRooms ELSE RepeatRooms
             m == [l EXCEPT !.n = n, !.todo = n]
  <2>1. \/ HangUp(w)
        \/ n # 0 /\ Bind(w, m) /\ Goto(w, "createOne")
    <3>1. CASE n = 0
      BY <1>25, <3>1 DEF CreateStart, l, HangUp
    <3>2. CASE n # 0
      BY <1>25, <3>2 DEF CreateStart, l, HangUp
    <3> QED
      BY <3>1, <3>2
  <2>2. CASE n # 0 /\ Bind(w, m) /\ Goto(w, "createOne")
    <3>1. pc'[w] = "createOne" /\ loc'[w] = m
      BY <1>0, <2>2, Effects
    <3>2. n \in Nat
      BY SizesAssumption
    <3>3. InUse("createOne", m)
      BY <1>0, <2>2, <3>2 DEF InUse, SwitchPoints, Locals
    <3> QED
      BY <3>1, <3>3
  <2> QED
    BY <1>b, <2>1, <2>2
<1>26. CASE CreateOne(w)
  <2> DEFINE m == [l EXCEPT !.todo = l.todo - 1]
  <2>1. /\ pc[w] = "createOne"
        /\ \/ JobDone(w)
           \/ HangUp(w)
           \/ l.todo - 1 # 0 /\ Bind(w, m) /\ UNCHANGED pc
    <3>1. CASE FinishesAt(l.n, l.n - (l.todo - 1))
      BY <1>26, <3>1 DEF CreateOne, l, HangUp
    <3>2. CASE ~FinishesAt(l.n, l.n - (l.todo - 1))
      BY <1>26, <3>2 DEF CreateOne, l, HangUp
    <3> QED
      BY <3>1, <3>2
  <2>2. CASE l.todo - 1 # 0 /\ Bind(w, m) /\ UNCHANGED pc
    <3>1. pc'[w] = "createOne" /\ loc'[w] = m
      BY <1>0, <2>1, <2>2, Effects
    <3>2. InUse("createOne", l) => InUse("createOne", m)
      BY <1>0, <1>a, <2>2 DEF InUse, SwitchPoints, Locals
    <3> QED
      BY <1>0, <2>1, <3>1, <3>2
  <2> QED
    BY <1>b, <2>1, <2>2
<1>27. CASE ClearPool(w)
  BY <1>0, <1>b, <1>27, Effects, FreeInUse DEF ClearPool
<1>28. CASE ClearRooms(w)
  BY <1>0, <1>b, <1>28, Effects, FreeInUse DEF ClearRooms
<1>29. CASE ClearAgain(w)
  BY <1>0, <1>b, <1>29, Effects, FreeInUse DEF ClearAgain
<1> QED
  BY <1>1, <1>2, <1>3, <1>4, <1>5, <1>6, <1>7, <1>8, <1>9, <1>10, <1>11, <1>12, <1>13, <1>14, <1>15, <1>16, <1>17, <1>18, <1>19, <1>20, <1>21, <1>22, <1>23, <1>24, <1>25, <1>26, <1>27, <1>28, <1>29 DEF Handler

\* Steps that move no handler leave every handler's locals alone.
LEMMA NobodyMoves ==
  ASSUME \/ OnChanged \/ OnSwitch \/ Background \/ ThreeLengthExpires \/ TimerFires
         \/ EndIntermission \/ (\E key \in LockKeys : Expire(key)) \/ UNCHANGED vars
         \/ \E s \in Sockets : Socket(s)
  PROVE  /\ UNCHANGED <<pc, loc>>
         /\ (\E key \in LockKeys : Expire(key)) \/ UNCHANGED lock
<1>1. ASSUME NEW s \in Sockets, Socket(s)
      PROVE  UNCHANGED handlers
  <2>1. CASE RequestRoom(s) \/ PushRequest(s) \/ CancelRequest(s) \/ Disconnect(s)
    BY <2>1 DEF RequestRoom, PushRequest, CancelRequest, Disconnect
  <2>2. CASE \E r \in Rooms : \/ RequestSwitch(s, r) \/ RoomStatus(s, r)
                              \/ PushSwitch([id |-> s, room |-> r])
    BY <2>2 DEF RequestSwitch, RoomStatus, PushSwitch
  <2> QED
    BY <1>1, <2>1, <2>2 DEF Socket
<1>2. CASE OnChanged \/ OnSwitch
  BY <1>2 DEF OnChanged, OnSwitch
<1>3. CASE Background \/ ThreeLengthExpires \/ TimerFires \/ EndIntermission
  BY <1>3 DEF Background, ThreeLengthExpires, TimerFires, EndIntermission, handlers
<1>4. CASE \E key \in LockKeys : Expire(key)
  BY <1>4 DEF Expire
<1>5. CASE UNCHANGED vars
  BY <1>5 DEF vars, handlers
<1> QED
  BY <1>1, <1>2, <1>3, <1>4, <1>5 DEF handlers

\* What Bull and redis-lock do to the handler in a slot.
LEMMA WorkerUse ==
  ASSUME TypeOK, LocalsInUse, NEW w \in Workers,
         Take(w) \/ Acquire(w) \/ Timeout(w) \/ Crash(w)
  PROVE  /\ InUse(pc'[w], loc'[w])
         /\ \A v \in Workers \ {w} : pc'[v] = pc[v] /\ loc'[v] = loc[v]
<1>0. HandlersOK /\ InUse(pc[w], loc[w])
  BY DEF TypeOK, LocalsInUse
<1>a. pc[w] \in {"idle", "hung", "findLock", "pairsLock", "switchLock"} => loc[w] = NoLoc
  BY <1>0 DEF InUse
<1>1. CASE Take(w)
  <2>1. PICK j \in JobSet : Goto(w, Entry[j[1]])
    BY <1>1 DEF Take
  <2>2. Entry[j[1]] \in {"createStart", "clearPool", "findLock", "pairsLock", "switchLock"}
    BY DEF JobSet, Names, Entry
  <2>3. loc[w] = NoLoc /\ UNCHANGED loc
    BY <1>a, <1>1 DEF Take
  <2>4. InUse(Entry[j[1]], NoLoc)
    BY <2>2, RestInUse
  <2> QED
    BY <1>0, <2>1, <2>3, <2>4, Effects
<1>2. CASE Acquire(w)
  <2>1. pc[w] \in {"findLock", "pairsLock", "switchLock"} /\ UNCHANGED loc
        /\ Goto(w, Locked[pc[w]])
    BY <1>2 DEF Acquire, KeyOf
  <2>2. Locked[pc[w]] \in {"findQueue", "switchLen", "pairsLen"}
    BY <2>1 DEF Locked
  <2>3. InUse(Locked[pc[w]], NoLoc)
    BY <2>2, RestInUse
  <2> QED
    BY <1>0, <1>a, <2>1, <2>3, Effects
<1>3. CASE Timeout(w)
  <2>1. UNCHANGED loc /\ Goto(w, IF pc[w] = "hung" THEN "idle" ELSE pc[w])
    BY <1>3 DEF Timeout
  <2>2. InUse("idle", NoLoc)
    BY RestInUse
  <2> QED
    BY <1>0, <1>a, <2>1, <2>2, Effects
<1>4. CASE Crash(w)
  <2>1. JobDone(w)
    BY <1>4 DEF Crash
  <2>2. InUse("idle", NoLoc)
    BY RestInUse
  <2> QED
    BY <1>0, <2>1, <2>2, Effects
<1> QED
  BY <1>1, <1>2, <1>3, <1>4

\* Nothing runs at first ...
LEMMA InitTypes == Init => TypeOK /\ LocalsInUse
<1> SUFFICES ASSUME NEW start \in Starts, InitFrom(start.seated, start.budget)
             PROVE  TypeOK /\ LocalsInUse
  BY DEF Init
<1>1. ListsOK /\ RoomsOK
  BY StartsAssumption DEF InitFrom, ListsOK, RoomsOK
<1>2. HandlersOK
  <2>1. NoLoc \in Locals
    BY DEF NoLoc, Locals
  <2>2. "idle" \in Points
    BY PointNames
  <2> QED
    BY <2>1, <2>2 DEF InitFrom, HandlersOK
<1>3. PendingOK /\ GatewayOK /\ HistoryOK
  BY DEF InitFrom, PendingOK, GatewayOK, HistoryOK
<1>4. TwilioOK
  BY StartsAssumption DEF InitFrom, TwilioOK
<1>5. threeLength \in BOOLEAN /\ onIntermission \in BOOLEAN /\ left \in [Uses -> Nat]
  BY StartsAssumption DEF InitFrom
<1>6. LocalsInUse
  BY RestInUse DEF InitFrom, LocalsInUse
<1> QED
  BY <1>1, <1>2, <1>3, <1>4, <1>5, <1>6 DEF TypeOK

\* ... and every step keeps the types and the locals in use.
LEMMA StepTypes == TypeOK /\ LocalsInUse /\ [Next]_vars => TypeOK' /\ LocalsInUse'
<1> SUFFICES ASSUME TypeOK, LocalsInUse, [Next]_vars
             PROVE  TypeOK' /\ LocalsInUse'
  OBVIOUS
<1>1. ASSUME NEW w \in Workers, Handler(w)
      PROVE  TypeOK' /\ LocalsInUse'
  <2>1. HandlersOK
    BY DEF TypeOK
  <2>2. \A v \in Workers \ {w} : pc'[v] = pc[v] /\ loc'[v] = loc[v]
    BY <1>1, <2>1, OthersStay
  <2>3. InUse(pc'[w], loc'[w])
    BY <1>1, UseMoves
  <2> QED
    BY <1>1, <2>2, <2>3, HandlerTypes DEF LocalsInUse
<1>2. ASSUME NEW w \in Workers, Take(w) \/ Acquire(w) \/ Timeout(w) \/ Crash(w)
      PROVE  TypeOK' /\ LocalsInUse'
  BY <1>2, WorkerTypes, WorkerUse DEF LocalsInUse
<1>3. ASSUME NEW s \in Sockets, Socket(s)
      PROVE  TypeOK' /\ LocalsInUse'
  BY <1>3, SocketTypes, NobodyMoves DEF LocalsInUse
<1>4. CASE \/ OnChanged \/ OnSwitch \/ Background \/ ThreeLengthExpires \/ TimerFires
           \/ EndIntermission \/ (\E key \in LockKeys : Expire(key)) \/ UNCHANGED vars
  BY <1>4, RestTypes, NobodyMoves DEF LocalsInUse
<1> QED
  BY <1>1, <1>2, <1>3, <1>4 DEF Next

\* Whatever the numbers of sockets, rooms, slots and faults, no sequence of
\* commands leaves a Redis key, a local variable or a counter with a value of
\* the wrong kind: no counter of jobs, promises or pending emits runs below
\* zero, and no handler goes on with a room or a socket it has not read.
THEOREM TypesKept == Spec => []TypeOK
<1>1. Init => TypeOK /\ LocalsInUse
  BY InitTypes
<1>2. TypeOK /\ LocalsInUse /\ [Next]_vars => (TypeOK /\ LocalsInUse)'
  BY StepTypes
<1> QED
  BY <1>1, <1>2, PTL DEF Spec

\* The locals of a handler fit its next command.
THEOREM LocalsKept == Spec => []LocalsInUse
<1>1. Init => TypeOK /\ LocalsInUse
  BY InitTypes
<1>2. TypeOK /\ LocalsInUse /\ [Next]_vars => (TypeOK /\ LocalsInUse)'
  BY StepTypes
<1> QED
  BY <1>1, <1>2, PTL DEF Spec

-----------------------------------------------------------------------------
\* Locks

\* No key expires under a holder that still runs.
NoExpiry == left["expire"] = 0

-----------------------------------------------------------------------------
\* Critical sections

\* A command keeps its handler within the critical sections whose key it
\* holds, or leaves them and gives the key back.
LEMMA KeyMoves ==
  ASSUME TypeOK, NEW w \in Workers, Handler(w), NEW key \in LockKeys
  PROVE  \/ /\ pc[w] \in Inside(key) <=> pc'[w] \in Inside(key)
            /\ lock'[key] = lock[key]
         \/ /\ pc[w] \in Inside(key) /\ pc'[w] \notin Inside(key)
            /\ lock'[key] = IF lock[key] = w THEN Nobody ELSE lock[key]
<1>0. HandlersOK
  BY DEF TypeOK
<1>a. key \in {RoomsKey, PairsKey}
  BY DEF LockKeys, RoomsKey, PairsKey
<1>b. /\ Inside(RoomsKey) = FindPoints \cup SwitchPoints
      /\ Inside(PairsKey) = PairsPoints
  BY DEF Inside, RoomsKey, PairsKey
<1>c. \A k \in LockKeys : Unlock(w, k) => \A m \in LockKeys :
        lock'[m] = IF m = k /\ lock[m] = w THEN Nobody ELSE lock[m]
  BY <1>0 DEF HandlersOK, Unlock
<1>d. RoomsKey # PairsKey /\ RoomsKey \in LockKeys /\ PairsKey \in LockKeys
  BY DEF RoomsKey, PairsKey, LockKeys
<1>1. CASE FindQueue(w)
  BY <1>0, <1>a, <1>b, <1>c, <1>d, <1>1, Effects DEF FindQueue, FindPoints, PairsPoints, SwitchPoints
<1>2. CASE FindRange(w)
  BY <1>0, <1>a, <1>b, <1>c, <1>d, <1>2, Effects DEF FindRange, FindPoints, PairsPoints, SwitchPoints
<1>3. CASE FindCheck(w)
  BY <1>0, <1>a, <1>b, <1>c, <1>d, <1>3, Effects DEF FindCheck, FindPoints, PairsPoints, SwitchPoints
<1>4. CASE FindIncr(w)
  BY <1>0, <1>a, <1>b, <1>c, <1>d, <1>4, Effects DEF FindIncr, FindPoints, PairsPoints, SwitchPoints
<1>5. CASE FindPop(w)
  BY <1>0, <1>a, <1>b, <1>c, <1>d, <1>5, Effects DEF FindPop, FindPoints, PairsPoints, SwitchPoints
<1>6. CASE FindMore(w)
  BY <1>0, <1>a, <1>b, <1>c, <1>d, <1>6, Effects DEF FindMore, FindPoints, PairsPoints, SwitchPoints
<1>7. CASE PairsLen(w)
  BY <1>0, <1>a, <1>b, <1>c, <1>d, <1>7, Effects DEF PairsLen, FindPoints, PairsPoints, SwitchPoints
<1>8. CASE PairsRange(w)
  BY <1>0, <1>a, <1>b, <1>c, <1>d, <1>8, Effects DEF PairsRange, FindPoints, PairsPoints, SwitchPoints
<1>9. CASE PairsTrim(w)
  BY <1>0, <1>a, <1>b, <1>c, <1>d, <1>9, Effects DEF PairsTrim, FindPoints, PairsPoints, SwitchPoints
<1>10. CASE PairsPool(w)
  BY <1>0, <1>a, <1>b, <1>c, <1>d, <1>10, Effects DEF PairsPool, FindPoints, PairsPoints, SwitchPoints
<1>11. CASE PairsRoom(w)
  BY <1>0, <1>a, <1>b, <1>c, <1>d, <1>11, Effects DEF PairsRoom, FindPoints, PairsPoints, SwitchPoints
<1>12. CASE PairsError(w)
  BY <1>0, <1>a, <1>b, <1>c, <1>d, <1>12, Effects DEF PairsError, FindPoints, PairsPoints, SwitchPoints
<1>13. CASE PairsZadd(w)
  BY <1>0, <1>a, <1>b, <1>c, <1>d, <1>13, Effects DEF PairsZadd, FindPoints, PairsPoints, SwitchPoints
<1>14. CASE SwitchLen(w)
  BY <1>0, <1>a, <1>b, <1>c, <1>d, <1>14, Effects DEF SwitchLen, FindPoints, PairsPoints, SwitchPoints
<1>15. CASE SwitchRange(w)
  BY <1>0, <1>a, <1>b, <1>c, <1>d, <1>15, Effects DEF SwitchRange, FindPoints, PairsPoints, SwitchPoints
<1>16. CASE SwitchCreate(w)
  BY <1>0, <1>a, <1>b, <1>c, <1>d, <1>16, Effects DEF SwitchCreate, FindPoints, PairsPoints, SwitchPoints
<1>17. CASE SwitchZadd(w)
  BY <1>0, <1>a, <1>b, <1>c, <1>d, <1>17, Effects DEF SwitchZadd, FindPoints, PairsPoints, SwitchPoints
<1>18. CASE SwitchQueue(w)
  BY <1>0, <1>a, <1>b, <1>c, <1>d, <1>18, Effects DEF SwitchQueue, FindPoints, PairsPoints, SwitchPoints
<1>19. CASE SwitchRooms(w)
  BY <1>0, <1>a, <1>b, <1>c, <1>d, <1>19, Effects DEF SwitchRooms, FindPoints, PairsPoints, SwitchPoints
<1>20. CASE SwitchTry(w)
  BY <1>0, <1>a, <1>b, <1>c, <1>d, <1>20, Effects DEF SwitchTry, FindPoints, PairsPoints, SwitchPoints
<1>21. CASE SwitchScore(w)
  BY <1>0, <1>a, <1>b, <1>c, <1>d, <1>21, Effects DEF SwitchScore, FindPoints, PairsPoints, SwitchPoints
<1>22. CASE SwitchPop(w)
  BY <1>0, <1>a, <1>b, <1>c, <1>d, <1>22, Effects DEF SwitchPop, FindPoints, PairsPoints, SwitchPoints
<1>23. CASE SwitchIncr(w)
  BY <1>0, <1>a, <1>b, <1>c, <1>d, <1>23, Effects DEF SwitchIncr, FindPoints, PairsPoints, SwitchPoints
<1>24. CASE SwitchAfter(w)
  BY <1>0, <1>a, <1>b, <1>c, <1>d, <1>24, Effects DEF SwitchAfter, FindPoints, PairsPoints, SwitchPoints
<1>25. CASE CreateStart(w)
  BY <1>0, <1>a, <1>b, <1>c, <1>d, <1>25, Effects DEF CreateStart, FindPoints, PairsPoints, SwitchPoints, HangUp
<1>26. CASE CreateOne(w)
  BY <1>0, <1>a, <1>b, <1>c, <1>d, <1>26, Effects DEF CreateOne, FindPoints, PairsPoints, SwitchPoints, HangUp
<1>27. CASE ClearPool(w)
  BY <1>0, <1>a, <1>b, <1>c, <1>d, <1>27, Effects DEF ClearPool, FindPoints, PairsPoints, SwitchPoints
<1>28. CASE ClearRooms(w)
  BY <1>0, <1>a, <1>b, <1>c, <1>d, <1>28, Effects DEF ClearRooms, FindPoints, PairsPoints, SwitchPoints
<1>29. CASE ClearAgain(w)
  BY <1>0, <1>a, <1>b, <1>c, <1>d, <1>29, Effects DEF ClearAgain, FindPoints, PairsPoints, SwitchPoints
<1> QED
  BY <1>1, <1>2, <1>3, <1>4, <1>5, <1>6, <1>7, <1>8, <1>9, <1>10, <1>11, <1>12, <1>13, <1>14, <1>15, <1>16, <1>17, <1>18, <1>19, <1>20, <1>21, <1>22, <1>23, <1>24, <1>25, <1>26, <1>27, <1>28, <1>29 DEF Handler

\* No command is inside two critical sections.
LEMMA KeysApart ==
  /\ LockKeys = {RoomsKey, PairsKey} /\ RoomsKey # PairsKey
  /\ Inside(RoomsKey) = FindPoints \cup SwitchPoints /\ Inside(PairsKey) = PairsPoints
  /\ \A key \in LockKeys : \A p \in Inside(key) :
       p \notin {"idle", "hung", "createStart", "clearPool", "findLock", "pairsLock",
                 "switchLock"}
BY DEF LockKeys, RoomsKey, PairsKey, Inside, FindPoints, PairsPoints, SwitchPoints

\* What a budget does not allow it never allows.
LEMMA BudgetShrinks ==
  ASSUME TypeOK, [Next]_vars, NEW use \in Uses, left[use] = 0
  PROVE  left'[use] = 0
<1>0. left \in [Uses -> Nat]
  BY DEF TypeOK
<1>a. \A other : Spend(other) => left'[use] = 0
  <2>1. \A other : Spend(other) => use # other
    BY DEF Spend
  <2>2. \A other : Spend(other) /\ use # other => left'[use] = 0
    BY <1>0 DEF Spend
  <2> QED
    BY <2>1, <2>2
<1>b. UNCHANGED left => left'[use] = 0
  OBVIOUS
<1>1. ASSUME NEW s \in Sockets, Socket(s)
      PROVE  left'[use] = 0
  <2>1. CASE RequestRoom(s) \/ PushRequest(s) \/ CancelRequest(s) \/ Disconnect(s)
    BY <1>a, <1>b, <2>1 DEF RequestRoom, PushRequest, CancelRequest, Disconnect
  <2>2. CASE \E r \in Rooms : \/ RequestSwitch(s, r) \/ RoomStatus(s, r)
                              \/ PushSwitch([id |-> s, room |-> r])
    BY <1>a, <1>b, <2>2 DEF RequestSwitch, RoomStatus, PushSwitch
  <2> QED
    BY <1>1, <2>1, <2>2 DEF Socket
<1>2. CASE OnChanged \/ OnSwitch \/ Background
  BY <1>b, <1>2 DEF OnChanged, OnSwitch, Background
<1>3. ASSUME NEW w \in Workers, Take(w) \/ Acquire(w) \/ Timeout(w) \/ Crash(w)
      PROVE  left'[use] = 0
  <2>1. CASE Take(w)
    <3>1. PICK j \in JobSet :
            IF j[1] = "clearExpiredRooms" THEN Spend("delay") ELSE UNCHANGED left
      BY <2>1 DEF Take
    <3> QED
      BY <1>a, <1>b, <3>1
  <2>2. CASE Acquire(w)
    BY <1>b, <2>2 DEF Acquire
  <2>3. CASE Timeout(w)
    BY <1>a, <1>b, <2>3 DEF Timeout
  <2>4. CASE Crash(w)
    BY <1>a, <2>4 DEF Crash
  <2> QED
    BY <1>3, <2>1, <2>2, <2>3, <2>4
<1>4. ASSUME NEW w \in Workers, Handler(w)
      PROVE  left'[use] = 0
  <2>1. CASE \/ FindQueue(w) \/ FindRange(w) \/ FindCheck(w) \/ FindIncr(w)
             \/ FindPop(w) \/ FindMore(w)
    BY <1>b, <2>1 DEF FindQueue, FindRange, FindCheck, FindIncr, FindPop, FindMore
  <2>2. CASE \/ PairsLen(w) \/ PairsRange(w) \/ PairsTrim(w) \/ PairsPool(w)
             \/ PairsRoom(w) \/ PairsError(w) \/ PairsZadd(w)
    BY <1>a, <1>b, <2>2
       DEF PairsLen, PairsRange, PairsTrim, PairsPool, PairsRoom, PairsError, PairsZadd
  <2>3. CASE \/ SwitchLen(w) \/ SwitchRange(w) \/ SwitchCreate(w) \/ SwitchZadd(w)
             \/ SwitchQueue(w) \/ SwitchRooms(w)
    BY <1>b, <2>3
       DEF SwitchLen, SwitchRange, SwitchCreate, SwitchZadd, SwitchQueue, SwitchRooms
  <2>4. CASE \/ SwitchTry(w) \/ SwitchScore(w) \/ SwitchPop(w) \/ SwitchIncr(w)
             \/ SwitchAfter(w)
    BY <1>b, <2>4 DEF SwitchTry, SwitchScore, SwitchPop, SwitchIncr, SwitchAfter
  <2>5. CASE \/ CreateStart(w) \/ CreateOne(w) \/ ClearPool(w) \/ ClearRooms(w)
             \/ ClearAgain(w)
    BY <1>b, <2>5 DEF CreateStart, CreateOne, ClearPool, ClearRooms, ClearAgain
  <2> QED
    BY <1>4, <2>1, <2>2, <2>3, <2>4, <2>5 DEF Handler
<1>5. ASSUME NEW key \in LockKeys, Expire(key)
      PROVE  left'[use] = 0
  BY <1>a, <1>b, <1>5 DEF Expire
<1>6. CASE ThreeLengthExpires \/ TimerFires \/ EndIntermission \/ UNCHANGED vars
  BY <1>a, <1>b, <1>6 DEF ThreeLengthExpires, TimerFires, EndIntermission, vars
<1> QED
  BY <1>1, <1>2, <1>3, <1>4, <1>5, <1>6 DEF Next

\* A key that cannot expire stays with the handler that is inside.
LEMMA HoldersStep ==
  ASSUME TypeOK, NoExpiry, HoldsKey, [Next]_vars
  PROVE  HoldsKey'
<1>0. HandlersOK
  BY DEF TypeOK
<1> SUFFICES ASSUME NEW key \in LockKeys, NEW v \in Workers, pc'[v] \in Inside(key)
             PROVE  lock'[key] = v
  BY DEF HoldsKey, Inside
<1>a. pc[v] \in Inside(key) => lock[key] = v
  BY DEF HoldsKey
<1>1. ASSUME NEW w \in Workers, Handler(w)
      PROVE  lock'[key] = v
  <2>1. CASE v = w
    BY <1>1, <1>a, <2>1, KeyMoves
  <2>2. CASE v # w
    <3>1. pc'[v] = pc[v]
      BY <1>0, <1>1, <2>2, OthersStay
    <3>2. lock[key] = v
      BY <1>a, <3>1
    <3> QED
      BY <1>1, <2>2, <3>2, KeyMoves
  <2> QED
    BY <2>1, <2>2
<1>2. ASSUME NEW w \in Workers, Acquire(w)
      PROVE  lock'[key] = v
  <2>1. /\ pc[w] \in {"findLock", "pairsLock", "switchLock"}
        /\ lock[KeyOf[pc[w]]] = Nobody
        /\ lock' = [lock EXCEPT ![KeyOf[pc[w]]] = w]
        /\ Goto(w, Locked[pc[w]])
    BY <1>2 DEF Acquire, KeyOf, Free
  <2>2. KeyOf[pc[w]] \in LockKeys
        /\ \A k \in LockKeys : Locked[pc[w]] \in Inside(k) => k = KeyOf[pc[w]]
    BY <2>1 DEF KeyOf, Locked, LockKeys, Inside, FindPoints, PairsPoints, SwitchPoints
  <2>3. CASE v = w
    <3>1. key = KeyOf[pc[w]]
      BY <1>0, <2>1, <2>2, <2>3, Effects
    <3> QED
      BY <1>0, <2>1, <2>3, <3>1 DEF HandlersOK
  <2>4. CASE v # w
    <3>1. lock[key] = v
      BY <1>0, <1>a, <2>1, <2>4, Effects
    <3>2. key # KeyOf[pc[w]]
      BY <2>1, <3>1, WorkersAssumption
    <3> QED
      BY <1>0, <2>1, <3>1, <3>2 DEF HandlersOK
  <2> QED
    BY <2>3, <2>4
<1>3. ASSUME NEW w \in Workers, Take(w) \/ Timeout(w) \/ Crash(w)
      PROVE  lock'[key] = v
  <2>1. UNCHANGED lock
    BY <1>3 DEF Take, Timeout, Crash
  <2>2. /\ pc'[w] = pc[w] \/ pc'[w] \notin Inside(key)
        /\ \A u \in Workers \ {w} : pc'[u] = pc[u]
    <3>1. CASE Take(w)
      <4>1. PICK j \in JobSet : Goto(w, Entry[j[1]])
        BY <3>1 DEF Take
      <4>2. Entry[j[1]] \notin Inside(key)
        BY KeysApart DEF JobSet, Names, Entry
      <4> QED
        BY <1>0, <4>1, <4>2, Effects
    <3>2. CASE Timeout(w)
      <4>1. Goto(w, IF pc[w] = "hung" THEN "idle" ELSE pc[w])
        BY <3>2 DEF Timeout
      <4> QED
        BY <1>0, <4>1, Effects, KeysApart
    <3>3. CASE Crash(w)
      <4>1. JobDone(w)
        BY <3>3 DEF Crash
      <4> QED
        BY <1>0, <4>1, Effects, KeysApart
    <3> QED
      BY <1>3, <3>1, <3>2, <3>3
  <2> QED
    BY <1>a, <2>1, <2>2
<1>4. ASSUME NEW k \in LockKeys, Expire(k)
      PROVE  lock'[key] = v
  <2>1. UNCHANGED pc
    BY <1>4 DEF Expire
  <2>2. pc[lock[k]] \notin Inside(k)
    BY <1>4 DEF Expire, Spend, NoExpiry
  <2>3. key # k
    BY <1>a, <2>1, <2>2
  <2>4. lock' = [lock EXCEPT ![k] = Nobody]
    BY <1>4 DEF Expire
  <2> QED
    BY <1>0, <1>a, <2>1, <2>3, <2>4 DEF HandlersOK
<1>5. CASE /\ \/ OnChanged \/ OnSwitch \/ Background \/ ThreeLengthExpires \/ TimerFires
              \/ EndIntermission \/ UNCHANGED vars \/ \E s \in Sockets : Socket(s)
           /\ ~ \E k \in LockKeys : Expire(k)
  BY <1>a, <1>5, NobodyMoves
<1> QED
  BY <1>1, <1>2, <1>3, <1>4, <1>5 DEF Next

\* The inductive invariant of the locks.
Holders == TypeOK /\ LocalsInUse /\ NoExpiry /\ HoldsKey

\* The invariant of the keys holds at first ...
LEMMA HoldersInit ==
  ASSUME \A start \in Starts : start.budget["expire"] = 0, Init
  PROVE  Holders
<1> PICK start \in Starts : InitFrom(start.seated, start.budget)
  BY DEF Init
<1>1. NoExpiry
  BY DEF InitFrom, NoExpiry
<1>2. HoldsKey
  BY KeysApart DEF InitFrom, HoldsKey
<1> QED
  BY <1>1, <1>2, InitTypes DEF Holders

\* ... is inductive ...
LEMMA HoldersKept == Holders /\ [Next]_vars => Holders'
<1> SUFFICES ASSUME Holders, [Next]_vars
             PROVE  Holders'
  OBVIOUS
<1>1. left'["expire"] = 0
  BY BudgetShrinks DEF Holders, NoExpiry, Uses
<1> QED
  BY <1>1, StepTypes, HoldersStep DEF Holders, NoExpiry

\* ... and excludes.
LEMMA HoldersExclude == HoldsKey => KeyExcludes
BY DEF HoldsKey, KeyExcludes

\* findAvailableRooms and switchRoom exclude each other between lock() and
\* unlock(), and so do two sendRoomToPairs, in every interleaving, after
\* crashes and time-outs too, as long as no key expires under its holder.
THEOREM KeysExclude ==
  ASSUME \A start \in Starts : start.budget["expire"] = 0
  PROVE  Spec => []KeyExcludes
<1>1. Init => Holders
  BY HoldersInit
<1>2. Holders /\ [Next]_vars => Holders'
  BY HoldersKept
<1>3. Holders => KeyExcludes
  BY HoldersExclude DEF Holders
<1> QED
  BY <1>1, <1>2, <1>3, PTL DEF Spec

-----------------------------------------------------------------------------
\* Places

\* Only the commands that lead to a ZINCRBY need a place in a room.
LEMMA NoPlace ==
  \A p, l, s : p \notin SwitchPoints \cup {"findLen", "findScore", "findIncr"} => PlaceFor(p, l, s)
BY DEF PlaceFor, SwitchPoints

\* A room whose score falls, or is set to at most two, still has the places
\* that some handler is about to count.
LEMMA Lowered ==
  ASSUME NEW p \in Points, NEW l \in Locals, InUse(p, l),
         NEW s \in [Rooms -> Int], NEW t \in [Rooms -> Int],
         \A r \in Rooms : t[r] <= s[r] \/ t[r] <= 2,
         PlaceFor(p, l, s)
  PROVE  PlaceFor(p, l, t)
<1>1. l.incs \in Nat /\ l.todo \in Nat
  BY DEF Locals
<1>2. CASE p \in {"findLen", "findScore", "findIncr", "switchScore", "switchPop", "switchIncr"}
  <2>1. l.room \in Rooms
    BY <1>2 DEF InUse
  <2>2. t[l.room] \in Int /\ s[l.room] \in Int
    BY <2>1
  <2>3. t[l.room] <= s[l.room] \/ t[l.room] <= 2
    BY <2>1
  <2>4. CASE p \in {"findLen", "findScore", "findIncr"}
    BY <2>2, <2>3, <2>4 DEF PlaceFor, SwitchPoints
  <2>5. CASE p = "switchScore"
    BY <1>1, <2>2, <2>3, <2>5 DEF PlaceFor, SwitchPoints
  <2>6. CASE p \in {"switchPop", "switchIncr"}
    BY <1>1, <2>2, <2>3, <2>6 DEF PlaceFor, SwitchPoints
  <2> QED
    BY <1>2, <2>4, <2>5, <2>6
<1>3. CASE p \notin {"findLen", "findScore", "findIncr", "switchScore", "switchPop", "switchIncr"}
  BY <1>3 DEF PlaceFor, SwitchPoints
<1> QED
  BY <1>2, <1>3

\* ZADD and ZINCRBY set one score.
LEMMA ScoreSet ==
  ASSUME RoomsOK, NEW r \in Rooms, NEW value \in Int, ZSet(r, value)
  PROVE  /\ score' \in [Rooms -> Int] /\ score'[r] = value
         /\ \A q \in Rooms : q # r => score'[q] = score[q]
BY DEF RoomsOK, ZSet

\* The handler that runs has the places it is about to count.
LEMMA PlaceMoves ==
  ASSUME TypeOK, LocalsInUse, PlacesHeld, NEW w \in Workers, Handler(w)
  PROVE  PlaceFor(pc'[w], loc'[w], score')
<1> DEFINE l == loc[w]
<1>0. HandlersOK /\ RoomsOK /\ l \in Locals /\ InUse(pc[w], l)
      /\ PlaceFor(pc[w], l, score)
  BY DEF TypeOK, HandlersOK, LocalsInUse, PlacesHeld
<1>a. l.todo \in Nat /\ l.incs \in Nat /\ l.pops \in Nat /\ l.n \in Nat
  BY <1>0 DEF Locals
<1>b. pc'[w] \notin SwitchPoints \cup {"findLen", "findScore", "findIncr"}
        => PlaceFor(pc'[w], loc'[w], score')
  BY NoPlace
<1>c. JobDone(w) \/ HangUp(w) => PlaceFor(pc'[w], loc'[w], score')
  BY <1>0, <1>b, Effects DEF SwitchPoints
<1> HIDE DEF l
<1>1. CASE FindQueue(w)
  BY <1>0, <1>b, <1>1, Effects DEF FindQueue, SwitchPoints
<1>2. CASE FindRange(w)
  <2>1. \/ JobDone(w)
        \/ /\ Goto(w, "findLen") /\ UNCHANGED score
           /\ \E r \in InRange(LowestScore(l.n), HighestScore) : Bind(w, [l EXCEPT !.room = r])
    BY <1>2 DEF FindRange, l, redis, rooms
  <2>2. ASSUME NEW r \in InRange(LowestScore(l.n), HighestScore),
               Goto(w, "findLen"), UNCHANGED score, Bind(w, [l EXCEPT !.room = r])
        PROVE  PlaceFor(pc'[w], loc'[w], score')
    <3>1. score[r] <= 3
      <4>1. score[r] <= HighestScore /\ HighestScore \in {2, 3} /\ r \in Rooms
        BY <1>0, <2>2 DEF InRange, HighestScore, RoomsOK
      <4>2. score[r] \in Int
        BY <1>0, <4>1 DEF RoomsOK
      <4> QED
        BY <4>1, <4>2
    <3>2. pc'[w] = "findLen" /\ loc'[w] = [l EXCEPT !.room = r]
      BY <1>0, <2>2, Effects
    <3>3. loc'[w].room = r
      BY <1>0, <3>2 DEF Locals
    <3> QED
      BY <2>2, <3>1, <3>2, <3>3 DEF PlaceFor, SwitchPoints
  <2> QED
    BY <1>c, <2>1, <2>2
<1>3. CASE FindCheck(w)
  <2>1. \/ JobDone(w)
        \/ Goto(w, "findScore") /\ pc[w] = "findLen" /\ UNCHANGED <<loc, score>>
        \/ Goto(w, "findIncr") /\ pc[w] = "findScore" /\ score[l.room] < 4
           /\ UNCHANGED <<loc, score>>
    BY <1>3 DEF FindCheck, HasPlace, l, redis, rooms
  <2>2. CASE Goto(w, "findIncr") /\ pc[w] = "findScore" /\ score[l.room] < 4
             /\ UNCHANGED <<loc, score>>
    <3>1. l.room \in Rooms
      BY <1>0, <2>2 DEF InUse
    <3>2. score[l.room] <= 3
      BY <1>0, <2>2, <3>1 DEF RoomsOK
    <3>3. pc'[w] = "findIncr" /\ loc'[w] = l /\ score' = score
      BY <1>0, <2>2, Effects DEF l
    <3> QED
      BY <3>2, <3>3 DEF PlaceFor, SwitchPoints
  <2>3. CASE Goto(w, "findScore") /\ pc[w] = "findLen" /\ UNCHANGED <<loc, score>>
    <3>1. pc'[w] = "findScore" /\ loc'[w] = l /\ score' = score
      BY <1>0, <2>3, Effects DEF l
    <3> QED
      BY <1>0, <2>3, <3>1 DEF PlaceFor, SwitchPoints
  <2> QED
    BY <1>c, <2>1, <2>2, <2>3
<1>4. CASE FindIncr(w)
  BY <1>0, <1>b, <1>4, Effects DEF FindIncr, SwitchPoints
<1>5. CASE FindPop(w)
  BY <1>0, <1>b, <1>5, Effects DEF FindPop, SwitchPoints
<1>6. CASE FindMore(w)
  BY <1>c, <1>6 DEF FindMore
<1>7. CASE PairsLen(w)
  <2>1. JobDone(w) \/ Goto(w, "pairsRange")
    BY <1>7 DEF PairsLen
  <2> QED
    BY <1>0, <1>b, <1>c, <2>1, Effects DEF SwitchPoints
<1>8. CASE PairsRange(w)
  BY <1>0, <1>b, <1>8, Effects DEF PairsRange, SwitchPoints
<1>9. CASE PairsTrim(w)
  BY <1>0, <1>b, <1>9, Effects DEF PairsTrim, SwitchPoints
<1>10. CASE PairsPool(w)
  BY <1>0, <1>b, <1>10, Effects DEF PairsPool, SwitchPoints
<1>11. CASE PairsRoom(w)
  BY <1>0, <1>b, <1>11, Effects DEF PairsRoom, SwitchPoints
<1>12. CASE PairsError(w)
  BY <1>c, <1>12 DEF PairsError
<1>13. CASE PairsZadd(w)
  BY <1>c, <1>13 DEF PairsZadd
<1>14. CASE SwitchLen(w)
  <2>1. /\ pc[w] = "switchLen" /\ pc'[w] = "switchRange" /\ UNCHANGED score
        /\ loc'[w] = [l EXCEPT !.n = Len(queueSwitch)]
    BY <1>0, <1>14, Effects DEF SwitchLen, l, redis, rooms, zset
  <2>2. InUse("switchLen", l) /\ PlaceFor("switchLen", l, score) => PlaceFor("switchRange", [l EXCEPT !.n = Len(queueSwitch)], score)
    BY <1>0, <1>a DEF InUse, PlaceFor, SwitchPoints, Locals, NoLoc
  <2> QED
    BY <1>0, <2>1, <2>2
<1>15. CASE SwitchRange(w)
  <2> DEFINE ids == <<queueSwitch[1].id, queueSwitch[Max(Elsewhere)].id>>
             pair == [l EXCEPT !.pair = TRUE, !.todo = 2, !.ids = ids]
  <2>1. \/ JobDone(w)
        \/ Bind(w, pair) /\ Goto(w, "switchCreate")
        \/ Goto(w, "switchQueue") /\ UNCHANGED loc
    BY <1>15 DEF SwitchRange, l
  <2>2. pc[w] = "switchRange"
    BY <1>15 DEF SwitchRange
  <2>3. CASE Bind(w, pair) /\ Goto(w, "switchCreate")
    <3>1. pc'[w] = "switchCreate" /\ loc'[w] = pair
      BY <1>0, <2>3, Effects
    <3>2. pair.todo = 2 /\ pair.incs = l.incs
      BY <1>0 DEF Locals
    <3> HIDE DEF pair
    <3>3. InUse("switchRange", l) => PlaceFor("switchCreate", pair, score')
      BY <3>2 DEF InUse, PlaceFor, SwitchPoints
    <3> QED
      BY <1>0, <2>2, <3>1, <3>3
  <2>4. CASE Goto(w, "switchQueue") /\ UNCHANGED loc
    <3>1. pc'[w] = "switchQueue" /\ loc'[w] = l
      BY <1>0, <2>4, Effects DEF l
    <3>2. InUse("switchRange", l) => PlaceFor("switchQueue", l, score')
      BY DEF InUse, PlaceFor, SwitchPoints
    <3> QED
      BY <1>0, <2>2, <3>1, <3>2
  <2> QED
    BY <1>c, <2>1, <2>3, <2>4
<1>16. CASE SwitchCreate(w)
  <2>1. PICK r \in Rooms : Bind(w, [l EXCEPT !.room = r])
    BY <1>16 DEF SwitchCreate, l
  <2>2. pc[w] = "switchCreate" /\ pc'[w] = "switchZadd" /\ loc'[w] = [l EXCEPT !.room = r]
    BY <1>0, <1>16, <2>1, Effects DEF SwitchCreate
  <2>3. InUse("switchCreate", l) => PlaceFor("switchZadd", [l EXCEPT !.room = r], score')
    BY <1>0 DEF InUse, PlaceFor, SwitchPoints, Locals
  <2> QED
    BY <1>0, <2>2, <2>3
<1>17. CASE SwitchZadd(w)
  <2>1. pc[w] = "switchZadd" /\ pc'[w] = "switchScore" /\ loc'[w] = l /\ ZSet(l.room, 0)
    BY <1>0, <1>17, Effects DEF SwitchZadd, l
  <2>2. l.todo = 2 /\ l.incs = 0 /\ l.room \in Rooms
    BY <1>0, <2>1 DEF InUse
  <2>3. score'[l.room] = 0
    BY <1>0, <2>1, <2>2, ScoreSet
  <2>4. score'[l.room] + l.incs + l.todo <= 4 /\ l.incs + l.todo <= 2
    BY <2>2, <2>3
  <2>5. PlaceFor("switchScore", l, score')
    BY <2>4 DEF PlaceFor, SwitchPoints
  <2> QED
    BY <2>1, <2>5
<1>18. CASE SwitchQueue(w)
  <2>1. /\ pc[w] = "switchQueue" /\ pc'[w] = "switchRooms" /\ UNCHANGED score
        /\ loc'[w] = [l EXCEPT !.n = Len(queue)]
    BY <1>0, <1>18, Effects DEF SwitchQueue, l, redis, rooms, zset
  <2>2. InUse("switchQueue", l) /\ PlaceFor("switchQueue", l, score) => PlaceFor("switchRooms", [l EXCEPT !.n = Len(queue)], score)
    BY <1>0, <1>a DEF InUse, PlaceFor, SwitchPoints, Locals, NoLoc
  <2> QED
    BY <1>0, <2>1, <2>2
<1>19. CASE SwitchRooms(w)
  <2>1. PICK order : Bind(w, [l EXCEPT !.rooms = order])
    BY <1>19 DEF SwitchRooms, l
  <2>2. pc[w] = "switchRooms" /\ pc'[w] = "switchTry" /\ loc'[w] = [l EXCEPT !.rooms = order]
    BY <1>0, <1>19, <2>1, Effects DEF SwitchRooms
  <2>3. InUse("switchRooms", l) => PlaceFor("switchTry", [l EXCEPT !.rooms = order], score')
    BY <1>0 DEF InUse, PlaceFor, SwitchPoints, Locals
  <2> QED
    BY <1>0, <2>2, <2>3
<1>20. CASE SwitchTry(w)
  <2> DEFINE next == [l EXCEPT !.rooms = Tail(l.rooms)]
             go == [l EXCEPT !.room = Head(l.rooms), !.todo = 1, !.ids = <<Head(queueSwitch).id>>]
  <2>1. /\ pc[w] = "switchTry"
        /\ \/ JobDone(w)
           \/ Bind(w, next) /\ UNCHANGED pc
           \/ Bind(w, go) /\ Goto(w, "switchScore")
    BY <1>20 DEF SwitchTry, l
  <2>2. CASE Bind(w, next) /\ UNCHANGED pc
    <3>1. pc'[w] = "switchTry" /\ loc'[w] = next
      BY <1>0, <2>1, <2>2, Effects
    <3>2. InUse("switchTry", l) => PlaceFor("switchTry", next, score')
      BY <1>0 DEF InUse, PlaceFor, SwitchPoints, Locals
    <3> QED
      BY <1>0, <2>1, <3>1, <3>2
  <2>3. CASE Bind(w, go) /\ Goto(w, "switchScore")
    <3>1. pc'[w] = "switchScore" /\ loc'[w] = go
      BY <1>0, <2>3, Effects
    <3>2. go.todo = 1 /\ go.incs = l.incs
      BY <1>0 DEF Locals
    <3> HIDE DEF go
    <3>3. InUse("switchTry", l) => PlaceFor("switchScore", go, score')
      BY <3>2 DEF InUse, PlaceFor, SwitchPoints
    <3> QED
      BY <1>0, <2>1, <3>1, <3>3
  <2> QED
    BY <1>c, <2>1, <2>2, <2>3
<1>21. CASE SwitchScore(w)
  <2> DEFINE place == score[l.room] < 4
             k == l.pops + IF place THEN 1 ELSE 0
             m == [l EXCEPT !.todo = @ - 1, !.pops = k, !.incs = CountMoved(k)]
             q == IF l.todo > 1 THEN "switchScore"
                  ELSE IF k > 0 THEN "switchPop" ELSE "switchAfter"
  <2>1. pc[w] = "switchScore" /\ Bind(w, m) /\ Goto(w, q) /\ score' = score
    BY <1>21 DEF SwitchScore, HasPlace, l, redis, rooms
  <2>2. pc'[w] = q /\ loc'[w] = m
    BY <1>0, <2>1, Effects
  <2>3. m.todo = l.todo - 1 /\ m.incs = k /\ m.room = l.room
    BY <1>0, <1>a DEF Locals, CountMoved
  <2>4. /\ l.todo > 0 /\ l.pops = l.incs /\ l.room \in Rooms
        /\ l.incs + l.todo <= 2
        /\ \/ l.incs = 0 /\ l.todo = 1
           \/ score[l.room] + l.incs + l.todo <= 4
    BY <1>0, <2>1 DEF InUse, PlaceFor, SwitchPoints
  <2>5. score[l.room] \in Int
    BY <1>0, <2>4 DEF RoomsOK
  <2>6. k = l.incs + IF place THEN 1 ELSE 0
    BY <2>4
  <2> HIDE DEF k, m
  <2>7. m.incs + m.todo <= 2
    BY <1>a, <2>3, <2>4, <2>6
  <2>8. CASE q = "switchScore"
    <3>1. l.todo > 1
      BY <2>8
    <3>2. score[m.room] + m.incs + m.todo <= 4
      BY <1>a, <2>3, <2>4, <2>5, <2>6, <3>1
    <3> QED
      BY <2>1, <2>2, <2>7, <2>8, <3>2 DEF PlaceFor, SwitchPoints
  <2>9. CASE q = "switchPop"
    <3>1. l.todo <= 1 /\ k > 0
      BY <1>a, <2>9
    <3>2. score[m.room] + m.incs <= 4
      BY <1>a, <2>3, <2>4, <2>5, <2>6, <3>1
    <3> QED
      BY <2>1, <2>2, <2>7, <2>9, <3>2 DEF PlaceFor, SwitchPoints
  <2>10. CASE q = "switchAfter"
    BY <2>1, <2>2, <2>7, <2>10 DEF PlaceFor, SwitchPoints
  <2> QED
    BY <2>8, <2>9, <2>10
<1>22. CASE SwitchPop(w)
  <2> DEFINE m == [l EXCEPT !.pops = @ - 1]
             q == IF l.pops > 1 THEN "switchPop" ELSE "switchIncr"
  <2>1. pc[w] = "switchPop" /\ Bind(w, m) /\ Goto(w, q) /\ score' = score
    BY <1>22 DEF SwitchPop, l, rooms
  <2>2. pc'[w] = q /\ loc'[w] = m
    BY <1>0, <2>1, Effects
  <2>3. PlaceFor("switchPop", l, score) => PlaceFor(q, m, score)
    BY <1>0, <1>a DEF PlaceFor, SwitchPoints, Locals
  <2> QED
    BY <1>0, <2>1, <2>2, <2>3
<1>23. CASE SwitchIncr(w)
  <2> DEFINE m == [l EXCEPT !.incs = @ - 1]
             q == IF l.incs > 1 THEN "switchIncr" ELSE "switchAfter"
  <2>1. pc[w] = "switchIncr" /\ Bind(w, m) /\ Goto(w, q) /\ ZSet(l.room, score[l.room] + 1)
    BY <1>23 DEF SwitchIncr, l
  <2>2. pc'[w] = q /\ loc'[w] = m
    BY <1>0, <2>1, Effects
  <2>3. l.room \in Rooms /\ l.incs + l.todo <= 2 /\ score[l.room] + l.incs <= 4
    BY <1>0, <2>1 DEF InUse, PlaceFor, SwitchPoints
  <2>4. score[l.room] \in Int
    BY <1>0, <2>3 DEF RoomsOK
  <2>5. score'[l.room] = score[l.room] + 1
    BY <1>0, <2>1, <2>3, <2>4, ScoreSet
  <2>6. m.incs = l.incs - 1 /\ m.todo = l.todo /\ m.room = l.room
    BY <1>0, <1>a DEF Locals
  <2>7. m.incs + m.todo <= 2 /\ score'[m.room] + m.incs <= 4
    BY <1>a, <2>3, <2>4, <2>5, <2>6
  <2>8. q \in {"switchIncr", "switchAfter"}
    OBVIOUS
  <2> HIDE DEF m, q
  <2>9. PlaceFor(q, m, score')
    BY <2>7, <2>8 DEF PlaceFor, SwitchPoints
  <2> QED
    BY <2>2, <2>9
<1>24. CASE SwitchAfter(w)
  BY <1>c, <1>24 DEF SwitchAfter
<1>25. CASE CreateStart(w)
  <2>1. JobDone(w) \/ HangUp(w) \/ Goto(w, "createOne")
    BY <1>25 DEF CreateStart, HangUp
  <2> QED
    BY <1>0, <1>b, <1>c, <2>1, Effects DEF SwitchPoints
<1>26. CASE CreateOne(w)
  <2>1. /\ pc[w] = "createOne"
        /\ JobDone(w) \/ HangUp(w) \/ UNCHANGED pc
    BY <1>26 DEF CreateOne, HangUp
  <2> QED
    BY <1>0, <1>b, <1>c, <2>1, Effects DEF SwitchPoints
<1>27. CASE ClearPool(w)
  BY <1>0, <1>b, <1>27, Effects DEF ClearPool, SwitchPoints
<1>28. CASE ClearRooms(w)
  BY <1>0, <1>b, <1>28, Effects DEF ClearRooms, SwitchPoints
<1>29. CASE ClearAgain(w)
  BY <1>c, <1>29 DEF ClearAgain
<1> QED
  BY <1>1, <1>2, <1>3, <1>4, <1>5, <1>6, <1>7, <1>8, <1>9, <1>10, <1>11, <1>12, <1>13, <1>14, <1>15, <1>16, <1>17, <1>18, <1>19, <1>20, <1>21, <1>22, <1>23, <1>24, <1>25, <1>26, <1>27, <1>28, <1>29 DEF Handler

\* A command lowers scores, sets one to at most two, or counts one more
\* socket in a room that has a place, inside a critical section.
LEMMA ScoreMoves ==
  ASSUME TypeOK, LocalsInUse, PlacesHeld, NEW w \in Workers, Handler(w)
  PROVE  \/ \A r \in Rooms : score'[r] <= score[r] \/ score'[r] <= 2
         \/ /\ pc[w] \in Inside(RoomsKey)
            /\ \A r \in Rooms : score'[r] <= score[r] \/ score'[r] <= 4
<1> DEFINE l == loc[w]
<1>0. RoomsOK /\ l \in Locals /\ InUse(pc[w], l) /\ PlaceFor(pc[w], l, score)
  BY DEF TypeOK, HandlersOK, LocalsInUse, PlacesHeld
<1>a. \A r \in Rooms : score[r] \in Int
  BY <1>0 DEF RoomsOK
<1> HIDE DEF l
<1>1. CASE FindIncr(w) \/ SwitchIncr(w)
  <2>1. l.room \in Rooms /\ pc[w] \in {"findIncr", "switchIncr"}
    BY <1>0, <1>1 DEF InUse, FindIncr, SwitchIncr
  <2>2. score[l.room] + 1 <= 4
    <3>1. CASE pc[w] = "findIncr"
      BY <1>0, <1>a, <2>1, <3>1 DEF PlaceFor, SwitchPoints
    <3>2. CASE pc[w] = "switchIncr"
      <4>1. l.incs \in Nat /\ l.incs > 0
        BY <1>0, <3>2 DEF InUse, Locals
      <4>2. score[l.room] + l.incs <= 4
        BY <1>0, <3>2 DEF PlaceFor, SwitchPoints
      <4> QED
        BY <1>a, <2>1, <4>1, <4>2
    <3> QED
      BY <2>1, <3>1, <3>2
  <2>3. ZSet(l.room, score[l.room] + 1)
    BY <1>1 DEF FindIncr, SwitchIncr, l
  <2>4. score[l.room] + 1 \in Int
    BY <1>a, <2>1
  <2>5. \A r \in Rooms : score'[r] <= score[r] \/ score'[r] <= 4
    BY <1>0, <1>a, <2>1, <2>2, <2>3, <2>4, ScoreSet
  <2>6. pc[w] \in Inside(RoomsKey)
    BY <2>1, KeysApart DEF FindPoints, SwitchPoints
  <2> QED
    BY <2>5, <2>6
<1>2. CASE PairsZadd(w) \/ SwitchZadd(w)
  <2>1. l.room \in Rooms
    BY <1>0, <1>2 DEF InUse, PairsZadd, SwitchZadd
  <2>2. PICK value \in {0, 2} : ZSet(l.room, value)
    BY <1>2 DEF PairsZadd, SwitchZadd, PairScore, l
  <2>3. \A r \in Rooms : score'[r] = score[r] \/ score'[r] = value
    BY <1>0, <2>1, <2>2, ScoreSet
  <2> QED
    BY <1>a, <2>3
<1>3. CASE ClearRooms(w)
  <2>1. \A r \in Rooms : score'[r] = score[r] \/ score'[r] = 0
    BY <1>3 DEF ClearRooms
  <2> QED
    BY <1>a, <2>1
<1>4. ASSUME UNCHANGED score
      PROVE  \A r \in Rooms : score'[r] <= score[r]
  BY <1>a, <1>4
<1>5. CASE \/ FindQueue(w) \/ FindRange(w) \/ FindCheck(w) \/ FindPop(w) \/ FindMore(w)
           \/ PairsLen(w) \/ PairsRange(w) \/ PairsTrim(w)
  BY <1>4, <1>5 DEF FindQueue, FindRange, FindCheck, FindPop, FindMore, PairsLen,
                    PairsRange, PairsTrim, redis, rooms
<1>6. CASE \/ PairsPool(w) \/ PairsRoom(w) \/ PairsError(w)
           \/ SwitchLen(w) \/ SwitchRange(w) \/ SwitchCreate(w) \/ SwitchQueue(w)
           \/ SwitchRooms(w)
  BY <1>4, <1>6 DEF PairsPool, PairsRoom, PairsError, SwitchLen, SwitchRange,
                    SwitchCreate, SwitchQueue, SwitchRooms, redis, rooms, zset
<1>7. CASE \/ SwitchTry(w) \/ SwitchScore(w) \/ SwitchPop(w) \/ SwitchAfter(w)
           \/ CreateStart(w) \/ CreateOne(w) \/ ClearPool(w) \/ ClearAgain(w)
  BY <1>4, <1>7 DEF SwitchTry, SwitchScore, SwitchPop, SwitchAfter, CreateStart,
                    CreateOne, ClearPool, ClearAgain, redis, rooms, zset
<1> QED
  BY <1>1, <1>2, <1>3, <1>5, <1>6, <1>7 DEF Handler

\* Nobody but the holder of the key raises a score above two, and it has seen
\* the places: the two invariants of the places are inductive ...
LEMMA PlacesStep ==
  ASSUME Holders, PlacesHeld, ScoreBound, [Next]_vars
  PROVE  PlacesHeld' /\ ScoreBound'
<1>0. /\ TypeOK /\ LocalsInUse /\ KeyExcludes /\ HandlersOK /\ RoomsOK
      /\ \A v \in Workers : /\ pc[v] \in Points /\ loc[v] \in Locals
                            /\ InUse(pc[v], loc[v]) /\ PlaceFor(pc[v], loc[v], score)
  BY HoldersExclude DEF Holders, TypeOK, HandlersOK, LocalsInUse, PlacesHeld
<1>a. /\ score \in [Rooms -> Int] /\ \A r \in Rooms : score[r] \in Int
      /\ \A r \in Rooms : score[r] <= 4
  BY <1>0 DEF RoomsOK, ScoreBound
<1>b. score' \in [Rooms -> Int] /\ \A r \in Rooms : score'[r] \in Int
  BY StepTypes DEF Holders, TypeOK, RoomsOK
<1>c. ASSUME \A r \in Rooms : score'[r] <= score[r] \/ score'[r] <= 2
      PROVE  /\ \A v \in Workers : PlaceFor(pc[v], loc[v], score')
             /\ ScoreBound'
  <2>1. \A v \in Workers : PlaceFor(pc[v], loc[v], score')
    BY <1>0, <1>a, <1>b, <1>c, Lowered
  <2>2. ScoreBound'
    BY <1>a, <1>b, <1>c DEF ScoreBound
  <2> QED
    BY <2>1, <2>2
<1>d. UNCHANGED score => \A r \in Rooms : score'[r] <= score[r] \/ score'[r] <= 2
  BY <1>a
<1>1. ASSUME NEW w \in Workers, Handler(w)
      PROVE  PlacesHeld' /\ ScoreBound'
  <2>1. \A v \in Workers \ {w} : pc'[v] = pc[v] /\ loc'[v] = loc[v]
    BY <1>0, <1>1, OthersStay
  <2>2. PlaceFor(pc'[w], loc'[w], score')
    BY <1>0, <1>1, PlaceMoves
  <2>3. CASE \A r \in Rooms : score'[r] <= score[r] \/ score'[r] <= 2
    BY <1>c, <2>1, <2>2, <2>3 DEF PlacesHeld
  <2>4. CASE /\ pc[w] \in Inside(RoomsKey)
             /\ \A r \in Rooms : score'[r] <= score[r] \/ score'[r] <= 4
    <3>1. \A v \in Workers \ {w} : pc[v] \notin SwitchPoints \cup {"findLen", "findScore", "findIncr"}
      BY <1>0, <2>4, KeysApart DEF KeyExcludes, FindPoints
    <3>2. \A v \in Workers \ {w} : PlaceFor(pc'[v], loc'[v], score')
      BY <2>1, <3>1, NoPlace
    <3>3. ScoreBound'
      BY <1>a, <1>b, <2>4 DEF ScoreBound
    <3> QED
      BY <2>2, <3>2, <3>3 DEF PlacesHeld
  <2> QED
    BY <1>0, <1>1, <2>3, <2>4, ScoreMoves
<1>2. ASSUME NEW w \in Workers, Take(w) \/ Acquire(w) \/ Timeout(w) \/ Crash(w)
      PROVE  PlacesHeld' /\ ScoreBound'
  <2>1. UNCHANGED score
    BY <1>2 DEF Take, Acquire, Timeout, Crash, redis, rooms
  <2>2. \A v \in Workers \ {w} : pc'[v] = pc[v] /\ loc'[v] = loc[v]
    BY <1>0, <1>2, WorkerUse
  <2>3. PlaceFor(pc'[w], loc'[w], score')
    <3>1. CASE Take(w)
      <4>1. PICK j \in JobSet : Goto(w, Entry[j[1]])
        BY <3>1 DEF Take
      <4>2. Entry[j[1]] \notin SwitchPoints \cup {"findLen", "findScore", "findIncr"}
        BY DEF JobSet, Names, Entry, SwitchPoints
      <4> QED
        BY <1>0, <4>1, <4>2, Effects, NoPlace
    <3>2. CASE Acquire(w)
      <4>1. /\ pc[w] \in {"findLock", "pairsLock", "switchLock"} /\ UNCHANGED loc
            /\ Goto(w, Locked[pc[w]])
        BY <3>2 DEF Acquire, KeyOf
      <4>2. loc[w] = NoLoc
        BY <1>0, <4>1 DEF InUse
      <4>3. Locked[pc[w]] \in {"findQueue", "switchLen", "pairsLen"}
        BY <4>1 DEF Locked
      <4>4. \A p \in {"findQueue", "switchLen", "pairsLen"} : PlaceFor(p, NoLoc, score')
        BY DEF PlaceFor, NoLoc, SwitchPoints
      <4> QED
        BY <1>0, <4>1, <4>2, <4>3, <4>4, Effects
    <3>3. CASE Timeout(w)
      <4>1. UNCHANGED loc /\ Goto(w, IF pc[w] = "hung" THEN "idle" ELSE pc[w])
        BY <3>3 DEF Timeout
      <4>2. PlaceFor("idle", loc[w], score')
        BY NoPlace DEF SwitchPoints
      <4> QED
        BY <1>0, <2>1, <4>1, <4>2, Effects
    <3>4. CASE Crash(w)
      <4>1. JobDone(w)
        BY <3>4 DEF Crash
      <4>2. PlaceFor("idle", NoLoc, score')
        BY NoPlace DEF SwitchPoints
      <4> QED
        BY <1>0, <4>1, <4>2, Effects
    <3> QED
      BY <1>2, <3>1, <3>2, <3>3, <3>4
  <2> QED
    BY <1>c, <1>d, <2>1, <2>2, <2>3 DEF PlacesHeld
<1>3. ASSUME UNCHANGED <<pc, loc>>,
             \A r \in Rooms : score'[r] <= score[r] \/ score'[r] <= 2
      PROVE  PlacesHeld' /\ ScoreBound'
  BY <1>c, <1>3 DEF PlacesHeld
<1>4. ASSUME NEW s \in Sockets, Socket(s)
      PROVE  PlacesHeld' /\ ScoreBound'
  <2>1. CASE RequestRoom(s) \/ PushRequest(s) \/ CancelRequest(s) \/ Disconnect(s)
    <3>1. UNCHANGED score
      BY <2>1 DEF RequestRoom, PushRequest, CancelRequest, Disconnect, rooms
    <3> QED
      BY <1>3, <1>4, <1>d, <3>1, NobodyMoves
  <2>2. CASE \E r \in Rooms : RequestSwitch(s, r) \/ PushSwitch([id |-> s, room |-> r])
    <3>1. UNCHANGED score
      BY <2>2 DEF RequestSwitch, PushSwitch, rooms
    <3> QED
      BY <1>3, <1>4, <1>d, <3>1, NobodyMoves
  <2>3. ASSUME NEW r \in Rooms, RoomStatus(s, r)
        PROVE  PlacesHeld' /\ ScoreBound'
    <3>1. ZSet(r, score[r] - 1) /\ score[r] - 1 \in Int
      BY <1>a, <2>3 DEF RoomStatus, CountLeaving
    <3>2. \A q \in Rooms : score'[q] <= score[q] \/ score'[q] <= 2
      BY <1>0, <1>a, <3>1, ScoreSet
    <3> QED
      BY <1>3, <1>4, <3>2, NobodyMoves
  <2> QED
    BY <1>4, <2>1, <2>2, <2>3 DEF Socket
<1>5. CASE \/ OnChanged \/ OnSwitch \/ Background \/ ThreeLengthExpires \/ TimerFires
           \/ (\E key \in LockKeys : Expire(key)) \/ UNCHANGED vars
  <2>1. UNCHANGED score
    BY <1>5 DEF OnChanged, OnSwitch, Background, ThreeLengthExpires, TimerFires,
                Expire, vars, redis, rooms, zset
  <2> QED
    BY <1>3, <1>5, <1>d, <2>1, NobodyMoves
<1>6. CASE EndIntermission
  <2>1. \A r \in Rooms : score'[r] = 0
    BY <1>6 DEF EndIntermission
  <2>2. \A r \in Rooms : score'[r] <= score[r] \/ score'[r] <= 2
    BY <2>1
  <2> QED
    BY <1>3, <1>6, <2>2, NobodyMoves
<1> QED
  BY <1>1, <1>2, <1>4, <1>5, <1>6 DEF Next

\* ... and hold at first.
LEMMA PlacesInit == Init => PlacesHeld /\ ScoreBound
<1> SUFFICES ASSUME NEW start \in Starts, InitFrom(start.seated, start.budget)
             PROVE  PlacesHeld /\ ScoreBound
  BY DEF Init
<1>1. PlacesHeld
  BY NoPlace DEF InitFrom, PlacesHeld, SwitchPoints
<1>2. ScoreBound
  <2>1. \A r \in Rooms : score[r] \in 0..3
    BY StartsAssumption DEF InitFrom
  <2> QED
    BY <2>1 DEF ScoreBound
<1> QED
  BY <1>1, <1>2

\* No room is ever counted as holding more than its four places, although the
\* test of the score and the ZINCRBY are separate commands and
\* sendRoomToPairs, Twilio's status callback and clearExpiredRooms write the
\* same scores without the key of findAvailableRooms and switchRoom.
THEOREM ScoresBounded ==
  ASSUME \A start \in Starts : start.budget["expire"] = 0
  PROVE  Spec => []ScoreBound
<1> DEFINE Inv == Holders /\ PlacesHeld /\ ScoreBound
<1>1. Init => Inv
  BY HoldersInit, PlacesInit
<1>2. Inv /\ [Next]_vars => Inv'
  BY HoldersKept, PlacesStep
<1>3. Inv => ScoreBound
  OBVIOUS
<1> HIDE DEF Inv
<1> QED
  BY <1>1, <1>2, <1>3, PTL DEF Spec

-----------------------------------------------------------------------------
\* The queue

\* A command of a handler takes waiters from the head of the queue, or none.
LEMMA QueueShrinks ==
  ASSUME NEW w \in Workers, Handler(w)
  PROVE  /\ UNCHANGED queue \/ \E n \in Nat : queue' = Rest(queue, n)
         /\ UNCHANGED pushing
<1>1. CASE \/ FindQueue(w) \/ FindRange(w) \/ FindCheck(w) \/ FindIncr(w) \/ FindMore(w)
           \/ PairsLen(w) \/ PairsRange(w)
  BY <1>1 DEF FindQueue, FindRange, FindCheck, FindIncr, FindMore, PairsLen,
              PairsRange, redis, lists, gateway
<1>2. CASE FindPop(w)
  BY <1>2 DEF FindPop, gateway
<1>3. CASE PairsTrim(w)
  BY <1>3 DEF PairsTrim, gateway
<1>4. CASE \/ PairsPool(w) \/ PairsRoom(w) \/ PairsError(w) \/ PairsZadd(w)
           \/ SwitchLen(w) \/ SwitchRange(w) \/ SwitchCreate(w) \/ SwitchZadd(w)
  BY <1>4 DEF PairsPool, PairsRoom, PairsError, PairsZadd, SwitchLen, SwitchRange,
              SwitchCreate, SwitchZadd, redis, lists, gateway
<1>5. CASE \/ SwitchQueue(w) \/ SwitchRooms(w) \/ SwitchTry(w) \/ SwitchScore(w)
           \/ SwitchPop(w) \/ SwitchIncr(w) \/ SwitchAfter(w)
  BY <1>5 DEF SwitchQueue, SwitchRooms, SwitchTry, SwitchScore, SwitchPop, SwitchIncr,
              SwitchAfter, redis, lists, gateway
<1>6. CASE \/ CreateStart(w) \/ CreateOne(w) \/ ClearPool(w) \/ ClearRooms(w)
           \/ ClearAgain(w)
  BY <1>6 DEF CreateStart, CreateOne, ClearPool, ClearRooms, ClearAgain, redis,
              lists, gateway
<1> QED
  BY <1>1, <1>2, <1>3, <1>4, <1>5, <1>6 DEF Handler

\* A socket that is about to be queued is not in the queue: requestRoom has
\* taken it out, under a lock that lets no other request of it in.
LEMMA QueueStep ==
  ASSUME TypeOK, OneRequest, NoDuplicateWaiting, [Next]_vars
  PROVE  OneRequest' /\ NoDuplicateWaiting'
<1>0. queue \in Seq(Sockets) /\ pushing \in [Sockets -> Nat]
  BY DEF TypeOK, ListsOK, GatewayOK
\* Taking waiters out of the queue harms neither.
<1>a. ASSUME UNCHANGED pushing, NoDuplicates(queue'),
             \A v : (\A i \in DOMAIN queue : queue[i] # v)
                      => \A i \in DOMAIN queue' : queue'[i] # v
      PROVE  OneRequest' /\ NoDuplicateWaiting'
  BY <1>a DEF OneRequest, NoDuplicateWaiting
<1>b. ASSUME UNCHANGED <<queue, pushing>>
      PROVE  OneRequest' /\ NoDuplicateWaiting'
  BY <1>a, <1>b DEF NoDuplicateWaiting
<1>c. \A s : /\ NoDuplicates(LRem(queue, s))
             /\ \A i \in DOMAIN LRem(queue, s) : LRem(queue, s)[i] # s
             /\ \A v : (\A i \in DOMAIN queue : queue[i] # v)
                         => \A i \in DOMAIN LRem(queue, s) : LRem(queue, s)[i] # v
  BY <1>0, LRemFacts DEF NoDuplicateWaiting
<1>1. ASSUME NEW w \in Workers, Handler(w)
      PROVE  OneRequest' /\ NoDuplicateWaiting'
  <2>1. CASE UNCHANGED queue
    BY <1>1, <1>b, <2>1, QueueShrinks
  <2>2. ASSUME NEW n \in Nat, queue' = Rest(queue, n)
        PROVE  OneRequest' /\ NoDuplicateWaiting'
    <3>1. /\ NoDuplicates(Rest(queue, n))
          /\ \A i \in DOMAIN Rest(queue, n) :
               i + n \in DOMAIN queue /\ Rest(queue, n)[i] = queue[i + n]
      BY <1>0, CutFacts DEF NoDuplicateWaiting
    <3> QED
      BY <1>1, <1>a, <2>2, <3>1, QueueShrinks
  <2> QED
    BY <1>1, <2>1, <2>2, QueueShrinks
<1>2. ASSUME NEW w \in Workers, Take(w) \/ Acquire(w) \/ Timeout(w) \/ Crash(w)
      PROVE  OneRequest' /\ NoDuplicateWaiting'
  BY <1>2, <1>b DEF Take, Acquire, Timeout, Crash, redis, lists, gateway
<1>3. ASSUME NEW s \in Sockets, RequestRoom(s)
      PROVE  OneRequest' /\ NoDuplicateWaiting'
  <2>1. /\ \A t \in Sockets : pushing[t] = 0
        /\ queue' = LRem(queue, s) /\ pushing' = [pushing EXCEPT ![s] = @ + 1]
    BY <1>3 DEF RequestRoom, RequestLockFree
  <2>2. pushing'[s] = 1 /\ \A t \in Sockets \ {s} : pushing'[t] = 0
    BY <1>0, <2>1
  <2> QED
    BY <1>c, <2>1, <2>2 DEF OneRequest, NoDuplicateWaiting
<1>4. ASSUME NEW s \in Sockets, PushRequest(s)
      PROVE  OneRequest' /\ NoDuplicateWaiting'
  <2>1. /\ pushing[s] > 0 /\ queue' = Append(queue, s)
        /\ pushing' = [pushing EXCEPT ![s] = @ - 1]
    BY <1>4 DEF PushRequest
  <2>2. \A t \in Sockets : pushing'[t] = 0
    BY <1>0, <2>1 DEF OneRequest
  <2>3. /\ DOMAIN queue = 1..Len(queue) /\ Len(queue) \in Nat
        /\ DOMAIN queue' = 1..(Len(queue) + 1)
        /\ queue'[Len(queue) + 1] = s
        /\ \A i \in DOMAIN queue : queue'[i] = queue[i] /\ queue[i] # s
    BY <1>0, <2>1 DEF OneRequest
  <2>4. NoDuplicates(queue')
    <3> SUFFICES ASSUME NEW i \in DOMAIN queue', NEW j \in DOMAIN queue',
                        queue'[i] = queue'[j]
                 PROVE  i = j
      BY DEF NoDuplicates
    <3>1. CASE i \in DOMAIN queue /\ j \in DOMAIN queue
      BY <2>3, <3>1 DEF NoDuplicateWaiting, NoDuplicates
    <3>2. CASE i \notin DOMAIN queue \/ j \notin DOMAIN queue
      BY <2>3, <3>2
    <3> QED
      BY <3>1, <3>2
  <2> QED
    BY <2>2, <2>4 DEF OneRequest, NoDuplicateWaiting
<1>5. ASSUME NEW s \in Sockets, CancelRequest(s) \/ Disconnect(s)
      PROVE  OneRequest' /\ NoDuplicateWaiting'
  <2>1. /\ UNCHANGED queue \/ queue' = LRem(queue, s)
        /\ UNCHANGED pushing
    BY <1>5 DEF CancelRequest, Disconnect, Withdraw, gateway
  <2> QED
    BY <1>a, <1>b, <1>c, <2>1
<1>6. ASSUME NEW s \in Sockets, NEW r \in Rooms,
             \/ RequestSwitch(s, r) \/ RoomStatus(s, r)
             \/ PushSwitch([id |-> s, room |-> r])
      PROVE  OneRequest' /\ NoDuplicateWaiting'
  BY <1>6, <1>b DEF RequestSwitch, RoomStatus, PushSwitch, lists, gateway
<1>7. CASE \/ OnChanged \/ OnSwitch \/ Background \/ ThreeLengthExpires \/ TimerFires
           \/ (\E key \in LockKeys : Expire(key)) \/ UNCHANGED vars
  BY <1>7, <1>b DEF OnChanged, OnSwitch, Background, ThreeLengthExpires, TimerFires,
                    Expire, vars, redis, lists, gateway
<1>8. CASE EndIntermission
  <2>1. queue' = <<>> /\ UNCHANGED pushing
    BY <1>8 DEF EndIntermission, gateway
  <2>2. NoDuplicates(queue') /\ \A i \in DOMAIN queue' : FALSE
    BY <2>1 DEF NoDuplicates
  <2> QED
    BY <1>a, <2>1, <2>2
<1> QED
  BY <1>1, <1>2, <1>3, <1>4, <1>5, <1>6, <1>7, <1>8 DEF Next, Socket

\* A socket never waits twice, however its requests, cancellations and
\* disconnects interleave with each other and with the jobs: the LREM and the
\* RPUSH of requestRoom are one critical section.
THEOREM NobodyWaitsTwice == Spec => []NoDuplicateWaiting
<1> DEFINE Inv == TypeOK /\ LocalsInUse /\ OneRequest /\ NoDuplicateWaiting
<1>1. Init => Inv
  <2>1. Init => OneRequest /\ NoDuplicateWaiting
    BY DEF Init, InitFrom, OneRequest, NoDuplicateWaiting, NoDuplicates
  <2> QED
    BY <2>1, InitTypes
<1>2. Inv /\ [Next]_vars => Inv'
  BY StepTypes, QueueStep
<1>3. Inv => NoDuplicateWaiting
  OBVIOUS
<1> HIDE DEF Inv
<1> QED
  BY <1>1, <1>2, <1>3, PTL DEF Spec

-----------------------------------------------------------------------------
\* Who is trimmed away

\* What LREM leaves moves towards the head of the list, and each to a place
\* of its own.
LEMMA RemShifts ==
  ASSUME NEW S, NEW list \in Seq(S), NEW value
  PROVE  \E f \in Injection({i \in DOMAIN list : list[i] # value}, DOMAIN LRem(list, value)) :
           \A i \in {k \in DOMAIN list : list[k] # value} :
             f[i] <= i /\ LRem(list, value)[f[i]] = list[i]
<1> DEFINE kept == {k \in DOMAIN list : list[k] # value}
           n(i) == Cardinality(Upto(kept, i))
           f == [i \in kept |-> n(i)]
<1>1. Len(list) \in Nat /\ DOMAIN list = 1..Len(list)
  BY LenProperties
<1>2. kept \in SUBSET (1..Len(list))
  BY <1>1
<1>3. \A T \in SUBSET (1..Len(list)) : IsFiniteSet(T) /\ Cardinality(T) \in Nat
  <2>1. IsFiniteSet(1..Len(list))
    BY <1>1, FS_Interval
  <2> QED
    BY <2>1, FS_Subset, FS_CardinalityType
<1>4. \A a, b \in kept : a < b => n(a) < n(b)
  <2> SUFFICES ASSUME NEW a \in kept, NEW b \in kept, a < b
               PROVE  n(a) < n(b)
    OBVIOUS
  <2>0. a \in Nat /\ b \in Nat
    BY <1>2
  <2>1. Upto(kept, a) \subseteq Upto(kept, b)
    BY <2>0, <1>2 DEF Upto
  <2>2. b \in Upto(kept, b) /\ b \notin Upto(kept, a)
    BY <2>0 DEF Upto
  <2>3. IsFiniteSet(Upto(kept, b)) /\ Upto(kept, a) # Upto(kept, b)
    BY <1>2, <1>3, <2>2 DEF Upto
  <2>4. Upto(kept, a) \in SUBSET (1..Len(list)) /\ Upto(kept, b) \in SUBSET (1..Len(list))
    BY <1>2 DEF Upto
  <2>5. /\ Cardinality(Upto(kept, a)) <= Cardinality(Upto(kept, b))
        /\ Cardinality(Upto(kept, a)) # Cardinality(Upto(kept, b))
    BY <2>1, <2>3, FS_Subset
  <2> QED
    BY <1>3, <2>4, <2>5
<1>5. ASSUME NEW i \in kept
      PROVE  n(i) \in 1..Cardinality(kept) /\ n(i) <= i /\ Nth(kept, n(i)) = i
  <2>0. i \in Nat /\ \A k \in kept : k \in Nat
    BY <1>2
  <2>1. Upto(kept, i) \subseteq kept /\ Upto(kept, i) \subseteq 1..i /\ i \in Upto(kept, i)
    BY <1>2, <2>0 DEF Upto
  <2>2. IsFiniteSet(1..i) /\ Cardinality(1..i) = i
    BY <2>0, FS_Interval
  <2>3. IsFiniteSet(kept) /\ IsFiniteSet(Upto(kept, i)) /\ Cardinality(kept) \in Nat /\ n(i) \in Nat
    BY <1>2, <1>3, <2>1
  <2>4. n(i) <= Cardinality(kept) /\ n(i) <= i
    BY <2>1, <2>2, <2>3, FS_Subset
  <2>5. n(i) # 0
    BY <2>1, <2>3, FS_EmptySet
  <2>6. n(i) \in 1..Cardinality(kept)
    <3> HIDE DEF kept, n
    <3> QED
      BY <2>3, <2>4, <2>5
  <2>7. Nth(kept, n(i)) \in kept /\ n(Nth(kept, n(i))) = n(i)
    BY <1>1, <1>2, <2>6, NthExists
  <2> HIDE DEF kept, n
  <2>8. ~(Nth(kept, n(i)) < i) /\ ~(i < Nth(kept, n(i)))
    BY <1>4, <2>3, <2>7
  <2>9. PICK m : m = Nth(kept, n(i))
    OBVIOUS
  <2>10. m \in Nat /\ ~(m < i) /\ ~(i < m)
    BY <2>0, <2>7, <2>8, <2>9
  <2>11. m = i
    BY <2>0, <2>10
  <2> QED
    BY <2>4, <2>6, <2>9, <2>11
<1>6. LRem(list, value) = [k \in 1..Cardinality(kept) |-> list[Nth(kept, k)]]
  BY DEF LRem
<1> HIDE DEF kept, n
<1>7. f \in [kept -> DOMAIN LRem(list, value)]
  BY <1>5, <1>6
<1>8. \A i, j \in kept : f[i] = f[j] => i = j
  <2>1. \A i \in kept : Nth(kept, f[i]) = i
    BY <1>5
  <2> QED
    BY <2>1
<1>9. \A i \in kept : f[i] <= i /\ LRem(list, value)[f[i]] = list[i]
  BY <1>5, <1>6
<1>10. f \in Injection(kept, DOMAIN LRem(list, value))
  <2> HIDE DEF f
  <2> QED
    BY <1>7, <1>8 DEF Injection, IsInjective
<1> HIDE DEF f
<1> QED
  BY <1>9, <1>10 DEF kept

\* Those among the first two of a list that are among others, and those that
\* are not.
Within(list, others) ==
  {i \in DOMAIN First(list, 2) : list[i] \in ToSet(others)}

\* They are the first two, or fewer.
LEMMA HeadParts ==
  ASSUME NEW S, NEW list \in Seq(S), NEW others
  PROVE  /\ Cardinality(Within(list, others)) \in Nat
         /\ Outside(list, others) \in Nat
         /\ IsFiniteSet(Within(list, others))
         /\ Cardinality(Within(list, others)) + Outside(list, others) = Len(First(list, 2))
         /\ Len(First(list, 2)) <= 2
         /\ DOMAIN First(list, 2) = {i \in DOMAIN list : i <= 2}
<1>1. Len(list) \in Nat /\ DOMAIN list = 1..Len(list)
  BY LenProperties
<1>2. PICK n \in 0..2 : n = (IF 2 <= Len(list) THEN 2 ELSE Len(list))
  BY <1>1
<1>3. First(list, 2) \in Seq(S) /\ Len(First(list, 2)) = n /\ DOMAIN First(list, 2) = 1..n
  BY <1>1, <1>2, SubSeqProperties DEF First
<1>9. {i \in DOMAIN list : i <= 2} = 1..n
  <2>1. CASE 2 <= Len(list)
    <3>1. n = 2
      BY <1>2, <2>1
    <3> QED
      BY <1>1, <2>1, <3>1
  <2>2. CASE ~(2 <= Len(list))
    <3>1. n = Len(list) /\ Len(list) < 2
      BY <1>1, <1>2, <2>2
    <3> QED
      BY <1>1, <3>1
  <2> QED
    BY <2>1, <2>2
<1> DEFINE D == 1..n
           O == {i \in D : list[i] \notin ToSet(others)}
           I == {i \in D : list[i] \in ToSet(others)}
<1>4. IsFiniteSet(D) /\ Cardinality(D) = n
  <2>1. n \in Nat /\ (1 > n => n = 0)
    OBVIOUS
  <2> QED
    BY <2>1, FS_Interval
<1>5. IsFiniteSet(O) /\ IsFiniteSet(I) /\ Cardinality(O) \in Nat /\ Cardinality(I) \in Nat
  BY <1>4, FS_Subset, FS_CardinalityType
<1>6. O \cup I = D /\ O \cap I = {}
  OBVIOUS
<1>7. Cardinality(D) = Cardinality(O) + Cardinality(I)
  <2>1. Cardinality(O \cup I) = Cardinality(O) + Cardinality(I) - Cardinality(O \cap I)
    BY <1>5, FS_Union
  <2>2. Cardinality(O \cap I) = 0
    BY <1>6, FS_EmptySet
  <2>3. Cardinality(O \cup I) = Cardinality(D)
    BY <1>6
  <2> HIDE DEF O, I, D
  <2> QED
    BY <1>5, <2>1, <2>2, <2>3
<1>8. Outside(list, others) = Cardinality(O) /\ Within(list, others) = I
  BY <1>3 DEF Outside, Within
<1> HIDE DEF O, I, D
<1>10. Cardinality(D) = Cardinality(I) + Cardinality(O)
  BY <1>5, <1>7
<1>11. n <= 2
  OBVIOUS
<1>12. Cardinality(Within(list, others)) + Outside(list, others) = Len(First(list, 2))
  BY <1>3, <1>4, <1>8, <1>10
<1> QED
  BY <1>3, <1>5, <1>8, <1>9, <1>11, <1>12

\* Waiters that stay in the list stay among the first two of it.
LEMMA HeadStays ==
  ASSUME NEW S, NEW list \in Seq(S), NEW rest \in Seq(S), NoDuplicates(list), NEW ids,
         \A i \in DOMAIN list : list[i] \in ToSet(rest) =>
           \E j \in DOMAIN rest : j <= i /\ rest[j] = list[i]
  PROVE  Cardinality(Within(list, ids))
           <= Cardinality(Within(rest, ids)) + Outside(list, rest)
<1> DEFINE A == {i \in Within(list, ids) : list[i] \in ToSet(rest)}
           O == {i \in DOMAIN First(list, 2) : list[i] \notin ToSet(rest)}
           f == [i \in A |-> CHOOSE j \in DOMAIN rest : j <= i /\ rest[j] = list[i]]
<1>1. /\ IsFiniteSet(Within(list, ids)) /\ IsFiniteSet(Within(rest, ids))
      /\ Cardinality(Within(list, ids)) \in Nat /\ Cardinality(Within(rest, ids)) \in Nat
      /\ DOMAIN First(list, 2) = {i \in DOMAIN list : i <= 2}
      /\ DOMAIN First(rest, 2) = {i \in DOMAIN rest : i <= 2}
      /\ Len(First(list, 2)) \in Nat
  <2>1. First(list, 2) \in Seq(S)
    BY CutFacts
  <2> QED
    BY <2>1, HeadParts, LenProperties
<1>2. DOMAIN list \subseteq Nat /\ DOMAIN rest \subseteq Nat
  <2>1. DOMAIN list = 1..Len(list) /\ Len(list) \in Nat /\ DOMAIN rest = 1..Len(rest) /\ Len(rest) \in Nat
    BY LenProperties
  <2> QED
    BY <2>1
<1>3. ASSUME NEW i \in A
      PROVE  f[i] \in Within(rest, ids) /\ rest[f[i]] = list[i]
  <2>1. i \in DOMAIN list /\ i <= 2 /\ list[i] \in ToSet(ids) /\ list[i] \in ToSet(rest)
    BY <1>1 DEF Within
  <2>2. \E j \in DOMAIN rest : j <= i /\ rest[j] = list[i]
    BY <2>1
  <2>3. f[i] \in DOMAIN rest /\ f[i] <= i /\ rest[f[i]] = list[i]
    BY <2>2
  <2> HIDE DEF f, A
  <2>4. f[i] <= 2
    BY <1>2, <2>1, <2>3
  <2> QED
    BY <1>1, <2>1, <2>3, <2>4 DEF Within
<1>4. f \in Injection(A, Within(rest, ids))
  <2>1. \A i \in A : i \in DOMAIN list
    BY <1>1 DEF Within
  <2>2. f \in [A -> Within(rest, ids)]
    BY <1>3
  <2>3. \A i, j \in A : f[i] = f[j] => i = j
    <3> SUFFICES ASSUME NEW i \in A, NEW j \in A, f[i] = f[j]
                 PROVE  i = j
      OBVIOUS
    <3>1. list[i] = list[j] /\ i \in DOMAIN list /\ j \in DOMAIN list
      <4>1. rest[f[i]] = list[i] /\ rest[f[j]] = list[j]
        BY <1>3
      <4> HIDE DEF f, A
      <4> QED
        BY <4>1, <2>1
    <3> QED
      BY <3>1 DEF NoDuplicates
  <2> HIDE DEF f, A
  <2> QED
    BY <2>2, <2>3 DEF Injection, IsInjective
<1>5. /\ IsFiniteSet(A) /\ Cardinality(A) \in Nat
      /\ Cardinality(A) <= Cardinality(Within(rest, ids))
  <2>1. IsFiniteSet(A) /\ Cardinality(A) \in Nat
    BY <1>1, FS_Subset, FS_CardinalityType
  <2> HIDE DEF A, f
  <2> QED
    BY <1>1, <1>4, <2>1, FS_Injection
<1>6. Outside(list, rest) = Cardinality(O) /\ Outside(list, rest) \in Nat
  BY HeadParts DEF Outside
<1>7. IsFiniteSet(O)
  <2>1. DOMAIN First(list, 2) = 1..Len(First(list, 2))
    BY CutFacts, LenProperties
  <2>2. IsFiniteSet(1..Len(First(list, 2)))
    BY <1>1, FS_Interval
  <2> QED
    BY <2>1, <2>2, FS_Subset
<1>8. Within(list, ids) \subseteq A \cup O
  BY DEF Within
<1>9. /\ IsFiniteSet(A \cup O) /\ Cardinality(A \cup O) \in Nat
      /\ Cardinality(A \cup O) <= Cardinality(A) + Cardinality(O)
  <2>1. /\ IsFiniteSet(A \cup O) /\ IsFiniteSet(A \cap O)
        /\ Cardinality(A \cup O) = Cardinality(A) + Cardinality(O) - Cardinality(A \cap O)
    BY <1>5, <1>7, FS_Union, FS_Intersection
  <2>2. Cardinality(A \cap O) \in Nat /\ Cardinality(A \cup O) \in Nat
    BY <2>1, FS_CardinalityType
  <2> HIDE DEF A, O
  <2> QED
    BY <1>5, <1>6, <2>1, <2>2
<1>10. Cardinality(Within(list, ids)) <= Cardinality(A \cup O)
  <2> HIDE DEF A, O
  <2> QED
    BY <1>8, <1>9, FS_Subset
<1> HIDE DEF A, O, f
<1> QED
  BY <1>1, <1>5, <1>6, <1>9, <1>10

\* What is known of a handler between LRANGE and LTRIM.
TrimsKnown == LostOnlyIfDisturbed /\ TrimsRead

\* A step that leaves the queue alone, and starts no LTRIM.
LEMMA TrimsRest ==
  ASSUME TrimsKnown, UNCHANGED <<queue, disturbed, lost>>,
         \A v \in Workers : pc'[v] = "pairsTrim" =>
           pc[v] = "pairsTrim" /\ loc'[v].ids = loc[v].ids
  PROVE  TrimsKnown'
BY DEF TrimsKnown, LostOnlyIfDisturbed, TrimsRead, StillHead

\* A waiter taken from the queue is a disturbance for who is about to LTRIM.
LEMMA TrimsDisturbed ==
  ASSUME TypeOK, TypeOK', NoDuplicateWaiting, TrimsKnown, Disturb(queue'), lost' = lost,
         \A i \in DOMAIN queue : queue[i] \in ToSet(queue') =>
           \E j \in DOMAIN queue' : j <= i /\ queue'[j] = queue[i],
         \A v \in Workers : pc'[v] = "pairsTrim" =>
           pc[v] = "pairsTrim" /\ loc'[v].ids = loc[v].ids
  PROVE  TrimsKnown'
<1>1. queue \in Seq(Sockets) /\ queue' \in Seq(Sockets)
  BY DEF TypeOK, ListsOK
<1>2. disturbed \in Nat /\ lost \in Nat
  BY DEF TypeOK, HistoryOK
<1>3. PICK out \in Nat : out = Outside(queue, queue')
  BY <1>1, HeadParts
<1>4. \/ disturbed' = disturbed + out
      \/ disturbed' = disturbed /\ \A v \in Workers : pc[v] # "pairsTrim"
  BY <1>2, <1>3 DEF Disturb
<1>5. LostOnlyIfDisturbed'
  BY <1>2, <1>3, <1>4 DEF TrimsKnown, LostOnlyIfDisturbed
<1>6. ASSUME NEW v \in Workers, pc'[v] = "pairsTrim"
      PROVE  lost' + 2 - StillHead(v)' <= disturbed'
  <2>1. PICK ids : ids = loc[v].ids
    OBVIOUS
  <2>2. pc[v] = "pairsTrim" /\ loc'[v].ids = ids
    BY <1>6, <2>1
  <2>3. /\ StillHead(v) = Cardinality(Within(queue, ids))
        /\ StillHead(v)' = Cardinality(Within(queue', ids))
    BY <2>1, <2>2 DEF StillHead, Within
  <2>4. PICK rest \in Seq(Sockets) : rest = queue'
    BY <1>1
  <2>5. Cardinality(Within(queue, ids)) <= Cardinality(Within(rest, ids)) + out
    BY <1>1, <1>3, <2>4, HeadStays DEF NoDuplicateWaiting
  <2>6. Cardinality(Within(queue, ids)) \in Nat /\ Cardinality(Within(rest, ids)) \in Nat
    BY <1>1, HeadParts
  <2>7. lost + 2 - Cardinality(Within(queue, ids)) <= disturbed
    BY <2>2, <2>3 DEF TrimsKnown, TrimsRead
  <2> QED
    BY <1>2, <1>4, <2>2, <2>3, <2>4, <2>5, <2>6, <2>7
<1> QED
  BY <1>5, <1>6 DEF TrimsKnown, TrimsRead

\* LPOP and LREM move waiters towards the head, and RPUSH none.
LEMMA CutMoves ==
  ASSUME NEW S, NEW list \in Seq(S), NoDuplicates(list), NEW i \in DOMAIN list,
         NEW n \in Nat, list[i] \in ToSet(Rest(list, n))
  PROVE  \E j \in DOMAIN Rest(list, n) : j <= i /\ Rest(list, n)[j] = list[i]
<1>1. PICK j \in DOMAIN Rest(list, n) : Rest(list, n)[j] = list[i]
  BY DEF ToSet
<1>2. j + n \in DOMAIN list /\ list[j + n] = list[i]
  BY <1>1, CutFacts
<1>3. j + n = i
  BY <1>2 DEF NoDuplicates
<1>4. j \in Nat
  BY CutFacts, LenProperties
<1> QED
  BY <1>1, <1>3, <1>4

\* A socket that queues up does so behind those that are read.
LEMMA TrimsAppend ==
  ASSUME TypeOK, TrimsKnown, NEW s \in Sockets, queue' = Append(queue, s),
         UNCHANGED <<disturbed, lost, pc, loc>>
  PROVE  TrimsKnown'
<1>1. queue \in Seq(Sockets) /\ Append(queue, s) \in Seq(Sockets)
  BY DEF TypeOK, ListsOK
<1>2. disturbed \in Nat /\ lost \in Nat
  BY DEF TypeOK, HistoryOK
<1>3. ASSUME NEW v \in Workers, pc'[v] = "pairsTrim"
      PROVE  lost' + 2 - StillHead(v)' <= disturbed'
  <2>1. PICK ids : ids = loc[v].ids
    OBVIOUS
  <2>2. PICK longer \in Seq(Sockets) : longer = Append(queue, s)
    BY <1>1
  <2>3. /\ StillHead(v) = Cardinality(Within(queue, ids))
        /\ StillHead(v)' = Cardinality(Within(longer, ids))
    BY <2>1, <2>2 DEF StillHead, Within
  <2>4. /\ IsFiniteSet(Within(longer, ids))
        /\ Cardinality(Within(queue, ids)) \in Nat /\ Cardinality(Within(longer, ids)) \in Nat
        /\ DOMAIN First(queue, 2) = {i \in DOMAIN queue : i <= 2}
        /\ DOMAIN First(longer, 2) = {i \in DOMAIN longer : i <= 2}
    BY <1>1, HeadParts
  <2>5. \A i \in DOMAIN queue : i \in DOMAIN longer /\ longer[i] = queue[i]
    BY <1>1, <2>2, AppendProperties, LenProperties
  <2>6. Within(queue, ids) \subseteq Within(longer, ids)
    BY <2>4, <2>5 DEF Within
  <2>7. Cardinality(Within(queue, ids)) <= Cardinality(Within(longer, ids))
    BY <2>4, <2>6, FS_Subset
  <2>8. lost + 2 - Cardinality(Within(queue, ids)) <= disturbed
    BY <1>3, <2>3 DEF TrimsKnown, TrimsRead
  <2> QED
    BY <1>2, <2>3, <2>4, <2>7, <2>8
<1> QED
  BY <1>3 DEF TrimsKnown, TrimsRead, LostOnlyIfDisturbed

\* sendRoomToPairs alone reads and trims.
LEMMA TrimsPairs ==
  ASSUME TypeOK, TypeOK', HoldsKey, TrimsKnown, NEW w \in Workers,
         PairsRange(w) \/ PairsTrim(w),
         \A v \in Workers \ {w} : pc'[v] = pc[v] /\ loc'[v] = loc[v]
  PROVE  TrimsKnown'
<1>0. HandlersOK /\ queue \in Seq(Sockets) /\ disturbed \in Nat /\ lost \in Nat
  BY DEF TypeOK, ListsOK, HistoryOK
<1>a. \A v \in Workers : pc[v] \in PairsPoints /\ pc[w] \in PairsPoints => v = w
  <2>1. PairsKey \in LockKeys /\ Inside(PairsKey) = PairsPoints
    BY KeysApart DEF LockKeys, PairsKey, RoomsKey, Inside
  <2> QED
    BY <2>1 DEF HoldsKey
<1>b. {"pairsRange", "pairsTrim"} \subseteq PairsPoints
  BY DEF PairsPoints
<1>1. CASE PairsRange(w)
  <2>1. PICK ids \in Seq(Sockets) : ids = First(queue, 2)
    BY <1>0, CutFacts
  <2>2. /\ pc[w] = "pairsRange" /\ pc'[w] = "pairsTrim" /\ loc'[w] = [loc[w] EXCEPT !.ids = ids]
        /\ disturbed' = disturbed + (2 - Len(ids)) /\ lost' = lost /\ queue' = queue
    BY <1>0, <1>1, <2>1, Effects DEF PairsRange, redis, lists
  <2>3. loc'[w].ids = ids
    BY <1>0, <2>2 DEF HandlersOK, Locals
  <2>4. StillHead(w)' = Cardinality(Within(queue, ids))
    BY <2>2, <2>3 DEF StillHead, Within
  <2>5. /\ Cardinality(Within(queue, ids)) \in Nat /\ Outside(queue, ids) \in Nat
        /\ Cardinality(Within(queue, ids)) + Outside(queue, ids) = Len(ids)
        /\ Len(ids) <= 2 /\ Len(ids) \in Nat
    <3>1. Len(ids) \in Nat
      BY LenProperties
    <3>2. /\ Cardinality(Within(queue, ids)) \in Nat /\ Outside(queue, ids) \in Nat
          /\ Cardinality(Within(queue, ids)) + Outside(queue, ids) = Len(First(queue, 2))
          /\ Len(First(queue, 2)) <= 2
      BY <1>0, HeadParts
    <3> QED
      BY <2>1, <3>1, <3>2
  <2>6. Outside(queue, ids) = 0
    <3>1. \A i \in DOMAIN First(queue, 2) : queue[i] \in ToSet(ids)
      <4>1. DOMAIN queue = 1..Len(queue) /\ Len(queue) \in Nat
        BY <1>0, LenProperties
      <4>2. \A i \in DOMAIN ids : ids[i] = queue[i]
        BY <1>0, <2>1, <4>1, SubSeqProperties DEF First
      <4> QED
        BY <2>1, <4>2 DEF ToSet
    <3>2. {i \in DOMAIN First(queue, 2) : queue[i] \notin ToSet(ids)} = {}
      BY <3>1
    <3> QED
      BY <3>2, FS_EmptySet DEF Outside
  <2>7. ASSUME NEW v \in Workers, pc'[v] = "pairsTrim" PROVE v = w
    BY <1>a, <1>b, <2>2, <2>7
  <2>8. LostOnlyIfDisturbed'
    BY <1>0, <2>2, <2>5 DEF TrimsKnown, LostOnlyIfDisturbed
  <2>9. lost' + 2 - StillHead(w)' <= disturbed'
    BY <1>0, <2>2, <2>4, <2>5, <2>6 DEF TrimsKnown, LostOnlyIfDisturbed
  <2> QED
    BY <2>7, <2>8, <2>9 DEF TrimsKnown, TrimsRead
<1>2. CASE PairsTrim(w)
  <2>1. PICK ids : ids = loc[w].ids
    OBVIOUS
  <2>2. /\ pc[w] = "pairsTrim" /\ pc'[w] = "pairsPool" /\ disturbed' = disturbed
        /\ lost' = lost + Outside(queue, ids)
    BY <1>0, <1>2, <2>1, Effects DEF PairsTrim
  <2>3. /\ Cardinality(Within(queue, ids)) \in Nat /\ Outside(queue, ids) \in Nat
        /\ Cardinality(Within(queue, ids)) + Outside(queue, ids) <= 2
    <3>1. Cardinality(Within(queue, ids)) + Outside(queue, ids) = Len(First(queue, 2))
          /\ Len(First(queue, 2)) <= 2
      BY <1>0, HeadParts
    <3> QED
      BY <1>0, <3>1, HeadParts
  <2>4. lost + 2 - Cardinality(Within(queue, ids)) <= disturbed
    <3>1. StillHead(w) = Cardinality(Within(queue, ids))
      BY <2>1 DEF StillHead, Within
    <3> QED
      BY <2>2, <3>1 DEF TrimsKnown, TrimsRead
  <2>5. ASSUME NEW v \in Workers, pc'[v] = "pairsTrim" PROVE FALSE
    BY <1>a, <1>b, <2>2, <2>5
  <2>6. lost' <= disturbed'
    BY <1>0, <2>2, <2>3, <2>4
  <2> QED
    BY <2>5, <2>6 DEF TrimsKnown, TrimsRead, LostOnlyIfDisturbed
<1> QED
  BY <1>1, <1>2

\* Commands of handlers that touch neither the queue nor what was trimmed.
LEMMA TrimsQuiet ==
  ASSUME HandlersOK, NEW w \in Workers, Handler(w),
         ~FindPop(w), ~PairsRange(w), ~PairsTrim(w)
  PROVE  UNCHANGED <<queue, disturbed, lost>> /\ pc'[w] # "pairsTrim"
<1>1. CASE \/ FindQueue(w) \/ FindRange(w) \/ FindCheck(w) \/ FindIncr(w) \/ FindMore(w)
  BY <1>1, Effects DEF FindQueue, FindRange, FindCheck, FindIncr, FindMore,
                       redis, lists, history, waitHistory
<1>2. CASE PairsLen(w) \/ PairsPool(w) \/ PairsError(w) \/ PairsZadd(w)
  BY <1>2, Effects DEF PairsLen, PairsPool, PairsError, PairsZadd,
                       redis, lists, history, waitHistory
<1>8. CASE PairsRoom(w)
  BY <1>8, Effects DEF PairsRoom, lists, waitHistory
<1>3. CASE SwitchLen(w) \/ SwitchRange(w)
  BY <1>3, Effects DEF SwitchLen, SwitchRange, redis, lists, history, waitHistory
<1>4. CASE SwitchCreate(w) \/ SwitchZadd(w)
  BY <1>4, Effects DEF SwitchCreate, SwitchZadd, redis, lists, history, waitHistory
<1>5. CASE SwitchQueue(w) \/ SwitchRooms(w) \/ SwitchTry(w) \/ SwitchScore(w)
  BY <1>5, Effects DEF SwitchQueue, SwitchRooms, SwitchTry, SwitchScore, redis, lists,
                       history, waitHistory
<1>6. CASE SwitchPop(w) \/ SwitchIncr(w) \/ SwitchAfter(w)
  BY <1>6, Effects DEF SwitchPop, SwitchIncr, SwitchAfter, redis, lists,
                       history, waitHistory
<1>7. CASE \/ CreateStart(w) \/ CreateOne(w) \/ ClearPool(w) \/ ClearRooms(w)
           \/ ClearAgain(w)
  BY <1>7, Effects DEF CreateStart, CreateOne, ClearPool, ClearRooms, ClearAgain, redis,
                       lists, history, waitHistory
<1> QED
  BY <1>1, <1>2, <1>3, <1>4, <1>5, <1>6, <1>7, <1>8 DEF Handler

\* Whoever leaves the queue while a handler stands between LRANGE and LTRIM
\* is counted, and only one handler stands there.
LEMMA TrimsStep ==
  ASSUME TypeOK, TypeOK', HoldsKey, NoDuplicateWaiting, TrimsKnown, [Next]_vars
  PROVE  TrimsKnown'
<1>0. HandlersOK /\ queue \in Seq(Sockets)
  BY DEF TypeOK, ListsOK
\* LREM, or nothing.
<1>a. ASSUME NEW s \in Sockets, Disturb(queue'), UNCHANGED <<lost, pc, loc>>,
             queue' = LRem(queue, s)
      PROVE  TrimsKnown'
  <2>1. ASSUME NEW i \in DOMAIN queue, queue[i] \in ToSet(queue')
        PROVE  \E j \in DOMAIN queue' : j <= i /\ queue'[j] = queue[i]
    <3>1. queue[i] # s
      BY <1>0, <1>a, <2>1, LRemFacts DEF ToSet
    <3>2. PICK f \in Injection({k \in DOMAIN queue : queue[k] # s}, DOMAIN LRem(queue, s)) :
                 \A k \in {m \in DOMAIN queue : queue[m] # s} :
                   f[k] <= k /\ LRem(queue, s)[f[k]] = queue[k]
      BY <1>0, RemShifts
    <3>3. i \in {k \in DOMAIN queue : queue[k] # s}
      BY <3>1
    <3>4. f[i] \in DOMAIN LRem(queue, s)
      BY <3>3 DEF Injection
    <3> QED
      BY <1>a, <3>2, <3>3, <3>4
  <2> QED
    BY <1>a, <2>1, TrimsDisturbed
<1>1. ASSUME NEW w \in Workers, Handler(w)
      PROVE  TrimsKnown'
  <2>0. \A v \in Workers \ {w} : pc'[v] = pc[v] /\ loc'[v] = loc[v]
    BY <1>0, <1>1, OthersStay
  <2>1. CASE FindPop(w)
    <3>1. Disturb(queue') /\ lost' = lost /\ pc'[w] = "findMore" /\ queue' = Rest(queue, 1)
      BY <1>0, <2>1, Effects DEF FindPop
    <3>2. \A i \in DOMAIN queue : queue[i] \in ToSet(queue') =>
            \E j \in DOMAIN queue' : j <= i /\ queue'[j] = queue[i]
      BY <1>0, <3>1, CutMoves DEF NoDuplicateWaiting
    <3> QED
      BY <2>0, <3>1, <3>2, TrimsDisturbed
  <2>2. CASE PairsRange(w) \/ PairsTrim(w)
    BY <2>0, <2>2, TrimsPairs
  <2>3. CASE ~FindPop(w) /\ ~PairsRange(w) /\ ~PairsTrim(w)
    BY <1>0, <1>1, <2>0, <2>3, TrimsQuiet, TrimsRest
  <2> QED
    BY <2>1, <2>2, <2>3
<1>2. ASSUME NEW w \in Workers, Take(w) \/ Acquire(w) \/ Timeout(w) \/ Crash(w)
      PROVE  TrimsKnown'
  <2>1. UNCHANGED <<queue, disturbed, lost>>
    BY <1>2 DEF Take, Acquire, Timeout, Crash, redis, lists, history, waitHistory
  <2>2. /\ \A v \in Workers \ {w} : pc'[v] = pc[v] /\ loc'[v] = loc[v]
        /\ pc'[w] = "pairsTrim" => pc[w] = "pairsTrim" /\ loc'[w] = loc[w]
    <3>1. CASE Take(w)
      <4>1. PICK p : p \in {Entry[name] : name \in Names} /\ Goto(w, p)
        BY <3>1 DEF Take, JobSet
      <4>2. p # "pairsTrim"
        BY <4>1 DEF Entry, Names
      <4> QED
        BY <1>0, <3>1, <4>1, <4>2, Effects DEF Take
    <3>2. CASE Acquire(w)
      <4>1. PICK p : p \in {"findQueue", "switchLen", "pairsLen"} /\ Goto(w, p)
        BY <3>2 DEF Acquire, KeyOf, Locked
      <4> QED
        BY <1>0, <3>2, <4>1, Effects DEF Acquire
    <3>3. CASE Timeout(w)
      <4>1. PICK p : p = (IF pc[w] = "hung" THEN "idle" ELSE pc[w]) /\ Goto(w, p)
        BY <3>3 DEF Timeout
      <4> QED
        BY <1>0, <3>3, <4>1, Effects DEF Timeout
    <3>4. CASE Crash(w)
      BY <1>0, <3>4, Effects DEF Crash
    <3> QED
      BY <1>2, <3>1, <3>2, <3>3, <3>4
  <2> QED
    BY <2>1, <2>2, TrimsRest
<1>3. ASSUME NEW s \in Sockets, RequestRoom(s)
      PROVE  TrimsKnown'
  BY <1>3, <1>a DEF RequestRoom, handlers
<1>4. ASSUME NEW s \in Sockets, PushRequest(s)
      PROVE  TrimsKnown'
  BY <1>4, TrimsAppend DEF PushRequest, handlers, history, waitHistory
<1>5. ASSUME NEW s \in Sockets, CancelRequest(s) \/ Disconnect(s)
      PROVE  TrimsKnown'
  <2>1. \/ UNCHANGED <<queue, disturbed>>
        \/ queue' = LRem(queue, s) /\ Disturb(queue')
    BY <1>5 DEF CancelRequest, Disconnect, Withdraw
  <2>2. UNCHANGED <<lost, pc, loc>>
    BY <1>5 DEF CancelRequest, Disconnect, handlers
  <2> QED
    BY <1>a, <2>1, <2>2, TrimsRest
<1>6. ASSUME NEW s \in Sockets, NEW r \in Rooms,
             \/ RequestSwitch(s, r) \/ RoomStatus(s, r)
             \/ PushSwitch([id |-> s, room |-> r])
      PROVE  TrimsKnown'
  <2>1. UNCHANGED <<queue, disturbed, lost, pc, loc>>
    BY <1>6 DEF RequestSwitch, RoomStatus, PushSwitch, lists, handlers, history, waitHistory
  <2> QED
    BY <2>1, TrimsRest
<1>7. CASE \/ OnChanged \/ OnSwitch \/ Background \/ ThreeLengthExpires \/ TimerFires
           \/ (\E key \in LockKeys : Expire(key)) \/ UNCHANGED vars
  <2>1. UNCHANGED <<queue, disturbed, lost, pc, loc>>
    BY <1>7 DEF OnChanged, OnSwitch, Background, ThreeLengthExpires, TimerFires,
                Expire, vars, redis, lists, handlers, history, waitHistory
  <2> QED
    BY <2>1, TrimsRest
<1>8. CASE EndIntermission
  <2>1. queue' = <<>> /\ Disturb(queue') /\ UNCHANGED <<lost, pc, loc>>
    BY <1>8 DEF EndIntermission, handlers
  <2>2. ToSet(queue') = {}
    BY <2>1 DEF ToSet
  <2> QED
    BY <2>1, <2>2, TrimsDisturbed
<1> QED
  BY <1>1, <1>2, <1>3, <1>4, <1>5, <1>6, <1>7, <1>8 DEF Next, Socket

\* LTRIM 2 -1 takes a waiter whom LRANGE has not read only if somebody left
\* the head of the queue between the two, or LRANGE found fewer than two, and
\* then one for each, as long as no key expires under its holder: with two
\* handlers there the second would trim others.
THEOREM LossIsDisturbance ==
  ASSUME \A start \in Starts : start.budget["expire"] = 0
  PROVE  Spec => []LostOnlyIfDisturbed
<1> DEFINE Inv == Holders /\ OneRequest /\ NoDuplicateWaiting /\ TrimsKnown
<1>1. Init => Inv
  <2>1. Init => OneRequest /\ NoDuplicateWaiting
    BY DEF Init, InitFrom, OneRequest, NoDuplicateWaiting, NoDuplicates
  <2>2. Init => TrimsKnown
    BY DEF Init, InitFrom, TrimsKnown, LostOnlyIfDisturbed, TrimsRead
  <2> QED
    BY <2>1, <2>2, HoldersInit
<1>2. Inv /\ [Next]_vars => Inv'
  BY HoldersKept, QueueStep, TrimsStep DEF Holders
<1>3. Inv => LostOnlyIfDisturbed
  BY DEF TrimsKnown
<1> HIDE DEF Inv
<1> QED
  BY <1>1, <1>2, <1>3, PTL DEF Spec

-----------------------------------------------------------------------------
\* Who is popped

\* The entries of the list of switches.
Entries == [id : Sockets, room : Rooms]
\* The first entries of a list that are of one of some sockets.
OwnFirst(list, n, ids) == {i \in DOMAIN list : i <= n /\ list[i].id \in ToSet(ids)}

\* They are finitely many.
LEMMA OwnCounts ==
  ASSUME NEW S, NEW list \in Seq(S), NEW n, NEW ids
  PROVE  /\ IsFiniteSet(OwnFirst(list, n, ids))
         /\ OwnAtHead(list, n, ids) = Cardinality(OwnFirst(list, n, ids))
         /\ OwnAtHead(list, n, ids) \in Nat
<1>1. DOMAIN list = 1..Len(list) /\ Len(list) \in Nat
  BY LenProperties
<1>2. IsFiniteSet(1..Len(list))
  BY <1>1, FS_Interval
<1>3. OwnFirst(list, n, ids) \subseteq 1..Len(list)
  BY <1>1 DEF OwnFirst
<1> QED
  BY <1>2, <1>3, FS_Subset, FS_CardinalityType DEF OwnAtHead, OwnFirst

\* No more than there are entries, or than are asked for.
LEMMA OwnFew ==
  ASSUME NEW S, NEW list \in Seq(S), NEW n \in Nat, NEW ids
  PROVE  OwnAtHead(list, n, ids) <= n /\ OwnAtHead(list, n, ids) <= Len(list)
<1>1. DOMAIN list = 1..Len(list) /\ Len(list) \in Nat
  BY LenProperties
<1>2. OwnFirst(list, n, ids) \subseteq 1..Len(list) /\ OwnFirst(list, n, ids) \subseteq 1..n
  BY <1>1 DEF OwnFirst
<1>3. \A m \in Nat : IsFiniteSet(1..m) /\ Cardinality(1..m) = m
  <2> SUFFICES ASSUME NEW m \in Nat PROVE IsFiniteSet(1..m) /\ Cardinality(1..m) = m
    OBVIOUS
  <2>1. 1 > m => m = 0
    OBVIOUS
  <2> QED
    BY <2>1, FS_Interval
<1>4. \A m \in Nat : OwnFirst(list, n, ids) \subseteq 1..m
                     => Cardinality(OwnFirst(list, n, ids)) <= m
  BY <1>3, FS_Subset
<1> QED
  BY <1>1, <1>2, <1>4, OwnCounts

\* LREM takes as many of them out as it shortens the list, at most.
LEMMA OwnRem ==
  ASSUME NEW S, NEW list \in Seq(S), NEW value, NEW n \in Nat, NEW ids
  PROVE  OwnAtHead(list, n, ids)
           <= OwnAtHead(LRem(list, value), n, ids) + Len(list) - Len(LRem(list, value))
<1> DEFINE kept == {i \in DOMAIN list : list[i] # value}
           gone == DOMAIN list \ kept
           K == OwnFirst(list, n, ids)
           R == OwnFirst(LRem(list, value), n, ids)
           A == K \cap kept
<1>1. Len(list) \in Nat /\ DOMAIN list = 1..Len(list)
  BY LenProperties
<1>2. LRem(list, value) \in Seq(S)
  BY LRemFacts
<1>3. PICK f \in Injection(kept, DOMAIN LRem(list, value)) :
             \A i \in kept : f[i] <= i /\ LRem(list, value)[f[i]] = list[i]
  BY RemShifts
<1>4. \A T \in SUBSET (1..Len(list)) : IsFiniteSet(T) /\ Cardinality(T) \in Nat
  <2>1. IsFiniteSet(1..Len(list))
    BY <1>1, FS_Interval
  <2> QED
    BY <2>1, FS_Subset, FS_CardinalityType
<1>5. /\ kept \in SUBSET (1..Len(list)) /\ gone \in SUBSET (1..Len(list))
      /\ A \in SUBSET (1..Len(list)) /\ K \in SUBSET (1..Len(list))
  BY <1>1 DEF OwnFirst
<1>6. Cardinality(gone) = Len(list) - Len(LRem(list, value))
  <2>1. Len(LRem(list, value)) = Cardinality(kept)
    <3>1. LRem(list, value) = [k \in 1..Cardinality(kept) |-> list[Nth(kept, k)]]
      BY DEF LRem
    <3>2. Cardinality(kept) \in Nat
      BY <1>4, <1>5
    <3> HIDE DEF kept
    <3>3. DOMAIN LRem(list, value) = 1..Cardinality(kept)
      BY <3>1
    <3> QED
      BY <1>2, <3>2, <3>3, LenProperties
  <2>2. Cardinality(1..Len(list)) = Len(list) /\ IsFiniteSet(1..Len(list))
    <3>1. 1 > Len(list) => Len(list) = 0
      BY <1>1
    <3> QED
      BY <1>1, <3>1, FS_Interval
  <2>3. Cardinality(gone \cup kept) = Cardinality(gone) + Cardinality(kept) - Cardinality(gone \cap kept)
    BY <1>4, <1>5, FS_Union
  <2>4. gone \cup kept = 1..Len(list) /\ gone \cap kept = {}
    BY <1>1
  <2>5. Cardinality(gone \cup kept) = Len(list) /\ Cardinality(gone \cap kept) = 0
    BY <2>2, <2>4, FS_EmptySet
  <2>6. Cardinality(gone) \in Nat /\ Cardinality(kept) \in Nat
    BY <1>4, <1>5
  <2> HIDE DEF gone, kept
  <2> QED
    BY <1>1, <2>1, <2>3, <2>5, <2>6
<1>7. \A i \in A : f[i] \in R
  <2> SUFFICES ASSUME NEW i \in A PROVE f[i] \in R
    OBVIOUS
  <2>1. f[i] \in DOMAIN LRem(list, value) /\ f[i] <= i /\ LRem(list, value)[f[i]] = list[i]
    BY <1>3 DEF Injection
  <2>2. i <= n /\ list[i].id \in ToSet(ids) /\ i \in Nat
    BY <1>1 DEF OwnFirst
  <2>3. f[i] \in Nat
    BY <1>2, <2>1, LenProperties
  <2>4. f[i] <= n
    BY <2>1, <2>2, <2>3
  <2> QED
    BY <2>1, <2>2, <2>4 DEF OwnFirst
<1>8. /\ IsFiniteSet(R) /\ Cardinality(R) \in Nat
      /\ OwnAtHead(LRem(list, value), n, ids) = Cardinality(R)
      /\ OwnAtHead(list, n, ids) = Cardinality(K)
  BY <1>2, OwnCounts
<1>9. Cardinality(A) <= Cardinality(R)
  <2>1. \A i, j \in A : f[i] = f[j] => i = j
    BY <1>3 DEF Injection, IsInjective
  <2> DEFINE g == [i \in A |-> f[i]]
  <2>2. g \in Injection(A, R)
    <3>1. g \in [A -> R]
      BY <1>7
    <3>2. \A i, j \in A : g[i] = g[j] => i = j
      BY <2>1
    <3> HIDE DEF g, A, R
    <3> QED
      BY <3>1, <3>2 DEF Injection, IsInjective
  <2>3. IsFiniteSet(A) /\ IsFiniteSet(R)
    BY <1>4, <1>5, <1>8
  <2> HIDE DEF g, A, R
  <2> QED
    BY <2>2, <2>3, FS_Injection
<1>10. Cardinality(K) <= Cardinality(A) + Cardinality(gone)
  <2>1. K \subseteq A \cup gone /\ IsFiniteSet(A \cup gone)
    BY <1>4, <1>5 DEF OwnFirst
  <2>2. Cardinality(K) <= Cardinality(A \cup gone)
    BY <2>1, FS_Subset
  <2>3. /\ Cardinality(A \cup gone) = Cardinality(A) + Cardinality(gone) - Cardinality(A \cap gone)
        /\ A \cap gone = {}
    BY <1>4, <1>5, FS_Union
  <2>4. Cardinality(A \cap gone) = 0
    BY <2>3, FS_EmptySet
  <2>5. Cardinality(A) \in Nat /\ Cardinality(gone) \in Nat /\ Cardinality(K) \in Nat
    BY <1>4, <1>5
  <2> HIDE DEF A, gone, K
  <2> QED
    BY <2>2, <2>3, <2>4, <2>5
<1>11. Cardinality(A) \in Nat /\ Cardinality(gone) \in Nat /\ Cardinality(K) \in Nat
  BY <1>4, <1>5
<1>12. Len(LRem(list, value)) \in Nat
  BY <1>2, LenProperties
<1> HIDE DEF A, gone, K, R, kept
<1> QED
  BY <1>1, <1>6, <1>8, <1>9, <1>10, <1>11, <1>12

\* RPUSH adds entries at the end.
LEMMA OwnAppend ==
  ASSUME NEW S, NEW list \in Seq(S), NEW value \in S, NEW n \in Nat, NEW ids
  PROVE  OwnAtHead(list, n, ids) <= OwnAtHead(Append(list, value), n, ids)
<1>1. PICK longer \in Seq(S) : longer = Append(list, value)
  BY AppendProperties
<1>2. \A i \in DOMAIN list : i \in DOMAIN longer /\ longer[i] = list[i]
  BY <1>1, AppendProperties, LenProperties
<1>3. OwnFirst(list, n, ids) \subseteq OwnFirst(longer, n, ids)
  BY <1>2 DEF OwnFirst
<1>4. /\ IsFiniteSet(OwnFirst(longer, n, ids))
      /\ OwnAtHead(longer, n, ids) = Cardinality(OwnFirst(longer, n, ids))
      /\ OwnAtHead(list, n, ids) = Cardinality(OwnFirst(list, n, ids))
  BY OwnCounts
<1> QED
  BY <1>1, <1>3, <1>4, FS_Subset

\* Fewer pops lack at most as many entries.
LEMMA OwnFewer ==
  ASSUME NEW S, NEW list \in Seq(S), NEW n \in Nat, NEW ids
  PROVE  /\ OwnAtHead(list, n + 1, ids) <= OwnAtHead(list, n, ids) + 1
         /\ OwnAtHead(list, n, ids) <= OwnAtHead(list, n + 1, ids)
<1> DEFINE K == OwnFirst(list, n + 1, ids)
           L == OwnFirst(list, n, ids)
<1>1. /\ OwnAtHead(list, n + 1, ids) = Cardinality(K) /\ OwnAtHead(list, n, ids) = Cardinality(L)
      /\ IsFiniteSet(K) /\ IsFiniteSet(L) /\ Cardinality(K) \in Nat /\ Cardinality(L) \in Nat
  BY OwnCounts
<1>2. DOMAIN list = 1..Len(list) /\ Len(list) \in Nat
  BY LenProperties
<1>3. L \subseteq K /\ K \subseteq L \cup {n + 1}
  BY <1>2 DEF OwnFirst
<1>4. IsFiniteSet(L \cup {n + 1}) /\ Cardinality(L \cup {n + 1}) \in Nat
      /\ Cardinality(L \cup {n + 1}) <= Cardinality(L) + 1
  <2> HIDE DEF L
  <2>1. IsFiniteSet(L \cup {n + 1}) /\ Cardinality(L \cup {n + 1}) =
          IF n + 1 \in L THEN Cardinality(L) ELSE Cardinality(L) + 1
    BY <1>1, FS_AddElement
  <2> QED
    BY <1>1, <2>1
<1>5. Cardinality(L) <= Cardinality(K) /\ Cardinality(K) <= Cardinality(L \cup {n + 1})
  BY <1>1, <1>3, <1>4, FS_Subset
<1> HIDE DEF K, L
<1> QED
  BY <1>1, <1>4, <1>5

\* An LPOP takes the first entry of the list: its own, or it is skipped.
LEMMA OwnPop ==
  ASSUME NEW S, NEW list \in Seq(S), NEW n \in Nat, NEW ids
  PROVE  LET popped == First(list, 1)
             wrong  == {i \in DOMAIN popped : popped[i].id \notin ToSet(ids)}
         IN  /\ Cardinality(wrong) \in Nat
             /\ Cardinality(wrong) + OwnAtHead(list, n + 1, ids)
                  <= OwnAtHead(Rest(list, 1), n, ids) + 1
<1> DEFINE popped == First(list, 1)
           wrong  == {i \in DOMAIN popped : popped[i].id \notin ToSet(ids)}
           K == OwnFirst(list, n + 1, ids)
           R == OwnFirst(Rest(list, 1), n, ids)
           A == K \ {1}
<1>1. DOMAIN list = 1..Len(list) /\ Len(list) \in Nat
  BY LenProperties
<1>2. Rest(list, 1) \in Seq(S) /\ First(list, 1) \in Seq(S)
  BY CutFacts
<1>3. DOMAIN Rest(list, 1) = {i \in Nat : i >= 1 /\ i + 1 <= Len(list)}
  <2>1. Len(Rest(list, 1)) = IF 2 <= Len(list) THEN Len(list) - 1 ELSE 0
    BY <1>1, SubSeqProperties DEF Rest
  <2>2. DOMAIN Rest(list, 1) = 1..Len(Rest(list, 1))
    BY <1>2, LenProperties
  <2>3. \A i \in Nat : i \in 1..Len(Rest(list, 1)) <=> i >= 1 /\ i + 1 <= Len(list)
    <3>1. CASE 2 <= Len(list)
      BY <1>1, <2>1, <3>1
    <3>2. CASE ~(2 <= Len(list))
      BY <1>1, <2>1, <3>2
    <3> QED
      BY <3>1, <3>2
  <2>4. 1..Len(Rest(list, 1)) \subseteq Nat
    OBVIOUS
  <2> QED
    BY <2>2, <2>3, <2>4
<1>4. \A i \in DOMAIN Rest(list, 1) : Rest(list, 1)[i] = list[i + 1]
  BY CutFacts
<1>5. /\ OwnAtHead(list, n + 1, ids) = Cardinality(K)
      /\ OwnAtHead(Rest(list, 1), n, ids) = Cardinality(R)
      /\ IsFiniteSet(K) /\ IsFiniteSet(R) /\ Cardinality(K) \in Nat /\ Cardinality(R) \in Nat
  BY <1>2, OwnCounts
<1>6. IsFiniteSet(A) /\ Cardinality(A) \in Nat /\ Cardinality(A) <= Cardinality(R)
  <2>1. IsFiniteSet(A) /\ Cardinality(A) \in Nat
    BY <1>5, FS_Subset, FS_CardinalityType
  <2> DEFINE g == [i \in A |-> i - 1]
  <2>2. \A i \in A : i \in Nat /\ i - 1 \in R
    <3> SUFFICES ASSUME NEW i \in A PROVE i \in Nat /\ i - 1 \in R
      OBVIOUS
    <3>1. i \in DOMAIN list /\ i # 1 /\ i <= n + 1 /\ list[i].id \in ToSet(ids)
      BY DEF OwnFirst
    <3>2. i \in Nat /\ i - 1 \in DOMAIN Rest(list, 1) /\ i - 1 <= n /\ (i - 1) + 1 = i
      BY <1>1, <1>3, <3>1
    <3>3. Rest(list, 1)[i - 1] = list[i]
      BY <1>4, <3>2
    <3> QED
      BY <3>1, <3>2, <3>3 DEF OwnFirst
  <2>3. g \in Injection(A, R)
    <3>1. g \in [A -> R]
      BY <2>2
    <3>2. \A i, j \in A : g[i] = g[j] => i = j
      BY <2>2
    <3> HIDE DEF g, A, R
    <3> QED
      BY <3>1, <3>2 DEF Injection, IsInjective
  <2> HIDE DEF g, A, R
  <2> QED
    BY <1>5, <2>1, <2>3, FS_Injection
<1>7. CASE list = <<>>
  <2>1. Len(list) = 0
    BY <1>7
  <2>2. popped = <<>>
    BY <1>7, <2>1 DEF First
  <2>3. wrong = {} /\ K = {}
    BY <1>1, <2>1, <2>2 DEF OwnFirst
  <2>4. Cardinality(wrong) = 0 /\ Cardinality(K) = 0
    BY <2>3, FS_EmptySet
  <2> QED
    BY <1>5, <2>4
<1>8. CASE list # <<>>
  <2>1. Len(list) >= 1
    BY <1>1, <1>8, EmptySeq
  <2>2. DOMAIN popped = {1} /\ popped[1] = list[1]
    BY <1>1, <2>1, SubSeqProperties DEF First
  <2>3. CASE list[1].id \in ToSet(ids)
    <3>1. wrong = {}
      BY <2>2, <2>3
    <3>2. Cardinality(wrong) = 0
      BY <3>1, FS_EmptySet
    <3>3. Cardinality(K) <= Cardinality(A) + 1
      <4>1. K \subseteq A \cup {1}
        OBVIOUS
      <4>2. /\ IsFiniteSet(A \cup {1})
            /\ Cardinality(A \cup {1}) = Cardinality(A) + 1
        BY <1>6, FS_AddElement
      <4>3. Cardinality(K) <= Cardinality(A \cup {1})
        BY <4>1, <4>2, FS_Subset
      <4> HIDE DEF A, K
      <4> QED
        BY <1>5, <1>6, <4>2, <4>3
    <3> HIDE DEF A, K, R, wrong
    <3> QED
      BY <1>5, <1>6, <3>2, <3>3 DEF wrong
  <2>4. CASE list[1].id \notin ToSet(ids)
    <3>1. wrong = {1}
      BY <2>2, <2>4
    <3>2. Cardinality(wrong) = 1
      BY <3>1, FS_Singleton
    <3>3. K = A
      BY <2>4 DEF OwnFirst
    <3>4. Cardinality(K) <= Cardinality(R)
      BY <1>6, <3>3
    <3> HIDE DEF A, K, R
    <3> QED
      BY <1>5, <3>2, <3>4
  <2> QED
    BY <2>3, <2>4
<1> QED
  BY <1>7, <1>8

\* What is known of a handler that is still to pop entries.
PopsKnown == SkippedOnlyIfDisplaced /\ PopsRead

\* How many pops are left is a number, and so is what the counters hold.
LEMMA PopTypes ==
  ASSUME TypeOK
  PROVE  /\ queueSwitch \in Seq([id : Sockets, room : Rooms])
         /\ displaced \in Nat /\ skipped \in Nat /\ HandlersOK
         /\ \A v \in Workers : /\ PopsLeft(v) \in Nat
                               /\ loc[v].todo \in Nat /\ loc[v].pops \in Nat
<1>1. \A v \in Workers : loc[v].todo \in Nat /\ loc[v].pops \in Nat
  BY DEF TypeOK, HandlersOK, Locals
<1> QED
  BY <1>1 DEF TypeOK, ListsOK, HistoryOK, PopsLeft

\* A step that leaves the list alone, and chooses no socket to move.
LEMMA PopsRest ==
  ASSUME PopsKnown, UNCHANGED <<queueSwitch, displaced, skipped>>,
         \A v \in Workers : pc'[v] \in Swaps => pc'[v] = pc[v] /\ loc'[v] = loc[v]
  PROVE  PopsKnown'
<1>1. \A v \in Workers : pc'[v] \in Swaps =>
        /\ PopsLeft(v)' = PopsLeft(v) /\ loc'[v].ids = loc[v].ids /\ pc[v] \in Swaps
  BY DEF PopsLeft
<1> QED
  BY <1>1 DEF PopsKnown, SkippedOnlyIfDisplaced, PopsRead, OwnAtHead

\* Entries that are taken out displace what is at the head.
LEMMA PopsDisplaced ==
  ASSUME TypeOK, TypeOK', PopsKnown, Displace(queueSwitch'), UNCHANGED <<skipped, pc, loc>>,
         Len(queueSwitch') <= Len(queueSwitch),
         \A n \in Nat : \A v \in Workers :
           OwnAtHead(queueSwitch, n, loc[v].ids)
             <= OwnAtHead(queueSwitch', n, loc[v].ids) + Len(queueSwitch) - Len(queueSwitch')
  PROVE  PopsKnown'
<1>1. PICK drop \in Nat : drop = Len(queueSwitch) - Len(queueSwitch')
  <2>1. Len(queueSwitch) \in Nat /\ Len(queueSwitch') \in Nat
    BY PopTypes, LenProperties DEF TypeOK, ListsOK
  <2> QED
    BY <2>1
<1>2. \/ displaced' = displaced + drop
      \/ displaced' = displaced /\ \A v \in Workers : pc[v] \notin Swaps
  BY <1>1, PopTypes DEF Displace, Swaps
<1>3. SkippedOnlyIfDisplaced'
  BY <1>1, <1>2, PopTypes DEF PopsKnown, SkippedOnlyIfDisplaced
<1>4. ASSUME NEW v \in Workers, pc'[v] \in Swaps
      PROVE  skipped' + PopsLeft(v)' - OwnAtHead(queueSwitch', PopsLeft(v)', loc'[v].ids)
               <= displaced'
  <2>1. PICK n \in Nat : n = PopsLeft(v)
    BY PopTypes
  <2>2. PopsLeft(v)' = n /\ pc[v] \in Swaps /\ loc' = loc
    BY <1>4, <2>1 DEF PopsLeft
  <2>3. skipped + n - OwnAtHead(queueSwitch, n, loc[v].ids) <= displaced
    BY <2>1, <2>2 DEF PopsKnown, PopsRead
  <2>4. OwnAtHead(queueSwitch, n, loc[v].ids) <= OwnAtHead(queueSwitch', n, loc[v].ids) + drop
    <3>1. Len(queueSwitch) \in Nat /\ Len(queueSwitch') \in Nat
      BY PopTypes, LenProperties DEF TypeOK, ListsOK
    <3>2. OwnAtHead(queueSwitch', n, loc[v].ids) \in Nat
      BY OwnCounts DEF TypeOK, ListsOK
    <3>3. OwnAtHead(queueSwitch, n, loc[v].ids)
             <= OwnAtHead(queueSwitch', n, loc[v].ids) + Len(queueSwitch) - Len(queueSwitch')
      OBVIOUS
    <3>4. OwnAtHead(queueSwitch, n, loc[v].ids) \in Nat
      BY PopTypes, OwnCounts
    <3> QED
      BY <1>1, <3>1, <3>2, <3>3, <3>4
  <2>5. OwnAtHead(queueSwitch, n, loc[v].ids) \in Nat
        /\ OwnAtHead(queueSwitch', n, loc[v].ids) \in Nat
    BY PopTypes, OwnCounts DEF TypeOK, ListsOK
  <2>6. displaced' = displaced + drop
    BY <1>2, <2>2
  <2> QED
    BY <1>1, <2>2, <2>3, <2>4, <2>5, <2>6, PopTypes
<1> QED
  BY <1>3, <1>4 DEF PopsKnown, PopsRead

\* LREM of an entry, or nothing.
LEMMA PopsRem ==
  ASSUME TypeOK, TypeOK', PopsKnown, Displace(queueSwitch'), UNCHANGED <<skipped, pc, loc>>,
         queueSwitch' = queueSwitch \/ \E entry : queueSwitch' = LRem(queueSwitch, entry)
  PROVE  PopsKnown'
<1>1. queueSwitch \in Seq([id : Sockets, room : Rooms]) /\ Len(queueSwitch) \in Nat
  BY PopTypes, LenProperties
<1>2. CASE queueSwitch' = queueSwitch
  <2>1. \A n \in Nat : \A ids : OwnAtHead(queueSwitch, n, ids) \in Nat
    BY <1>1, OwnCounts
  <2>2. \A n \in Nat : \A v \in Workers :
           OwnAtHead(queueSwitch, n, loc[v].ids)
             <= OwnAtHead(queueSwitch', n, loc[v].ids) + Len(queueSwitch) - Len(queueSwitch')
    BY <1>1, <1>2, <2>1
  <2> QED
    BY <1>1, <1>2, <2>2, PopsDisplaced
<1>3. ASSUME NEW entry, queueSwitch' = LRem(queueSwitch, entry)
      PROVE  PopsKnown'
  <2>1. Len(queueSwitch') <= Len(queueSwitch)
    BY <1>1, <1>3, LRemFacts
  <2>2. \A n \in Nat : \A ids :
           OwnAtHead(queueSwitch, n, ids)
             <= OwnAtHead(LRem(queueSwitch, entry), n, ids) + Len(queueSwitch)
                - Len(LRem(queueSwitch, entry))
    BY <1>1, OwnRem
  <2>3. \A n \in Nat : \A v \in Workers :
           OwnAtHead(queueSwitch, n, loc[v].ids)
             <= OwnAtHead(queueSwitch', n, loc[v].ids) + Len(queueSwitch) - Len(queueSwitch')
    BY <1>3, <2>2
  <2> QED
    BY <2>1, <2>3, PopsDisplaced
<1> QED
  BY <1>2, <1>3

\* RPUSH of an entry.
LEMMA PopsAppend ==
  ASSUME TypeOK, PopsKnown, NEW entry \in [id : Sockets, room : Rooms],
         queueSwitch' = Append(queueSwitch, entry), UNCHANGED <<displaced, skipped, pc, loc>>
  PROVE  PopsKnown'
<1>1. ASSUME NEW v \in Workers, pc'[v] \in Swaps
      PROVE  skipped' + PopsLeft(v)' - OwnAtHead(queueSwitch', PopsLeft(v)', loc'[v].ids)
               <= displaced'
  <2>1. PICK n \in Nat : n = PopsLeft(v)
    BY PopTypes
  <2>2. PopsLeft(v)' = n /\ pc[v] \in Swaps
    BY <1>1, <2>1 DEF PopsLeft
  <2>3. skipped + n - OwnAtHead(queueSwitch, n, loc[v].ids) <= displaced
    BY <2>1, <2>2 DEF PopsKnown, PopsRead
  <2>4. /\ OwnAtHead(queueSwitch, n, loc[v].ids) <= OwnAtHead(Append(queueSwitch, entry), n, loc[v].ids)
        /\ OwnAtHead(queueSwitch, n, loc[v].ids) \in Nat
        /\ OwnAtHead(Append(queueSwitch, entry), n, loc[v].ids) \in Nat
    <3>1. Append(queueSwitch, entry) \in Seq([id : Sockets, room : Rooms])
      BY PopTypes, AppendProperties
    <3> QED
      BY <3>1, PopTypes, OwnAppend, OwnCounts
  <2> QED
    BY <2>2, <2>3, <2>4, PopTypes
<1>2. SkippedOnlyIfDisplaced'
  BY DEF PopsKnown, SkippedOnlyIfDisplaced
<1> QED
  BY <1>1, <1>2 DEF PopsKnown, PopsRead

\* The handler that swaps is the only one to.
LEMMA PopsOwn ==
  ASSUME HoldsKey, NEW w \in Workers, pc[w] \in SwitchPoints,
         \A v \in Workers \ {w} : pc'[v] = pc[v] /\ loc'[v] = loc[v]
  PROVE  \A v \in Workers \ {w} : pc'[v] \notin Swaps
<1>1. RoomsKey \in LockKeys /\ SwitchPoints \subseteq Inside(RoomsKey)
  BY KeysApart DEF LockKeys, PairsKey, RoomsKey, Inside
<1>2. Swaps \subseteq SwitchPoints
  BY DEF Swaps, SwitchPoints
<1> QED
  BY <1>1, <1>2 DEF HoldsKey

\* What its next command has to find.
PopsHold(w) ==
  /\ skipped' <= displaced'
  /\ pc'[w] \in Swaps =>
       skipped' + PopsLeft(w)' - OwnAtHead(queueSwitch', PopsLeft(w)', loc'[w].ids) <= displaced'

\* It is enough that a command keeps it for its own handler when no other one
\* is swapping.
LEMMA PopsAlone ==
  ASSUME NEW w \in Workers, PopsHold(w), \A v \in Workers \ {w} : pc'[v] \notin Swaps
  PROVE  PopsKnown'
BY DEF PopsHold, PopsKnown, SkippedOnlyIfDisplaced, PopsRead

\* Choosing a pair: the first of the list, and one who may not be the second.
LEMMA PopsChoose ==
  ASSUME TypeOK, LocalsInUse, HoldsKey, PopsKnown, NEW w \in Workers, SwitchRange(w)
  PROVE  PopsHold(w)
<1>0. /\ HandlersOK /\ displaced \in Nat /\ skipped \in Nat /\ skipped <= displaced
      /\ queueSwitch \in Seq([id : Sockets, room : Rooms])
  BY PopTypes DEF PopsKnown, SkippedOnlyIfDisplaced
<1>1. pc[w] = "switchRange" /\ queueSwitch' = queueSwitch /\ skipped' = skipped
  BY DEF SwitchRange, redis, lists
<1>2. CASE /\ Elsewhere # {} /\ Goto(w, "switchCreate")
           /\ Bind(w, [loc[w] EXCEPT !.pair = TRUE, !.todo = 2,
                  !.ids = <<queueSwitch[1].id, queueSwitch[Max(Elsewhere)].id>>])
           /\ displaced' = displaced + IF Max(Elsewhere) = 2 THEN 0 ELSE 1
  <2>1. PICK m : m = Max(Elsewhere)
    OBVIOUS
  <2>2. PICK ids : ids = <<queueSwitch[1].id, queueSwitch[m].id>>
    OBVIOUS
  <2>3. m \in 1..Len(queueSwitch) /\ Len(queueSwitch) \in Nat /\ DOMAIN queueSwitch = 1..Len(queueSwitch)
    <3>1. Elsewhere \in SUBSET (1..Len(queueSwitch)) /\ Len(queueSwitch) \in Nat
      BY <1>0 DEF Elsewhere
    <3> QED
      BY <1>0, <1>2, <2>1, <3>1, GreatestExists, LenProperties
  <2>4. ToSet(ids) = {queueSwitch[1].id, queueSwitch[m].id}
    <3>1. DOMAIN ids = {1, 2} /\ ids[1] = queueSwitch[1].id /\ ids[2] = queueSwitch[m].id
      BY <2>2
    <3> QED
      BY <3>1 DEF ToSet
  <2>5. /\ pc'[w] = "switchCreate"
        /\ loc'[w] = [loc[w] EXCEPT !.pair = TRUE, !.todo = 2, !.ids = ids]
    BY <1>0, <1>2, <2>1, <2>2, Effects
  <2>6. loc[w].pops = 0 /\ loc[w].incs = 0
    <3>1. InUse(pc[w], loc[w])
      BY DEF LocalsInUse
    <3> QED
      BY <1>1, <3>1 DEF InUse, SwitchPoints
  <2>7. loc'[w].pops = 0 /\ loc'[w].todo = 2 /\ loc'[w].ids = ids
    BY <1>0, <2>5, <2>6 DEF HandlersOK, Locals
  <2>8. PopsLeft(w)' = 2
    BY <2>5, <2>7 DEF PopsLeft
  <2>9. PICK K : K = OwnFirst(queueSwitch, 2, ids)
    OBVIOUS
  <2>10. /\ IsFiniteSet(K) /\ OwnAtHead(queueSwitch, 2, ids) = Cardinality(K)
         /\ Cardinality(K) \in Nat
    BY <1>0, <2>9, OwnCounts
  <2>11. {1} \subseteq K /\ (m = 2 => {1, 2} \subseteq K)
    BY <2>3, <2>4, <2>9 DEF OwnFirst
  <2>12. Cardinality(K) >= 1 /\ (m = 2 => Cardinality(K) >= 2)
    <3>1. Cardinality({1}) = 1 /\ Cardinality({1, 2}) = 2
      <4>1. IsFiniteSet({1}) /\ Cardinality({1}) = 1
        BY FS_Singleton
      <4>2. Cardinality({1} \cup {2}) = 1 + 1
        BY <4>1, FS_AddElement
      <4>3. {1} \cup {2} = {1, 2}
        OBVIOUS
      <4> QED
        BY <4>1, <4>2, <4>3
    <3>2. \A T \in SUBSET K : Cardinality(T) <= Cardinality(K)
      BY <2>10, FS_Subset
    <3>3. Cardinality({1}) <= Cardinality(K) /\ (m = 2 => Cardinality({1, 2}) <= Cardinality(K))
      BY <2>11, <3>2
    <3> QED
      BY <2>10, <3>1, <3>3
  <2>13. PICK more \in 0..1 : more = (IF m = 2 THEN 0 ELSE 1) /\ displaced' = displaced + more
    BY <1>2, <2>1
  <2>14. skipped' <= displaced' /\ skipped' + 2 - Cardinality(K) <= displaced'
    BY <1>0, <1>1, <2>10, <2>12, <2>13
  <2>15. OwnAtHead(queueSwitch', PopsLeft(w)', loc'[w].ids) = Cardinality(K)
    BY <1>1, <2>7, <2>8, <2>10
  <2> QED
    BY <2>8, <2>14, <2>15 DEF PopsHold
<1>3. CASE displaced' = displaced /\ pc'[w] \notin Swaps
  BY <1>0, <1>1, <1>3 DEF PopsHold
<1> QED
  <2>1. \/ /\ Elsewhere # {} /\ Goto(w, "switchCreate")
           /\ Bind(w, [loc[w] EXCEPT !.pair = TRUE, !.todo = 2,
                  !.ids = <<queueSwitch[1].id, queueSwitch[Max(Elsewhere)].id>>])
           /\ displaced' = displaced + IF Max(Elsewhere) = 2 THEN 0 ELSE 1
        \/ displaced' = displaced /\ (Goto(w, "switchQueue") \/ JobDone(w))
    BY DEF SwitchRange
  <2> QED
    BY <1>0, <1>2, <1>3, <2>1, Effects DEF Swaps

\* A new room, listed and given to the pair, changes nothing of the list.
LEMMA PopsPrepare ==
  ASSUME TypeOK, PopsKnown, NEW w \in Workers, SwitchCreate(w) \/ SwitchZadd(w)
  PROVE  PopsHold(w)
<1>0. HandlersOK /\ skipped <= displaced
  BY PopTypes DEF PopsKnown, SkippedOnlyIfDisplaced
<1>1. UNCHANGED <<queueSwitch, displaced, skipped>>
  BY DEF SwitchCreate, SwitchZadd, lists, history, switchHistory
<1>2. pc[w] \in {"switchCreate", "switchZadd"} /\ pc'[w] \in {"switchZadd", "switchScore"}
  BY <1>0, Effects DEF SwitchCreate, SwitchZadd
<1>3. loc'[w].pops = loc[w].pops /\ loc'[w].todo = loc[w].todo /\ loc'[w].ids = loc[w].ids
  <2>1. CASE SwitchCreate(w)
    <3>1. PICK r \in Rooms : Bind(w, [loc[w] EXCEPT !.room = r])
      BY <2>1 DEF SwitchCreate
    <3>2. loc'[w] = [loc[w] EXCEPT !.room = r]
      BY <1>0, <3>1, Effects
    <3> QED
      BY <1>0, <3>2 DEF HandlersOK, Locals
  <2>2. CASE SwitchZadd(w)
    BY <2>2 DEF SwitchZadd
  <2> QED
    BY <2>1, <2>2
<1>4. PopsLeft(w)' = PopsLeft(w) /\ pc[w] \in Swaps
  BY <1>2, <1>3 DEF PopsLeft, Swaps
<1> QED
  BY <1>0, <1>1, <1>3, <1>4 DEF PopsHold, PopsKnown, PopsRead

\* The head of the list alone is moved.
LEMMA PopsTry ==
  ASSUME TypeOK, LocalsInUse, PopsKnown, NEW w \in Workers, SwitchTry(w)
  PROVE  PopsHold(w)
<1>0. /\ HandlersOK /\ displaced \in Nat /\ skipped \in Nat /\ skipped <= displaced
      /\ queueSwitch \in Seq([id : Sockets, room : Rooms])
  BY PopTypes DEF PopsKnown, SkippedOnlyIfDisplaced
<1>1. pc[w] = "switchTry" /\ UNCHANGED <<queueSwitch, displaced, skipped>>
  BY DEF SwitchTry, redis, lists, history, switchHistory
<1>2. ASSUME NEW r, queueSwitch # <<>>, Goto(w, "switchScore"),
             Bind(w, [loc[w] EXCEPT !.room = r, !.todo = 1, !.ids = <<Head(queueSwitch).id>>])
      PROVE  PopsHold(w)
  <2>1. PICK ids : ids = <<queueSwitch[1].id>>
    OBVIOUS
  <2>2. Head(queueSwitch) = queueSwitch[1] /\ 1 \in DOMAIN queueSwitch
    BY <1>0, <1>2, HeadTailProperties, EmptySeq, LenProperties
  <2>3. pc'[w] = "switchScore" /\ loc'[w] = [loc[w] EXCEPT !.room = r, !.todo = 1, !.ids = ids]
    BY <1>0, <1>2, <2>1, <2>2, Effects
  <2>4. loc[w].pops = 0
    <3>1. InUse(pc[w], loc[w])
      BY DEF LocalsInUse
    <3> QED
      BY <1>1, <3>1 DEF InUse, SwitchPoints
  <2>5. loc'[w].pops = 0 /\ loc'[w].todo = 1 /\ loc'[w].ids = ids
    BY <1>0, <2>3, <2>4 DEF HandlersOK, Locals
  <2>6. PopsLeft(w)' = 1
    BY <2>3, <2>5 DEF PopsLeft
  <2>7. PICK K : K = OwnFirst(queueSwitch, 1, ids)
    OBVIOUS
  <2>8. /\ IsFiniteSet(K) /\ OwnAtHead(queueSwitch, 1, ids) = Cardinality(K)
        /\ Cardinality(K) \in Nat
    BY <1>0, <2>7, OwnCounts
  <2>9. 1 \in K
    <3>1. DOMAIN ids = {1} /\ ids[1] = queueSwitch[1].id
      BY <2>1
    <3>2. queueSwitch[1].id \in ToSet(ids)
      BY <3>1 DEF ToSet
    <3> QED
      BY <2>2, <2>7, <3>2 DEF OwnFirst
  <2>10. Cardinality(K) # 0
    BY <2>8, <2>9, FS_EmptySet
  <2>11. skipped' + 1 - Cardinality(K) <= displaced'
    BY <1>0, <1>1, <2>8, <2>10
  <2>12. OwnAtHead(queueSwitch', PopsLeft(w)', loc'[w].ids) = Cardinality(K)
    BY <1>1, <2>5, <2>6, <2>8
  <2> QED
    BY <1>0, <1>1, <2>6, <2>11, <2>12 DEF PopsHold
<1>3. CASE pc'[w] \notin Swaps
  BY <1>0, <1>1, <1>3 DEF PopsHold
<1> QED
  <2>1. \/ JobDone(w) \/ UNCHANGED pc
        \/ /\ queueSwitch # <<>> /\ Goto(w, "switchScore")
           /\ \E r : Bind(w, [loc[w] EXCEPT !.room = r, !.todo = 1, !.ids = <<Head(queueSwitch).id>>])
    BY DEF SwitchTry
  <2> QED
    BY <1>0, <1>1, <1>2, <1>3, <2>1, Effects DEF Swaps

\* A socket that is moved will be popped, one that finds no place will not.
LEMMA PopsScore ==
  ASSUME TypeOK, LocalsInUse, PopsKnown, NEW w \in Workers, SwitchScore(w)
  PROVE  PopsHold(w)
<1>0. /\ HandlersOK /\ displaced \in Nat /\ skipped \in Nat /\ skipped <= displaced
      /\ queueSwitch \in Seq([id : Sockets, room : Rooms])
  BY PopTypes DEF PopsKnown, SkippedOnlyIfDisplaced
<1>1. pc[w] = "switchScore" /\ UNCHANGED <<queueSwitch, displaced, skipped>> /\ loc[w].todo > 0
  BY DEF SwitchScore, redis, lists, history, switchHistory
<1>2. PICK pops \in Nat : pops = loc[w].pops
  BY PopTypes
<1>3. PICK todo \in Nat : todo = loc[w].todo
  BY PopTypes
<1>4. PICK ids : ids = loc[w].ids
  OBVIOUS
<1>5. PICK k \in Nat : /\ k = loc[w].pops + IF HasPlace(loc[w].room) THEN 1 ELSE 0
                       /\ k = pops \/ k = pops + 1
  BY <1>2
<1>6. /\ loc'[w] = [loc[w] EXCEPT !.todo = @ - 1, !.pops = k, !.incs = CountMoved(k)]
      /\ pc'[w] = IF todo > 1 THEN "switchScore" ELSE IF k > 0 THEN "switchPop" ELSE "switchAfter"
  BY <1>0, <1>3, <1>5, Effects DEF SwitchScore
<1>7. loc'[w].todo = todo - 1 /\ loc'[w].pops = k /\ loc'[w].ids = ids
  BY <1>0, <1>3, <1>4, <1>6 DEF HandlersOK, Locals
<1>8. PopsLeft(w) = pops + todo
  BY <1>1, <1>2, <1>3 DEF PopsLeft
<1>9. todo > 0
  BY <1>1, <1>3
<1>10. PICK n \in Nat : n + 1 = pops + todo
  <2>1. pops + todo - 1 \in Nat
    BY <1>9
  <2> QED
    BY <2>1
<1>11. pc'[w] \in Swaps => PopsLeft(w)' = k + todo - 1
  BY <1>6, <1>7, <1>9 DEF PopsLeft, Swaps
<1>12. skipped + (n + 1) - OwnAtHead(queueSwitch, n + 1, ids) <= displaced
  BY <1>1, <1>4, <1>8, <1>10 DEF PopsKnown, PopsRead, Swaps
<1>13. /\ OwnAtHead(queueSwitch, n + 1, ids) <= OwnAtHead(queueSwitch, n, ids) + 1
       /\ OwnAtHead(queueSwitch, n + 1, ids) \in Nat /\ OwnAtHead(queueSwitch, n, ids) \in Nat
  BY <1>0, OwnFewer, OwnCounts
<1>14. ASSUME pc'[w] \in Swaps
       PROVE  skipped' + PopsLeft(w)' - OwnAtHead(queueSwitch', PopsLeft(w)', loc'[w].ids) <= displaced'
  <2>1. CASE k = pops + 1
    <3>1. PopsLeft(w)' = n + 1
      BY <1>9, <1>10, <1>11, <1>14, <2>1
    <3> QED
      BY <1>1, <1>7, <1>12, <3>1
  <2>2. CASE k = pops
    <3>1. PopsLeft(w)' = n
      BY <1>9, <1>10, <1>11, <1>14, <2>2
    <3>2. skipped + n - OwnAtHead(queueSwitch, n, ids) <= displaced
      BY <1>0, <1>12, <1>13
    <3> QED
      BY <1>1, <1>7, <3>1, <3>2
  <2> QED
    BY <1>5, <2>1, <2>2
<1> QED
  BY <1>0, <1>1, <1>14 DEF PopsHold

\* LPOP skips an entry that is not its own, which is then known to be displaced.
LEMMA PopsPop ==
  ASSUME TypeOK, LocalsInUse, PopsKnown, NEW w \in Workers, SwitchPop(w)
  PROVE  PopsHold(w)
<1>0. /\ HandlersOK /\ displaced \in Nat /\ skipped \in Nat /\ skipped <= displaced
      /\ queueSwitch \in Seq([id : Sockets, room : Rooms])
  BY PopTypes DEF PopsKnown, SkippedOnlyIfDisplaced
<1>1. pc[w] = "switchPop" /\ displaced' = displaced /\ queueSwitch' = Rest(queueSwitch, 1)
  BY DEF SwitchPop
<1>2. PICK ids : ids = loc[w].ids
  OBVIOUS
<1>3. PICK n \in Nat : n + 1 = loc[w].pops
  <2>1. loc[w].pops > 0
    <3>1. InUse(pc[w], loc[w])
      BY DEF LocalsInUse
    <3> QED
      BY <1>1, <3>1 DEF InUse
  <2>2. loc[w].pops \in Nat
    BY PopTypes
  <2>3. loc[w].pops - 1 \in Nat
    BY <2>1, <2>2
  <2> QED
    BY <2>2, <2>3
<1>4. PICK wrong \in Nat :
        /\ skipped' = skipped + wrong
        /\ wrong + OwnAtHead(queueSwitch, n + 1, ids) <= OwnAtHead(Rest(queueSwitch, 1), n, ids) + 1
  <2> DEFINE popped == First(queueSwitch, 1)
             bad == {i \in DOMAIN popped : popped[i].id \notin ToSet(ids)}
  <2>1. skipped' = skipped + Cardinality(bad)
    BY <1>2 DEF SwitchPop
  <2>2. /\ Cardinality(bad) \in Nat
        /\ Cardinality(bad) + OwnAtHead(queueSwitch, n + 1, ids)
             <= OwnAtHead(Rest(queueSwitch, 1), n, ids) + 1
    BY <1>0, OwnPop
  <2> HIDE DEF bad
  <2> QED
    BY <2>1, <2>2
<1>5. /\ loc'[w] = [loc[w] EXCEPT !.pops = @ - 1]
      /\ pc'[w] = IF loc[w].pops > 1 THEN "switchPop" ELSE "switchIncr"
  BY <1>0, Effects DEF SwitchPop
<1>6. loc'[w].pops = n /\ loc'[w].ids = ids
  <2>1. loc'[w].pops = loc[w].pops - 1 /\ loc'[w].ids = ids
    BY <1>0, <1>2, <1>5 DEF HandlersOK, Locals
  <2> QED
    BY <1>3, <2>1
<1>7. PopsLeft(w) = n + 1 /\ (pc'[w] \in Swaps => PopsLeft(w)' = n)
  BY <1>1, <1>3, <1>5, <1>6 DEF PopsLeft, Swaps
<1>8. skipped + (n + 1) - OwnAtHead(queueSwitch, n + 1, ids) <= displaced
  BY <1>1, <1>2, <1>7 DEF PopsKnown, PopsRead, Swaps
<1>9. /\ OwnAtHead(queueSwitch, n + 1, ids) \in Nat
      /\ OwnAtHead(Rest(queueSwitch, 1), n, ids) \in Nat
      /\ OwnAtHead(Rest(queueSwitch, 1), n, ids) <= n
  <2>1. Rest(queueSwitch, 1) \in Seq([id : Sockets, room : Rooms])
    BY <1>0, CutFacts
  <2> QED
    BY <1>0, <2>1, OwnCounts, OwnFew
<1>10. skipped' <= displaced' /\ skipped' + n - OwnAtHead(Rest(queueSwitch, 1), n, ids) <= displaced'
  BY <1>0, <1>1, <1>4, <1>8, <1>9
<1> QED
  BY <1>1, <1>6, <1>7, <1>10 DEF PopsHold

\* Commands of handlers that touch neither the list nor what was popped.
LEMMA PopsQuiet ==
  ASSUME HandlersOK, NEW w \in Workers, Handler(w),
         ~SwitchRange(w), ~SwitchCreate(w), ~SwitchZadd(w), ~SwitchTry(w), ~SwitchScore(w),
         ~SwitchPop(w)
  PROVE  UNCHANGED <<queueSwitch, displaced, skipped>> /\ pc'[w] \notin Swaps
<1>1. CASE \/ FindQueue(w) \/ FindRange(w) \/ FindCheck(w) \/ FindIncr(w) \/ FindMore(w)
  BY <1>1, Effects DEF FindQueue, FindRange, FindCheck, FindIncr, FindMore,
                       redis, lists, history, switchHistory, Swaps
<1>2. CASE FindPop(w)
  BY <1>2, Effects DEF FindPop, switchHistory, Swaps
<1>3. CASE PairsLen(w) \/ PairsPool(w) \/ PairsError(w) \/ PairsZadd(w)
  BY <1>3, Effects DEF PairsLen, PairsPool, PairsError, PairsZadd,
                       redis, lists, history, switchHistory, Swaps
<1>4. CASE PairsRoom(w)
  BY <1>4, Effects DEF PairsRoom, lists, switchHistory, Swaps
<1>5. CASE PairsRange(w)
  BY <1>5, Effects DEF PairsRange, redis, lists, switchHistory, Swaps
<1>6. CASE PairsTrim(w)
  BY <1>6, Effects DEF PairsTrim, switchHistory, Swaps
<1>7. CASE SwitchLen(w) \/ SwitchQueue(w) \/ SwitchRooms(w)
  BY <1>7, Effects DEF SwitchLen, SwitchQueue, SwitchRooms, redis, lists,
                       history, switchHistory, Swaps
<1>8. CASE SwitchIncr(w) \/ SwitchAfter(w)
  BY <1>8, Effects DEF SwitchIncr, SwitchAfter, redis, lists,
                       history, switchHistory, Swaps
<1>9. CASE \/ CreateStart(w) \/ CreateOne(w) \/ ClearPool(w) \/ ClearRooms(w)
           \/ ClearAgain(w)
  BY <1>9, Effects DEF CreateStart, CreateOne, ClearPool, ClearRooms, ClearAgain, redis,
                       lists, history, switchHistory, Swaps
<1> QED
  BY <1>1, <1>2, <1>3, <1>4, <1>5, <1>6, <1>7, <1>8, <1>9 DEF Handler

\* What is known of the swaps is inductive.
LEMMA PopsStep ==
  ASSUME TypeOK, TypeOK', LocalsInUse, HoldsKey, PopsKnown, [Next]_vars
  PROVE  PopsKnown'
<1>0. HandlersOK /\ queueSwitch \in Seq([id : Sockets, room : Rooms])
  BY PopTypes
<1>1. ASSUME NEW w \in Workers, Handler(w)
      PROVE  PopsKnown'
  <2>0. \A v \in Workers \ {w} : pc'[v] = pc[v] /\ loc'[v] = loc[v]
    BY <1>0, <1>1, OthersStay
  <2>1. CASE SwitchRange(w) \/ SwitchCreate(w) \/ SwitchZadd(w) \/ SwitchTry(w)
             \/ SwitchScore(w) \/ SwitchPop(w)
    <3>1. pc[w] \in SwitchPoints
      BY <2>1 DEF SwitchRange, SwitchCreate, SwitchZadd, SwitchTry, SwitchScore, SwitchPop,
                  SwitchPoints
    <3>2. PopsHold(w)
      BY <2>1, PopsChoose, PopsPrepare, PopsTry, PopsScore, PopsPop
    <3> QED
      BY <2>0, <3>1, <3>2, PopsOwn, PopsAlone
  <2>2. CASE ~(SwitchRange(w) \/ SwitchCreate(w) \/ SwitchZadd(w) \/ SwitchTry(w)
               \/ SwitchScore(w) \/ SwitchPop(w))
    BY <1>0, <1>1, <2>0, <2>2, PopsQuiet, PopsRest
  <2> QED
    BY <2>1, <2>2
<1>2. ASSUME NEW w \in Workers, Take(w) \/ Acquire(w) \/ Timeout(w) \/ Crash(w)
      PROVE  PopsKnown'
  <2>1. UNCHANGED <<queueSwitch, displaced, skipped>>
    BY <1>2 DEF Take, Acquire, Timeout, Crash, redis, lists, history, switchHistory
  <2>2. /\ \A v \in Workers \ {w} : pc'[v] = pc[v] /\ loc'[v] = loc[v]
        /\ pc'[w] \in Swaps => pc'[w] = pc[w] /\ loc'[w] = loc[w]
    <3>1. CASE Take(w)
      <4>1. PICK p : p \in {Entry[name] : name \in Names} /\ Goto(w, p)
        BY <3>1 DEF Take, JobSet
      <4>2. p \notin Swaps
        BY <4>1 DEF Entry, Names, Swaps
      <4> QED
        BY <1>0, <3>1, <4>1, <4>2, Effects DEF Take
    <3>2. CASE Acquire(w)
      <4>1. PICK p : p \in {"findQueue", "switchLen", "pairsLen"} /\ Goto(w, p)
        BY <3>2 DEF Acquire, KeyOf, Locked
      <4> QED
        BY <1>0, <3>2, <4>1, Effects DEF Acquire, Swaps
    <3>3. CASE Timeout(w)
      <4>1. PICK p : p = (IF pc[w] = "hung" THEN "idle" ELSE pc[w]) /\ Goto(w, p)
        BY <3>3 DEF Timeout
      <4> QED
        BY <1>0, <3>3, <4>1, Effects DEF Timeout, Swaps
    <3>4. CASE Crash(w)
      BY <1>0, <3>4, Effects DEF Crash, Swaps
    <3> QED
      BY <1>2, <3>1, <3>2, <3>3, <3>4
  <2> QED
    BY <2>1, <2>2, PopsRest
<1>3. ASSUME NEW s \in Sockets, RequestRoom(s) \/ PushRequest(s)
      PROVE  PopsKnown'
  <2>1. UNCHANGED <<queueSwitch, displaced, skipped, pc, loc>>
    BY <1>3 DEF RequestRoom, PushRequest, handlers, history, switchHistory
  <2> QED
    BY <2>1, PopsRest
<1>4. ASSUME NEW s \in Sockets, CancelRequest(s) \/ Disconnect(s)
      PROVE  PopsKnown'
  <2>1. \/ UNCHANGED <<queueSwitch, displaced>>
        \/ /\ queueSwitch' = queueSwitch \/ \E entry : queueSwitch' = LRem(queueSwitch, entry)
           /\ Displace(queueSwitch')
    BY <1>4 DEF CancelRequest, Disconnect, Withdraw
  <2>2. UNCHANGED <<skipped, pc, loc>>
    BY <1>4 DEF CancelRequest, Disconnect, handlers
  <2> QED
    BY <2>1, <2>2, PopsRest, PopsRem
<1>5. ASSUME NEW s \in Sockets, NEW r \in Rooms, RequestSwitch(s, r)
      PROVE  PopsKnown'
  BY <1>5, PopsRem DEF RequestSwitch, handlers
<1>6. ASSUME NEW s \in Sockets, NEW r \in Rooms, PushSwitch([id |-> s, room |-> r])
      PROVE  PopsKnown'
  BY <1>6, PopsAppend DEF PushSwitch, handlers, history, switchHistory
<1>7. ASSUME NEW s \in Sockets, NEW r \in Rooms, RoomStatus(s, r)
      PROVE  PopsKnown'
  <2>1. UNCHANGED <<queueSwitch, displaced, skipped, pc, loc>>
    BY <1>7 DEF RoomStatus, lists, handlers, history, switchHistory
  <2> QED
    BY <2>1, PopsRest
<1>8. CASE \/ OnChanged \/ OnSwitch \/ Background \/ ThreeLengthExpires \/ TimerFires
           \/ (\E key \in LockKeys : Expire(key)) \/ UNCHANGED vars
  <2>1. UNCHANGED <<queueSwitch, displaced, skipped, pc, loc>>
    BY <1>8 DEF OnChanged, OnSwitch, Background, ThreeLengthExpires, TimerFires,
                Expire, vars, redis, lists, handlers, history, switchHistory
  <2> QED
    BY <2>1, PopsRest
<1>9. CASE EndIntermission
  <2>1. queueSwitch' = <<>> /\ Displace(queueSwitch') /\ UNCHANGED <<skipped, pc, loc>>
    BY <1>9 DEF EndIntermission, handlers
  <2>2. Len(queueSwitch') = 0 /\ Len(queueSwitch) \in Nat
    BY <1>0, <2>1, LenProperties
  <2>3. \A n \in Nat : \A ids :
          /\ OwnAtHead(queueSwitch, n, ids) <= Len(queueSwitch)
          /\ OwnAtHead(queueSwitch, n, ids) \in Nat
          /\ OwnAtHead(queueSwitch', n, ids) \in Nat
    BY <1>0, OwnFew, OwnCounts DEF TypeOK, ListsOK
  <2>4. \A n \in Nat : \A v \in Workers :
           OwnAtHead(queueSwitch, n, loc[v].ids)
             <= OwnAtHead(queueSwitch', n, loc[v].ids) + Len(queueSwitch) - Len(queueSwitch')
    BY <2>2, <2>3
  <2> QED
    BY <2>1, <2>2, <2>4, PopsDisplaced
<1> QED
  BY <1>1, <1>2, <1>3, <1>4, <1>5, <1>6, <1>7, <1>8, <1>9 DEF Next, Socket

\* A switch pops an entry of a socket that it does not move only if the pair
\* was not the head of the list, or the list changed under it, and then one
\* for each, as long as no key expires under its holder.
THEOREM SkippingIsDisplacement ==
  ASSUME \A start \in Starts : start.budget["expire"] = 0
  PROVE  Spec => []SkippedOnlyIfDisplaced
<1> DEFINE Inv == Holders /\ PopsKnown
<1>1. Init => Inv
  <2>1. Init => PopsKnown
    BY DEF Init, InitFrom, PopsKnown, SkippedOnlyIfDisplaced, PopsRead, Swaps
  <2> QED
    BY <2>1, HoldersInit
<1>2. Inv /\ [Next]_vars => Inv'
  BY HoldersKept, PopsStep DEF Holders
<1>3. Inv => SkippedOnlyIfDisplaced
  BY DEF PopsKnown
<1> HIDE DEF Inv
<1> QED
  BY <1>1, <1>2, <1>3, PTL DEF Spec
=============================================================================
