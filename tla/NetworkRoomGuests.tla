------------------------- MODULE NetworkRoomGuests --------------------------
(***************************************************************************)
(* What counting decides, for any number of sockets, rooms and handlers,   *)
(* with time-outs, refusals of Twilio and the end of the intermission.     *)
(*                                                                         *)
(* PoolUnused and GuestsCounted also with expired keys and crashes: no     *)
(* lock protects them.  They rest on which rooms nobody has been sent to   *)
(* yet (FreshRooms), on the handler that is about to list a room being the *)
(* only one to have it (OwnRooms), and on counts that keep up with the     *)
(* guests (Balanced, CountsKnown).                                         *)
(*                                                                         *)
(* PairsServed as long as no key expires under its holder and no process   *)
(* dies: for every two that wait but one, an emit, a job or a handler has  *)
(* yet to look at the queue (PairsAwaited).                                *)
(***************************************************************************)
EXTENDS NetworkRoomTheorems

-----------------------------------------------------------------------------
\* The sum of a function, and what the handlers owe

\* The points below one value of a function.
Column(f, w) == {w} \X (1..f[w])
\* The points below its graph: Total counts them.
Columns(f) == UNION {Column(f, w) : w \in DOMAIN f}

\* A value is the size of its column.
LEMMA ColumnSize ==
  ASSUME NEW f, NEW w, f[w] \in Nat
  PROVE  IsFiniteSet(Column(f, w)) /\ Cardinality(Column(f, w)) = f[w]
<1>1. IsFiniteSet(1..f[w]) /\ Cardinality(1..f[w]) = f[w]
  BY FS_Interval
<1>2. IsFiniteSet({w}) /\ Cardinality({w}) = 1
  BY FS_Singleton
<1>3. /\ IsFiniteSet({w} \X (1..f[w]))
      /\ Cardinality({w} \X (1..f[w])) = 1 * f[w]
  BY <1>1, <1>2, FS_Product
<1> QED
  BY <1>3 DEF Column

\* The points below a graph are finitely many, and Total is their number.
LEMMA ColumnsFinite ==
  ASSUME NEW S, IsFiniteSet(S), NEW f \in [S -> Nat]
  PROVE  /\ IsFiniteSet(Columns(f)) /\ Cardinality(Columns(f)) \in Nat
         /\ Total(f) = Cardinality(Columns(f))
<1> DEFINE T == {Column(f, w) : w \in S}
<1>1. IsFiniteSet(T)
  <2> DEFINE g == [w \in S |-> Column(f, w)]
  <2>1. g \in Surjection(S, T)
    BY DEF Surjection
  <2> QED
    BY <2>1, FS_Surjection
<1>2. \A C \in T : IsFiniteSet(C)
  BY ColumnSize
<1>3. IsFiniteSet(UNION T)
  BY <1>1, <1>2, FS_UNION
<1>4. Columns(f) = UNION T
  BY DEF Columns
<1>5. Total(f) = Cardinality(Columns(f))
  BY DEF Total, Columns, Column
<1> QED
  BY <1>3, <1>4, <1>5, FS_CardinalityType

\* A sum changes by what one of its terms changes by.
LEMMA TotalMoves ==
  ASSUME NEW S, IsFiniteSet(S), NEW f \in [S -> Nat], NEW g \in [S -> Nat],
         NEW w \in S, \A v \in S \ {w} : g[v] = f[v]
  PROVE  /\ Total(f) \in Nat /\ Total(g) \in Nat
         /\ f[w] <= Total(f)
         /\ Total(g) = Total(f) - f[w] + g[w]
<1> DEFINE R == UNION {Column(f, v) : v \in S \ {w}}
<1>1. ASSUME NEW h \in [S -> Nat], \A v \in S \ {w} : h[v] = f[v]
      PROVE  /\ Total(h) \in Nat /\ IsFiniteSet(R)
             /\ Total(h) = Cardinality(R) + h[w]
  <2>1. Columns(h) = R \cup Column(h, w)
    <3>1. \A v \in S \ {w} : Column(h, v) = Column(f, v)
      BY <1>1 DEF Column
    <3> QED
      BY <3>1 DEF Columns
  <2>2. R \cap Column(h, w) = {}
    BY DEF Column
  <2>3. R \subseteq Columns(h)
    BY <2>1
  <2>4. IsFiniteSet(R)
    BY <2>3, ColumnsFinite, FS_Subset
  <2>5. h[w] \in Nat
    OBVIOUS
  <2>6. IsFiniteSet(Column(h, w)) /\ Cardinality(Column(h, w)) = h[w]
    BY <2>5, ColumnSize
  <2>7. Cardinality(R \cap Column(h, w)) = 0
    BY <2>2, FS_EmptySet
  <2>8. Cardinality(R) \in Nat
    BY <2>4, FS_CardinalityType
  <2> HIDE DEF R
  <2>9. Cardinality(R \cup Column(h, w))
          = Cardinality(R) + Cardinality(Column(h, w)) - Cardinality(R \cap Column(h, w))
    BY <2>4, <2>6, FS_Union
  <2>10. Total(h) = Cardinality(R \cup Column(h, w)) /\ Total(h) \in Nat
    BY <2>1, ColumnsFinite
  <2> QED
    BY <2>4, <2>5, <2>6, <2>7, <2>8, <2>9, <2>10
<1> HIDE DEF R
<1>2. Total(f) \in Nat /\ IsFiniteSet(R) /\ Total(f) = Cardinality(R) + f[w]
  BY <1>1
<1>3. Total(g) \in Nat /\ Total(g) = Cardinality(R) + g[w]
  BY <1>1
<1>4. f[w] \in Nat /\ g[w] \in Nat
  OBVIOUS
<1>5. Cardinality(R) \in Nat
  BY <1>2, FS_CardinalityType
<1> QED
  BY <1>2, <1>3, <1>4, <1>5

\* A sum of zeros.
LEMMA TotalOfNone ==
  ASSUME NEW S, NEW f, DOMAIN f = S, \A v \in S : f[v] = 0
  PROVE  Total(f) = 0
<1>1. \A v \in S : Column(f, v) = {}
  BY FS_Interval DEF Column
<1>2. Columns(f) = {}
  BY <1>1 DEF Columns
<1> QED
  BY <1>2, FS_EmptySet DEF Total, Columns, Column

-----------------------------------------------------------------------------
\* What one command of a handler changes of the counts of a room

\* What a handler owes and reserves are natural numbers.
LEMMA DebtTypes ==
  ASSUME HandlersOK, NEW r \in Rooms, NEW w \in Workers
  PROVE  Owes(w, r) \in Nat /\ Reserves(w, r) \in Nat
BY DEF HandlersOK, Locals, Owes, Reserves

\* The sums over the handlers change by what one handler owes and reserves.
LEMMA DebtsMove ==
  ASSUME HandlersOK, HandlersOK', NEW r \in Rooms, NEW w \in Workers,
         \A v \in Workers \ {w} : pc'[v] = pc[v] /\ loc'[v] = loc[v]
  PROVE  /\ Uncounted(r) \in Nat /\ Reserved(r) \in Nat
         /\ Uncounted(r)' \in Nat /\ Reserved(r)' \in Nat
         /\ Owes(w, r) <= Uncounted(r) /\ Reserves(w, r) <= Reserved(r)
         /\ Uncounted(r)' = Uncounted(r) - Owes(w, r) + Owes(w, r)'
         /\ Reserved(r)' = Reserved(r) - Reserves(w, r) + Reserves(w, r)'
<1>0. IsFiniteSet(Workers)
  BY WorkersAssumption
<1>1. ASSUME NEW before \in [Workers -> Nat], NEW after \in [Workers -> Nat],
             \A v \in Workers \ {w} : after[v] = before[v]
      PROVE  /\ Total(before) \in Nat /\ Total(after) \in Nat
             /\ before[w] <= Total(before)
             /\ Total(after) = Total(before) - before[w] + after[w]
  BY <1>0, <1>1, TotalMoves
<1>2. \A v \in Workers : Owes(v, r) \in Nat /\ Reserves(v, r) \in Nat
  BY DebtTypes
<1>3. \A v \in Workers : Owes(v, r)' \in Nat /\ Reserves(v, r)' \in Nat
  BY DEF HandlersOK, Locals, Owes, Reserves
<1>4. \A v \in Workers \ {w} : Owes(v, r)' = Owes(v, r) /\ Reserves(v, r)' = Reserves(v, r)
  BY DEF Owes, Reserves
<1>5. /\ Uncounted(r) \in Nat /\ Uncounted(r)' \in Nat
      /\ Owes(w, r) <= Uncounted(r)
      /\ Uncounted(r)' = Uncounted(r) - Owes(w, r) + Owes(w, r)'
  <2>1. PICK f : f = [v \in Workers |-> Owes(v, r)]
    OBVIOUS
  <2>2. PICK g : g = [v \in Workers |-> Owes(v, r)']
    OBVIOUS
  <2>3. Uncounted(r) = Total(f) /\ Uncounted(r)' = Total(g)
    BY <2>1, <2>2 DEF Uncounted
  <2>4. /\ f \in [Workers -> Nat] /\ g \in [Workers -> Nat]
        /\ f[w] = Owes(w, r) /\ g[w] = Owes(w, r)'
        /\ \A v \in Workers \ {w} : g[v] = f[v]
    BY <1>2, <1>3, <1>4, <2>1, <2>2
  <2> QED
    BY <1>1, <2>3, <2>4
<1>6. /\ Reserved(r) \in Nat /\ Reserved(r)' \in Nat
      /\ Reserves(w, r) <= Reserved(r)
      /\ Reserved(r)' = Reserved(r) - Reserves(w, r) + Reserves(w, r)'
  <2>1. PICK f : f = [v \in Workers |-> Reserves(v, r)]
    OBVIOUS
  <2>2. PICK g : g = [v \in Workers |-> Reserves(v, r)']
    OBVIOUS
  <2>3. Reserved(r) = Total(f) /\ Reserved(r)' = Total(g)
    BY <2>1, <2>2 DEF Reserved
  <2>4. /\ f \in [Workers -> Nat] /\ g \in [Workers -> Nat]
        /\ f[w] = Reserves(w, r) /\ g[w] = Reserves(w, r)'
        /\ \A v \in Workers \ {w} : g[v] = f[v]
    BY <1>2, <1>3, <1>4, <2>1, <2>2
  <2> QED
    BY <1>1, <2>3, <2>4
<1> QED
  BY <1>5, <1>6

\* They stay when no handler moves.
LEMMA DebtsStay ==
  ASSUME NEW r \in Rooms, UNCHANGED <<pc, loc>>
  PROVE  Uncounted(r)' = Uncounted(r) /\ Reserved(r)' = Reserved(r)
<1>1. \A v \in Workers : Owes(v, r)' = Owes(v, r) /\ Reserves(v, r)' = Reserves(v, r)
  BY DEF Owes, Reserves
<1> QED
  BY <1>1 DEF Uncounted, Reserved

-----------------------------------------------------------------------------
\* What is known of the rooms

\* The inductive invariant, part by part.
RoomsKnown == FreshRooms /\ OwnRooms /\ Balanced /\ CountsKnown

\* A handler that lists a room of its own, and which room.
Listing(w, r) == pc[w] \in {"pairsZadd", "switchZadd"} /\ loc[w].room = r

\* A command changes rooms that are in use already, and none that another
\* handler is about to list.
LEMMA RoomFrame ==
  ASSUME TypeOK, TypeOK', FreshRooms, OwnRooms, Balanced, NEW w \in Workers,
         \A v \in Workers \ {w} : pc'[v] = pc[v] /\ loc'[v] = loc[v],
         UNCHANGED <<pool, created, paired>>, tainted \subseteq tainted',
         NEW Q \in SUBSET Rooms,
         \A q \in Q : ~Unused(q),
         \A q \in Q, v \in Workers \ {w} : Listing(v, q) => q \in tainted,
         \A q \in Q \ tainted' :
           Cardinality(guests'[q]) + Reserved(q)' <= score'[q] + Uncounted(q)',
         \A r \in Rooms \ Q : /\ guests'[r] = guests[r] /\ score'[r] = score[r]
                              /\ r \in listed' <=> r \in listed
                              /\ Has(w, r)' => Has(w, r),
         \A r \in Rooms \ (Q \cup tainted') : /\ Owes(w, r) <= Owes(w, r)'
                                              /\ Reserves(w, r)' <= Reserves(w, r),
         \/ pc'[w] \notin {"pairsZadd", "switchZadd"}
         \/ pc'[w] = pc[w] /\ loc'[w] = loc[w] /\ loc[w].room \notin Q
  PROVE  FreshRooms' /\ OwnRooms' /\ Balanced'
<1>0. /\ HandlersOK /\ HandlersOK' /\ RoomsOK /\ RoomsOK' /\ TwilioOK /\ HistoryOK
  BY DEF TypeOK
<1>1. \A v \in Workers \ {w} : \A r : Has(v, r)' <=> Has(v, r)
  BY DEF Has
<1>2. \A r \in Rooms \ Q : Unused(r) => Unused(r)'
  BY <1>1 DEF Unused
<1>3. FreshRooms'
  <2>1. \A r \in Rooms \ created' : Unused(r)'
    BY <1>2 DEF FreshRooms
  <2>2. \A i \in DOMAIN pool : pool[i] \in Rooms
    BY <1>0 DEF RoomsOK
  <2>3. \A i \in DOMAIN pool' : pool'[i] \in created' /\ (pool'[i] \in paired' \/ Unused(pool[i])')
    BY <1>2, <2>2 DEF FreshRooms
  <2>4. \A i \in DOMAIN pool' : pool'[i] = pool[i]
    OBVIOUS
  <2> QED
    BY <2>1, <2>3, <2>4 DEF FreshRooms, NoDuplicates, Unused, Has
<1>4. OwnRooms'
  <2> SUFFICES ASSUME NEW v \in Workers, pc'[v] \in {"pairsZadd", "switchZadd"},
                      loc'[v].room \notin tainted'
               PROVE  OwnRoom(v, loc[v].room)'
    BY DEF OwnRooms
  <2>1. pc'[v] = pc[v] /\ loc'[v] = loc[v]
    OBVIOUS
  <2>2. PICK r : r = loc[v].room
    OBVIOUS
  <2>3. r \notin tainted /\ OwnRoom(v, r)
    BY <2>1, <2>2 DEF OwnRooms
  <2>4. r \in Rooms
    BY <1>0, <2>3 DEF OwnRoom, TwilioOK
  <2>5. r \notin Q
    BY <2>1, <2>2, <2>3 DEF Listing
  <2>6. \A u \in Workers \ {v} : ~Has(u, r)'
    BY <1>1, <2>3, <2>4, <2>5 DEF OwnRoom
  <2>7. loc'[v].room = r
    BY <2>1, <2>2
  <2>8. OwnRoom(v, r)'
    BY <2>1, <2>3, <2>4, <2>5, <2>6 DEF OwnRoom
  <2> QED
    BY <2>7, <2>8 DEF OwnRoom, Has
<1>5. Balanced'
  <2> SUFFICES ASSUME NEW r \in Rooms, r \notin tainted'
               PROVE  Cardinality(guests'[r]) + Reserved(r)' <= score'[r] + Uncounted(r)'
    BY DEF Balanced, Reserved, Uncounted, Owes, Reserves
  <2>1. CASE r \in Q
    BY <2>1
  <2>2. CASE r \notin Q
    <3>1. /\ guests'[r] = guests[r] /\ score'[r] = score[r]
          /\ Owes(w, r) <= Owes(w, r)' /\ Reserves(w, r)' <= Reserves(w, r)
      BY <2>2
    <3>2. Cardinality(guests[r]) + Reserved(r) <= score[r] + Uncounted(r)
      BY DEF Balanced
    <3>3. /\ Uncounted(r) \in Nat /\ Reserved(r) \in Nat
          /\ Uncounted(r)' = Uncounted(r) - Owes(w, r) + Owes(w, r)'
          /\ Reserved(r)' = Reserved(r) - Reserves(w, r) + Reserves(w, r)'
      BY <1>0, DebtsMove
    <3>4. /\ Owes(w, r) \in Nat /\ Reserves(w, r) \in Nat
          /\ Owes(w, r)' \in Nat /\ Reserves(w, r)' \in Nat
      <4>1. Owes(w, r)' \in Nat /\ Reserves(w, r)' \in Nat
        BY <1>0 DEF HandlersOK, Locals, Owes, Reserves
      <4> QED
        BY <1>0, <4>1, DebtTypes
    <3>5. Cardinality(guests[r]) \in Nat /\ score[r] \in Int
      <4>1. IsFiniteSet(guests[r])
        BY <1>0, RoomsAssumption, FS_Subset DEF TwilioOK
      <4> QED
        BY <1>0, <4>1, FS_CardinalityType DEF RoomsOK
    <3> QED
      BY <3>1, <3>2, <3>3, <3>4, <3>5
  <2> QED
    BY <2>1, <2>2
<1> QED
  BY <1>3, <1>4, <1>5

\* Commands that give away, count or list nothing and choose no room.
Quietly(w) ==
  \/ FindQueue(w) \/ FindCheck(w) \/ FindMore(w)
  \/ PairsLen(w) \/ PairsRange(w) \/ PairsTrim(w) \/ PairsPool(w) \/ PairsError(w)
  \/ SwitchLen(w) \/ SwitchRange(w) \/ SwitchQueue(w) \/ SwitchPop(w) \/ SwitchAfter(w)
  \/ CreateStart(w) \/ ClearPool(w) \/ ClearRooms(w) \/ ClearAgain(w)

\* The points of a handler that counts switched sockets, and of one that
\* lists a room of its own.
Counts == {"switchScore", "switchPop", "switchIncr"}
Lists  == {"pairsZadd", "switchZadd"}

\* The handler is done and counts nothing, or stays with its room.
Ends(w) == /\ loc'[w] = NoLoc /\ pc[w] \notin Counts \cup {"pairsZadd"}
           /\ pc'[w] \in {"idle", "hung"}
\* It keeps its room, the rooms it is about to try and what it has left to count.
SameRoom(w) == /\ loc'[w].room = loc[w].room /\ loc'[w].rooms = loc[w].rooms
               /\ loc'[w].incs = loc[w].incs
\* It keeps them and lists nothing, before or after.
Stays(w) == /\ SameRoom(w) /\ pc[w] \notin Lists
            /\ pc'[w] \notin Lists \cup {"findPop"}

\* A slot with no handler has nothing to count.
LEMMA CountingRests ==
  \A p \in {"idle", "hung"} : Counting(p, NoLoc)
BY DEF Counting, NoLoc

\* The same increments are left at the next command.
LEMMA CountingStays ==
  ASSUME NEW p, NEW q, NEW l, NEW m, Counting(p, l), m.incs = l.incs,
         p \in Counts => q \in Counts,
         q \notin {"pairsTrim", "pairsPool", "pairsRoom"} \/ Len(m.ids) <= 2
  PROVE  Counting(q, m)
BY DEF Counting, Counts

\* A quiet command ends its handler or stays with its room.
LEMMA QuietMoves ==
  ASSUME TypeOK, NEW w \in Workers, Counting(pc[w], loc[w]), Quietly(w)
  PROVE  (Ends(w) \/ Stays(w)) /\ Counting(pc'[w], loc'[w])
<1> DEFINE l == loc[w]
           Goal == (Ends(w) \/ Stays(w)) /\ Counting(pc'[w], loc'[w])
<1>0. HandlersOK /\ l \in Locals /\ Counting(pc[w], l)
  BY DEF TypeOK, HandlersOK
<1>a. (JobDone(w) \/ HangUp(w)) /\ pc[w] \notin Counts \cup {"pairsZadd"} => Goal
  <2>1. JobDone(w) \/ HangUp(w) => pc'[w] \in {"idle", "hung"} /\ loc'[w] = NoLoc
    BY <1>0, Effects
  <2> QED
    BY <2>1, CountingRests DEF Ends
<1>b. ASSUME NEW p, NEW q, NEW m, pc[w] = p, pc'[w] = q, loc'[w] = m,
             p \notin Lists, q \notin Lists \cup {"findPop"}, p \in Counts => q \in Counts,
             m.room = l.room, m.rooms = l.rooms, m.incs = l.incs,
             q \notin {"pairsTrim", "pairsPool", "pairsRoom"} \/ Len(m.ids) <= 2
      PROVE  Goal
  BY <1>0, <1>b, CountingStays DEF Stays, SameRoom
<1> SUFFICES Goal
  OBVIOUS
<1> HIDE DEF l, Goal
<1>1. CASE FindQueue(w)
  <2>1. PICK m : m = [l EXCEPT !.n = Len(queue)]
    OBVIOUS
  <2>2. pc[w] = "findQueue" /\ pc'[w] = "findRange" /\ loc'[w] = m
    BY <1>0, <1>1, <2>1, Effects DEF FindQueue, l
  <2>3. m.room = l.room /\ m.rooms = l.rooms /\ m.incs = l.incs
    BY <1>0, <2>1 DEF Locals
  <2> QED
    BY <1>b, <2>2, <2>3 DEF Lists, Counts
<1>2. CASE FindCheck(w)
  <2>1. CASE JobDone(w)
    BY <1>2, <1>a, <2>1 DEF FindCheck, Counts
  <2>2. CASE ~JobDone(w)
    <3>1. /\ pc[w] \in {"findLen", "findScore"} /\ UNCHANGED loc
          /\ Goto(w, "findScore") \/ Goto(w, "findIncr")
      BY <1>2, <2>2 DEF FindCheck
    <3>2. pc'[w] \in {"findScore", "findIncr"} /\ loc'[w] = l
      BY <1>0, <3>1, Effects DEF l
    <3> QED
      BY <1>b, <3>1, <3>2 DEF Lists, Counts
  <2> QED
    BY <2>1, <2>2
<1>3. CASE FindMore(w)
  BY <1>a, <1>3 DEF FindMore, Counts
<1>4. CASE PairsLen(w)
  <2>1. CASE JobDone(w)
    BY <1>4, <1>a, <2>1 DEF PairsLen, Counts
  <2>2. CASE ~JobDone(w)
    <3>1. pc[w] = "pairsLen" /\ Goto(w, "pairsRange") /\ UNCHANGED loc
      BY <1>4, <2>2 DEF PairsLen
    <3>2. pc'[w] = "pairsRange" /\ loc'[w] = l
      BY <1>0, <3>1, Effects DEF l
    <3> QED
      BY <1>b, <3>1, <3>2 DEF Lists, Counts
  <2> QED
    BY <2>1, <2>2
<1>5. CASE PairsRange(w)
  <2>1. PICK m : m = [l EXCEPT !.ids = First(queue, 2)]
    OBVIOUS
  <2>2. pc[w] = "pairsRange" /\ pc'[w] = "pairsTrim" /\ loc'[w] = m
    BY <1>0, <1>5, <2>1, Effects DEF PairsRange, l
  <2>3. m.room = l.room /\ m.rooms = l.rooms /\ m.incs = l.incs /\ m.ids = First(queue, 2)
    BY <1>0, <2>1 DEF Locals
  <2>4. Len(First(queue, 2)) <= 2
    BY CutFacts DEF TypeOK, ListsOK
  <2> QED
    BY <1>b, <2>2, <2>3, <2>4 DEF Lists, Counts
<1>6. CASE PairsTrim(w)
  <2>1. pc[w] = "pairsTrim" /\ pc'[w] = "pairsPool" /\ loc'[w] = l
    BY <1>0, <1>6, Effects DEF PairsTrim, l
  <2>2. Len(l.ids) <= 2
    BY <1>0, <2>1 DEF Counting
  <2> QED
    BY <1>b, <2>1, <2>2 DEF Lists, Counts
<1>7. CASE PairsPool(w)
  <2>1. pc[w] = "pairsPool" /\ pc'[w] = "pairsRoom" /\ loc'[w] = l
    BY <1>0, <1>7, Effects DEF PairsPool, l
  <2>2. Len(l.ids) <= 2
    BY <1>0, <2>1 DEF Counting
  <2> QED
    BY <1>b, <2>1, <2>2 DEF Lists, Counts
<1>8. CASE PairsError(w)
  BY <1>a, <1>8 DEF PairsError, Counts
<1>9. CASE SwitchLen(w)
  <2>1. PICK m : m = [l EXCEPT !.n = Len(queueSwitch)]
    OBVIOUS
  <2>2. pc[w] = "switchLen" /\ pc'[w] = "switchRange" /\ loc'[w] = m
    BY <1>0, <1>9, <2>1, Effects DEF SwitchLen, l
  <2>3. m.room = l.room /\ m.rooms = l.rooms /\ m.incs = l.incs
    BY <1>0, <2>1 DEF Locals
  <2> QED
    BY <1>b, <2>2, <2>3 DEF Lists, Counts
<1>10. CASE SwitchRange(w)
  <2>1. PICK ids : ids = <<queueSwitch[1].id, queueSwitch[Max(Elsewhere)].id>>
    OBVIOUS
  <2>2. PICK m : m = [l EXCEPT !.pair = TRUE, !.todo = 2, !.ids = ids]
    OBVIOUS
  <2>3. /\ pc[w] = "switchRange"
        /\ \/ JobDone(w)
           \/ Bind(w, m) /\ Goto(w, "switchCreate")
           \/ Goto(w, "switchQueue") /\ UNCHANGED loc
    BY <1>10, <2>1, <2>2 DEF SwitchRange, l
  <2>4. m.room = l.room /\ m.rooms = l.rooms /\ m.incs = l.incs
    BY <1>0, <2>2 DEF Locals
  <2>5. \/ JobDone(w)
        \/ pc'[w] = "switchCreate" /\ loc'[w] = m
        \/ pc'[w] = "switchQueue" /\ loc'[w] = l
    BY <1>0, <2>3, Effects DEF l
  <2> QED
    BY <1>a, <1>b, <2>3, <2>4, <2>5 DEF Lists, Counts
<1>11. CASE SwitchQueue(w)
  <2>1. PICK m : m = [l EXCEPT !.n = Len(queue)]
    OBVIOUS
  <2>2. pc[w] = "switchQueue" /\ pc'[w] = "switchRooms" /\ loc'[w] = m
    BY <1>0, <1>11, <2>1, Effects DEF SwitchQueue, l
  <2>3. m.room = l.room /\ m.rooms = l.rooms /\ m.incs = l.incs
    BY <1>0, <2>1 DEF Locals
  <2> QED
    BY <1>b, <2>2, <2>3 DEF Lists, Counts
<1>12. CASE SwitchPop(w)
  <2>1. PICK m : m = [l EXCEPT !.pops = @ - 1]
    OBVIOUS
  <2>2. PICK q : q = IF l.pops > 1 THEN "switchPop" ELSE "switchIncr"
    OBVIOUS
  <2>3. pc[w] = "switchPop" /\ Bind(w, m) /\ Goto(w, q)
    BY <1>12, <2>1, <2>2 DEF SwitchPop, l
  <2>4. pc'[w] = q /\ loc'[w] = m
    BY <1>0, <2>3, Effects
  <2>5. m.room = l.room /\ m.rooms = l.rooms /\ m.incs = l.incs
    BY <1>0, <2>1 DEF Locals
  <2> QED
    BY <1>b, <2>2, <2>3, <2>4, <2>5 DEF Lists, Counts
<1>13. CASE SwitchAfter(w)
  BY <1>a, <1>13 DEF SwitchAfter, Counts
<1>14. CASE CreateStart(w)
  <2> DEFINE n == IF job[w][1] = "createRooms" THEN FirstRooms ELSE RepeatRooms
  <2>2. PICK m : m = [l EXCEPT !.n = n, !.todo = n]
    OBVIOUS
  <2>3. /\ pc[w] = "createStart"
        /\ HangUp(w) \/ (Bind(w, m) /\ Goto(w, "createOne"))
    <3>1. CASE n = 0
      <4>1. pc[w] = "createStart" /\ HangUp(w)
        BY <1>14, <3>1 DEF CreateStart
      <4> QED
        BY <4>1
    <3>2. CASE n # 0
      BY <1>14, <2>2, <3>2 DEF CreateStart, l
    <3> QED
      BY <3>1, <3>2
  <2> HIDE DEF n
  <2>4. m.room = l.room /\ m.rooms = l.rooms /\ m.incs = l.incs
    BY <1>0, <2>2 DEF Locals
  <2>5. HangUp(w) \/ (pc'[w] = "createOne" /\ loc'[w] = m)
    BY <1>0, <2>3, Effects
  <2> QED
    BY <1>a, <1>b, <2>3, <2>4, <2>5 DEF Lists, Counts
<1>15. CASE ClearPool(w)
  <2>1. pc[w] = "clearPool" /\ pc'[w] = "clearRooms" /\ loc'[w] = l
    BY <1>0, <1>15, Effects DEF ClearPool, l
  <2> QED
    BY <1>b, <2>1 DEF Lists, Counts
<1>16. CASE ClearRooms(w)
  <2>1. pc[w] = "clearRooms" /\ pc'[w] = "clearAgain" /\ loc'[w] = l
    BY <1>0, <1>16, Effects DEF ClearRooms, l
  <2> QED
    BY <1>b, <2>1 DEF Lists, Counts
<1>17. CASE ClearAgain(w)
  BY <1>a, <1>17 DEF ClearAgain, Counts
<1> QED
  BY <1>1, <1>2, <1>3, <1>4, <1>5, <1>6, <1>7, <1>8, <1>9, <1>10, <1>11, <1>12, <1>13,
     <1>14, <1>15, <1>16, <1>17 DEF Quietly

\* Such a command leaves every debt as it was and has no room it did not have.
LEMMA QuietDebts ==
  ASSUME TypeOK, NEW w \in Workers, Counting(pc[w], loc[w]), Ends(w) \/ Stays(w),
         NEW r \in Rooms
  PROVE  /\ Has(w, r)' => Has(w, r)
         /\ Owes(w, r) <= Owes(w, r)' /\ Reserves(w, r)' <= Reserves(w, r)
<1>0. loc[w] \in Locals /\ NoRoom # r
  BY RoomsAssumption DEF TypeOK, HandlersOK
<1>1. CASE Ends(w)
  <2>1. loc'[w].room # r /\ loc'[w].rooms = <<>>
    BY <1>0, <1>1 DEF Ends, NoLoc
  <2>2. Owes(w, r) = 0 /\ Owes(w, r)' = 0
    BY <1>1, <2>1 DEF Ends, Owes, Counting, Counts
  <2>3. Reserves(w, r)' = 0 /\ Reserves(w, r) \in {0, 1}
    BY <2>1 DEF Reserves
  <2> QED
    BY <2>1, <2>2, <2>3 DEF Has
<1>2. CASE Stays(w)
  <2>1. Owes(w, r)' = Owes(w, r) /\ Owes(w, r) \in Nat
    BY <1>0, <1>2 DEF Stays, SameRoom, Owes, Lists, Locals
  <2>2. Reserves(w, r)' = 0 /\ Reserves(w, r) \in {0, 1}
    BY <1>2 DEF Stays, Reserves
  <2>3. Has(w, r)' <=> Has(w, r)
    BY <1>2 DEF Stays, SameRoom, Has
  <2> QED
    BY <2>1, <2>2, <2>3
<1> QED
  BY <1>1, <1>2

\* The guests of a room are finitely many sockets.
LEMMA GuestTypes ==
  ASSUME TypeOK, NEW r \in Rooms
  PROVE  /\ IsFiniteSet(guests[r]) /\ Cardinality(guests[r]) \in Nat
         /\ guests[r] \subseteq Sockets /\ score[r] \in Int
<1>1. guests[r] \subseteq Sockets /\ score[r] \in Int
  BY DEF TypeOK, TwilioOK, RoomsOK
<1>2. IsFiniteSet(guests[r])
  BY <1>1, RoomsAssumption, FS_Subset
<1> QED
  BY <1>1, <1>2, FS_CardinalityType

\* A handler works on its room: nobody else is about to list it.
LEMMA RoomInUse ==
  ASSUME OwnRooms, NEW w \in Workers, NEW r, Has(w, r)
  PROVE  /\ ~Unused(r)
         /\ \A v \in Workers \ {w} : Listing(v, r) => r \in tainted
BY DEF OwnRooms, OwnRoom, Listing, Unused

\* ZRANGEBYSCORE finds no such room, and only rooms in use.
LEMMA RoomFound ==
  ASSUME TypeOK, OwnRooms, NEW n, NEW hi, NEW r \in InRange(LowestScore(n), hi)
  PROVE  /\ r \in Rooms /\ ~Unused(r)
         /\ \A v \in Workers : Listing(v, r) => r \in tainted
<1>1. r \in listed /\ LowestScore(n) <= score[r] /\ LowestScore(n) \in {0, 1}
  BY DEF InRange, LowestScore
<1>2. r \in Rooms /\ score[r] \in Int
  BY <1>1 DEF TypeOK, RoomsOK
<1>3. score[r] >= 0
  BY <1>1, <1>2
<1>4. ~Unused(r)
  BY <1>1 DEF Unused
<1>5. ASSUME NEW v \in Workers, Listing(v, r), r \notin tainted
      PROVE  FALSE
  <2>1. OwnRoom(v, r) /\ pc[v] \in {"pairsZadd", "switchZadd"}
    BY <1>5 DEF OwnRooms, Listing
  <2>2. pc[v] = "pairsZadd" => score[r] < 0
    BY <1>1, <2>1 DEF OwnRoom
  <2>3. pc[v] = "switchZadd" => FALSE
    BY <1>1, <2>1 DEF OwnRoom
  <2> QED
    BY <1>2, <1>3, <2>1, <2>2, <2>3
<1> QED
  BY <1>2, <1>4, <1>5

\* A command that changes no room.
LEMMA QuietFrame ==
  ASSUME TypeOK, TypeOK', RoomsKnown, NEW w \in Workers,
         \A v \in Workers \ {w} : pc'[v] = pc[v] /\ loc'[v] = loc[v],
         UNCHANGED <<pool, created, paired, guests, score, listed>>, tainted \subseteq tainted',
         \A r \in Rooms : Has(w, r)' => Has(w, r),
         \A r \in Rooms \ tainted' : /\ Owes(w, r) <= Owes(w, r)'
                                     /\ Reserves(w, r)' <= Reserves(w, r),
         \/ pc'[w] \notin {"pairsZadd", "switchZadd"}
         \/ pc'[w] = pc[w] /\ loc'[w] = loc[w]
  PROVE  FreshRooms' /\ OwnRooms' /\ Balanced'
<1> PICK Q : Q = {}
  OBVIOUS
<1>1. Q \in SUBSET Rooms
  OBVIOUS
<1>2. \A r \in Rooms \ Q : /\ guests'[r] = guests[r] /\ score'[r] = score[r]
                           /\ r \in listed' <=> r \in listed
                           /\ Has(w, r)' => Has(w, r)
  OBVIOUS
<1>3. \A r \in Rooms \ (Q \cup tainted') : /\ Owes(w, r) <= Owes(w, r)'
                                           /\ Reserves(w, r)' <= Reserves(w, r)
  OBVIOUS
<1> QED
  BY <1>1, <1>2, <1>3, RoomFrame DEF RoomsKnown

\* A quiet command keeps what is known of the rooms.
LEMMA QuietStep ==
  ASSUME TypeOK, TypeOK', RoomsKnown, NEW w \in Workers, Ends(w) \/ Stays(w),
         \A v \in Workers \ {w} : pc'[v] = pc[v] /\ loc'[v] = loc[v],
         UNCHANGED <<pool, created, paired, guests, score, listed, tainted>>
  PROVE  FreshRooms' /\ OwnRooms' /\ Balanced'
<1>1. Counting(pc[w], loc[w])
  BY DEF RoomsKnown, CountsKnown
<1>2. pc'[w] \notin {"pairsZadd", "switchZadd"}
  BY DEF Ends, Stays, Lists
<1> QED
  BY <1>1, <1>2, QuietDebts, QuietFrame

\* What a command of w has to keep, the other handlers being where they were.
RoomsHold(w) == FreshRooms' /\ OwnRooms' /\ Balanced' /\ Counting(pc'[w], loc'[w])

\* Choosing a room among those the sorted set lists.
LEMMA RangeRooms ==
  ASSUME TypeOK, TypeOK', RoomsKnown, NEW w \in Workers, FindRange(w) \/ SwitchRooms(w) \/ SwitchTry(w),
         \A v \in Workers \ {w} : pc'[v] = pc[v] /\ loc'[v] = loc[v]
  PROVE  RoomsHold(w)
<1> DEFINE l == loc[w]
<1>0. HandlersOK /\ l \in Locals /\ Counting(pc[w], l)
  BY DEF TypeOK, HandlersOK, RoomsKnown, CountsKnown
<1>u. UNCHANGED <<pool, created, paired, guests, score, listed, tainted>>
  BY DEF FindRange, SwitchRooms, SwitchTry, redis, rooms, twilio, history, roomHistory
<1>n. pc[w] \notin Counts \cup Lists \cup {"findPop", "pairsTrim", "pairsPool", "pairsRoom"}
      /\ l.incs = 0
  <2>1. pc[w] \in {"findRange", "switchRooms", "switchTry"}
    BY DEF FindRange, SwitchRooms, SwitchTry
  <2> QED
    BY <1>0, <2>1 DEF Counting, Counts, Lists
<1>d. CASE JobDone(w)
  <2>1. pc'[w] = "idle" /\ loc'[w] = NoLoc
    BY <1>0, <1>d, Effects
  <2>2. Ends(w)
    BY <1>n, <2>1 DEF Ends, Lists
  <2> QED
    BY <1>u, <2>1, <2>2, QuietStep, CountingRests DEF RoomsHold
\* The handler has seen the rooms Q, and owes nothing.
<1>s. ASSUME NEW Q \in SUBSET Rooms,
             \A q \in Q : q \in Rooms /\ ~Unused(q)
                                 /\ \A v \in Workers \ {w} : Listing(v, q) => q \in tainted,
             pc'[w] \in {"findLen", "switchTry", "switchScore"}, loc'[w].incs = 0,
             \A r \in Rooms \ Q : Has(w, r)' => Has(w, r)
      PROVE  RoomsHold(w)
  <2>1. \A r \in Rooms : /\ Owes(w, r) = 0 /\ Owes(w, r)' = 0
                         /\ Reserves(w, r) = 0 /\ Reserves(w, r)' = 0
    BY <1>n, <1>s DEF Owes, Reserves, Lists
  <2>2. Q \in SUBSET Rooms
    OBVIOUS
  <2>3. \A q \in Q \ tainted' :
           Cardinality(guests'[q]) + Reserved(q)' <= score'[q] + Uncounted(q)'
    <3> SUFFICES ASSUME NEW q \in Q, q \notin tainted'
                 PROVE  Cardinality(guests'[q]) + Reserved(q)' <= score'[q] + Uncounted(q)'
      OBVIOUS
    <3>1. Cardinality(guests[q]) + Reserved(q) <= score[q] + Uncounted(q)
      BY <1>u, <2>2 DEF RoomsKnown, Balanced
    <3>2. Reserved(q)' = Reserved(q) /\ Uncounted(q)' = Uncounted(q)
      <4>1. HandlersOK'
        BY DEF TypeOK
      <4>2. /\ Uncounted(q) \in Nat /\ Reserved(q) \in Nat
            /\ Uncounted(q)' = Uncounted(q) - Owes(w, q) + Owes(w, q)'
            /\ Reserved(q)' = Reserved(q) - Reserves(w, q) + Reserves(w, q)'
        BY <1>0, <2>2, <4>1, DebtsMove
      <4> QED
        BY <2>1, <2>2, <4>2
    <3> QED
      BY <1>u, <3>1, <3>2
  <2>4. FreshRooms' /\ OwnRooms' /\ Balanced'
    BY <1>s, <1>u, <2>1, <2>2, <2>3, RoomFrame DEF RoomsKnown
  <2>5. Counting(pc'[w], loc'[w])
    BY <1>s DEF Counting
  <2> QED
    BY <2>4, <2>5 DEF RoomsHold
<1> HIDE DEF l
<1>1. CASE FindRange(w) /\ ~JobDone(w)
  <2>1. PICK r \in InRange(LowestScore(l.n), HighestScore) :
           Bind(w, [l EXCEPT !.room = r])
    BY <1>1 DEF FindRange, l
  <2>2. pc'[w] = "findLen" /\ loc'[w] = [l EXCEPT !.room = r]
    BY <1>0, <1>1, <2>1, Effects DEF FindRange
  <2>3. loc'[w].incs = 0 /\ loc'[w].room = r /\ loc'[w].rooms = l.rooms
    BY <1>0, <1>n, <2>2 DEF Locals
  <2>4. \A q \in Rooms \ {r} : Has(w, q)' => Has(w, q)
    BY <2>3 DEF Has, l
  <2>5. /\ r \in Rooms /\ ~Unused(r)
        /\ \A v \in Workers : Listing(v, r) => r \in tainted
    BY RoomFound DEF RoomsKnown
  <2>6. \A q \in {r} : q \in Rooms /\ ~Unused(q)
                       /\ \A v \in Workers \ {w} : Listing(v, q) => q \in tainted
    BY <2>5
  <2>7. {r} \in SUBSET Rooms
    BY <2>5
  <2> QED
    BY <1>s, <2>2, <2>3, <2>4, <2>6, <2>7
<1>2. CASE SwitchRooms(w)
  <2> DEFINE found == InRange(LowestScore(l.n), 3)
  <2>1. PICK order \in [1..Cardinality(found) -> found] : Bind(w, [l EXCEPT !.rooms = order])
    BY <1>2 DEF SwitchRooms, l
  <2>2. pc'[w] = "switchTry" /\ loc'[w] = [l EXCEPT !.rooms = order]
    BY <1>0, <1>2, <2>1, Effects DEF SwitchRooms
  <2>3. loc'[w].incs = 0 /\ loc'[w].room = l.room /\ loc'[w].rooms = order
    BY <1>0, <1>n, <2>2 DEF Locals
  <2>4. \A q \in Rooms \ found : Has(w, q)' => Has(w, q)
    BY <2>3 DEF Has, l
  <2>5. \A q \in found : q \in Rooms /\ ~Unused(q)
                         /\ \A v \in Workers \ {w} : Listing(v, q) => q \in tainted
    <3> SUFFICES ASSUME NEW q \in found
                 PROVE  q \in Rooms /\ ~Unused(q)
                        /\ \A v \in Workers \ {w} : Listing(v, q) => q \in tainted
      OBVIOUS
    <3>1. /\ q \in Rooms /\ ~Unused(q)
          /\ \A v \in Workers : Listing(v, q) => q \in tainted
      BY RoomFound DEF RoomsKnown
    <3> QED
      BY <3>1
  <2>6. found \in SUBSET Rooms
    BY <2>5
  <2> HIDE DEF found
  <2> QED
    BY <1>s, <2>2, <2>3, <2>4, <2>5, <2>6
<1>3. CASE SwitchTry(w) /\ ~JobDone(w)
  <2>1. PICK next : next = [l EXCEPT !.rooms = Tail(l.rooms)]
    OBVIOUS
  <2>2. PICK go : go = [l EXCEPT !.room = Head(l.rooms), !.todo = 1, !.ids = <<Head(queueSwitch).id>>]
    OBVIOUS
  <2>3. /\ pc[w] = "switchTry" /\ l.rooms # <<>>
        /\ \/ Bind(w, next) /\ UNCHANGED pc
           \/ Bind(w, go) /\ Goto(w, "switchScore")
    BY <1>3, <2>1, <2>2 DEF SwitchTry, l
  <2>4. /\ pc'[w] \in {"switchTry", "switchScore"}
        /\ loc'[w] = next \/ loc'[w] = go
    BY <1>0, <2>3, Effects
  <2>5. l.rooms \in Seq(Rooms)
    BY <1>0 DEF Locals
  <2>6. /\ Head(l.rooms) = l.rooms[1] /\ 1 \in DOMAIN l.rooms
        /\ \A i \in DOMAIN Tail(l.rooms) : /\ i + 1 \in DOMAIN l.rooms
                                           /\ Tail(l.rooms)[i] = l.rooms[i + 1]
    BY <2>3, <2>5
  <2>7. /\ next.room = l.room /\ next.rooms = Tail(l.rooms) /\ next.incs = 0
        /\ go.room = Head(l.rooms) /\ go.rooms = l.rooms /\ go.incs = 0
    BY <1>0, <1>n, <2>1, <2>2 DEF Locals
  <2>8. \A q \in Rooms : Has(w, q)' => Has(w, q)
    <3>1. CASE loc'[w] = next
      <4>1. \A i \in DOMAIN loc'[w].rooms : /\ i + 1 \in DOMAIN loc[w].rooms
                                            /\ loc'[w].rooms[i] = loc[w].rooms[i + 1]
        BY <2>6, <2>7, <3>1 DEF l
      <4>2. loc'[w].room = loc[w].room
        BY <2>7, <3>1 DEF l
      <4> QED
        BY <4>1, <4>2 DEF Has
    <3>2. CASE loc'[w] = go
      <4>1. loc'[w].rooms = loc[w].rooms /\ loc'[w].room = loc[w].rooms[1] /\ 1 \in DOMAIN loc[w].rooms
        BY <2>6, <2>7, <3>2 DEF l
      <4> QED
        BY <4>1 DEF Has
    <3> QED
      BY <2>4, <3>1, <3>2
  <2>9. loc'[w].incs = 0
    BY <2>4, <2>7
  <2>10. \A r \in Rooms : /\ Owes(w, r) = 0 /\ Owes(w, r)' = 0
                          /\ Reserves(w, r) = 0 /\ Reserves(w, r)' = 0
    BY <1>n, <2>4, <2>9 DEF Owes, Reserves, Lists, l
  <2>11. FreshRooms' /\ OwnRooms' /\ Balanced'
    BY <1>u, <2>4, <2>8, <2>10, QuietFrame
  <2> QED
    BY <2>4, <2>9, <2>11 DEF RoomsHold, Counting
<1> QED
  BY <1>d, <1>1, <1>2, <1>3

-----------------------------------------------------------------------------
\* Commands that fill a room

\* A handler changes the room it works on.
LEMMA OwnRoomFrame ==
  ASSUME TypeOK, TypeOK', RoomsKnown, NEW w \in Workers,
         \A v \in Workers \ {w} : pc'[v] = pc[v] /\ loc'[v] = loc[v],
         UNCHANGED <<pool, created, paired, tainted>>,
         NEW q \in Rooms, loc[w].room = q,
         \A r \in Rooms \ {q} : /\ guests'[r] = guests[r] /\ score'[r] = score[r]
                                /\ r \in listed' <=> r \in listed,
         loc'[w] = NoLoc \/ (loc'[w].room = q /\ loc'[w].rooms = loc[w].rooms),
         pc'[w] \notin Lists,
         q \notin tainted =>
           Cardinality(guests'[q]) + Reserved(q)' <= score'[q] + Uncounted(q)'
  PROVE  FreshRooms' /\ OwnRooms' /\ Balanced'
<1>1. Has(w, q)
  BY DEF Has
<1>2. /\ ~Unused(q)
      /\ \A v \in Workers \ {w} : Listing(v, q) => q \in tainted
  BY <1>1, RoomInUse DEF RoomsKnown
<1>3. NoRoom \notin Rooms /\ loc'[w] \in Locals
  BY RoomsAssumption DEF TypeOK, HandlersOK
<1>4. \A r \in Rooms \ {q} : /\ Has(w, r)' => Has(w, r)
                             /\ Owes(w, r) <= Owes(w, r)' /\ Reserves(w, r)' <= Reserves(w, r)
  <2> SUFFICES ASSUME NEW r \in Rooms \ {q}
               PROVE  /\ Has(w, r)' => Has(w, r)
                      /\ Owes(w, r) <= Owes(w, r)' /\ Reserves(w, r)' <= Reserves(w, r)
    OBVIOUS
  <2>1. Owes(w, r) = 0 /\ Reserves(w, r) = 0
    BY DEF Owes, Reserves
  <2>2. loc'[w].room # r
    BY <1>3 DEF NoLoc
  <2>3. Owes(w, r)' = 0 /\ Reserves(w, r)' = 0
    BY <2>2 DEF Owes, Reserves
  <2>4. Has(w, r)' => Has(w, r)
    BY <2>2 DEF Has, NoLoc
  <2> QED
    BY <2>1, <2>3, <2>4
<1>5. PICK Q : Q = {q}
  OBVIOUS
<1>6. Q \in SUBSET Rooms
  BY <1>5
<1>7. /\ \A p \in Q : ~Unused(p)
      /\ \A p \in Q, v \in Workers \ {w} : Listing(v, p) => p \in tainted
  BY <1>2, <1>5
<1>8. \A p \in Q \ tainted' :
         Cardinality(guests'[p]) + Reserved(p)' <= score'[p] + Uncounted(p)'
  BY <1>5
<1>9. \A r \in Rooms \ Q : /\ guests'[r] = guests[r] /\ score'[r] = score[r]
                           /\ r \in listed' <=> r \in listed
                           /\ Has(w, r)' => Has(w, r)
  BY <1>4, <1>5
<1>10. \A r \in Rooms \ (Q \cup tainted') : /\ Owes(w, r) <= Owes(w, r)'
                                             /\ Reserves(w, r)' <= Reserves(w, r)
  BY <1>4, <1>5
<1>11. pc'[w] \notin {"pairsZadd", "switchZadd"}
  BY DEF Lists
<1> QED
  BY <1>6, <1>7, <1>8, <1>9, <1>10, <1>11, RoomFrame DEF RoomsKnown

\* It gives away no more places of it than it counts.
LEMMA BalanceKept ==
  ASSUME TypeOK, TypeOK', RoomsKnown, NEW w \in Workers,
         \A v \in Workers \ {w} : pc'[v] = pc[v] /\ loc'[v] = loc[v],
         NEW q \in Rooms, q \notin tainted,
         NEW given \in Int, NEW counted \in Int,
         Cardinality(guests'[q]) <= Cardinality(guests[q]) + given,
         score'[q] + Owes(w, q)' = score[q] + Owes(w, q) + counted,
         given + Reserves(w, q)' <= counted + Reserves(w, q)
  PROVE  Cardinality(guests'[q]) + Reserved(q)' <= score'[q] + Uncounted(q)'
<1>1. Cardinality(guests[q]) + Reserved(q) <= score[q] + Uncounted(q)
  BY DEF RoomsKnown, Balanced
<1>2. HandlersOK /\ HandlersOK'
  BY DEF TypeOK
<1>3. /\ Uncounted(q) \in Nat /\ Reserved(q) \in Nat
      /\ Uncounted(q)' = Uncounted(q) - Owes(w, q) + Owes(w, q)'
      /\ Reserved(q)' = Reserved(q) - Reserves(w, q) + Reserves(w, q)'
  BY <1>2, DebtsMove
<1>4. /\ Owes(w, q) \in Nat /\ Owes(w, q)' \in Nat
      /\ Reserves(w, q) \in Nat /\ Reserves(w, q)' \in Nat
  BY <1>2 DEF Owes, Reserves, HandlersOK, Locals
<1>5. Cardinality(guests[q]) \in Nat /\ score[q] \in Int
  BY GuestTypes
<1>6. Cardinality(guests'[q]) \in Nat /\ score'[q] \in Int
  <2>1. guests'[q] \subseteq Sockets /\ score'[q] \in Int
    BY DEF TypeOK, TwilioOK, RoomsOK
  <2> QED
    BY <2>1, RoomsAssumption, FS_Subset, FS_CardinalityType
<1> QED
  BY <1>1, <1>3, <1>4, <1>5, <1>6

\* One more guest at most.
LEMMA OneGuest ==
  ASSUME TypeOK, NEW r \in Rooms, NEW ids, NEW s, ids \subseteq {s}, SendRoom(ids, r)
  PROVE  /\ Cardinality(guests'[r]) <= Cardinality(guests[r]) + 1
         /\ \A q \in Rooms \ {r} : guests'[q] = guests[q]
<1>1. guests \in [Rooms -> SUBSET Sockets]
  BY DEF TypeOK, TwilioOK
<1>2. /\ guests'[r] = guests[r] \cup (ids \cap online)
      /\ \A q \in Rooms \ {r} : guests'[q] = guests[q]
  BY <1>1 DEF SendRoom
<1>3. guests'[r] = guests[r] \/ guests'[r] = guests[r] \cup {s}
  BY <1>2
<1>4. IsFiniteSet(guests[r]) /\ Cardinality(guests[r]) \in Nat
  BY GuestTypes
<1>5. Cardinality(guests[r] \cup {s}) = IF s \in guests[r] THEN Cardinality(guests[r])
                                        ELSE Cardinality(guests[r]) + 1
  BY <1>4, FS_AddElement
<1>6. Cardinality(guests'[r]) <= Cardinality(guests[r]) + 1
  <2>1. CASE guests'[r] = guests[r]
    BY <1>4, <2>1
  <2>2. CASE guests'[r] = guests[r] \cup {s}
    <3>1. Cardinality(guests'[r]) = Cardinality(guests[r] \cup {s})
      BY <2>2
    <3> QED
      BY <1>4, <1>5, <3>1
  <2> QED
    BY <1>3, <2>1, <2>2
<1> QED
  BY <1>2, <1>6

\* findAvailableRooms counts a place before it gives the place away.
LEMMA FindRooms ==
  ASSUME TypeOK, TypeOK', LocalsInUse, RoomsKnown, NEW w \in Workers,
         FindIncr(w) \/ FindPop(w),
         \A v \in Workers \ {w} : pc'[v] = pc[v] /\ loc'[v] = loc[v]
  PROVE  RoomsHold(w)
<1>l. PICK l : l = loc[w]
  OBVIOUS
<1>q. PICK q : q = loc[w].room
  OBVIOUS
<1>0. HandlersOK /\ RoomsOK /\ l \in Locals /\ Counting(pc[w], l) /\ InUse(pc[w], l)
  BY <1>l DEF TypeOK, HandlersOK, RoomsKnown, CountsKnown, LocalsInUse
<1>1. /\ pc[w] \in {"findIncr", "findPop"} /\ pc'[w] \in {"findPop", "findMore"}
      /\ loc'[w] = l /\ UNCHANGED <<pool, created, paired, tainted>>
  BY <1>0, <1>l, Effects DEF FindIncr, FindPop, rooms, history, roomHistory, twilio
<1>2. q \in Rooms /\ l.incs = 0
  BY <1>0, <1>1, <1>l, <1>q DEF InUse, Counting
<1>3. score[q] \in Int
  BY <1>2, GuestTypes
<1>4. Owes(w, q) = 0 /\ Owes(w, q)' = 0
  BY <1>1, <1>2, <1>l DEF Owes
<1>5. CASE FindIncr(w)
  <2>1. pc[w] = "findIncr" /\ pc'[w] = "findPop" /\ UNCHANGED guests
        /\ ZSet(q, score[q] + 1)
    BY <1>0, <1>5, <1>q, Effects DEF FindIncr, twilio
  <2>2. Reserves(w, q) = 0 /\ Reserves(w, q)' = 1
    BY <1>1, <2>1, <1>l, <1>q DEF Reserves
  <2>3. /\ score'[q] = score[q] + 1
        /\ \A r \in Rooms \ {q} : score'[r] = score[r]
    BY <1>0, <1>2, <1>3, <2>1, ScoreSet
  <2>4. \A r \in Rooms \ {q} : r \in listed' <=> r \in listed
    BY <2>1 DEF ZSet
  <2>5. Cardinality(guests[q]) \in Nat
    BY <1>2, GuestTypes
  <2>6. q \notin tainted => Cardinality(guests'[q]) + Reserved(q)' <= score'[q] + Uncounted(q)'
    <3>1. Cardinality(guests'[q]) <= Cardinality(guests[q]) + 0
      BY <2>1, <2>5
    <3>2. score'[q] + Owes(w, q)' = score[q] + Owes(w, q) + 1
      BY <1>3, <1>4, <2>3
    <3>3. 0 + Reserves(w, q)' <= 1 + Reserves(w, q)
      BY <2>2
    <3> QED
      BY <1>2, <3>1, <3>2, <3>3, BalanceKept
  <2>7. FreshRooms' /\ OwnRooms' /\ Balanced'
    BY <1>1, <1>2, <2>1, <2>3, <2>4, <2>6, <1>l, <1>q, OwnRoomFrame DEF Lists
  <2> QED
    BY <1>1, <1>2, <2>1, <2>7 DEF RoomsHold, Counting
<1>6. CASE FindPop(w)
  <2>1. /\ pc[w] = "findPop" /\ pc'[w] = "findMore" /\ UNCHANGED <<score, listed>>
        /\ SendRoom(ToSet(First(queue, 1)), q)
    BY <1>0, <1>6, <1>q, Effects DEF FindPop, rooms
  <2>2. Reserves(w, q) = 1 /\ Reserves(w, q)' = 0
    BY <1>1, <2>1, <1>l, <1>q DEF Reserves
  <2>3. PICK s : ToSet(First(queue, 1)) \subseteq {s}
    <3>1. DOMAIN First(queue, 1) \subseteq {1}
      <4>1. queue \in Seq(Sockets)
        BY DEF TypeOK, ListsOK
      <4>2. First(queue, 1) \in Seq(Sockets) /\ Len(First(queue, 1)) <= 1
        BY <4>1, CutFacts
      <4> QED
        BY <4>2
    <3> QED
      BY <3>1 DEF ToSet
  <2>4. /\ Cardinality(guests'[q]) <= Cardinality(guests[q]) + 1
        /\ \A r \in Rooms \ {q} : guests'[r] = guests[r]
    BY <1>2, <2>1, <2>3, OneGuest
  <2>5. q \notin tainted => Cardinality(guests'[q]) + Reserved(q)' <= score'[q] + Uncounted(q)'
    <3>1. score'[q] + Owes(w, q)' = score[q] + Owes(w, q) + 0
      BY <1>3, <1>4, <2>1
    <3>2. 1 + Reserves(w, q)' <= 0 + Reserves(w, q)
      BY <2>2
    <3> QED
      BY <1>2, <2>4, <3>1, <3>2, BalanceKept
  <2>6. FreshRooms' /\ OwnRooms' /\ Balanced'
    BY <1>1, <1>2, <2>1, <2>4, <2>5, <1>l, <1>q, OwnRoomFrame DEF Lists
  <2> QED
    BY <1>1, <1>2, <2>1, <2>6 DEF RoomsHold, Counting
<1> QED
  BY <1>5, <1>6

\* A handler lists the room that only it has.
LEMMA ListingRooms ==
  ASSUME TypeOK, TypeOK', LocalsInUse, RoomsKnown, NEW w \in Workers,
         PairsZadd(w) \/ SwitchZadd(w),
         \A v \in Workers \ {w} : pc'[v] = pc[v] /\ loc'[v] = loc[v]
  PROVE  RoomsHold(w)
<1>l. PICK l : l = loc[w]
  OBVIOUS
<1>q. PICK q : q = loc[w].room
  OBVIOUS
<1>0. HandlersOK /\ HandlersOK' /\ RoomsOK /\ l \in Locals /\ Counting(pc[w], l) /\ InUse(pc[w], l)
  BY <1>l DEF TypeOK, HandlersOK, RoomsKnown, CountsKnown, LocalsInUse
<1>1. /\ pc[w] \in Lists /\ UNCHANGED <<pool, created, paired, tainted, guests>>
      /\ \/ pc[w] = "pairsZadd" /\ ZSet(q, 2) /\ pc'[w] = "idle" /\ loc'[w] = NoLoc
         \/ pc[w] = "switchZadd" /\ ZSet(q, 0) /\ pc'[w] = "switchScore" /\ loc'[w] = l
  BY <1>0, <1>l, <1>q, Effects DEF PairsZadd, SwitchZadd, PairScore, Lists, rooms, history, roomHistory, twilio
<1>2. q \in Rooms /\ l.incs = 0
  BY <1>0, <1>1, <1>l, <1>q DEF InUse, Counting, Lists
<1>3. PICK value \in {0, 2} :
        /\ ZSet(q, value) /\ value = IF pc[w] = "pairsZadd" THEN 2 ELSE 0
  BY <1>1 DEF Lists
<1>4. /\ score'[q] = value
      /\ \A r \in Rooms \ {q} : score'[r] = score[r]
  BY <1>0, <1>2, <1>3, ScoreSet
<1>5. \A r \in Rooms \ {q} : r \in listed' <=> r \in listed
  BY <1>3 DEF ZSet
<1>6. ASSUME q \notin tainted
      PROVE  Cardinality(guests'[q]) + Reserved(q)' <= score'[q] + Uncounted(q)'
  <2>1. OwnRoom(w, q)
    BY <1>1, <1>6, <1>q DEF RoomsKnown, OwnRooms, Lists
  <2>2. Cardinality(guests[q]) <= value
    <3>1. CASE pc[w] = "pairsZadd"
      <4>1. Cardinality(guests[q]) <= 2 + score[q] /\ score[q] <= 0
        BY <2>1, <3>1 DEF OwnRoom
      <4> QED
        BY <1>2, <1>3, <3>1, <4>1, GuestTypes
    <3>2. CASE pc[w] = "switchZadd"
      <4>1. guests[q] = {}
        BY <2>1, <3>2 DEF OwnRoom
      <4> QED
        BY <1>3, <3>2, <4>1, FS_EmptySet
    <3> QED
      BY <1>1, <3>1, <3>2 DEF Lists
  <2>3. Reserved(q)' = 0
    <3>1. \A v \in Workers : Reserves(v, q)' = 0
      <4>1. \A v \in Workers \ {w} : loc[v].room # q
        BY <2>1 DEF OwnRoom, Has
      <4> QED
        BY <1>1, <4>1, <1>l, <1>q DEF Reserves
    <3>2. PICK f : f = [v \in Workers |-> Reserves(v, q)']
      OBVIOUS
    <3>3. DOMAIN f = Workers /\ \A v \in Workers : f[v] = 0
      BY <3>1, <3>2
    <3>4. Total(f) = 0
      BY <3>3, TotalOfNone
    <3> QED
      BY <3>2, <3>4 DEF Reserved
  <2>4. Uncounted(q)' \in Nat
    BY <1>0, <1>2, DebtsMove
  <2>5. Cardinality(guests[q]) \in Nat
    BY <1>2, GuestTypes
  <2> QED
    BY <1>1, <1>4, <2>2, <2>3, <2>4, <2>5
<1>7. FreshRooms' /\ OwnRooms' /\ Balanced'
  BY <1>1, <1>2, <1>4, <1>5, <1>6, <1>l, <1>q, OwnRoomFrame DEF Lists
<1>8. Counting(pc'[w], loc'[w])
  BY <1>1, <1>2 DEF Counting, NoLoc
<1> QED
  BY <1>7, <1>8 DEF RoomsHold

\* Moving switched sockets into a room, and counting them there.
LEMMA MovingRooms ==
  ASSUME TypeOK, TypeOK', LocalsInUse, RoomsKnown, NEW w \in Workers,
         SwitchScore(w) \/ SwitchIncr(w),
         \A v \in Workers \ {w} : pc'[v] = pc[v] /\ loc'[v] = loc[v]
  PROVE  RoomsHold(w)
<1>l. PICK l : l = loc[w]
  OBVIOUS
<1>q. PICK q : q = l.room
  OBVIOUS
<1>0. HandlersOK /\ RoomsOK /\ l \in Locals /\ InUse(pc[w], l)
  BY <1>l DEF TypeOK, HandlersOK, LocalsInUse
<1>a. l.todo \in Nat /\ l.incs \in Nat /\ l.pops \in Nat
  BY <1>0 DEF Locals
<1>1. CASE SwitchScore(w)
  <2>1. PICK k : k = l.pops + IF HasPlace(l.room) THEN 1 ELSE 0
    OBVIOUS
  <2>2. PICK m : m = [l EXCEPT !.todo = @ - 1, !.pops = k, !.incs = CountMoved(k)]
    OBVIOUS
  <2>3. PICK p : p = IF l.todo > 1 THEN "switchScore"
                     ELSE IF k > 0 THEN "switchPop" ELSE "switchAfter"
    OBVIOUS
  <2>4. pc[w] = "switchScore" /\ Bind(w, m) /\ Goto(w, p)
    BY <1>1, <1>l, <2>1, <2>2, <2>3 DEF SwitchScore
  <2>5. pc'[w] = p /\ loc'[w] = m
    BY <1>0, <2>4, Effects
  <2>6. k \in Nat /\ m.room = q /\ m.rooms = l.rooms /\ m.incs = k
    BY <1>0, <1>a, <1>q, <2>1, <2>2 DEF Locals, CountMoved
  <2>7. p \in {"switchScore", "switchPop", "switchAfter"} /\ (p = "switchAfter" => k = 0)
    BY <2>3, <2>6
  <2>8. UNCHANGED <<pool, created, paired, tainted, score, listed>>
    BY <1>1 DEF SwitchScore, redis, rooms, zset, history, roomHistory
  <2>9. q \in Rooms /\ l.incs = l.pops
    BY <1>0, <1>q, <2>4 DEF InUse, SwitchPoints
  <2>10. score[q] \in Int /\ Cardinality(guests[q]) \in Nat
    BY <2>9, GuestTypes
  <2>11. Owes(w, q) = l.incs /\ Owes(w, q)' = k /\ Reserves(w, q) = 0 /\ Reserves(w, q)' = 0
    BY <1>l, <1>q, <2>4, <2>5, <2>6, <2>7 DEF Owes, Reserves
  <2>12. /\ Cardinality(guests'[q]) <= Cardinality(guests[q]) + (k - l.incs)
         /\ \A r \in Rooms \ {q} : guests'[r] = guests[r]
    <3>1. CASE HasPlace(l.room)
      <4>1. PICK s : s = l.ids[l.todo]
        OBVIOUS
      <4>2. SendRoom({s}, q)
        BY <1>1, <1>l, <1>q, <3>1, <4>1 DEF SwitchScore
      <4>3. {s} \subseteq {s}
        OBVIOUS
      <4>4. /\ Cardinality(guests'[q]) <= Cardinality(guests[q]) + 1
            /\ \A r \in Rooms \ {q} : guests'[r] = guests[r]
        BY <2>9, <4>2, <4>3, OneGuest
      <4>5. k - l.incs = 1
        BY <1>a, <2>1, <2>9, <3>1
      <4> QED
        BY <4>4, <4>5
    <3>2. CASE ~HasPlace(l.room)
      <4>1. UNCHANGED guests
        BY <1>1, <1>l, <3>2 DEF SwitchScore
      <4>2. k - l.incs = 0
        BY <1>a, <2>1, <2>9, <3>2
      <4> QED
        BY <2>10, <4>1, <4>2
    <3> QED
      BY <3>1, <3>2
  <2>13. q \notin tainted => Cardinality(guests'[q]) + Reserved(q)' <= score'[q] + Uncounted(q)'
    <3>1. k - l.incs \in Int
      BY <1>a, <2>6
    <3>2. score'[q] + Owes(w, q)' = score[q] + Owes(w, q) + (k - l.incs)
      BY <1>a, <2>6, <2>8, <2>10, <2>11
    <3>3. (k - l.incs) + Reserves(w, q)' <= (k - l.incs) + Reserves(w, q)
      BY <2>11, <3>1
    <3> QED
      BY <2>9, <2>12, <3>1, <3>2, <3>3, BalanceKept
  <2>14. pc'[w] \notin Lists
    BY <2>5, <2>7 DEF Lists
  <2>15. loc[w].room = q /\ loc'[w].room = q /\ loc'[w].rooms = loc[w].rooms
    BY <1>l, <1>q, <2>5, <2>6
  <2>16. FreshRooms' /\ OwnRooms' /\ Balanced'
    BY <2>8, <2>9, <2>12, <2>13, <2>14, <2>15, OwnRoomFrame
  <2>17. Counting(pc'[w], loc'[w])
    BY <2>5, <2>6, <2>7 DEF Counting
  <2> QED
    BY <2>16, <2>17 DEF RoomsHold
<1>2. CASE SwitchIncr(w)
  <2>2. PICK m : m = [l EXCEPT !.incs = @ - 1]
    OBVIOUS
  <2>3. PICK p : p = IF l.incs > 1 THEN "switchIncr" ELSE "switchAfter"
    OBVIOUS
  <2>4. pc[w] = "switchIncr" /\ Bind(w, m) /\ Goto(w, p) /\ ZSet(q, score[q] + 1)
    BY <1>2, <1>l, <1>q, <2>2, <2>3 DEF SwitchIncr
  <2>5. pc'[w] = p /\ loc'[w] = m
    BY <1>0, <2>4, Effects
  <2>6. m.room = q /\ m.rooms = l.rooms /\ m.incs = l.incs - 1
    BY <1>0, <1>q, <2>2 DEF Locals
  <2>7. q \in Rooms /\ l.incs > 0
    BY <1>0, <1>q, <2>4 DEF InUse, SwitchPoints
  <2>8. p \in {"switchIncr", "switchAfter"} /\ (p = "switchAfter" => m.incs = 0)
    BY <1>a, <2>3, <2>6, <2>7
  <2>9. UNCHANGED <<pool, created, paired, tainted, guests>>
    BY <1>2 DEF SwitchIncr, history, roomHistory, twilio
  <2>10. score[q] \in Int /\ Cardinality(guests[q]) \in Nat
    BY <2>7, GuestTypes
  <2>11. Owes(w, q) = l.incs /\ Owes(w, q)' = l.incs - 1 /\ Reserves(w, q) = 0 /\ Reserves(w, q)' = 0
    BY <1>l, <1>q, <2>4, <2>5, <2>6, <2>8 DEF Owes, Reserves
  <2>12. /\ score'[q] = score[q] + 1
         /\ \A r \in Rooms \ {q} : score'[r] = score[r]
    BY <1>0, <2>4, <2>7, <2>10, ScoreSet
  <2>13. \A r \in Rooms \ {q} : r \in listed' <=> r \in listed
    BY <2>4 DEF ZSet
  <2>14. q \notin tainted => Cardinality(guests'[q]) + Reserved(q)' <= score'[q] + Uncounted(q)'
    <3>1. Cardinality(guests'[q]) <= Cardinality(guests[q]) + 0
      BY <2>9, <2>10
    <3>2. score'[q] + Owes(w, q)' = score[q] + Owes(w, q) + 0
      BY <1>a, <2>10, <2>11, <2>12
    <3>3. 0 + Reserves(w, q)' <= 0 + Reserves(w, q)
      BY <2>11
    <3> QED
      BY <2>7, <3>1, <3>2, <3>3, BalanceKept
  <2>15. pc'[w] \notin Lists
    BY <2>5, <2>8 DEF Lists
  <2>16. loc[w].room = q /\ loc'[w].room = q /\ loc'[w].rooms = loc[w].rooms
    BY <1>l, <1>q, <2>5, <2>6
  <2>17. FreshRooms' /\ OwnRooms' /\ Balanced'
    BY <2>7, <2>9, <2>12, <2>13, <2>14, <2>15, <2>16, OwnRoomFrame
  <2>18. Counting(pc'[w], loc'[w])
    BY <2>5, <2>8 DEF Counting
  <2> QED
    BY <2>17, <2>18 DEF RoomsHold
<1> QED
  BY <1>1, <1>2

-----------------------------------------------------------------------------
\* Rooms created and taken from the pool

\* A room that Twilio creates goes into the pool, by a batch or for a pair.
LEMMA RoomCreated ==
  ASSUME TypeOK, TypeOK', RoomsKnown, NEW q \in Rooms, TwilioCreate(q),
         pool' = Append(pool, q), UNCHANGED <<score, listed, guests, tainted>>,
         paired' = paired \/ paired' = paired \cup {q},
         q \in paired' \/ \A w \in Workers : ~Has(w, q)',
         \A r \in Rooms \ {q}, w \in Workers : Has(w, r)' => Has(w, r)
  PROVE  FreshRooms'
<1>0. /\ pool \in Seq(Rooms) /\ q \notin created /\ created' = created \cup {q}
      /\ \A i \in DOMAIN pool : pool[i] \in Rooms
  BY DEF TypeOK, RoomsOK, TwilioCreate
<1>1. \A r \in Rooms \ {q} : Unused(r) => Unused(r)'
  BY DEF Unused
<1>2. Unused(q)
  BY <1>0 DEF RoomsKnown, FreshRooms
<1>3. q \in paired' \/ Unused(q)'
  BY <1>2 DEF Unused
<1>4. \A i \in DOMAIN pool : pool[i] # q
  BY <1>0 DEF RoomsKnown, FreshRooms
<1>5. /\ DOMAIN pool = 1..Len(pool) /\ Len(pool) \in Nat
      /\ DOMAIN pool' = 1..(Len(pool) + 1)
      /\ pool'[Len(pool) + 1] = q
      /\ \A i \in DOMAIN pool : pool'[i] = pool[i]
  BY <1>0
<1>6. NoDuplicates(pool')
  <2> SUFFICES ASSUME NEW i \in DOMAIN pool', NEW j \in DOMAIN pool', pool'[i] = pool'[j]
               PROVE  i = j
    BY DEF NoDuplicates
  <2>1. CASE i \in DOMAIN pool /\ j \in DOMAIN pool
    BY <1>5, <2>1 DEF RoomsKnown, FreshRooms, NoDuplicates
  <2>2. CASE i \notin DOMAIN pool \/ j \notin DOMAIN pool
    BY <1>4, <1>5, <2>2
  <2> QED
    BY <2>1, <2>2
<1>7. ASSUME NEW i \in DOMAIN pool'
      PROVE  pool'[i] \in created' /\ (pool'[i] \in paired' \/ Unused(pool[i])')
  <2>1. PICK r : r = pool'[i]
    OBVIOUS
  <2>2. r \in created' /\ (r \in paired' \/ Unused(r)')
    <3>1. CASE i \in DOMAIN pool
      <4>1. r \in Rooms \ {q} /\ r \in created /\ (r \in paired \/ Unused(r))
        BY <1>0, <1>4, <1>5, <2>1, <3>1 DEF RoomsKnown, FreshRooms
      <4> QED
        BY <1>0, <1>1, <4>1
    <3>2. CASE i \notin DOMAIN pool
      BY <1>0, <1>3, <1>5, <2>1, <3>2
    <3> QED
      BY <3>1, <3>2
  <2>3. Unused(r)' => Unused(pool[i])'
    BY <2>1 DEF Unused, Has
  <2> QED
    BY <2>1, <2>2, <2>3
<1>8. paired' \subseteq created'
  BY <1>0 DEF RoomsKnown, FreshRooms
<1>9. \A r \in Rooms \ created' : Unused(r)'
  BY <1>0, <1>1 DEF RoomsKnown, FreshRooms
<1> QED
  BY <1>6, <1>7, <1>8, <1>9 DEF FreshRooms

-----------------------------------------------------------------------------
\* Commands that create a room or take one from the pool

\* Debts that do not shrink keep the balance of rooms nobody touches.
LEMMA BalanceQuiet ==
  ASSUME TypeOK, TypeOK', RoomsKnown, NEW w \in Workers,
         \A v \in Workers \ {w} : pc'[v] = pc[v] /\ loc'[v] = loc[v],
         NEW r \in Rooms, r \notin tainted,
         guests'[r] = guests[r], score'[r] = score[r],
         Owes(w, r) <= Owes(w, r)', Reserves(w, r)' <= Reserves(w, r)
  PROVE  Cardinality(guests'[r]) + Reserved(r)' <= score'[r] + Uncounted(r)'
<1>1. HandlersOK /\ HandlersOK'
  BY DEF TypeOK
<1>2. /\ Owes(w, r) \in Nat /\ Owes(w, r)' \in Nat
      /\ Reserves(w, r) \in Nat /\ Reserves(w, r)' \in Nat
  BY <1>1 DEF Owes, Reserves, HandlersOK, Locals
<1>3. PICK counted \in Int : counted = Owes(w, r)' - Owes(w, r)
  BY <1>2
<1>4. Cardinality(guests[r]) \in Nat /\ score[r] \in Int
  BY GuestTypes
<1>5. Cardinality(guests'[r]) <= Cardinality(guests[r]) + 0
  BY <1>4
<1>6. score'[r] + Owes(w, r)' = score[r] + Owes(w, r) + counted
  BY <1>2, <1>3, <1>4
<1>7. 0 + Reserves(w, r)' <= counted + Reserves(w, r)
  BY <1>2, <1>3
<1> QED
  BY <1>5, <1>6, <1>7, BalanceKept

\* The room another handler is about to list stays its own when Twilio
\* creates a room.
LEMMA CreatedElsewhere ==
  ASSUME TypeOK, RoomsKnown, NEW q \in Rooms, TwilioCreate(q),
         pool' = pool \/ pool' = Append(pool, q), UNCHANGED <<score, listed>>,
         paired \subseteq paired',
         NEW v \in Workers, pc'[v] = pc[v], loc'[v] = loc[v],
         NEW r \in Rooms, Listing(v, r), r \notin tainted,
         guests'[r] = guests[r],
         \A u \in Workers \ {v} : Has(u, r)' => Has(u, r)
  PROVE  OwnRoom(v, r)' /\ r # q
<1>0. /\ pool \in Seq(Rooms) /\ q \notin created /\ created' = created \cup {q}
  BY DEF TypeOK, RoomsOK, TwilioCreate
<1>1. OwnRoom(v, r)
  BY DEF RoomsKnown, OwnRooms, Listing
<1>2. r # q
  BY <1>0, <1>1 DEF OwnRoom
<1>3. pc[v] = "pairsZadd" => \A i \in DOMAIN pool' : pool'[i] # r
  <2>1. CASE pool' = pool
    BY <1>1, <2>1 DEF OwnRoom
  <2>2. CASE pool' = Append(pool, q)
    <3>1. /\ DOMAIN pool = 1..Len(pool) /\ Len(pool) \in Nat
          /\ DOMAIN pool' = 1..(Len(pool) + 1)
          /\ pool'[Len(pool) + 1] = q
          /\ \A i \in DOMAIN pool : pool'[i] = pool[i]
      BY <1>0, <2>2
    <3> QED
      BY <1>1, <1>2, <3>1 DEF OwnRoom
  <2> QED
    BY <2>1, <2>2
<1>4. OwnRoom(v, r)'
  BY <1>0, <1>1, <1>3 DEF OwnRoom
<1> QED
  BY <1>2, <1>4

\* Balance and own rooms after a command that creates a room.
LEMMA CreationOwn ==
  ASSUME TypeOK, TypeOK', RoomsKnown, NEW w \in Workers, Ends(w) \/ Stays(w),
         \A v \in Workers \ {w} : pc'[v] = pc[v] /\ loc'[v] = loc[v],
         NEW q \in Rooms, TwilioCreate(q), pool' = Append(pool, q),
         UNCHANGED <<score, listed, guests, tainted, paired>>
  PROVE  FreshRooms' /\ OwnRooms' /\ Balanced'
<1>0. Counting(pc[w], loc[w]) /\ HandlersOK
  BY DEF TypeOK, RoomsKnown, CountsKnown
<1>1. \A r \in Rooms : /\ Has(w, r)' => Has(w, r)
                       /\ Owes(w, r) <= Owes(w, r)' /\ Reserves(w, r)' <= Reserves(w, r)
  BY <1>0, QuietDebts
<1>2. \A v \in Workers : \A r \in Rooms : Has(v, r)' => Has(v, r)
  BY <1>1 DEF Has
<1>3. \A v \in Workers : ~Has(v, q)
  BY DEF RoomsKnown, FreshRooms, Unused, TwilioCreate
<1>4. FreshRooms'
  BY <1>2, <1>3, RoomCreated
<1>5. OwnRooms'
  <2> SUFFICES ASSUME NEW v \in Workers, pc'[v] \in {"pairsZadd", "switchZadd"},
                      loc'[v].room \notin tainted'
               PROVE  OwnRoom(v, loc[v].room)'
    BY DEF OwnRooms
  <2>1. v # w
    BY DEF Ends, Stays, Lists
  <2>2. PICK r : r = loc[v].room
    OBVIOUS
  <2>3. Listing(v, r) /\ r \notin tainted /\ loc'[v].room = r
    BY <2>1, <2>2 DEF Listing
  <2>4. OwnRoom(v, r)
    BY <2>3 DEF RoomsKnown, OwnRooms, Listing
  <2>5. r \in Rooms
    BY <2>4 DEF OwnRoom, TypeOK, TwilioOK
  <2>6. OwnRoom(v, r)'
    BY <1>2, <2>1, <2>3, <2>5, CreatedElsewhere
  <2> QED
    BY <2>3, <2>6 DEF OwnRoom, Has
<1>6. Balanced'
  <2> SUFFICES ASSUME NEW r \in Rooms, r \notin tainted'
               PROVE  Cardinality(guests'[r]) + Reserved(r)' <= score'[r] + Uncounted(r)'
    BY DEF Balanced, Reserved, Uncounted, Owes, Reserves
  <2> QED
    BY <1>1, BalanceQuiet
<1> QED
  BY <1>4, <1>5, <1>6

\* A promise of createRooms.
LEMMA CreateOneRooms ==
  ASSUME TypeOK, TypeOK', LocalsInUse, RoomsKnown, NEW w \in Workers, CreateOne(w),
         \A v \in Workers \ {w} : pc'[v] = pc[v] /\ loc'[v] = loc[v]
  PROVE  RoomsHold(w)
<1>l. PICK l : l = loc[w]
  OBVIOUS
<1>m. PICK m : m = [l EXCEPT !.todo = l.todo - 1]
  OBVIOUS
<1>0. HandlersOK /\ l \in Locals /\ Counting(pc[w], l)
  BY <1>l DEF TypeOK, HandlersOK, RoomsKnown, CountsKnown
<1>1. /\ pc[w] = "createOne"
      /\ \/ JobDone(w)
         \/ HangUp(w)
         \/ Bind(w, m) /\ UNCHANGED pc
  <2>1. CASE FinishesAt(l.n, l.n - (l.todo - 1))
    <3>1. pc[w] = "createOne" /\ JobDone(w)
      BY <1>l, <2>1 DEF CreateOne
    <3> QED
      BY <3>1
  <2>2. CASE ~FinishesAt(l.n, l.n - (l.todo - 1))
    <3>1. /\ pc[w] = "createOne"
          /\ \/ HangUp(w)
             \/ Bind(w, m) /\ UNCHANGED pc
      BY <1>l, <1>m, <2>2 DEF CreateOne
    <3> QED
      BY <3>1
  <2> QED
    BY <2>1, <2>2
<1>2. m.room = l.room /\ m.rooms = l.rooms /\ m.incs = l.incs
  BY <1>0, <1>m DEF Locals
<1>3. \/ pc'[w] \in {"idle", "hung"} /\ loc'[w] = NoLoc
      \/ pc'[w] = "createOne" /\ loc'[w] = m
  BY <1>0, <1>1, Effects
<1>4. Ends(w) \/ Stays(w)
  BY <1>l, <1>1, <1>2, <1>3 DEF Ends, Stays, SameRoom, Lists, Counts
<1>5. Counting(pc'[w], loc'[w])
  BY <1>0, <1>1, <1>2, <1>3 DEF Counting, NoLoc
<1>6. PICK q \in Rooms : TwilioCreate(q) /\ pool' = Append(pool, q)
  BY DEF CreateOne
<1>7. UNCHANGED <<score, listed, guests, tainted, paired>>
  BY DEF CreateOne, zset, history, roomHistory
<1>8. FreshRooms' /\ OwnRooms' /\ Balanced'
  BY <1>4, <1>6, <1>7, CreationOwn
<1> QED
  BY <1>5, <1>8 DEF RoomsHold

\* createRoomAndSave for a switched pair.
LEMMA SwitchCreateRooms ==
  ASSUME TypeOK, TypeOK', LocalsInUse, RoomsKnown, NEW w \in Workers, SwitchCreate(w),
         \A v \in Workers \ {w} : pc'[v] = pc[v] /\ loc'[v] = loc[v]
  PROVE  RoomsHold(w)
<1>l. PICK l : l = loc[w]
  OBVIOUS
<1>0. HandlersOK /\ l \in Locals /\ Counting(pc[w], l)
  BY <1>l DEF TypeOK, HandlersOK, RoomsKnown, CountsKnown
<1>1. PICK q \in Rooms : /\ TwilioCreate(q) /\ pool' = Append(pool, q)
                         /\ paired' = paired \cup {q} /\ Bind(w, [l EXCEPT !.room = q])
  BY <1>l DEF SwitchCreate
<1>2. pc[w] = "switchCreate" /\ pc'[w] = "switchZadd" /\ loc'[w] = [l EXCEPT !.room = q]
  BY <1>0, <1>1, Effects DEF SwitchCreate
<1>3. l.incs = 0
  BY <1>0, <1>2 DEF Counting
<1>4. loc'[w].room = q /\ loc'[w].rooms = l.rooms /\ loc'[w].incs = 0
  BY <1>0, <1>2, <1>3 DEF Locals
<1>5. UNCHANGED <<score, listed, guests, tainted>>
  BY DEF SwitchCreate, zset
<1>6. \A r \in Rooms \ {q}, v \in Workers : Has(v, r)' => Has(v, r)
  <2>1. \A r \in Rooms \ {q} : Has(w, r)' => Has(w, r)
    BY <1>l, <1>4 DEF Has
  <2>2. \A v \in Workers \ {w}, r \in Rooms : Has(v, r)' => Has(v, r)
    BY DEF Has
  <2> QED
    BY <2>1, <2>2
<1>7. FreshRooms'
  BY <1>1, <1>5, <1>6, RoomCreated
<1>8. Unused(q) /\ q \in created'
  BY <1>1 DEF RoomsKnown, FreshRooms, TwilioCreate
<1>9. OwnRooms'
  <2> SUFFICES ASSUME NEW v \in Workers, pc'[v] \in {"pairsZadd", "switchZadd"},
                      loc'[v].room \notin tainted'
               PROVE  OwnRoom(v, loc[v].room)'
    BY DEF OwnRooms
  <2>1. CASE v = w
    <3>1. \A u \in Workers \ {w} : ~Has(u, q)'
      BY <1>8 DEF Unused, Has
    <3>2. OwnRoom(w, q)'
      BY <1>1, <1>2, <1>5, <1>8, <3>1 DEF OwnRoom, Unused
    <3> QED
      BY <1>4, <2>1, <3>2 DEF OwnRoom, Has
  <2>2. CASE v # w
    <3>1. PICK r : r = loc[v].room
      OBVIOUS
    <3>2. Listing(v, r) /\ r \notin tainted /\ loc'[v].room = r
      BY <1>5, <2>2, <3>1 DEF Listing
    <3>3. OwnRoom(v, r)
      BY <3>2 DEF RoomsKnown, OwnRooms, Listing
    <3>4. r \in Rooms /\ r # q
      BY <1>1, <3>3 DEF OwnRoom, TypeOK, TwilioOK, TwilioCreate
    <3>5. \A u \in Workers : Has(u, r)' => Has(u, r)
      BY <1>6, <3>4
    <3>6. OwnRoom(v, r)'
      BY <1>1, <1>5, <2>2, <3>2, <3>4, <3>5, CreatedElsewhere
    <3> QED
      BY <3>2, <3>6 DEF OwnRoom, Has
  <2> QED
    BY <2>1, <2>2
<1>10. Balanced'
  <2> SUFFICES ASSUME NEW r \in Rooms, r \notin tainted'
               PROVE  Cardinality(guests'[r]) + Reserved(r)' <= score'[r] + Uncounted(r)'
    BY DEF Balanced, Reserved, Uncounted, Owes, Reserves
  <2>1. Owes(w, r) = 0 /\ Owes(w, r)' = 0 /\ Reserves(w, r) = 0 /\ Reserves(w, r)' = 0
    BY <1>l, <1>2, <1>3, <1>4 DEF Owes, Reserves
  <2> QED
    BY <1>5, <2>1, BalanceQuiet
<1>11. Counting(pc'[w], loc'[w])
  BY <1>2, <1>4 DEF Counting
<1> QED
  BY <1>7, <1>9, <1>10, <1>11 DEF RoomsHold

\* At most as many members as entries.
LEMMA FewMembers ==
  ASSUME NEW S, NEW list \in Seq(S)
  PROVE  IsFiniteSet(ToSet(list)) /\ Cardinality(ToSet(list)) <= Len(list)
         /\ Cardinality(ToSet(list)) \in Nat
<1>1. DOMAIN list = 1..Len(list) /\ Len(list) \in Nat
  OBVIOUS
<1>2. IsFiniteSet(1..Len(list)) /\ Cardinality(1..Len(list)) = Len(list)
  BY <1>1, FS_Interval
<1>3. PICK f : f = [i \in 1..Len(list) |-> list[i]]
  OBVIOUS
<1>4. f \in Surjection(1..Len(list), ToSet(list))
  BY <1>1, <1>3 DEF Surjection, ToSet
<1> QED
  BY <1>2, <1>4, FS_Surjection, FS_CardinalityType

\* sendRoomToPairs takes a room that nobody uses, unless it is tainted from
\* then on.
LEMMA PairsRoomRooms ==
  ASSUME TypeOK, TypeOK', LocalsInUse, RoomsKnown, NEW w \in Workers, PairsRoom(w),
         \A v \in Workers \ {w} : pc'[v] = pc[v] /\ loc'[v] = loc[v]
  PROVE  RoomsHold(w)
<1>l. PICK l : l = loc[w]
  OBVIOUS
<1>0. /\ HandlersOK /\ l \in Locals /\ Counting(pc[w], l)
      /\ pool \in Seq(Rooms) /\ \A i \in DOMAIN pool : pool[i] \in Rooms
  BY <1>l DEF TypeOK, HandlersOK, RoomsKnown, CountsKnown, RoomsOK
<1>1. PICK q \in Rooms :
        /\ \/ pool # <<>> /\ q = Head(pool) /\ pool' = Tail(pool) /\ UNCHANGED created
           \/ pool = <<>> /\ TwilioCreate(q) /\ UNCHANGED pool
        /\ SendRoom(ToSet(l.ids), q)
        /\ Bind(w, [l EXCEPT !.room = q, !.ids = <<>>])
        /\ tainted' = tainted \cup ({q} \cap paired)
  BY <1>l DEF PairsRoom, PoolRest
<1>2. PICK m : m = [l EXCEPT !.room = q, !.ids = <<>>]
  OBVIOUS
<1>3. pc[w] = "pairsRoom" /\ pc'[w] = "pairsZadd" /\ loc'[w] = m
  BY <1>0, <1>1, <1>2, Effects DEF PairsRoom
<1>4. l.incs = 0 /\ Len(l.ids) <= 2
  BY <1>0, <1>3 DEF Counting
<1>5. m.room = q /\ m.rooms = l.rooms /\ m.incs = 0
  BY <1>0, <1>2, <1>4 DEF Locals
<1>6. UNCHANGED <<score, listed, paired>>
  BY DEF PairsRoom, zset
\* What is left of the pool, and where it was.
<1>7. \A i \in DOMAIN pool' : /\ pool'[i] # q
                              /\ \E j \in DOMAIN pool : pool'[i] = pool[j]
  <2>1. CASE pool # <<>>
    <3>1. /\ DOMAIN pool = 1..Len(pool) /\ Len(pool) \in Nat \ {0} /\ q = pool[1]
          /\ DOMAIN pool' = 1..(Len(pool) - 1)
          /\ \A i \in DOMAIN pool' : pool'[i] = pool[i + 1]
      BY <1>0, <1>1, <2>1
    <3>2. \A i \in DOMAIN pool' : i + 1 \in DOMAIN pool /\ i + 1 # 1 /\ 1 \in DOMAIN pool
      BY <3>1
    <3>3. NoDuplicates(pool)
      BY DEF RoomsKnown, FreshRooms
    <3> QED
      BY <3>1, <3>2, <3>3 DEF NoDuplicates
  <2>2. CASE pool = <<>>
    BY <1>1, <2>2
  <2> QED
    BY <2>1, <2>2
<1>8. NoDuplicates(pool')
  <2>1. CASE pool # <<>>
    <3>1. /\ DOMAIN pool = 1..Len(pool) /\ Len(pool) \in Nat \ {0}
          /\ DOMAIN pool' = 1..(Len(pool) - 1)
          /\ \A i \in DOMAIN pool' : pool'[i] = pool[i + 1]
      BY <1>0, <1>1, <2>1
    <3>2. \A i \in DOMAIN pool' : i + 1 \in DOMAIN pool
      BY <3>1
    <3>3. NoDuplicates(pool)
      BY DEF RoomsKnown, FreshRooms
    <3> QED
      BY <3>1, <3>2, <3>3 DEF NoDuplicates
  <2>2. CASE pool = <<>>
    BY <1>1, <2>2 DEF RoomsKnown, FreshRooms
  <2> QED
    BY <2>1, <2>2
<1>9. /\ created \subseteq created' /\ q \in created'
      /\ q \notin paired => Unused(q)
      /\ q \in created => \E j \in DOMAIN pool : q = pool[j]
  <2>1. CASE pool # <<>>
    <3>1. 1 \in DOMAIN pool /\ q = pool[1] /\ UNCHANGED created
      BY <1>0, <1>1, <2>1
    <3>2. pool[1] \in created /\ (pool[1] \in paired \/ Unused(pool[1]))
      BY <3>1 DEF RoomsKnown, FreshRooms
    <3> QED
      BY <3>1, <3>2
  <2>2. CASE pool = <<>>
    BY <1>1, <2>2 DEF RoomsKnown, FreshRooms, TwilioCreate
  <2> QED
    BY <2>1, <2>2
<1>10. \A r \in Rooms \ {q} : guests'[r] = guests[r]
  <2>1. guests \in [Rooms -> SUBSET Sockets]
    BY DEF TypeOK, TwilioOK
  <2> QED
    BY <1>1, <2>1 DEF SendRoom
<1>11. \A r \in Rooms \ {q}, v \in Workers : Has(v, r)' => Has(v, r)
  <2>1. \A r \in Rooms \ {q} : Has(w, r)' => Has(w, r)
    BY <1>l, <1>3, <1>5 DEF Has
  <2>2. \A v \in Workers \ {w}, r \in Rooms : Has(v, r)' => Has(v, r)
    BY DEF Has
  <2> QED
    BY <2>1, <2>2
<1>12. \A r \in Rooms \ {q} : Unused(r) => Unused(r)'
  BY <1>6, <1>10, <1>11 DEF Unused
<1>13. FreshRooms'
  <2>1. \A r \in Rooms \ created' : Unused(r)'
    BY <1>9, <1>12 DEF RoomsKnown, FreshRooms
  <2>2. ASSUME NEW i \in DOMAIN pool'
        PROVE  pool'[i] \in created' /\ (pool'[i] \in paired' \/ Unused(pool[i])')
    <3>1. PICK r : r = pool'[i]
      OBVIOUS
    <3>2. r \in Rooms \ {q} /\ r \in created /\ (r \in paired \/ Unused(r))
      BY <1>0, <1>7, <3>1 DEF RoomsKnown, FreshRooms
    <3>3. Unused(r)' => Unused(pool[i])'
      BY <3>1 DEF Unused, Has
    <3> QED
      BY <1>6, <1>9, <1>12, <3>1, <3>2, <3>3
  <2>3. paired' \subseteq created'
    BY <1>6, <1>9 DEF RoomsKnown, FreshRooms
  <2> QED
    BY <1>8, <2>1, <2>2, <2>3 DEF FreshRooms
<1>14. Cardinality(guests'[q]) <= Cardinality(guests[q]) + 2
  <2>1. guests'[q] = guests[q] \cup (ToSet(l.ids) \cap online)
    BY <1>1 DEF SendRoom, TypeOK, TwilioOK
  <2>2. PICK new : new = ToSet(l.ids) \cap online
    OBVIOUS
  <2>3. l.ids \in Seq(Sockets)
    BY <1>0 DEF Locals
  <2>4. /\ IsFiniteSet(ToSet(l.ids)) /\ Cardinality(ToSet(l.ids)) <= Len(l.ids)
        /\ Cardinality(ToSet(l.ids)) \in Nat
    BY <2>3, FewMembers
  <2>5. IsFiniteSet(new) /\ Cardinality(new) <= Cardinality(ToSet(l.ids))
    BY <2>2, <2>4, FS_Intersection
  <2>6. IsFiniteSet(guests[q]) /\ Cardinality(guests[q]) \in Nat
    BY GuestTypes
  <2>7. Cardinality(guests[q] \cup new)
          = Cardinality(guests[q]) + Cardinality(new) - Cardinality(guests[q] \cap new)
    BY <2>5, <2>6, FS_Union
  <2>8. Cardinality(guests[q] \cap new) \in Nat
    BY <2>6, FS_Intersection, FS_CardinalityType
  <2>9. Cardinality(new) \in Nat /\ Len(l.ids) \in Nat
    BY <2>3, <2>5, FS_CardinalityType
  <2>10. Cardinality(guests'[q]) = Cardinality(guests[q] \cup new)
    BY <2>1, <2>2
  <2> QED
    BY <1>4, <2>4, <2>5, <2>6, <2>7, <2>8, <2>9, <2>10
<1>15. OwnRooms'
  <2> SUFFICES ASSUME NEW v \in Workers, pc'[v] \in {"pairsZadd", "switchZadd"},
                      loc'[v].room \notin tainted'
               PROVE  OwnRoom(v, loc[v].room)'
    BY DEF OwnRooms
  <2>1. CASE v = w
    <3>1. q \notin tainted' /\ loc'[v].room = q
      BY <1>3, <1>5, <2>1
    <3>2. Unused(q)
      BY <1>1, <1>9, <3>1
    <3>3. score[q] = 0 /\ q \notin listed /\ Cardinality(guests[q]) = 0
      BY <3>2, FS_EmptySet DEF Unused
    <3>4. \A u \in Workers \ {w} : ~Has(u, q)'
      BY <3>2 DEF Unused, Has
    <3>5. Cardinality(guests'[q]) <= 2 + score'[q] /\ score'[q] <= 0 /\ q \notin listed'
      BY <1>6, <1>14, <3>3
    <3>6. OwnRoom(w, q)'
      BY <1>3, <1>7, <1>9, <3>4, <3>5 DEF OwnRoom
    <3> QED
      BY <2>1, <3>1, <3>6 DEF OwnRoom, Has
  <2>2. CASE v # w
    <3>1. PICK r : r = loc[v].room
      OBVIOUS
    <3>2. Listing(v, r) /\ r \notin tainted /\ loc'[v].room = r /\ r \notin tainted'
      BY <1>1, <2>2, <3>1 DEF Listing
    <3>3. OwnRoom(v, r)
      BY <3>2 DEF RoomsKnown, OwnRooms, Listing
    <3>4. r \in Rooms /\ r \in created
      BY <3>3 DEF OwnRoom, TypeOK, TwilioOK
    <3>5. r # q
      <4>1. CASE pc[v] = "pairsZadd"
        BY <1>9, <3>3, <3>4, <4>1 DEF OwnRoom
      <4>2. CASE pc[v] = "switchZadd"
        BY <1>1, <3>2, <3>3, <4>2 DEF OwnRoom
      <4> QED
        BY <3>2, <4>1, <4>2 DEF Listing
    <3>6. \A u \in Workers \ {v} : ~Has(u, r)'
      BY <1>11, <3>3, <3>4, <3>5 DEF OwnRoom
    <3>7. guests'[r] = guests[r]
      BY <1>10, <3>4, <3>5
    <3>8. pc[v] = "pairsZadd" => \A i \in DOMAIN pool' : pool'[i] # r
      BY <1>7, <3>3 DEF OwnRoom
    <3>9. pc'[v] = pc[v]
      BY <2>2
    <3>10. OwnRoom(v, r)'
      BY <1>6, <1>9, <3>3, <3>4, <3>6, <3>7, <3>8, <3>9 DEF OwnRoom
    <3> QED
      BY <3>2, <3>10 DEF OwnRoom, Has
  <2> QED
    BY <2>1, <2>2
<1>16. Balanced'
  <2> SUFFICES ASSUME NEW r \in Rooms, r \notin tainted'
               PROVE  Cardinality(guests'[r]) + Reserved(r)' <= score'[r] + Uncounted(r)'
    BY DEF Balanced, Reserved, Uncounted, Owes, Reserves
  <2>0. r \notin tainted
    BY <1>1
  <2>1. Owes(w, r) = 0 /\ Reserves(w, r) = 0 /\ Reserves(w, r)' = 0
        /\ Owes(w, r)' = IF r = q THEN 2 ELSE 0
    BY <1>l, <1>3, <1>4, <1>5 DEF Owes, Reserves
  <2>2. CASE r = q
    <3>1. score'[q] + Owes(w, q)' = score[q] + Owes(w, q) + 2
      <4>1. score[q] \in Int
        BY GuestTypes
      <4> QED
        BY <1>6, <2>1, <2>2, <4>1
    <3>2. 2 + Reserves(w, q)' <= 2 + Reserves(w, q)
      BY <2>1, <2>2
    <3> QED
      BY <1>14, <2>0, <2>2, <3>1, <3>2, BalanceKept
  <2>3. CASE r # q
    BY <1>6, <1>10, <2>0, <2>1, <2>3, BalanceQuiet
  <2> QED
    BY <2>2, <2>3
<1>17. Counting(pc'[w], loc'[w])
  BY <1>3, <1>5 DEF Counting
<1> QED
  BY <1>13, <1>15, <1>16, <1>17 DEF RoomsHold

\* clearExpiredRooms drops the pool, and rooms whose score is zero.
LEMMA ClearingRooms ==
  ASSUME TypeOK, TypeOK', LocalsInUse, RoomsKnown, NEW w \in Workers, ClearPool(w) \/ ClearRooms(w),
         \A v \in Workers \ {w} : pc'[v] = pc[v] /\ loc'[v] = loc[v]
  PROVE  RoomsHold(w)
<1>1. /\ (Ends(w) \/ Stays(w)) /\ Counting(pc'[w], loc'[w])
      /\ Counting(pc[w], loc[w])
  <2>1. Counting(pc[w], loc[w])
    BY DEF RoomsKnown, CountsKnown
  <2>2. Quietly(w)
    BY DEF Quietly
  <2> QED
    BY <2>1, <2>2, QuietMoves
<1>2. \A r \in Rooms : /\ Has(w, r)' => Has(w, r)
                       /\ Owes(w, r) <= Owes(w, r)' /\ Reserves(w, r)' <= Reserves(w, r)
  BY <1>1, QuietDebts
<1>3. \A v \in Workers, r \in Rooms : Has(v, r)' => Has(v, r)
  BY <1>2 DEF Has
<1>4. /\ \A r \in Rooms : score'[r] = score[r]
      /\ listed' \subseteq listed /\ UNCHANGED <<guests, created, paired, tainted>>
      /\ pool' = pool \/ pool' = <<>>
  <2>1. CASE ClearPool(w)
    BY <2>1 DEF ClearPool, zset, twilio, history, roomHistory
  <2>2. CASE ClearRooms(w)
    <3>1. \A r \in Rooms : score[r] \in Int
      BY GuestTypes
    <3>2. \A r \in Expired : score[r] = 0 /\ r \in Rooms
      BY <3>1 DEF Expired, InRange, TypeOK, RoomsOK
    <3>3. /\ \A r \in Rooms : score'[r] = IF r \in Expired THEN 0 ELSE score[r]
          /\ listed' = listed \ Expired
          /\ UNCHANGED <<guests, created, paired, tainted, pool>>
      BY <2>2 DEF ClearRooms, twilio, history, roomHistory
    <3> QED
      BY <3>2, <3>3
  <2> QED
    BY <2>1, <2>2
<1>5. \A r \in Rooms : Unused(r) => Unused(r)'
  BY <1>3, <1>4 DEF Unused
<1>6. FreshRooms'
  <2>1. NoDuplicates(pool')
    BY <1>4 DEF RoomsKnown, FreshRooms, NoDuplicates
  <2>2. ASSUME NEW i \in DOMAIN pool'
        PROVE  pool'[i] \in created' /\ (pool'[i] \in paired' \/ Unused(pool[i])')
    <3>1. PICK r : r = pool'[i]
      OBVIOUS
    <3>2. pool' = pool
      BY <1>4
    <3>3. r \in Rooms /\ r \in created /\ (r \in paired \/ Unused(r))
      BY <3>1, <3>2 DEF RoomsKnown, FreshRooms, TypeOK, RoomsOK
    <3>4. Unused(r)' => Unused(pool[i])'
      BY <3>1 DEF Unused, Has
    <3> QED
      BY <1>4, <1>5, <3>1, <3>3, <3>4
  <2>3. paired' \subseteq created' /\ \A r \in Rooms \ created' : Unused(r)'
    BY <1>4, <1>5 DEF RoomsKnown, FreshRooms
  <2> QED
    BY <2>1, <2>2, <2>3 DEF FreshRooms
<1>7. OwnRooms'
  <2> SUFFICES ASSUME NEW v \in Workers, pc'[v] \in {"pairsZadd", "switchZadd"},
                      loc'[v].room \notin tainted'
               PROVE  OwnRoom(v, loc[v].room)'
    BY DEF OwnRooms
  <2>1. v # w
    BY <1>1 DEF Ends, Stays, Lists
  <2>2. PICK r : r = loc[v].room
    OBVIOUS
  <2>3. /\ pc'[v] = pc[v] /\ loc'[v].room = r /\ OwnRoom(v, r)
    BY <1>4, <2>1, <2>2 DEF RoomsKnown, OwnRooms
  <2>4. r \in Rooms
    BY <2>3 DEF OwnRoom, TypeOK, TwilioOK
  <2>5. \A i \in DOMAIN pool' : i \in DOMAIN pool /\ pool'[i] = pool[i]
    BY <1>4
  <2>6. OwnRoom(v, r)'
    BY <1>3, <1>4, <2>3, <2>4, <2>5 DEF OwnRoom
  <2> QED
    BY <2>3, <2>6 DEF OwnRoom, Has
<1>8. Balanced'
  <2> SUFFICES ASSUME NEW r \in Rooms, r \notin tainted'
               PROVE  Cardinality(guests'[r]) + Reserved(r)' <= score'[r] + Uncounted(r)'
    BY DEF Balanced, Reserved, Uncounted, Owes, Reserves
  <2> QED
    BY <1>2, <1>4, BalanceQuiet
<1> QED
  BY <1>1, <1>6, <1>7, <1>8 DEF RoomsHold

-----------------------------------------------------------------------------
\* Every step

\* A room that is not listed has no score: ZINCRBY would start from zero.
Unscored == \A r \in Rooms \ listed : score[r] = 0

\* A score is set on a room that is listed then.
LEMMA SetUnscored ==
  ASSUME RoomsOK, Unscored, NEW r \in Rooms, NEW value \in Int, ZSet(r, value)
  PROVE  Unscored'
<1>1. /\ listed' = listed \cup {r}
      /\ \A q \in Rooms \ {r} : score'[q] = score[q]
  BY ScoreSet DEF ZSet
<1> QED
  BY <1>1 DEF Unscored

\* So do the commands of every handler.
LEMMA HandlerUnscored ==
  ASSUME TypeOK, LocalsInUse, Unscored, NEW w \in Workers, Handler(w)
  PROVE  Unscored'
<1>0. RoomsOK /\ InUse(pc[w], loc[w]) /\ \A r \in Rooms : score[r] \in Int
  BY DEF TypeOK, LocalsInUse, RoomsOK
<1>1. CASE FindIncr(w) \/ SwitchIncr(w)
  <2>1. loc[w].room \in Rooms
    BY <1>0, <1>1 DEF FindIncr, SwitchIncr, InUse
  <2>2. ZSet(loc[w].room, score[loc[w].room] + 1)
    BY <1>1 DEF FindIncr, SwitchIncr
  <2>3. score[loc[w].room] + 1 \in Int
    BY <1>0, <2>1
  <2> QED
    BY <1>0, <2>1, <2>2, <2>3, SetUnscored
<1>2. CASE PairsZadd(w) \/ SwitchZadd(w)
  <2>1. loc[w].room \in Rooms
    BY <1>0, <1>2 DEF PairsZadd, SwitchZadd, InUse
  <2>2. ZSet(loc[w].room, 2) \/ ZSet(loc[w].room, 0)
    BY <1>2 DEF PairsZadd, SwitchZadd, PairScore
  <2> QED
    BY <1>0, <2>1, <2>2, SetUnscored
<1>3. CASE ClearRooms(w)
  <2>1. /\ listed' = listed \ Expired
        /\ score' = [r \in Rooms |-> IF r \in Expired THEN 0 ELSE score[r]]
    BY <1>3 DEF ClearRooms
  <2> QED
    BY <2>1 DEF Unscored
<1>4. ASSUME UNCHANGED <<listed, score>>
      PROVE  Unscored'
  BY <1>4 DEF Unscored
<1>5. CASE \/ FindQueue(w) \/ FindRange(w) \/ FindCheck(w) \/ FindPop(w) \/ FindMore(w)
           \/ PairsLen(w) \/ PairsRange(w) \/ PairsTrim(w)
  BY <1>4, <1>5 DEF FindQueue, FindRange, FindCheck, FindPop, FindMore, PairsLen,
                    PairsRange, PairsTrim, redis, rooms
<1>6. CASE \/ PairsPool(w) \/ PairsRoom(w) \/ PairsError(w)
           \/ SwitchLen(w) \/ SwitchRange(w) \/ SwitchCreate(w) \/ SwitchQueue(w)
           \/ SwitchRooms(w)
  BY <1>4, <1>6 DEF PairsPool, PairsRoom, PairsError, SwitchLen, SwitchRange,
                    SwitchCreate, SwitchQueue, SwitchRooms, redis, rooms, zset
<1>7. CASE \/ SwitchTry(w) \/ SwitchScore(w) \/ SwitchPop(w) \/ SwitchAfter(w)
           \/ CreateStart(w) \/ CreateOne(w) \/ ClearPool(w) \/ ClearAgain(w)
  BY <1>4, <1>7 DEF SwitchTry, SwitchScore, SwitchPop, SwitchAfter, CreateStart,
                    CreateOne, ClearPool, ClearAgain, redis, rooms, zset
<1> QED
  BY <1>1, <1>2, <1>3, <1>5, <1>6, <1>7 DEF Handler

\* A command of a handler keeps what is known of the rooms.
LEMMA HandlerRooms ==
  ASSUME TypeOK, TypeOK', LocalsInUse, RoomsKnown, NEW w \in Workers, Handler(w)
  PROVE  RoomsKnown'
<1>0. HandlersOK /\ Unscored /\ \A v \in Workers : Counting(pc[v], loc[v])
  BY DEF TypeOK, RoomsKnown, CountsKnown, Unscored
<1>1. \A v \in Workers \ {w} : pc'[v] = pc[v] /\ loc'[v] = loc[v]
  BY <1>0, OthersStay
<1>2. ASSUME Quietly(w), ~ClearPool(w), ~ClearRooms(w)
      PROVE  RoomsHold(w)
  <2>1. (Ends(w) \/ Stays(w)) /\ Counting(pc'[w], loc'[w])
    BY <1>0, <1>2, QuietMoves
  <2>2. UNCHANGED <<pool, created, paired, guests, score, listed, tainted>>
    <3>1. CASE FindQueue(w) \/ FindCheck(w) \/ FindMore(w) \/ PairsLen(w) \/ PairsRange(w)
      BY <3>1 DEF FindQueue, FindCheck, FindMore, PairsLen, PairsRange, redis, rooms,
                  twilio, history, roomHistory
    <3>2. CASE PairsTrim(w) \/ PairsPool(w) \/ PairsError(w) \/ SwitchLen(w) \/ SwitchRange(w)
      BY <3>2 DEF PairsTrim, PairsPool, PairsError, SwitchLen, SwitchRange, redis, rooms,
                  twilio, history, roomHistory
    <3>3. CASE SwitchQueue(w) \/ SwitchPop(w) \/ SwitchAfter(w) \/ CreateStart(w) \/ ClearAgain(w)
      BY <3>3 DEF SwitchQueue, SwitchPop, SwitchAfter, CreateStart, ClearAgain, redis, rooms,
                  twilio, history, roomHistory
    <3> QED
      BY <1>2, <3>1, <3>2, <3>3 DEF Quietly
  <2>3. FreshRooms' /\ OwnRooms' /\ Balanced'
    BY <1>1, <2>1, <2>2, QuietStep
  <2> QED
    BY <2>1, <2>3 DEF RoomsHold
<1>3. RoomsHold(w)
  <2>1. CASE FindRange(w) \/ SwitchRooms(w) \/ SwitchTry(w)
    BY <1>1, <2>1, RangeRooms
  <2>2. CASE FindIncr(w) \/ FindPop(w)
    BY <1>1, <2>2, FindRooms
  <2>3. CASE PairsZadd(w) \/ SwitchZadd(w)
    BY <1>1, <2>3, ListingRooms
  <2>4. CASE SwitchScore(w) \/ SwitchIncr(w)
    BY <1>1, <2>4, MovingRooms
  <2>5. CASE CreateOne(w)
    BY <1>1, <2>5, CreateOneRooms
  <2>6. CASE SwitchCreate(w)
    BY <1>1, <2>6, SwitchCreateRooms
  <2>7. CASE PairsRoom(w)
    BY <1>1, <2>7, PairsRoomRooms
  <2>8. CASE ClearPool(w) \/ ClearRooms(w)
    BY <1>1, <2>8, ClearingRooms
  <2>9. CASE Quietly(w)
    BY <1>2, <2>8, <2>9
  <2> QED
    BY <2>1, <2>2, <2>3, <2>4, <2>5, <2>6, <2>7, <2>9 DEF Handler, Quietly
<1>4. Unscored'
  BY <1>0, HandlerUnscored
<1>5. \A v \in Workers : Counting(pc'[v], loc'[v])
  <2>1. Counting(pc'[w], loc'[w])
    BY <1>3 DEF RoomsHold
  <2> QED
    BY <1>0, <1>1, <2>1
<1>6. CountsKnown'
  BY <1>4, <1>5 DEF CountsKnown, Unscored
<1> QED
  BY <1>3, <1>6 DEF RoomsKnown, RoomsHold

\* So does what Bull and redis-lock do to a slot: a handler that dies while
\* its room is not counted taints it.
LEMMA WorkerRooms ==
  ASSUME TypeOK, TypeOK', LocalsInUse, RoomsKnown, NEW w \in Workers,
         Take(w) \/ Acquire(w) \/ Timeout(w) \/ Crash(w)
  PROVE  RoomsKnown'
<1>l. PICK l : l = loc[w]
  OBVIOUS
<1>0. /\ HandlersOK /\ Unscored /\ \A v \in Workers : Counting(pc[v], loc[v])
      /\ l \in Locals /\ InUse(pc[w], l)
  BY <1>l DEF TypeOK, HandlersOK, LocalsInUse, RoomsKnown, CountsKnown, Unscored
<1>1. \A v \in Workers \ {w} : pc'[v] = pc[v] /\ loc'[v] = loc[v]
  BY WorkerUse
<1>2. UNCHANGED <<pool, created, paired, guests, score, listed>> /\ tainted \subseteq tainted'
  BY DEF Take, Acquire, Timeout, Crash, redis, rooms, twilio, history, roomHistory
<1>3. \/ loc'[w] = NoLoc /\ pc'[w] = "idle" /\ Crash(w)
      \/ loc'[w] = NoLoc /\ l = NoLoc /\ pc'[w] \notin Lists \cup {"findPop", "pairsTrim", "pairsPool", "pairsRoom"}
         /\ pc[w] \notin Lists
      \/ loc'[w] = l /\ pc'[w] = pc[w]
  <2>1. CASE Take(w)
    <3>1. PICK j \in JobSet : Goto(w, Entry[j[1]])
      BY <2>1 DEF Take
    <3>2. Entry[j[1]] \in {"createStart", "clearPool", "findLock", "pairsLock", "switchLock"}
      BY DEF JobSet, Names, Entry
    <3>3. pc'[w] = Entry[j[1]] /\ loc'[w] = l /\ pc[w] = "idle"
      BY <1>0, <1>l, <2>1, <3>1, Effects DEF Take
    <3> QED
      BY <1>0, <3>2, <3>3 DEF InUse, Lists
  <2>2. CASE Acquire(w)
    <3>1. /\ pc[w] \in {"findLock", "pairsLock", "switchLock"} /\ UNCHANGED loc
          /\ Goto(w, Locked[pc[w]])
      BY <2>2 DEF Acquire, KeyOf
    <3>2. Locked[pc[w]] \in {"findQueue", "switchLen", "pairsLen"}
      BY <3>1 DEF Locked
    <3>3. pc'[w] = Locked[pc[w]] /\ loc'[w] = l
      BY <1>0, <1>l, <3>1, Effects
    <3> QED
      BY <1>0, <3>1, <3>2, <3>3 DEF InUse, Lists
  <2>3. CASE Timeout(w)
    <3>1. UNCHANGED loc /\ Goto(w, IF pc[w] = "hung" THEN "idle" ELSE pc[w])
      BY <2>3 DEF Timeout
    <3>2. pc'[w] = (IF pc[w] = "hung" THEN "idle" ELSE pc[w]) /\ loc'[w] = l
      BY <1>0, <1>l, <3>1, Effects
    <3>3. CASE pc[w] = "hung"
      BY <1>0, <3>2, <3>3 DEF InUse, Lists
    <3>4. CASE pc[w] # "hung"
      BY <3>2, <3>4
    <3> QED
      BY <3>3, <3>4
  <2>4. CASE Crash(w)
    <3>1. JobDone(w)
      BY <2>4 DEF Crash
    <3> QED
      BY <1>0, <2>4, <3>1, Effects
  <2> QED
    BY <2>1, <2>2, <2>3, <2>4
<1>4. \A r \in Rooms : Has(w, r)' => Has(w, r)
  BY <1>3, <1>l, RoomsAssumption DEF Has, NoLoc
<1>5. \A r \in Rooms \ tainted' : /\ Owes(w, r) <= Owes(w, r)'
                                  /\ Reserves(w, r)' <= Reserves(w, r)
  <2> SUFFICES ASSUME NEW r \in Rooms, r \notin tainted'
               PROVE  Owes(w, r) <= Owes(w, r)' /\ Reserves(w, r)' <= Reserves(w, r)
    OBVIOUS
  <2>0. NoRoom # r /\ Owes(w, r) \in Nat /\ Reserves(w, r) \in Nat
    BY <1>0, RoomsAssumption, DebtTypes
  <2>1. CASE loc'[w] = NoLoc /\ pc'[w] = "idle" /\ Crash(w)
    <3>1. pc[w] \in {"pairsZadd", "switchScore", "switchPop", "switchIncr"} => l.room # r
      BY <1>l, <2>1 DEF Crash
    <3>2. Owes(w, r) = 0
      BY <1>0, <1>l, <3>1 DEF Owes, Counting
    <3>3. Owes(w, r)' = 0 /\ Reserves(w, r)' = 0
      BY <2>0, <2>1 DEF Owes, Reserves, NoLoc
    <3> QED
      BY <2>0, <3>2, <3>3
  <2>2. CASE loc'[w] = NoLoc /\ l = NoLoc
    <3>1. Owes(w, r) = 0 /\ Owes(w, r)' = 0 /\ Reserves(w, r)' = 0
      BY <1>l, <2>0, <2>2 DEF Owes, Reserves, NoLoc
    <3> QED
      BY <2>0, <3>1
  <2>3. CASE loc'[w] = l /\ pc'[w] = pc[w]
    <3>1. Owes(w, r)' = Owes(w, r) /\ Reserves(w, r)' = Reserves(w, r)
      BY <1>l, <2>3 DEF Owes, Reserves
    <3> QED
      BY <2>0, <3>1
  <2> QED
    BY <1>3, <2>1, <2>2, <2>3
<1>6. \/ pc'[w] \notin {"pairsZadd", "switchZadd"}
      \/ pc'[w] = pc[w] /\ loc'[w] = loc[w]
  BY <1>3, <1>l DEF Lists
<1>7. FreshRooms' /\ OwnRooms' /\ Balanced'
  BY <1>1, <1>2, <1>4, <1>5, <1>6, QuietFrame
<1>8. Counting(pc'[w], loc'[w])
  <2>1. Counting(pc[w], l)
    BY <1>0, <1>l
  <2> QED
    BY <1>3, <2>1 DEF Counting, NoLoc
<1>9. CountsKnown'
  <2>1. \A v \in Workers : Counting(pc'[v], loc'[v])
    BY <1>0, <1>1, <1>8
  <2>2. Unscored'
    BY <1>0, <1>2 DEF Unscored
  <2> QED
    BY <2>1, <2>2 DEF CountsKnown, Unscored
<1> QED
  BY <1>7, <1>9 DEF RoomsKnown

\* Steps that touch no room and no handler.
LEMMA OtherRooms ==
  ASSUME RoomsKnown,
         UNCHANGED <<pc, loc, pool, created, paired, guests, score, listed, tainted>>
  PROVE  RoomsKnown'
<1>1. \A w \in Workers, r \in Rooms : Has(w, r)' <=> Has(w, r)
  BY DEF Has
<1>2. FreshRooms'
  BY DEF RoomsKnown, FreshRooms, Unused, Has, NoDuplicates
<1>3. OwnRooms'
  BY DEF RoomsKnown, OwnRooms, OwnRoom, Has
<1>4. Balanced'
  BY DebtsStay DEF RoomsKnown, Balanced
<1>5. CountsKnown'
  BY DEF RoomsKnown, CountsKnown
<1> QED
  BY <1>2, <1>3, <1>4, <1>5 DEF RoomsKnown

\* A guest leaves: the count of its room falls with it.
LEMMA LeavingRooms ==
  ASSUME TypeOK, TypeOK', RoomsKnown, NEW s \in Sockets, NEW r \in Rooms, RoomStatus(s, r)
  PROVE  RoomsKnown'
<1>0. RoomsOK /\ guests \in [Rooms -> SUBSET Sockets] /\ score[r] \in Int
      /\ IsFiniteSet(guests[r]) /\ Cardinality(guests[r]) \in Nat
  BY GuestTypes DEF TypeOK, TwilioOK
<1>1. /\ s \in guests[r] /\ guests' = [guests EXCEPT ![r] = @ \ {s}]
      /\ ZSet(r, score[r] - 1)
      /\ UNCHANGED <<pool, created, paired, tainted, pc, loc>>
  BY DEF RoomStatus, CountLeaving, handlers, history, roomHistory
<1>2. /\ guests'[r] = guests[r] \ {s}
      /\ \A q \in Rooms \ {r} : guests'[q] = guests[q]
  BY <1>0, <1>1
<1>3. score[r] - 1 \in Int
  BY <1>0
<1>4. /\ score'[r] = score[r] - 1 /\ listed' = listed \cup {r}
      /\ \A q \in Rooms \ {r} : score'[q] = score[q]
  BY <1>0, <1>1, <1>3, ScoreSet DEF ZSet
<1>5. Cardinality(guests'[r]) = Cardinality(guests[r]) - 1
  BY <1>0, <1>1, <1>2, FS_RemoveElement
<1>6. ~Unused(r)
  BY <1>1 DEF Unused
<1>7. \A v \in Workers, q \in Rooms : Has(v, q)' <=> Has(v, q)
  BY <1>1 DEF Has
<1>8. \A q \in Rooms : Unused(q) => Unused(q)'
  BY <1>2, <1>4, <1>6, <1>7 DEF Unused
<1>9. FreshRooms'
  <2>1. NoDuplicates(pool')
    BY <1>1 DEF RoomsKnown, FreshRooms, NoDuplicates
  <2>2. ASSUME NEW i \in DOMAIN pool'
        PROVE  pool'[i] \in created' /\ (pool'[i] \in paired' \/ Unused(pool[i])')
    <3>1. PICK q : q = pool'[i]
      OBVIOUS
    <3>2. q \in Rooms /\ q \in created /\ (q \in paired \/ Unused(q))
      BY <1>1, <3>1 DEF RoomsKnown, FreshRooms, TypeOK, RoomsOK
    <3>3. Unused(q)' => Unused(pool[i])'
      BY <3>1 DEF Unused, Has
    <3> QED
      BY <1>1, <1>8, <3>1, <3>2, <3>3
  <2>3. paired' \subseteq created' /\ \A q \in Rooms \ created' : Unused(q)'
    BY <1>1, <1>8 DEF RoomsKnown, FreshRooms
  <2> QED
    BY <2>1, <2>2, <2>3 DEF FreshRooms
<1>10. OwnRooms'
  <2> SUFFICES ASSUME NEW v \in Workers, pc'[v] \in {"pairsZadd", "switchZadd"},
                      loc'[v].room \notin tainted'
               PROVE  OwnRoom(v, loc[v].room)'
    BY DEF OwnRooms
  <2>1. PICK q : q = loc[v].room
    OBVIOUS
  <2>2. pc'[v] = pc[v] /\ loc'[v].room = q /\ OwnRoom(v, q)
    BY <1>1, <2>1 DEF RoomsKnown, OwnRooms
  <2>3. q \in Rooms
    BY <2>2 DEF OwnRoom, TypeOK, TwilioOK
  <2>4. CASE q # r
    <3>1. guests'[q] = guests[q] /\ score'[q] = score[q] /\ (q \in listed' <=> q \in listed)
      BY <1>2, <1>4, <2>3, <2>4
    <3>2. OwnRoom(v, q)'
      BY <1>1, <1>7, <2>2, <2>3, <3>1 DEF OwnRoom
    <3> QED
      BY <2>2, <3>2 DEF OwnRoom, Has
  <2>5. CASE q = r
    <3>1. pc[v] = "pairsZadd"
      BY <1>1, <2>2, <2>5 DEF OwnRoom
    <3>2. /\ score'[r] <= 0 /\ score'[r] < 0
          /\ Cardinality(guests'[r]) <= 2 + score'[r]
      BY <1>0, <1>4, <1>5, <2>2, <2>5, <3>1 DEF OwnRoom
    <3>3. OwnRoom(v, r)'
      BY <1>1, <1>7, <2>2, <2>5, <3>1, <3>2 DEF OwnRoom
    <3> QED
      BY <2>2, <2>5, <3>3 DEF OwnRoom, Has
  <2> QED
    BY <2>4, <2>5
<1>11. Balanced'
  <2> SUFFICES ASSUME NEW q \in Rooms, q \notin tainted'
               PROVE  Cardinality(guests'[q]) + Reserved(q)' <= score'[q] + Uncounted(q)'
    BY DEF Balanced, Reserved, Uncounted, Owes, Reserves
  <2>1. Cardinality(guests[q]) + Reserved(q) <= score[q] + Uncounted(q)
    BY <1>1 DEF RoomsKnown, Balanced
  <2>2. Uncounted(q)' = Uncounted(q) /\ Reserved(q)' = Reserved(q)
    BY <1>1, DebtsStay
  <2>3. CASE q # r
    BY <1>2, <1>4, <2>1, <2>2, <2>3
  <2>4. CASE q = r
    <3>1. Uncounted(q) \in Nat /\ Reserved(q) \in Nat
      <4>1. HandlersOK /\ IsFiniteSet(Workers)
        BY WorkersAssumption DEF TypeOK
      <4>2. PICK f : f = [v \in Workers |-> Owes(v, q)]
        OBVIOUS
      <4>3. PICK g : g = [v \in Workers |-> Reserves(v, q)]
        OBVIOUS
      <4>4. f \in [Workers -> Nat] /\ g \in [Workers -> Nat]
        BY <4>1, <4>2, <4>3, DebtTypes
      <4>5. Total(f) \in Nat /\ Total(g) \in Nat
        BY <4>1, <4>4, ColumnsFinite
      <4> QED
        BY <4>2, <4>3, <4>5 DEF Uncounted, Reserved
    <3> QED
      BY <1>0, <1>4, <1>5, <2>1, <2>2, <2>4, <3>1
  <2> QED
    BY <2>3, <2>4
<1>12. CountsKnown'
  BY <1>1, <1>4 DEF RoomsKnown, CountsKnown
<1> QED
  BY <1>9, <1>10, <1>11, <1>12 DEF RoomsKnown

\* The end of the intermission deletes the pool and the sorted set: rooms that
\* were in it are tainted, the others had no score.
LEMMA EndingRooms ==
  ASSUME TypeOK, TypeOK', RoomsKnown, EndIntermission
  PROVE  RoomsKnown'
<1>1. /\ pool' = <<>> /\ listed' = {} /\ score' = [r \in Rooms |-> 0]
      /\ tainted' = tainted \cup listed
      /\ UNCHANGED <<guests, created, paired, pc, loc>>
  BY DEF EndIntermission, handlers, twilio
<1>2. \A r \in Rooms \ tainted' : score'[r] = score[r] /\ r \notin listed
  BY <1>1 DEF RoomsKnown, CountsKnown
<1>3. \A v \in Workers, q \in Rooms : Has(v, q)' <=> Has(v, q)
  BY <1>1 DEF Has
<1>4. FreshRooms'
  <2>1. \A r \in Rooms \ created' : Unused(r)'
    BY <1>1, <1>3 DEF RoomsKnown, FreshRooms, Unused
  <2>2. DOMAIN pool' = {} /\ NoDuplicates(pool')
    BY <1>1 DEF NoDuplicates
  <2> QED
    BY <1>1, <2>1, <2>2 DEF RoomsKnown, FreshRooms
<1>5. OwnRooms'
  <2> SUFFICES ASSUME NEW v \in Workers, pc'[v] \in {"pairsZadd", "switchZadd"},
                      loc'[v].room \notin tainted'
               PROVE  OwnRoom(v, loc[v].room)'
    BY DEF OwnRooms
  <2>1. PICK q : q = loc[v].room
    OBVIOUS
  <2>2. pc'[v] = pc[v] /\ loc'[v].room = q /\ OwnRoom(v, q) /\ q \notin tainted'
    BY <1>1, <2>1 DEF RoomsKnown, OwnRooms
  <2>3. q \in Rooms
    BY <2>2 DEF OwnRoom, TypeOK, TwilioOK
  <2>4. score'[q] = score[q]
    BY <1>2, <2>2, <2>3
  <2>5. OwnRoom(v, q)'
    BY <1>1, <1>3, <2>2, <2>3, <2>4 DEF OwnRoom
  <2> QED
    BY <2>2, <2>5 DEF OwnRoom, Has
<1>6. Balanced'
  <2> SUFFICES ASSUME NEW q \in Rooms, q \notin tainted'
               PROVE  Cardinality(guests'[q]) + Reserved(q)' <= score'[q] + Uncounted(q)'
    BY DEF Balanced, Reserved, Uncounted, Owes, Reserves
  <2>1. Cardinality(guests[q]) + Reserved(q) <= score[q] + Uncounted(q)
    BY <1>1 DEF RoomsKnown, Balanced
  <2>2. Uncounted(q)' = Uncounted(q) /\ Reserved(q)' = Reserved(q)
    BY <1>1, DebtsStay
  <2>3. guests'[q] = guests[q] /\ score'[q] = score[q]
    BY <1>1, <1>2
  <2> QED
    BY <2>1, <2>2, <2>3
<1>7. CountsKnown'
  BY <1>1 DEF RoomsKnown, CountsKnown
<1> QED
  BY <1>4, <1>5, <1>6, <1>7 DEF RoomsKnown

\* A promise of createRooms that nobody waits for.
LEMMA BackgroundRooms ==
  ASSUME TypeOK, TypeOK', RoomsKnown, Background
  PROVE  RoomsKnown'
<1>1. PICK q \in Rooms : TwilioCreate(q) /\ pool' = Append(pool, q)
  BY DEF Background
<1>2. UNCHANGED <<score, listed, guests, tainted, paired, pc, loc>>
  BY DEF Background, zset, handlers, history, roomHistory
<1>3. \A v \in Workers, r \in Rooms : Has(v, r)' <=> Has(v, r)
  BY <1>2 DEF Has
<1>4. \A v \in Workers : ~Has(v, q)
  BY <1>1 DEF RoomsKnown, FreshRooms, Unused, TwilioCreate
<1>5. FreshRooms'
  BY <1>1, <1>2, <1>3, <1>4, RoomCreated
<1>6. OwnRooms'
  <2> SUFFICES ASSUME NEW v \in Workers, pc'[v] \in {"pairsZadd", "switchZadd"},
                      loc'[v].room \notin tainted'
               PROVE  OwnRoom(v, loc[v].room)'
    BY DEF OwnRooms
  <2>1. PICK r : r = loc[v].room
    OBVIOUS
  <2>2. Listing(v, r) /\ r \notin tainted /\ loc'[v].room = r
    BY <1>2, <2>1 DEF Listing
  <2>3. OwnRoom(v, r)
    BY <2>2 DEF RoomsKnown, OwnRooms, Listing
  <2>4. r \in Rooms
    BY <2>3 DEF OwnRoom, TypeOK, TwilioOK
  <2>5. OwnRoom(v, r)'
    BY <1>1, <1>2, <1>3, <2>2, <2>4, CreatedElsewhere
  <2> QED
    BY <2>2, <2>5 DEF OwnRoom, Has
<1>7. Balanced'
  BY <1>2, DebtsStay DEF RoomsKnown, Balanced
<1>8. CountsKnown'
  BY <1>2 DEF RoomsKnown, CountsKnown
<1> QED
  BY <1>5, <1>6, <1>7, <1>8 DEF RoomsKnown

\* What is known of the rooms is inductive, whatever dies or expires.
LEMMA RoomsStep ==
  ASSUME TypeOK, LocalsInUse, RoomsKnown, [Next]_vars
  PROVE  RoomsKnown'
<1>0. TypeOK'
  BY StepTypes
<1>1. ASSUME NEW w \in Workers, Handler(w)
      PROVE  RoomsKnown'
  BY <1>0, <1>1, HandlerRooms
<1>2. ASSUME NEW w \in Workers, Take(w) \/ Acquire(w) \/ Timeout(w) \/ Crash(w)
      PROVE  RoomsKnown'
  BY <1>0, <1>2, WorkerRooms
<1>3. ASSUME NEW s \in Sockets, NEW r \in Rooms, RoomStatus(s, r)
      PROVE  RoomsKnown'
  BY <1>0, <1>3, LeavingRooms
<1>4. CASE EndIntermission
  BY <1>0, <1>4, EndingRooms
<1>5. CASE Background
  BY <1>0, <1>5, BackgroundRooms
<1>6. ASSUME NEW s \in Sockets,
             RequestRoom(s) \/ PushRequest(s) \/ CancelRequest(s) \/ Disconnect(s)
      PROVE  RoomsKnown'
  BY <1>6, OtherRooms DEF RequestRoom, PushRequest, CancelRequest, Disconnect, handlers,
                          rooms, twilio, history, roomHistory
<1>7. ASSUME NEW s \in Sockets, NEW r \in Rooms,
             RequestSwitch(s, r) \/ PushSwitch([id |-> s, room |-> r])
      PROVE  RoomsKnown'
  BY <1>7, OtherRooms DEF RequestSwitch, PushSwitch, handlers, rooms, twilio, history, roomHistory
<1>8. CASE \/ OnChanged \/ OnSwitch \/ ThreeLengthExpires \/ TimerFires
           \/ (\E key \in LockKeys : Expire(key)) \/ UNCHANGED vars
  <2>1. UNCHANGED <<pc, loc, pool, created, paired, guests, score, listed, tainted>>
    BY <1>8 DEF OnChanged, OnSwitch, ThreeLengthExpires, TimerFires, Expire, vars, redis,
                handlers, rooms, twilio, history, roomHistory
  <2> QED
    BY <2>1, OtherRooms
<1> QED
  BY <1>1, <1>2, <1>3, <1>4, <1>5, <1>6, <1>7, <1>8 DEF Next, Socket

\* At first nothing is created, listed or counted.
LEMMA RoomsInit == Init => RoomsKnown
<1> SUFFICES ASSUME NEW start \in Starts, InitFrom(start.seated, start.budget)
             PROVE  RoomsKnown
  BY DEF Init
<1>1. PICK seated : seated = start.seated
  OBVIOUS
<1>2. /\ seated \in [Rooms -> SUBSET Sockets]
      /\ guests = seated /\ pool = <<>> /\ paired = {} /\ created = listed
      /\ listed = {r \in Rooms : seated[r] # {}}
      /\ score = [r \in Rooms |-> Cardinality(seated[r])]
      /\ \A w \in Workers : pc[w] = "idle" /\ loc[w] = NoLoc
  BY <1>1, StartsAssumption DEF InitFrom
<1>3. NoRoom \notin Rooms
  BY RoomsAssumption
<1>4. \A r \in Rooms \ listed : guests[r] = {} /\ score[r] = 0
  BY <1>2, FS_EmptySet
<1>5. \A w \in Workers, r \in Rooms : ~Has(w, r)
  BY <1>2, <1>3 DEF Has, NoLoc
<1>6. FreshRooms
  <2>1. NoDuplicates(pool) /\ DOMAIN pool = {}
    BY <1>2 DEF NoDuplicates
  <2> QED
    BY <1>2, <1>4, <1>5, <2>1 DEF FreshRooms, Unused
<1>7. OwnRooms
  BY <1>2 DEF OwnRooms
<1>8. Balanced
  <2> SUFFICES ASSUME NEW r \in Rooms
               PROVE  Cardinality(guests[r]) + Reserved(r) <= score[r] + Uncounted(r)
    BY DEF Balanced
  <2>1. \A w \in Workers : Owes(w, r) = 0 /\ Reserves(w, r) = 0
    BY <1>2 DEF Owes, Reserves, NoLoc
  <2>2. PICK f : f = [v \in Workers |-> Owes(v, r)]
    OBVIOUS
  <2>3. PICK g : g = [v \in Workers |-> Reserves(v, r)]
    OBVIOUS
  <2>4. Total(f) = 0 /\ Total(g) = 0
    BY <2>1, <2>2, <2>3, TotalOfNone
  <2>5. Uncounted(r) = 0 /\ Reserved(r) = 0
    BY <2>2, <2>3, <2>4 DEF Uncounted, Reserved
  <2>6. IsFiniteSet(guests[r])
    BY <1>2, RoomsAssumption, FS_Subset
  <2>7. score[r] = Cardinality(guests[r]) /\ Cardinality(guests[r]) \in Nat
    BY <1>2, <2>6, FS_CardinalityType
  <2> QED
    BY <2>5, <2>7
<1>9. CountsKnown
  BY <1>2, <1>4 DEF CountsKnown, Counting, NoLoc
<1> QED
  BY <1>6, <1>7, <1>8, <1>9 DEF RoomsKnown

\* A room in the pool is nobody's room unless it was made for a switched
\* pair, although batches, pairs and switches fill and empty the pool without
\* a lock, and whatever keys expire or processes die between two commands.
THEOREM PoolRoomsUnused == Spec => []PoolUnused
<1> DEFINE Inv == TypeOK /\ LocalsInUse /\ RoomsKnown
<1>1. Init => Inv
  BY InitTypes, RoomsInit
<1>2. Inv /\ [Next]_vars => Inv'
  BY StepTypes, RoomsStep
<1>3. Inv => PoolUnused
  BY DEF RoomsKnown, FreshRooms, Unused, PoolUnused
<1> HIDE DEF Inv
<1> QED
  BY <1>1, <1>2, <1>3, PTL DEF Spec

\* The sockets sent to a room that have not left it never outnumber its score
\* and what running handlers are about to count, in rooms whose count the
\* code has not given up itself.  Expired keys, crashes and time-outs are
\* allowed.
THEOREM GuestsAreCounted == Spec => []GuestsCounted
<1> DEFINE Inv == TypeOK /\ LocalsInUse /\ RoomsKnown
<1>1. Init => Inv
  BY InitTypes, RoomsInit
<1>2. Inv /\ [Next]_vars => Inv'
  BY StepTypes, RoomsStep
<1>3. Inv => GuestsCounted
  <2> SUFFICES ASSUME Inv, NEW r \in Rooms, r \notin tainted
               PROVE  Cardinality(guests[r]) <= score[r] + Uncounted(r)
    BY DEF GuestsCounted
  <2>1. Cardinality(guests[r]) + Reserved(r) <= score[r] + Uncounted(r)
    BY DEF RoomsKnown, Balanced
  <2>2. Cardinality(guests[r]) \in Nat /\ score[r] \in Int
    BY GuestTypes
  <2>3. Reserved(r) \in Nat /\ Uncounted(r) \in Nat
    <3>1. HandlersOK /\ IsFiniteSet(Workers)
      BY WorkersAssumption DEF TypeOK
    <3>2. PICK f : f = [v \in Workers |-> Owes(v, r)]
      OBVIOUS
    <3>3. PICK g : g = [v \in Workers |-> Reserves(v, r)]
      OBVIOUS
    <3>4. f \in [Workers -> Nat] /\ g \in [Workers -> Nat]
      BY <3>1, <3>2, <3>3, DebtTypes
    <3>5. Total(f) \in Nat /\ Total(g) \in Nat
      BY <3>1, <3>4, ColumnsFinite
    <3> QED
      BY <3>2, <3>3, <3>5 DEF Uncounted, Reserved
  <2> QED
    BY <2>1, <2>2, <2>3
<1> HIDE DEF Inv
<1> QED
  BY <1>1, <1>2, <1>3, PTL DEF Spec

-----------------------------------------------------------------------------
\* Who is woken

\* A sum of terms that grow grows.
LEMMA TotalGrows ==
  ASSUME NEW S, IsFiniteSet(S), NEW f \in [S -> Nat], NEW g \in [S -> Nat],
         \A v \in S : f[v] <= g[v]
  PROVE  Total(f) <= Total(g)
<1>1. \A v \in S : Column(f, v) \subseteq Column(g, v)
  BY DEF Column
<1>2. Columns(f) \subseteq Columns(g)
  BY <1>1 DEF Columns
<1>3. /\ IsFiniteSet(Columns(g))
      /\ Total(f) = Cardinality(Columns(f)) /\ Total(g) = Cardinality(Columns(g))
  BY ColumnsFinite
<1>4. Cardinality(Columns(f)) <= Cardinality(Columns(g))
  BY <1>2, <1>3, FS_Subset
<1> QED
  BY <1>3, <1>4

\* The jobs and the handlers that look at the waiters are finitely many.
LEMMA WakesFinite ==
  ASSUME HandlersOK
  PROVE  /\ IsFiniteSet(WakingJobs) /\ WakingJobs \subseteq JobSet
         /\ Queued \in Nat /\ IsFiniteSet(Awake) /\ Cardinality(Awake) \in Nat
<1>1. IsFiniteSet(WakingJobs)
  <2>1. IsFiniteSet({"findAvailableRooms", "sendRoomToPairs"})
    <3>1. IsFiniteSet({"findAvailableRooms"})
      BY FS_Singleton
    <3>2. IsFiniteSet({"findAvailableRooms"} \cup {"sendRoomToPairs"})
      BY <3>1, FS_AddElement
    <3>3. {"findAvailableRooms", "sendRoomToPairs"}
            = {"findAvailableRooms"} \cup {"sendRoomToPairs"}
      OBVIOUS
    <3> QED
      BY <3>2, <3>3
  <2>2. IsFiniteSet(1..MaxAttempts)
    BY SizesAssumption, FS_Interval
  <2> QED
    BY <2>1, <2>2, FS_Product DEF WakingJobs
<1>2. WakingJobs \subseteq JobSet
  BY DEF WakingJobs, JobSet, Names
<1>3. PICK f : f = [j \in WakingJobs |-> jobs[j]]
  OBVIOUS
<1>4. f \in [WakingJobs -> Nat]
  BY <1>2, <1>3 DEF HandlersOK
<1>5. Queued \in Nat
  BY <1>1, <1>3, <1>4, ColumnsFinite DEF Queued
<1>6. IsFiniteSet(Awake)
  BY WorkersAssumption, FS_Subset DEF Awake
<1> QED
  BY <1>1, <1>2, <1>5, <1>6, FS_CardinalityType

\* More jobs, more that look at the waiters.
LEMMA QueuedGrows ==
  ASSUME HandlersOK, HandlersOK', \A j \in WakingJobs : jobs[j] <= jobs'[j]
  PROVE  Queued <= Queued'
<1>1. PICK f : f = [j \in WakingJobs |-> jobs[j]]
  OBVIOUS
<1>2. PICK g : g = [j \in WakingJobs |-> jobs'[j]]
  OBVIOUS
<1>3. IsFiniteSet(WakingJobs) /\ WakingJobs \subseteq JobSet
  BY WakesFinite
<1>4. f \in [WakingJobs -> Nat] /\ g \in [WakingJobs -> Nat]
  BY <1>1, <1>2, <1>3 DEF HandlersOK
<1>5. Total(f) <= Total(g)
  BY <1>1, <1>2, <1>3, <1>4, TotalGrows
<1> QED
  BY <1>1, <1>2, <1>5 DEF Queued

\* Jobs that are added are added to the others.
LEMMA AddingGrows ==
  ASSUME HandlersOK, HandlersOK', NEW names, jobs' = Adding(names)
  PROVE  /\ Queued <= Queued'
         /\ {"findAvailableRooms", "sendRoomToPairs"} \cap names # {}
              => Queued + 1 <= Queued'
<1>0. WakingJobs \subseteq JobSet /\ IsFiniteSet(WakingJobs)
  BY WakesFinite
<1>1. \A j \in JobSet : jobs'[j] = jobs[j] + IF j[1] \in names /\ j[2] = 1 THEN 1 ELSE 0
  BY DEF Adding
<1>2. \A j \in JobSet : jobs[j] \in Nat /\ jobs'[j] \in Nat
  BY DEF HandlersOK
<1>3. \A j \in WakingJobs : jobs[j] <= jobs'[j]
  BY <1>0, <1>1, <1>2
<1>4. ASSUME NEW name \in {"findAvailableRooms", "sendRoomToPairs"}, name \in names
      PROVE  Queued + 1 <= Queued'
  <2>1. PICK k : k = <<name, 1>>
    OBVIOUS
  <2>2. k \in WakingJobs /\ k[1] \in names /\ k[2] = 1
    BY <1>4, <2>1, SizesAssumption DEF WakingJobs
  <2>3. jobs'[k] = jobs[k] + 1 /\ jobs[k] \in Nat
    BY <1>0, <1>1, <1>2, <2>2
  <2>4. PICK f : f = [j \in WakingJobs |-> jobs[j]]
    OBVIOUS
  <2>5. PICK g : g = [j \in WakingJobs |-> jobs'[j]]
    OBVIOUS
  <2>6. PICK m : m = [j \in WakingJobs |-> IF j = k THEN jobs'[j] ELSE jobs[j]]
    OBVIOUS
  <2>7. f \in [WakingJobs -> Nat] /\ g \in [WakingJobs -> Nat] /\ m \in [WakingJobs -> Nat]
    BY <1>0, <1>2, <2>4, <2>5, <2>6
  <2>8. Total(f) \in Nat /\ Total(m) = Total(f) - f[k] + m[k]
    <3>1. \A j \in WakingJobs \ {k} : m[j] = f[j]
      BY <2>4, <2>6
    <3> QED
      BY <1>0, <2>2, <2>7, <3>1, TotalMoves
  <2>9. Total(m) <= Total(g)
    <3>1. \A j \in WakingJobs : m[j] <= g[j]
      BY <1>0, <1>2, <1>3, <2>5, <2>6
    <3> QED
      BY <1>0, <2>7, <3>1, TotalGrows
  <2>10. f[k] = jobs[k] /\ m[k] = jobs[k] + 1
    BY <2>2, <2>3, <2>4, <2>6
  <2>11. Total(g) \in Nat
    BY <1>0, <2>7, ColumnsFinite
  <2>12. Queued = Total(f) /\ Queued' = Total(g)
    BY <2>4, <2>5 DEF Queued
  <2> QED
    BY <2>3, <2>8, <2>9, <2>10, <2>11, <2>12
<1> QED
  BY <1>3, <1>4, QueuedGrows

\* A job that is taken is one less, if it looks at the waiters.
LEMMA QueuedTaken ==
  ASSUME HandlersOK, HandlersOK', NEW k \in JobSet, jobs[k] > 0,
         jobs' = [jobs EXCEPT ![k] = @ - 1]
  PROVE  Queued' = Queued - IF k \in WakingJobs THEN 1 ELSE 0
<1>0. WakingJobs \subseteq JobSet /\ IsFiniteSet(WakingJobs) /\ Queued \in Nat
  BY WakesFinite
<1>1. PICK f : f = [j \in WakingJobs |-> jobs[j]]
  OBVIOUS
<1>2. PICK g : g = [j \in WakingJobs |-> jobs'[j]]
  OBVIOUS
<1>3. f \in [WakingJobs -> Nat] /\ g \in [WakingJobs -> Nat]
  BY <1>0, <1>1, <1>2 DEF HandlersOK
<1>4. Queued = Total(f) /\ Queued' = Total(g)
  BY <1>1, <1>2 DEF Queued
<1>5. CASE k \in WakingJobs
  <2>1. \A j \in WakingJobs \ {k} : g[j] = f[j]
    BY <1>0, <1>1, <1>2 DEF HandlersOK
  <2>2. g[k] = f[k] - 1 /\ f[k] \in Nat
    BY <1>0, <1>1, <1>2, <1>5 DEF HandlersOK
  <2>3. Total(f) \in Nat /\ Total(g) = Total(f) - f[k] + g[k]
    BY <1>0, <1>3, <1>5, <2>1, TotalMoves
  <2> QED
    BY <1>4, <1>5, <2>2, <2>3
<1>6. CASE k \notin WakingJobs
  <2>1. f = g
    BY <1>0, <1>1, <1>2, <1>6 DEF HandlersOK
  <2> QED
    BY <1>0, <1>4, <1>6, <2>1
<1> QED
  BY <1>5, <1>6

\* One handler moves, and may wake up or be done with the waiters.
LEMMA AwakeMoves ==
  ASSUME HandlersOK, HandlersOK', NEW w \in Workers, \A v \in Workers \ {w} : pc'[v] = pc[v]
  PROVE  /\ pc[w] \notin Waking \/ pc'[w] \in Waking
              => Cardinality(Awake) <= Cardinality(Awake')
         /\ pc[w] \notin Waking /\ pc'[w] \in Waking
              => Cardinality(Awake') = Cardinality(Awake) + 1
         /\ Cardinality(Awake) <= Cardinality(Awake') + 1
<1>1. IsFiniteSet(Awake) /\ IsFiniteSet(Awake') /\ Cardinality(Awake) \in Nat
      /\ Cardinality(Awake') \in Nat
  <2>1. IsFiniteSet(Awake')
    BY WorkersAssumption, FS_Subset DEF Awake
  <2> QED
    BY <2>1, WakesFinite, FS_CardinalityType
<1>2. ASSUME pc[w] \notin Waking \/ pc'[w] \in Waking
      PROVE  Cardinality(Awake) <= Cardinality(Awake')
  <2>1. Awake \subseteq Awake'
    BY <1>2 DEF Awake
  <2> QED
    BY <1>1, <2>1, FS_Subset
<1>3. ASSUME pc[w] \notin Waking, pc'[w] \in Waking
      PROVE  Cardinality(Awake') = Cardinality(Awake) + 1
  <2>1. Awake' = Awake \cup {w} /\ w \notin Awake
    BY <1>3 DEF Awake
  <2> QED
    BY <1>1, <2>1, FS_AddElement
<1>4. Cardinality(Awake) <= Cardinality(Awake') + 1
  <2>1. Awake \ {w} \subseteq Awake'
    BY DEF Awake
  <2>2. Cardinality(Awake \ {w}) <= Cardinality(Awake')
    BY <1>1, <2>1, FS_Subset
  <2>3. /\ IsFiniteSet(Awake \ {w})
        /\ Cardinality(Awake \ {w}) = IF w \in Awake THEN Cardinality(Awake) - 1 ELSE Cardinality(Awake)
    BY <1>1, FS_RemoveElement
  <2> QED
    BY <1>1, <2>2, <2>3
<1> QED
  BY <1>2, <1>3, <1>4

\* What is cut off is gone.
LEMMA RestShorter ==
  ASSUME NEW S, NEW list \in Seq(S), NEW n \in Nat
  PROVE  /\ Len(list) \in Nat /\ Len(Rest(list, n)) \in Nat
         /\ Len(Rest(list, n)) <= Len(list)
         /\ Len(Rest(list, n)) = 0 \/ Len(Rest(list, n)) = Len(list) - n
<1>1. Len(list) \in Nat
  BY LenProperties
<1>2. Len(Rest(list, n)) = IF n + 1 <= Len(list) THEN Len(list) - n ELSE 0
  BY <1>1, SubSeqProperties DEF Rest
<1> QED
  BY <1>1, <1>2

\* The lengths and numbers that are compared are natural numbers.
LEMMA AwaitedTypes ==
  ASSUME TypeOK, TypeOK'
  PROVE  /\ HandlersOK /\ HandlersOK' /\ ListsOK
         /\ Len(queue) \in Nat /\ Len(queue') \in Nat
         /\ changed \in Nat /\ changed' \in Nat
         /\ Queued \in Nat /\ Queued' \in Nat
         /\ Cardinality(Awake) \in Nat /\ Cardinality(Awake)' \in Nat
<1>1. /\ HandlersOK /\ HandlersOK' /\ ListsOK /\ ListsOK' /\ PendingOK /\ PendingOK'
  BY DEF TypeOK
<1>2. queue \in Seq(Sockets) /\ queue' \in Seq(Sockets)
  BY <1>1 DEF ListsOK
<1>3. Len(queue) \in Nat /\ Len(queue') \in Nat
  BY <1>2, LenProperties
<1>4. HandlersOK => Queued \in Nat /\ Cardinality(Awake) \in Nat
  BY WakesFinite
<1>5. (HandlersOK => Queued \in Nat /\ Cardinality(Awake) \in Nat)'
  <2>1. IsFiniteSet(WakingJobs) /\ WakingJobs \subseteq JobSet
    BY <1>1, WakesFinite
  <2>2. PICK g : g = [j \in WakingJobs |-> jobs'[j]]
    OBVIOUS
  <2>3. g \in [WakingJobs -> Nat]
    BY <1>1, <2>1, <2>2 DEF HandlersOK
  <2>4. Queued' \in Nat
    BY <2>1, <2>2, <2>3, ColumnsFinite DEF Queued
  <2>5. IsFiniteSet(Awake')
    BY WorkersAssumption, FS_Subset DEF Awake
  <2> QED
    BY <2>4, <2>5, FS_CardinalityType
<1> QED
  BY <1>1, <1>3, <1>4, <1>5 DEF PendingOK

\* As long as the queue does not grow it is enough that nobody forgets it.
LEMMA AwaitedKept ==
  ASSUME TypeOK, TypeOK', PairsAwaited, Len(queue') <= Len(queue),
         changed + Queued + Cardinality(Awake)
           <= changed' + Queued' + Cardinality(Awake')
  PROVE  PairsAwaited'
<1>1. /\ Len(queue) \in Nat /\ Len(queue') \in Nat
      /\ changed \in Nat /\ changed' \in Nat
      /\ Queued \in Nat /\ Queued' \in Nat
      /\ Cardinality(Awake) \in Nat /\ Cardinality(Awake)' \in Nat
  BY AwaitedTypes
<1>2. \A m, n, a, b \in Nat : m <= 2 * a + 1 /\ n <= m /\ a <= b => n <= 2 * b + 1
  OBVIOUS
<1>3. PICK a, b \in Nat : /\ a = changed + Queued + Cardinality(Awake)
                          /\ b = changed' + Queued' + Cardinality(Awake')
  BY <1>1
<1>4. Len(queue) <= 2 * a + 1
  BY <1>3 DEF PairsAwaited
<1>5. Len(queue') <= 2 * b + 1
  BY <1>1, <1>2, <1>3, <1>4
<1> QED
  BY <1>3, <1>5 DEF PairsAwaited

\* Of one waiter nothing is said.
LEMMA AwaitedShort ==
  ASSUME TypeOK, TypeOK', Len(queue') <= 1
  PROVE  PairsAwaited'
<1>1. /\ Len(queue') \in Nat /\ changed' \in Nat /\ Queued' \in Nat
      /\ Cardinality(Awake)' \in Nat
  BY AwaitedTypes
<1>2. PICK b \in Nat : b = changed' + Queued' + Cardinality(Awake')
  BY <1>1
<1>3. Len(queue') <= 2 * b + 1
  BY <1>1
<1> QED
  BY <1>2, <1>3 DEF PairsAwaited

\* A handler goes on looking at the waiters, or does not look at them.
LEMMA AwaitedGoesOn ==
  ASSUME TypeOK, TypeOK', PairsAwaited, NEW w \in Workers,
         \A v \in Workers \ {w} : pc'[v] = pc[v],
         pc[w] \notin Waking \/ pc'[w] \in Waking,
         queue' = queue \/ \E n \in Nat : queue' = Rest(queue, n),
         changed' = changed,
         UNCHANGED jobs \/ \E names : jobs' = Adding(names)
  PROVE  PairsAwaited'
<1>0. /\ HandlersOK /\ HandlersOK' /\ ListsOK
      /\ Len(queue) \in Nat /\ Len(queue') \in Nat
      /\ changed \in Nat /\ changed' \in Nat
      /\ Queued \in Nat /\ Queued' \in Nat
      /\ Cardinality(Awake) \in Nat /\ Cardinality(Awake)' \in Nat
  BY AwaitedTypes
<1>1. Len(queue') <= Len(queue)
  BY <1>0, RestShorter DEF ListsOK
<1>2. Queued <= Queued'
  <2>1. CASE UNCHANGED jobs
    BY <1>0, <2>1 DEF Queued
  <2>2. CASE \E names : jobs' = Adding(names)
    BY <1>0, <2>2, AddingGrows
  <2> QED
    BY <2>1, <2>2
<1>3. Cardinality(Awake) <= Cardinality(Awake')
  BY <1>0, AwakeMoves
<1> QED
  BY <1>0, <1>1, <1>2, <1>3, AwaitedKept

\* Commands that do not stop looking at the waiters.
LEMMA AwaitedQuiet ==
  ASSUME HandlersOK, NEW w \in Workers, Handler(w),
         ~FindRange(w), ~FindCheck(w), ~FindMore(w), ~PairsLen(w), ~PairsTrim(w)
  PROVE  /\ pc[w] \notin Waking \/ pc'[w] \in Waking
         /\ queue' = queue \/ \E n \in Nat : queue' = Rest(queue, n)
         /\ changed' = changed
         /\ UNCHANGED jobs \/ \E names : jobs' = Adding(names)
<1>1. queue' = queue \/ \E n \in Nat : queue' = Rest(queue, n)
  BY QueueShrinks
<1>2. CASE FindQueue(w) \/ FindIncr(w) \/ PairsRange(w)
  BY <1>1, <1>2, Effects DEF FindQueue, FindIncr, PairsRange, Waking, FindPoints, pending, emitted
<1>3. CASE FindPop(w)
  BY <1>1, <1>3, Effects DEF FindPop, Waking, FindPoints, pending, emitted
<1>4. CASE PairsPool(w) \/ ClearAgain(w)
  <2>1. pc[w] \in {"pairsPool", "clearAgain"}
    BY <1>4 DEF PairsPool, ClearAgain
  <2>2. UNCHANGED jobs \/ jobs' = Adding({"createRoomsRepeat", "clearExpiredRooms"})
    BY <1>4 DEF PairsPool, ClearAgain
  <2>3. changed' = changed
    BY <1>4 DEF PairsPool, ClearAgain, pending, emitted
  <2> QED
    BY <1>1, <2>1, <2>2, <2>3 DEF Waking, FindPoints
<1>5. CASE PairsRoom(w) \/ PairsError(w) \/ PairsZadd(w)
  BY <1>1, <1>5 DEF PairsRoom, PairsError, PairsZadd, Waking, FindPoints, pending, emitted
<1>6. CASE \/ SwitchLen(w) \/ SwitchRange(w) \/ SwitchCreate(w) \/ SwitchZadd(w)
           \/ SwitchQueue(w) \/ SwitchRooms(w)
  BY <1>1, <1>6 DEF SwitchLen, SwitchRange, SwitchCreate, SwitchZadd, SwitchQueue, SwitchRooms,
                    Waking, FindPoints, pending, emitted
<1>7. CASE \/ SwitchTry(w) \/ SwitchScore(w) \/ SwitchPop(w) \/ SwitchIncr(w)
           \/ SwitchAfter(w)
  BY <1>1, <1>7 DEF SwitchTry, SwitchScore, SwitchPop, SwitchIncr, SwitchAfter,
                    Waking, FindPoints, pending, emitted
<1>8. CASE CreateStart(w) \/ CreateOne(w) \/ ClearPool(w) \/ ClearRooms(w)
  BY <1>1, <1>8 DEF CreateStart, CreateOne, ClearPool, ClearRooms,
                    Waking, FindPoints, pending, emitted
<1> QED
  BY <1>2, <1>3, <1>4, <1>5, <1>6, <1>7, <1>8 DEF Handler

\* The commands that stop do so when less than two wait, wake somebody else, or
\* take two waiters with them.
LEMMA AwaitedStops ==
  ASSUME TypeOK, TypeOK', PlacesHeld, PairsAwaited, LocalsInUse, NEW w \in Workers,
         FindRange(w) \/ FindCheck(w) \/ FindMore(w) \/ PairsLen(w) \/ PairsTrim(w)
  PROVE  PairsAwaited'
<1>0. /\ HandlersOK /\ HandlersOK' /\ ListsOK
      /\ Len(queue) \in Nat /\ Len(queue') \in Nat
      /\ changed \in Nat /\ changed' \in Nat
      /\ Queued \in Nat /\ Queued' \in Nat
      /\ Cardinality(Awake) \in Nat /\ Cardinality(Awake)' \in Nat
  BY AwaitedTypes
<1>1. ASSUME \A v \in Workers \ {w} : pc'[v] = pc[v]
      PROVE  /\ pc'[w] \in Waking => Cardinality(Awake) <= Cardinality(Awake')
             /\ Cardinality(Awake) <= Cardinality(Awake') + 1
  BY <1>0, <1>1, AwakeMoves
<1>2. Len(<<>>) = 0
  OBVIOUS
<1>3. CASE FindRange(w)
  <2>1. queue' = queue /\ changed' = changed
    BY <1>3 DEF FindRange, redis, lists, pending, emitted
  <2>2. CASE jobs' = Adding({"sendRoomToPairs"}) /\ JobDone(w)
    <3>1. Queued + 1 <= Queued'
      BY <1>0, <2>2, AddingGrows
    <3>2. Cardinality(Awake) <= Cardinality(Awake') + 1
      BY <1>0, <1>1, <2>2, Effects
    <3> QED
      BY <1>0, <2>1, <3>1, <3>2, AwaitedKept
  <2>3. CASE UNCHANGED jobs /\ Goto(w, "findLen")
    <3>1. pc'[w] \in Waking /\ \A v \in Workers \ {w} : pc'[v] = pc[v]
      BY <1>0, <2>3, Effects DEF Waking, FindPoints
    <3> QED
      BY <2>1, <2>3, <3>1, AwaitedGoesOn
  <2> QED
    BY <1>3, <2>2, <2>3 DEF FindRange
<1>4. CASE FindCheck(w)
  <2>1. queue' = queue /\ changed' = changed /\ UNCHANGED jobs
    BY <1>4 DEF FindCheck, redis, lists, pending, emitted
  <2>2. CASE Goto(w, "findScore") \/ Goto(w, "findIncr")
    <3>1. pc'[w] \in Waking /\ \A v \in Workers \ {w} : pc'[v] = pc[v]
      BY <1>0, <2>2, Effects DEF Waking, FindPoints
    <3> QED
      BY <2>1, <3>1, AwaitedGoesOn
  <2>3. CASE queue = <<>>
    BY <1>2, <2>1, <2>3, AwaitedShort
  <2>4. ~(pc[w] = "findScore" /\ ~HasPlace(loc[w].room))
    <3>1. pc[w] = "findScore" => loc[w].room \in Rooms /\ score[loc[w].room] <= 3
      BY DEF PlacesHeld, PlaceFor, LocalsInUse, InUse
    <3>2. \A r \in Rooms : score[r] \in Int
      BY DEF TypeOK, RoomsOK
    <3> QED
      BY <3>1, <3>2 DEF HasPlace
  <2> QED
    BY <1>4, <2>2, <2>3, <2>4 DEF FindCheck
<1>5. CASE FindMore(w)
  <2>1. /\ queue' = queue /\ UNCHANGED jobs /\ JobDone(w)
        /\ changed' = changed + IF queue = <<>> THEN 0 ELSE 1
    BY <1>5 DEF FindMore, redis, lists
  <2>2. CASE queue = <<>>
    BY <1>2, <2>1, <2>2, AwaitedShort
  <2>3. CASE queue # <<>>
    <3>1. Cardinality(Awake) <= Cardinality(Awake') + 1
      BY <1>0, <1>1, <2>1, Effects
    <3>2. Queued' = Queued
      BY <2>1 DEF Queued
    <3> QED
      BY <1>0, <2>1, <2>3, <3>1, <3>2, AwaitedKept
  <2> QED
    BY <2>2, <2>3
<1>6. CASE PairsLen(w)
  <2>1. queue' = queue /\ changed' = changed /\ UNCHANGED jobs
    BY <1>6 DEF PairsLen, redis, lists, pending, emitted
  <2>2. CASE Len(queue) >= 2
    <3>1. pc'[w] \in Waking /\ \A v \in Workers \ {w} : pc'[v] = pc[v]
      BY <1>0, <1>6, <2>2, Effects DEF PairsLen, EnoughForPair, Waking, FindPoints
    <3> QED
      BY <2>1, <3>1, AwaitedGoesOn
  <2>3. CASE ~(Len(queue) >= 2)
    BY <1>0, <2>1, <2>3, AwaitedShort
  <2> QED
    BY <2>2, <2>3
<1>7. CASE PairsTrim(w)
  <2>1. queue' = Rest(queue, 2) /\ changed' = changed /\ UNCHANGED jobs /\ Goto(w, "pairsPool")
    BY <1>7 DEF PairsTrim, pending, emitted
  <2>2. Len(queue') = 0 \/ Len(queue') = Len(queue) - 2
    BY <1>0, <2>1, RestShorter DEF ListsOK
  <2>3. CASE Len(queue') = 0
    BY <2>3, AwaitedShort
  <2>4. CASE Len(queue') = Len(queue) - 2
    <3>1. Cardinality(Awake) <= Cardinality(Awake') + 1
      BY <1>0, <1>1, <2>1, Effects
    <3>2. Queued' = Queued
      BY <2>1 DEF Queued
    <3> QED
      BY <1>0, <2>1, <2>4, <3>1, <3>2 DEF PairsAwaited
  <2> QED
    BY <2>2, <2>3, <2>4
<1> QED
  BY <1>3, <1>4, <1>5, <1>6, <1>7

\* Whoever queues up wakes somebody.
LEMMA AwaitedPush ==
  ASSUME TypeOK, TypeOK', PairsAwaited, NEW s \in Sockets, queue' = Append(queue, s),
         changed' = changed + 1, UNCHANGED <<jobs, pc>>
  PROVE  PairsAwaited'
<1>0. /\ ListsOK /\ Len(queue) \in Nat /\ changed \in Nat /\ Queued \in Nat
      /\ Cardinality(Awake) \in Nat
  BY AwaitedTypes
<1>1. Len(queue') = Len(queue) + 1
  BY <1>0, AppendProperties DEF ListsOK
<1>2. Queued' = Queued /\ Cardinality(Awake') = Cardinality(Awake)
  BY DEF Queued, Awake
<1>3. PICK a \in Nat : a = changed + Queued + Cardinality(Awake)
  BY <1>0
<1>4. Len(queue) <= 2 * a + 1
  BY <1>3 DEF PairsAwaited
<1>5. changed' + Queued' + Cardinality(Awake') = a + 1
  BY <1>0, <1>2, <1>3
<1>6. Len(queue') <= 2 * (a + 1) + 1
  BY <1>0, <1>1, <1>3, <1>4
<1> QED
  BY <1>5, <1>6 DEF PairsAwaited

\* The waiters wait for as many as before when no handler moves.
LEMMA AwaitedRests ==
  ASSUME TypeOK, TypeOK', PairsAwaited, Len(queue') <= Len(queue), changed <= changed',
         UNCHANGED <<jobs, pc>>
  PROVE  PairsAwaited'
<1>1. Queued' = Queued /\ Cardinality(Awake') = Cardinality(Awake)
  BY DEF Queued, Awake
<1>2. /\ changed \in Nat /\ changed' \in Nat /\ Queued \in Nat
      /\ Cardinality(Awake) \in Nat
  BY AwaitedTypes
<1> QED
  BY <1>1, <1>2, AwaitedKept

\* A job that is taken wakes the handler that it starts.
LEMMA AwaitedTake ==
  ASSUME TypeOK, TypeOK', PairsAwaited, NEW w \in Workers, Take(w)
  PROVE  PairsAwaited'
<1>0. /\ HandlersOK /\ HandlersOK' /\ Len(queue) \in Nat
      /\ changed \in Nat /\ Queued \in Nat /\ Queued' \in Nat
      /\ Cardinality(Awake) \in Nat /\ Cardinality(Awake)' \in Nat
  BY AwaitedTypes
<1>1. pc[w] = "idle" /\ queue' = queue /\ changed' = changed
  BY DEF Take, redis, lists, pending, emitted
<1>2. PICK j \in JobSet : /\ jobs[j] > 0 /\ jobs' = [jobs EXCEPT ![j] = @ - 1]
                          /\ Goto(w, Entry[j[1]])
  BY DEF Take
<1>3. Queued' = Queued - IF j \in WakingJobs THEN 1 ELSE 0
  BY <1>0, <1>2, QueuedTaken
<1>4. pc'[w] = Entry[j[1]] /\ \A v \in Workers \ {w} : pc'[v] = pc[v]
  BY <1>0, <1>2, Effects
<1>5. pc[w] \notin Waking
  BY <1>1 DEF Waking, FindPoints
<1>6. CASE j \in WakingJobs
  <2>1. pc'[w] \in Waking
    BY <1>4, <1>6 DEF WakingJobs, Entry, Waking
  <2>2. Cardinality(Awake') = Cardinality(Awake) + 1
    BY <1>0, <1>4, <1>5, <2>1, AwakeMoves
  <2> QED
    BY <1>0, <1>1, <1>3, <1>6, <2>2, AwaitedKept
<1>7. CASE j \notin WakingJobs
  <2>1. Cardinality(Awake) <= Cardinality(Awake')
    BY <1>0, <1>4, <1>5, AwakeMoves
  <2> QED
    BY <1>0, <1>1, <1>3, <1>7, <2>1, AwaitedKept
<1> QED
  BY <1>6, <1>7

\* Who waits for a key goes on to look at the waiters; who is timed out goes on
\* as well, with another job behind it.
LEMMA AwaitedAcquire ==
  ASSUME TypeOK, TypeOK', PairsAwaited, NEW w \in Workers, Acquire(w) \/ Timeout(w)
  PROVE  PairsAwaited'
<1>0. /\ HandlersOK /\ HandlersOK' /\ Len(queue) \in Nat
      /\ changed \in Nat /\ Queued \in Nat /\ Queued' \in Nat
      /\ Cardinality(Awake) \in Nat /\ Cardinality(Awake)' \in Nat
  BY AwaitedTypes
<1>1. queue' = queue /\ changed' = changed
  BY DEF Acquire, Timeout, redis, lists, pending, emitted
<1>2. Queued <= Queued'
  <2>1. \A j \in WakingJobs : j \in JobSet
    BY <1>0, WakesFinite
  <2>2. \A j \in JobSet : jobs[j] \in Nat /\ jobs[j] <= jobs'[j]
    <3>1. \A j \in JobSet : jobs[j] \in Nat
      BY <1>0 DEF HandlersOK
    <3>2. CASE Acquire(w)
      BY <3>1, <3>2 DEF Acquire
    <3>3. CASE Timeout(w)
      <4>1. PICK again : jobs' = [j \in JobSet |-> jobs[j] + IF j = again THEN 1 ELSE 0]
        BY <3>3 DEF Timeout
      <4> QED
        BY <3>1, <4>1
    <3> QED
      BY <3>1, <3>2, <3>3
  <2> QED
    BY <1>0, <2>1, <2>2, QueuedGrows
<1>3. /\ \A v \in Workers \ {w} : pc'[v] = pc[v]
      /\ pc[w] \notin Waking \/ pc'[w] \in Waking
  <2>1. CASE Acquire(w)
    <3>1. PICK p : p = Locked[pc[w]] /\ Goto(w, p)
      BY <2>1 DEF Acquire
    <3>2. pc[w] \in {"findLock", "pairsLock", "switchLock"}
      BY <2>1 DEF Acquire, KeyOf
    <3>3. pc[w] \in {"findLock", "pairsLock"} => p \in Waking
      BY <3>1 DEF Locked, Waking, FindPoints
    <3>4. "switchLock" \notin Waking
      BY DEF Waking, FindPoints
    <3> QED
      BY <1>0, <3>1, <3>2, <3>3, <3>4, Effects
  <2>2. CASE Timeout(w)
    <3>1. PICK p : p = (IF pc[w] = "hung" THEN "idle" ELSE pc[w]) /\ Goto(w, p)
      BY <2>2 DEF Timeout
    <3>2. "hung" \notin Waking
      BY DEF Waking, FindPoints
    <3> QED
      BY <1>0, <3>1, <3>2, Effects
  <2> QED
    BY <2>1, <2>2
<1>4. Cardinality(Awake) <= Cardinality(Awake')
  BY <1>0, <1>3, AwakeMoves
<1> QED
  BY <1>0, <1>1, <1>2, <1>4, AwaitedKept

\* A listener passes an emit on to a job, unless nobody waits.
LEMMA AwaitedChanged ==
  ASSUME TypeOK, TypeOK', PairsAwaited, OnChanged
  PROVE  PairsAwaited'
<1>0. /\ HandlersOK /\ HandlersOK' /\ Len(queue) \in Nat
      /\ changed \in Nat /\ changed' \in Nat /\ Queued \in Nat /\ Queued' \in Nat
      /\ Cardinality(Awake) \in Nat /\ Cardinality(Awake)' \in Nat
  BY AwaitedTypes
<1>1. queue' = queue /\ changed' = changed - 1
  BY DEF OnChanged, redis, lists
<1>2. CASE queue = <<>>
  <2>1. Len(queue') = 0
    BY <1>1, <1>2
  <2> QED
    BY <2>1, AwaitedShort
<1>3. CASE queue # <<>>
  <2>1. Queued + 1 <= Queued'
    BY <1>0, <1>3, AddingGrows DEF OnChanged
  <2>2. Cardinality(Awake') = Cardinality(Awake)
    BY DEF OnChanged, Awake
  <2> QED
    BY <1>0, <1>1, <2>1, <2>2, AwaitedKept
<1> QED
  BY <1>2, <1>3

\* No process dies: what it emits and what it works on is not forgotten.
NoCrash == left["crash"] = 0

\* What waits for two is inductive.
LEMMA AwaitedStep ==
  ASSUME TypeOK, TypeOK', LocalsInUse, PlacesHeld, NoCrash, PairsAwaited, [Next]_vars
  PROVE  PairsAwaited'
<1>0. /\ HandlersOK /\ HandlersOK' /\ ListsOK /\ changed \in Nat /\ Len(queue) \in Nat
  BY AwaitedTypes
<1>1. ASSUME NEW w \in Workers, Handler(w)
      PROVE  PairsAwaited'
  <2>1. CASE FindRange(w) \/ FindCheck(w) \/ FindMore(w) \/ PairsLen(w) \/ PairsTrim(w)
    BY <2>1, AwaitedStops
  <2>2. CASE ~(FindRange(w) \/ FindCheck(w) \/ FindMore(w) \/ PairsLen(w) \/ PairsTrim(w))
    BY <1>0, <1>1, <2>2, OthersStay, AwaitedQuiet, AwaitedGoesOn
  <2> QED
    BY <2>1, <2>2
<1>2. ASSUME NEW w \in Workers, Take(w) \/ Acquire(w) \/ Timeout(w)
      PROVE  PairsAwaited'
  BY <1>2, AwaitedTake, AwaitedAcquire
<1>3. \A w \in Workers : ~Crash(w)
  BY DEF Crash, Spend, NoCrash
<1>4. ASSUME NEW s \in Sockets, RequestRoom(s) \/ CancelRequest(s) \/ Disconnect(s)
      PROVE  PairsAwaited'
  <2>1. queue' = queue \/ queue' = LRem(queue, s)
    BY <1>4 DEF RequestRoom, CancelRequest, Disconnect, Withdraw
  <2>2. Len(queue') <= Len(queue)
    BY <1>0, <2>1, LRemFacts DEF ListsOK
  <2>3. changed' = changed /\ UNCHANGED <<jobs, pc>>
    BY <1>4 DEF RequestRoom, CancelRequest, Disconnect, handlers, pending, emitted
  <2> QED
    BY <1>0, <2>2, <2>3, AwaitedRests
<1>5. ASSUME NEW s \in Sockets, PushRequest(s)
      PROVE  PairsAwaited'
  BY <1>5, AwaitedPush DEF PushRequest, handlers
<1>6. ASSUME NEW s \in Sockets, NEW r \in Rooms,
             \/ RequestSwitch(s, r) \/ RoomStatus(s, r) \/ PushSwitch([id |-> s, room |-> r])
      PROVE  PairsAwaited'
  <2>1. queue' = queue /\ UNCHANGED <<jobs, pc>> /\ (changed' = changed \/ changed' = changed + 1)
    BY <1>6 DEF RequestSwitch, RoomStatus, PushSwitch, handlers, pending, emitted, lists
  <2> QED
    BY <1>0, <2>1, AwaitedRests
<1>7. CASE OnChanged
  BY <1>7, AwaitedChanged
<1>8. CASE OnSwitch
  <2>1. queue' = queue /\ changed' = changed /\ pc' = pc
    BY <1>8 DEF OnSwitch, redis, lists
  <2>2. UNCHANGED jobs \/ jobs' = Adding({"switchRoom"})
    BY <1>8 DEF OnSwitch
  <2>3. CASE UNCHANGED jobs
    BY <1>0, <2>1, <2>3, AwaitedRests
  <2>4. CASE jobs' = Adding({"switchRoom"})
    <3>1. Queued <= Queued'
      BY <1>0, <2>4, AddingGrows
    <3>2. Cardinality(Awake') = Cardinality(Awake)
      BY <2>1 DEF Awake
    <3>3. Queued \in Nat /\ Queued' \in Nat /\ Cardinality(Awake) \in Nat
      BY AwaitedTypes
    <3> QED
      BY <1>0, <2>1, <3>1, <3>2, <3>3, AwaitedKept
  <2> QED
    BY <2>2, <2>3, <2>4
<1>9. CASE \/ Background \/ ThreeLengthExpires \/ TimerFires
           \/ (\E key \in LockKeys : Expire(key)) \/ UNCHANGED vars
  <2>1. queue' = queue /\ UNCHANGED <<jobs, pc>> /\ (changed' = changed \/ changed' = changed + 1)
    BY <1>9 DEF Background, ThreeLengthExpires, TimerFires, Expire, vars, redis, lists,
                handlers, pending, emitted
  <2> QED
    BY <1>0, <2>1, AwaitedRests
<1>10. CASE EndIntermission
  <2>1. Len(queue') = 0
    BY <1>10 DEF EndIntermission
  <2> QED
    BY <2>1, AwaitedShort
<1> QED
  BY <1>1, <1>2, <1>3, <1>4, <1>5, <1>6, <1>7, <1>8, <1>9, <1>10 DEF Next, Socket

\* Nobody looks at the waiters when nothing is left to run.
LEMMA QuietServed ==
  ASSUME TypeOK, PairsAwaited
  PROVE  PairsServed
<1> SUFFICES ASSUME Quiet
             PROVE  Len(queue) < 2
  BY DEF PairsServed
<1>0. HandlersOK /\ ListsOK
  BY DEF TypeOK
<1>1. changed = 0
  BY DEF Quiet
<1>2. Queued = 0
  <2>1. \A j \in WakingJobs : j[1] \notin {"clearExpiredRooms", "switchRoom"}
    BY DEF WakingJobs
  <2>2. \A j \in WakingJobs : j \in JobSet
    BY <1>0, WakesFinite
  <2>3. \A j \in WakingJobs : jobs[j] = 0
    BY <1>0, <2>1, <2>2 DEF Quiet, HandlersOK
  <2>4. PICK f : f = [j \in WakingJobs |-> jobs[j]]
    OBVIOUS
  <2>5. Total(f) = 0
    BY <2>3, <2>4, TotalOfNone
  <2> QED
    BY <2>4, <2>5 DEF Queued
<1>3. Cardinality(Awake) = 0
  <2>1. Awake = {}
    BY DEF Quiet, Awake, Waking, FindPoints
  <2> QED
    BY <2>1, FS_EmptySet
<1>4. Len(queue) \in Nat
  BY <1>0, LenProperties DEF ListsOK
<1> QED
  BY <1>1, <1>2, <1>3, <1>4 DEF PairsAwaited

\* No wake-up is lost for two: once everything that was started has run, at
\* most one socket waits, although sendRoomToPairs wakes nobody, as long as no
\* key expires under its holder and no process dies.
THEOREM PairsAreServed ==
  ASSUME \A start \in Starts : start.budget["expire"] = 0 /\ start.budget["crash"] = 0
  PROVE  Spec => []PairsServed
<1> DEFINE Inv == Holders /\ PlacesHeld /\ ScoreBound /\ NoCrash /\ PairsAwaited
<1>1. Init => Inv
  <2> SUFFICES ASSUME Init
               PROVE  Inv
    OBVIOUS
  <2>1. PICK start \in Starts : InitFrom(start.seated, start.budget)
    BY DEF Init
  <2>2. NoCrash
    BY <2>1 DEF InitFrom, NoCrash
  <2>3. PairsAwaited
    <3>1. HandlersOK /\ changed = 0 /\ Len(queue) = 0
      BY <2>1, InitTypes DEF TypeOK, InitFrom
    <3>2. Queued \in Nat /\ Cardinality(Awake) \in Nat
      BY <3>1, WakesFinite
    <3> QED
      BY <3>1, <3>2 DEF PairsAwaited
  <2> QED
    BY <2>2, <2>3, HoldersInit, PlacesInit
<1>2. Inv /\ [Next]_vars => Inv'
  <2> SUFFICES ASSUME Inv, [Next]_vars
               PROVE  Inv'
    OBVIOUS
  <2>1. Holders' /\ PlacesHeld' /\ ScoreBound'
    BY HoldersKept, PlacesStep
  <2>2. NoCrash'
    BY BudgetShrinks DEF Holders, NoCrash, Uses
  <2>3. PairsAwaited'
    BY <2>1, AwaitedStep DEF Holders
  <2> QED
    BY <2>1, <2>2, <2>3
<1>3. Inv => PairsServed
  BY QuietServed DEF Holders
<1> HIDE DEF Inv
<1> QED
  BY <1>1, <1>2, <1>3, PTL DEF Spec
=============================================================================
