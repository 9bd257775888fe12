----------------- MODULE InventoryReservations_apart_proofs -----------------
(***************************************************************************)
(* More proofs about InventoryReservations: families of assets stay apart, *)
(* rejected assets are free, evidence is true and no family is published   *)
(* by two accounts.  InventoryReservations_proofs sees a step as a change  *)
(* of statuses; here it is seen as rows that last and reservations that    *)
(* insert, so that what the checks of an insert say can be kept.           *)
(***************************************************************************)
EXTENDS InventoryReservations_proofs

(* What identifies a row never changes once it is inserted, an ended row is  *)
(* as it was, no row becomes pending again, and nothing is inserted.         *)
Lasting(t, u) ==
  \A r \in Rows :
    /\ IsFresh(t, r) \/ t[r].status \in TerminalStatus => u[r] = t[r]
    /\ IsActive(t, r) =>
         /\ ~IsFresh(u, r) /\ u[r].key = t[r].key
         /\ u[r].asset = t[r].asset /\ u[r].account = t[r].account
         /\ u[r].pair = t[r].pair /\ u[r].at = t[r].at /\ u[r].expires = t[r].expires
    /\ t[r].status = "committed" => u[r].status \in Later

(* One reservation: what _reserve_inventory_asset makes of table t and       *)
(* origins o, its asset's origin being the one it read.                      *)
Reservation(t, u, o, n) ==
  \E a \in Assets, to \in Destinations, k \in RowKeys, p \in Pairs \cup {NoPair},
     paired \in Assets :
    /\ paired = a \/ (p \in Pairs /\ paired = p.first /\ a = p.second)
    /\ CanReserve(t, a, to, k, paired)
    /\ u = Reserved(t, a, to, k, p)
    /\ o[a] = origin[a]
    /\ n = OriginAfter(t, o, a, to, k)

(* The insert of row q into the swept table s, with the checks it passed.    *)
Insertion(s, u, o, n, q) ==
  LET a == u[q].asset
      to == u[q].account
      p == u[q].pair IN
  /\ q \in Rows /\ IsFresh(s, q) /\ u[q].status = "pending"
  /\ u[q].at = clock
  /\ u[q].expires = clock + (IF p = NoPair THEN TTL ELSE PairTTL)
  /\ \A r \in Rows : r # q => u[r] = s[r]
  /\ ~AssetTaken(s, a)
  /\ \E paired \in Assets :
       /\ paired = a \/ (p \in Pairs /\ paired = p.first /\ a = p.second)
       /\ Eligible(s, a, to, paired) /\ ~UniquenessConflict(s, a, to, paired)
  /\ o[a] = origin[a]
  /\ n = IF o[a] = NoAccount THEN [o EXCEPT ![a] = to] ELSE o

LEMMA WithStatusKeeps ==
  ASSUME NEW x \in RowRecords, NEW s
  PROVE  /\ WithStatus(x, s).asset = x.asset /\ WithStatus(x, s).account = x.account
         /\ WithStatus(x, s).pair = x.pair /\ WithStatus(x, s).at = x.at
         /\ WithStatus(x, s).expires = x.expires /\ WithStatus(x, s).key = x.key
BY DEF WithStatus, RowRecords

LEMMA RelabelledLasts ==
  ASSUME NEW t \in Tables, NEW u, Relabelled(t, u)
  PROVE  Lasting(t, u)
<1> SUFFICES ASSUME NEW r \in Rows
             PROVE  /\ IsFresh(t, r) \/ t[r].status \in TerminalStatus => u[r] = t[r]
                    /\ IsActive(t, r) =>
                         /\ ~IsFresh(u, r) /\ u[r].key = t[r].key
                         /\ u[r].asset = t[r].asset /\ u[r].account = t[r].account
                         /\ u[r].pair = t[r].pair /\ u[r].at = t[r].at
                         /\ u[r].expires = t[r].expires
                    /\ t[r].status = "committed" => u[r].status \in Later
  BY DEF Lasting
<1>1. CASE u[r] = t[r]
  BY <1>1, StatusSets DEF IsActive, IsFresh, Later
<1>2. CASE IsActive(t, r) /\ \E s \in Later : u[r] = WithStatus(t[r], s)
  <2>1. PICK s \in Later : u[r] = WithStatus(t[r], s)
    BY <1>2
  <2>2. u[r].status = s
    BY <2>1, RowShape, WithStatusFacts, StatusSets
  <2>3. ~IsFresh(u, r) /\ ~IsFresh(t, r) /\ t[r].status \notin TerminalStatus
    BY <1>2, <2>2, StatusSets DEF IsFresh, IsActive
  <2>4. /\ u[r].asset = t[r].asset /\ u[r].account = t[r].account /\ u[r].key = t[r].key
        /\ u[r].pair = t[r].pair /\ u[r].at = t[r].at /\ u[r].expires = t[r].expires
    BY <2>1, RowShape, WithStatusKeeps
  <2> QED BY <2>2, <2>3, <2>4
<1> QED BY <1>1, <1>2 DEF Relabelled

LEMMA SameTableLasts ==
  ASSUME NEW t
  PROVE  Lasting(t, t)
BY StatusSets DEF Lasting, IsActive, IsFresh, Later

LEMMA ReservationInserts ==
  ASSUME NEW t \in Tables, NEW u, NEW o, NEW n, clock \in Nat, Reservation(t, u, o, n)
  PROVE  /\ Swept(t) \in Tables /\ Lasting(t, Swept(t)) /\ NoneOverdue(Swept(t))
         /\ u \in Tables
         /\ \/ u = Swept(t) /\ n = o
            \/ \E q \in Rows : Insertion(Swept(t), u, o, n, q)
<1> DEFINE s == Swept(t)
<1>1. s \in Tables /\ Lasting(t, s) /\ NoneOverdue(s)
  BY SweptRelabels, RelabelledAdvances, RelabelledLasts, SweptLeavesNoneOverdue
<1>2. PICK a \in Assets, to \in Destinations, k \in RowKeys, p \in Pairs \cup {NoPair},
           paired \in Assets :
        /\ paired = a \/ (p \in Pairs /\ paired = p.first /\ a = p.second)
        /\ CanReserve(t, a, to, k, paired)
        /\ u = Reserved(t, a, to, k, p)
        /\ o[a] = origin[a]
        /\ n = OriginAfter(t, o, a, to, k)
  BY DEF Reservation
<1>3. u \in Tables
  BY <1>2, ReservedFacts
<1>4. CASE KeyActive(s, k)
  BY <1>1, <1>2, <1>3, <1>4 DEF Reserved, OriginAfter
<1>5. CASE ~KeyActive(s, k)
  <2> DEFINE q == FreshRow(s)
             x == [status |-> "pending", asset |-> a, account |-> to, key |-> k,
                   pair |-> p, at |-> clock,
                   expires |-> clock + (IF p = NoPair THEN TTL ELSE PairTTL)]
  <2>1. /\ Eligible(s, a, to, paired) /\ ~AssetTaken(s, a)
        /\ ~UniquenessConflict(s, a, to, paired) /\ \E r \in Rows : IsFresh(s, r)
    BY <1>2, <1>5 DEF CanReserve
  <2>2. q \in Rows /\ IsFresh(s, q)
    BY <2>1 DEF FreshRow
  <2>3. u = [s EXCEPT ![q] = x] /\ n = IF o[a] = NoAccount THEN [o EXCEPT ![a] = to] ELSE o
    BY <1>2, <1>5 DEF Reserved, OriginAfter
  <2>4. u[q] = x /\ \A r \in Rows : r # q => u[r] = s[r]
    BY <1>1, <2>2, <2>3 DEF Tables
  <2>5. /\ x.asset = a /\ x.account = to /\ x.pair = p /\ x.status = "pending"
        /\ x.at = clock /\ x.expires = clock + (IF p = NoPair THEN TTL ELSE PairTTL)
    OBVIOUS
  <2> HIDE DEF x, q, s
  <2>6. Insertion(s, u, o, n, q)
    BY <1>2, <2>1, <2>2, <2>3, <2>4, <2>5 DEF Insertion
  <2> QED BY <1>1, <1>3, <2>2, <2>6 DEF s
<1> QED BY <1>4, <1>5

(* Every step lets rows last, makes one reservation or makes the two of a    *)
(* pair.                                                                     *)
RowStep ==
  \/ Lasting(resv, resv') /\ origin' = origin
  \/ Reservation(resv, resv', origin, origin') /\ UNCHANGED <<assignments, clock>>
  \/ /\ \E mid, o : Reservation(resv, mid, origin, o) /\ Reservation(mid, resv', o, origin')
     /\ UNCHANGED <<assignments, clock>>

LEMMA PairReserves ==
  ASSUME TypeOK, NEW p \in Pairs,
         CanReserve(resv, p.first, p.firstTo, FirstKey(p), p.first),
         CanReserve(AfterFirst(p), p.second, p.secondTo, SecondKey(p), p.first)
  PROVE  /\ Reservation(resv, AfterFirst(p), origin, OriginFirst(p))
         /\ Reservation(AfterFirst(p),
                        Reserved(AfterFirst(p), p.second, p.secondTo, SecondKey(p), p),
                        OriginFirst(p),
                        OriginAfter(AfterFirst(p), OriginFirst(p), p.second, p.secondTo,
                                    SecondKey(p)))
<1>1. p.first # p.second
  BY PairAssumption
<1>2. OriginFirst(p)[p.second] = origin[p.second]
  BY <1>1, PairShape DEF OriginFirst, OriginAfter, TypeOK
<1>3. Reservation(resv, AfterFirst(p), origin, OriginFirst(p))
  BY PairShape DEF Reservation, AfterFirst, OriginFirst
<1>4. Reservation(AfterFirst(p),
                  Reserved(AfterFirst(p), p.second, p.secondTo, SecondKey(p), p),
                  OriginFirst(p),
                  OriginAfter(AfterFirst(p), OriginFirst(p), p.second, p.secondTo,
                              SecondKey(p)))
  BY <1>2, PairShape DEF Reservation
<1> QED BY <1>3, <1>4

LEMMA SetStatusLasts ==
  ASSUME resv \in Tables, NEW r \in Rows, NEW s \in Later,
         IsActive(resv, r)
  PROVE  Lasting(resv, SetStatus(r, s))
<1>1. Relabelled(resv, SetStatus(r, s))
  BY DEF Relabelled, SetStatus, Tables
<1> QED BY <1>1, RelabelledLasts

(* The second statement of a release, commit, cancellation or publication.   *)
LEMMA RowsLast ==
  ASSUME TypeOK, NEW w \in Workers,
         WriteRelease(w) \/ WriteCommit(w) \/ WriteCancel(w) \/ WritePublish(w)
  PROVE  Lasting(resv, resv')
<1>0. resv \in Tables /\ call \in [Workers -> Calls]
  BY DEF TypeOK, Tables
<1>1. CASE WriteRelease(w)
  <2>1. call[w].row \in Rows /\ call[w].to \in {"released", "cancelled"}
    BY <1>0, <1>1, CallShape DEF WriteRelease
  <2>2. resv[call[w].row] \in RowRecords /\ resv[call[w].row].status \in Statuses
    BY <1>0, <2>1, RowShape
  <2>3. CASE resv[call[w].row].status = call[w].to
    <3>1. WithStatus(resv[call[w].row], call[w].to) = resv[call[w].row]
      BY <2>2, <2>3, WithStatusFacts
    <3>2. resv' = resv
      BY <1>0, <1>1, <2>1, <3>1 DEF WriteRelease, SetStatus, Tables
    <3> QED BY <3>2, SameTableLasts
  <2>4. CASE /\ resv[call[w].row].status # call[w].to
             /\ Permitted(resv[call[w].row].status, call[w].to)
    BY <1>0, <1>1, <2>1, <2>4, SetStatusLasts
       DEF WriteRelease, Permitted, IsActive, ActiveStatus, TerminalStatus, Later
  <2>5. CASE ~Permitted(resv[call[w].row].status, call[w].to)
    BY <1>0, <1>1, <2>5, SameTableLasts DEF WriteRelease
  <2> QED BY <2>3, <2>4, <2>5
<1>2. CASE WriteCommit(w)
  BY <1>0, <1>2, CallShape, SetStatusLasts, SameTableLasts
     DEF WriteCommit, IsActive, ActiveStatus, Later
<1>3. CASE WriteCancel(w)
  BY <1>0, <1>3, CallShape, SetStatusLasts, SameTableLasts
     DEF WriteCancel, TerminalStatus, Later
<1>4. CASE WritePublish(w)
  BY <1>0, <1>4, CallShape, SetStatusLasts, SameTableLasts
     DEF WritePublish, IsActive, ActiveStatus, TerminalStatus, Later
<1> QED BY <1>1, <1>2, <1>3, <1>4

LEMMA RowsOfStep ==
  ASSUME TypeOK, [Next]_vars
  PROVE  RowStep
<1>0. resv \in Tables /\ call \in [Workers -> Calls]
  BY DEF TypeOK, Tables
<1>1. ASSUME NEW q \in Requests, ReserveInventoryAsset(q.asset, q.account, q.key)
      PROVE  RowStep
  <2>1. Reservation(resv, resv', origin, origin')
    BY <1>1, RequestShape DEF ReserveInventoryAsset, Reservation
  <2> QED BY <1>1, <2>1 DEF ReserveInventoryAsset, RowStep
<1>2. CASE ExpireInventoryReservations
  BY <1>0, <1>2, SweptRelabels, RelabelledLasts DEF ExpireInventoryReservations, RowStep
<1>3. ASSUME NEW a \in Assets, RejectAsset(a)
      PROVE  RowStep
  <2>1. Relabelled(resv, resv')
    BY <1>0, <1>3 DEF RejectAsset, Relabelled, TerminalStatus, Later
  <2> QED BY <1>0, <1>3, <2>1, RelabelledLasts DEF RejectAsset, RowStep
<1>4. CASE CampaignRelease
  <2>1. Relabelled(resv, resv')
    BY <1>0, <1>4 DEF CampaignRelease, Relabelled, TerminalStatus, Later, IsActive, ActiveStatus
  <2> QED BY <1>0, <1>4, <2>1, RelabelledLasts DEF CampaignRelease, RowStep
<1>5. ASSUME NEW w \in Workers,
             WriteRelease(w) \/ WriteCommit(w) \/ WriteCancel(w) \/ WritePublish(w)
      PROVE  RowStep
  BY <1>5, RowsLast DEF WriteRelease, WriteCommit, WriteCancel, WritePublish, RowStep
<1>6. ASSUME NEW w \in Workers, ReservePairWhole(w)
      PROVE  RowStep
  <2>1. call[w].pair \in Pairs
    BY <1>0, <1>6, CallShape DEF ReservePairWhole
  <2>2. \E mid, o : Reservation(resv, mid, origin, o) /\ Reservation(mid, resv', o, origin')
    BY <1>6, <2>1, PairReserves DEF ReservePairWhole
  <2> QED BY <1>6, <2>2 DEF ReservePairWhole, RowStep
<1>7. ASSUME NEW w \in Workers, ReservePairFirst(w)
       PROVE  RowStep
  <2>1. call[w].pair \in Pairs
    BY <1>0, <1>7, CallShape DEF ReservePairFirst
  <2>2. Reservation(resv, resv', origin, origin')
    BY <1>7, <2>1, PairShape DEF ReservePairFirst, Reservation, AfterFirst, OriginFirst
  <2> QED BY <1>7, <2>2 DEF ReservePairFirst, RowStep
<1>8. ASSUME NEW w \in Workers, ReservePairSecond(w)
       PROVE  RowStep
  <2>1. call[w].pair \in Pairs
    BY <1>0, <1>8, CallShape DEF ReservePairSecond
  <2>2. Reservation(resv, resv', origin, origin')
    BY <1>8, <2>1, PairShape DEF ReservePairSecond, Reservation
  <2> QED BY <1>8, <2>2 DEF ReservePairSecond, RowStep
<1>9. CASE resv' = resv /\ origin' = origin
  BY <1>9, SameTableLasts DEF RowStep
<1> QED BY <1>1, <1>2, <1>3, <1>4, <1>5, <1>6, <1>7, <1>8, <1>9
        DEF Next, Worker, vars, EnsurePerceptualMetadata, Tick, Abandon, Begin,
            ReadForRelease, ReadForCommit, ReadForCancel, ReadForPublish,
            ReadPairReceipts

-----------------------------------------------------------------------------
PairIn(t, r, s) ==
  \E p \in Pairs :
    /\ {t[r].asset, t[s].asset} = {p.first, p.second}
    /\ p \in {t[r].pair, t[s].pair}

(* FamilyExclusive of any table, with what it rests on: no row is dated      *)
(* after now.                                                                *)
FamilyApart(t) ==
  \A r, s \in Rows :
    /\ IsActive(t, r) /\ IsActive(t, s) /\ t[r].asset # t[s].asset
    /\ SameIdentity(t[r].asset, t[s].asset)
    /\ Near(t[r], t[s])
    => \/ t[r].account = t[s].account /\ t[r].account # NoAccount
       \/ PairIn(t, r, s)

Dated(t) == \A r \in Rows : ~IsFresh(t, r) => t[r].at <= clock

LEMMA FreshIsNotActive ==
  ASSUME NEW t, NEW r, IsActive(t, r)
  PROVE  ~IsFresh(t, r)
BY DEF IsActive, IsFresh, ActiveStatus

LEMMA LastingFacts ==
  ASSUME NEW t \in Tables, NEW u, Lasting(t, u), NEW r \in Rows
  PROVE  /\ IsActive(u, r) => IsActive(t, r)
         /\ IsFresh(u, r) <=> IsFresh(t, r)
         /\ t[r].status \in Later => u[r].status \in Later
         /\ ~IsFresh(u, r) => /\ u[r].key = t[r].key
                              /\ u[r].asset = t[r].asset /\ u[r].account = t[r].account
                              /\ u[r].pair = t[r].pair /\ u[r].at = t[r].at
                              /\ u[r].expires = t[r].expires
<1>1. IsFresh(t, r) \/ IsActive(t, r) \/ t[r].status \in TerminalStatus
  BY RowShape, StatusSets DEF IsFresh, IsActive
<1>2. CASE IsFresh(t, r)
  BY <1>2, StatusSets DEF Lasting, IsFresh, IsActive
<1>3. CASE t[r].status \in TerminalStatus
  BY <1>3, StatusSets DEF Lasting, IsFresh, IsActive
<1>4. CASE IsActive(t, r)
  BY <1>4, FreshIsNotActive, StatusSets DEF Lasting, Later, IsActive
<1> QED BY <1>1, <1>2, <1>3, <1>4

LEMMA ApartLasts ==
  ASSUME NEW t \in Tables, NEW u, Lasting(t, u), FamilyApart(t), Dated(t)
  PROVE  FamilyApart(u) /\ Dated(u)
<1>1. Dated(u)
  BY LastingFacts DEF Dated
<1>2. FamilyApart(u)
  <2> SUFFICES ASSUME NEW r \in Rows, NEW s \in Rows,
                      IsActive(u, r), IsActive(u, s), u[r].asset # u[s].asset,
                      SameIdentity(u[r].asset, u[s].asset), Near(u[r], u[s])
               PROVE  \/ u[r].account = u[s].account /\ u[r].account # NoAccount
                      \/ PairIn(u, r, s)
    BY DEF FamilyApart
  <2>1. ~IsFresh(u, r) /\ ~IsFresh(u, s)
    BY FreshIsNotActive
  <2>2. /\ IsActive(t, r) /\ IsActive(t, s)
        /\ u[r].asset = t[r].asset /\ u[r].account = t[r].account
        /\ u[r].pair = t[r].pair /\ u[r].at = t[r].at
        /\ u[s].asset = t[s].asset /\ u[s].account = t[s].account
        /\ u[s].pair = t[s].pair /\ u[s].at = t[s].at
    BY <2>1, LastingFacts
  <2>3. Near(t[r], t[s])
    BY <2>2 DEF Near
  <2> QED BY <2>2, <2>3 DEF FamilyApart, PairIn
<1> QED BY <1>1, <1>2

(* The checks of an insert, turned into what they say of another active row  *)
(* of the family that is inside the cooldown.                                *)
LEMMA InsertedBeside ==
  ASSUME NEW s \in Tables, NEW u \in Tables, NEW o, NEW n, NEW q, Insertion(s, u, o, n, q),
         NEW r \in Rows, r # q, IsActive(s, r), InWindow(s[r].at),
         SameIdentity(s[r].asset, u[q].asset)
  PROVE  /\ s[r].asset # u[q].asset
         /\ \/ s[r].account = u[q].account /\ u[q].account # NoAccount
            \/ PairIn(u, r, q)
<1> DEFINE a == u[q].asset
           use == [asset |-> s[r].asset, account |-> s[r].account, at |-> s[r].at]
<1>1. use \in Uses(s)
  BY DEF Uses
<1>2. s[r].asset # a
  BY DEF Insertion, AssetTaken
<1>3. Family[a] # NoFamily /\ Family[s[r].asset] = Family[a]
  BY <1>2 DEF SameIdentity
<1>4. PICK paired \in Assets :
        /\ paired = a \/ (u[q].pair \in Pairs /\ paired = u[q].pair.first /\ a = u[q].pair.second)
        /\ ~UniquenessConflict(s, a, u[q].account, paired)
  BY DEF Insertion
<1>5. ~(/\ use.asset # a /\ Family[a] # NoFamily /\ Family[use.asset] = Family[a]
        /\ InWindow(use.at)
        /\ u[q].account = NoAccount \/ use.account # u[q].account
        /\ ~(paired # a /\ use.asset = paired))
  BY <1>1, <1>4 DEF UniquenessConflict
<1>6. ~(/\ u[q].account = NoAccount \/ s[r].account # u[q].account
        /\ ~(paired # a /\ s[r].asset = paired))
  BY <1>2, <1>3, <1>5
<1>7. CASE paired # a /\ s[r].asset = paired
  <2>1. u[q].pair \in Pairs /\ s[r].asset = u[q].pair.first /\ a = u[q].pair.second
    BY <1>4, <1>7
  <2>2. u[r] = s[r]
    BY DEF Insertion
  <2>3. PairIn(u, r, q)
    BY <2>1, <2>2 DEF PairIn
  <2> QED BY <1>2, <2>3
<1> QED BY <1>2, <1>6, <1>7

LEMMA PairInSymmetric ==
  ASSUME NEW t, NEW r, NEW s, PairIn(t, r, s)
  PROVE  PairIn(t, s, r)
BY DEF PairIn

LEMMA ApartInserts ==
  ASSUME NEW s \in Tables, NEW u \in Tables, NEW o, NEW n, NEW q, Insertion(s, u, o, n, q),
         FamilyApart(s), Dated(s), clock \in Nat
  PROVE  FamilyApart(u) /\ Dated(u)
<1>1. /\ q \in Rows /\ IsFresh(s, q) /\ u[q].at = clock
      /\ \A r \in Rows : r # q => u[r] = s[r]
  BY DEF Insertion
<1>2. Dated(u)
  BY <1>1 DEF Dated, IsFresh
<1>3. ASSUME NEW r \in Rows, r # q, IsActive(u, r), u[r].asset # u[q].asset,
             SameIdentity(u[r].asset, u[q].asset), Near(u[r], u[q])
      PROVE  \/ u[r].account = u[q].account /\ u[q].account # NoAccount
             \/ PairIn(u, r, q)
  <2>1. u[r] = s[r] /\ IsActive(s, r)
    BY <1>1, <1>3 DEF IsActive
  <2>2. InWindow(s[r].at)
    BY <1>1, <1>3, <2>1 DEF Near, InWindow
  <2> QED BY <1>1, <1>3, <2>1, <2>2, InsertedBeside
<1>4. FamilyApart(u)
  <2> SUFFICES ASSUME NEW r1 \in Rows, NEW r2 \in Rows,
                      IsActive(u, r1), IsActive(u, r2), u[r1].asset # u[r2].asset,
                      SameIdentity(u[r1].asset, u[r2].asset), Near(u[r1], u[r2])
               PROVE  \/ u[r1].account = u[r2].account /\ u[r1].account # NoAccount
                      \/ PairIn(u, r1, r2)
    BY DEF FamilyApart
  <2>1. CASE r1 # q /\ r2 # q
    <3>1. u[r1] = s[r1] /\ u[r2] = s[r2]
      BY <1>1, <2>1
    <3> QED BY <3>1 DEF FamilyApart, PairIn, IsActive
  <2>2. CASE r1 # q /\ r2 = q
    BY <1>3, <2>2
  <2>3. CASE r1 = q /\ r2 # q
    <3>1. SameIdentity(u[r2].asset, u[q].asset) /\ Near(u[r2], u[q])
      BY <2>3 DEF SameIdentity, Near
    <3> QED BY <1>3, <2>3, <3>1, PairInSymmetric
  <2> QED BY <2>1, <2>2, <2>3
<1> QED BY <1>2, <1>4

LEMMA ApartReserves ==
  ASSUME NEW t \in Tables, NEW u, NEW o, NEW n, clock \in Nat, Reservation(t, u, o, n),
         FamilyApart(t), Dated(t)
  PROVE  u \in Tables /\ FamilyApart(u) /\ Dated(u)
BY ReservationInserts, ApartLasts, ApartInserts

LEMMA ApartSteps ==
  ASSUME TypeOK, FamilyApart(resv), Dated(resv), [Next]_vars
  PROVE  FamilyApart(resv') /\ \A r \in Rows : ~IsFresh(resv', r) => resv'[r].at <= clock
<1>1. resv \in Tables /\ clock \in Nat
  BY DEF TypeOK, Tables
<1>2. CASE Lasting(resv, resv')
  BY <1>1, <1>2, ApartLasts DEF Dated
<1>3. CASE Reservation(resv, resv', origin, origin')
  BY <1>1, <1>3, ApartReserves DEF Dated
<1>4. ASSUME NEW mid, NEW o, Reservation(resv, mid, origin, o),
             Reservation(mid, resv', o, origin')
          PROVE  FamilyApart(resv') /\ \A r \in Rows : ~IsFresh(resv', r) => resv'[r].at <= clock
  <2>1. mid \in Tables /\ FamilyApart(mid) /\ Dated(mid)
    BY <1>1, <1>4, ApartReserves
  <2> QED BY <1>1, <1>4, <2>1, ApartReserves DEF Dated
<1> QED BY <1>2, <1>3, <1>4, RowsOfStep DEF RowStep

LEMMA ClockAdvances ==
  ASSUME TypeOK, [Next]_vars
  PROVE  clock' \in Nat /\ clock <= clock'
<1>1. CASE Tick
  BY <1>1 DEF Tick, TypeOK
<1>2. ASSUME NEW w \in Workers, Worker(w)
      PROVE  clock' = clock
  BY <1>2 DEF Worker, Abandon, Begin, ReadForRelease, ReadForCommit, ReadForCancel,
              ReadForPublish, ReadPairReceipts, WriteRelease, WriteCommit, WriteCancel,
              WritePublish, ReservePairWhole, ReservePairFirst, ReservePairSecond
<1>3. CASE clock' = clock
  BY <1>3 DEF TypeOK
<1> QED BY <1>1, <1>2, <1>3
        DEF Next, vars, ReserveInventoryAsset, EnsurePerceptualMetadata, RejectAsset,
            ExpireInventoryReservations, CampaignRelease

(* Families stay apart for every number of processes, assets and accounts,   *)
(* also when processes overlap: the checks run inside the transaction that   *)
(* inserts (_reserve_inventory_asset, _pair_scoped_eligibility).             *)
THEOREM FamiliesStayApart == Spec => []FamilyExclusive
<1> DEFINE J == FamilyApart(resv) /\ Dated(resv)
<1>1. Init => J
  <2>1. Init => \A r \in Rows : IsFresh(resv, r) /\ ~IsActive(resv, r)
    BY DEF Init, AbsentRow, IsFresh, IsActive, ActiveStatus
  <2> QED BY <2>1 DEF FamilyApart, Dated
<1>2. TypeOK /\ J /\ [Next]_vars => J'
  <2> SUFFICES ASSUME TypeOK, J, [Next]_vars PROVE J'
    OBVIOUS
  <2>1. /\ FamilyApart(resv')
        /\ \A r \in Rows : ~IsFresh(resv', r) => resv'[r].at <= clock
    BY ApartSteps
  <2>2. \A r \in Rows : resv'[r].at \in Nat
    BY TableOfStep DEF TableStep, Tables, RowRecords
  <2>3. clock \in Nat /\ clock' \in Nat /\ clock <= clock'
    BY ClockAdvances DEF TypeOK
  <2>4. Dated(resv)'
    BY <2>1, <2>2, <2>3 DEF Dated, IsFresh
  <2>5. FamilyApart(resv)'
    BY <2>1 DEF FamilyApart, IsActive, Near, PairIn, SameIdentity
  <2> QED BY <2>4, <2>5
<1>3. J => FamilyExclusive
  BY DEF FamilyApart, FamilyExclusive, PairIn, PairException
<1> QED BY <1>1, <1>2, <1>3, TypeCorrect, PTL DEF Spec

-----------------------------------------------------------------------------
(* With one process at a time, what a call in progress has read still holds. *)
StillTrue(w) ==
  LET c == call[w] IN
  /\ c.op = "commit" => resv[c.row].status = "pending"
  /\ c.op = "cancel" => IsActive(resv, c.row)
  /\ c.op = "publish" => resv[c.row].status = "committed"
  /\ c.op = "pair_checked" => {c.pair.first, c.pair.second} \cap rejected = {}
  /\ c.op = "pair_second" => c.pair.second \notin rejected

Alone == \A v, w \in Workers : call[v] # Idle /\ call[w] # Idle => v = w

Current == Alone /\ \A w \in Workers : StillTrue(w)

LEMMA IdleIsTrue ==
  ASSUME NEW w \in Workers, call[w] = Idle
  PROVE  StillTrue(w)
BY DEF StillTrue, Idle

LEMMA BeginsCurrent ==
  ASSUME TypeOK, Current, NotPreempted, ~Overlap, NEW w \in Workers, NEW c \in Calls, Begin(w, c),
         /\ c.op = "commit" => resv[c.row].status = "pending"
         /\ c.op = "cancel" => IsActive(resv, c.row)
         /\ c.op = "publish" => resv[c.row].status = "committed"
         /\ c.op = "pair_checked" => {c.pair.first, c.pair.second} \cap rejected = {}
         /\ c.op = "pair_second" => c.pair.second \notin rejected
  PROVE  Current'
<1>1. \A v \in Workers : call[v] = Idle
  BY DEF NotPreempted
<1>2. /\ call'[w] = c /\ \A v \in Workers : v # w => call'[v] = Idle
      /\ resv' = resv /\ rejected' = rejected
  BY <1>1 DEF Begin, TypeOK
<1>3. Alone'
  BY <1>2 DEF Alone
<1>4. StillTrue(w)'
  BY <1>2 DEF StillTrue, IsActive
<1>5. ASSUME NEW v \in Workers, v # w PROVE StillTrue(v)'
  BY <1>2, <1>5 DEF StillTrue, Idle
<1> QED BY <1>3, <1>4, <1>5 DEF Current

LEMMA ReturnsCurrent ==
  ASSUME TypeOK, Current, NEW w \in Workers, call[w] # Idle, Return(w)
  PROVE  Current' /\ \A v \in Workers : call'[v] = Idle
<1>1. \A v \in Workers : call'[v] = Idle
  BY DEF Return, Current, Alone, TypeOK
<1> QED BY <1>1 DEF Current, Alone, StillTrue, Idle

LEMMA AllIdleIsCurrent ==
  ASSUME ~Overlap, NotPreempted, call' = call
  PROVE  Current'
<1>1. \A w \in Workers : call'[w] = Idle
  BY DEF NotPreempted
<1> QED BY <1>1 DEF Current, Alone, StillTrue, Idle

LEMMA OpsAreNotIdle ==
  ASSUME NEW w \in Workers, call[w].op # "idle"
  PROVE  call[w] # Idle
BY DEF Idle

LEMMA CurrentSteps ==
  ASSUME TypeOK, Current, ~Overlap, [Next]_vars
  PROVE  Current'
<1>0. call \in [Workers -> Calls]
  BY DEF TypeOK
<1>1. ASSUME NEW w \in Workers, NEW r \in Rows, NEW to \in {"released", "cancelled"},
             NEW pendingOnly \in BOOLEAN, ReadForRelease(w, r, to, pendingOnly)
      PROVE  Current'
  <2>1. [op |-> "release", row |-> r, to |-> to, pendingOnly |-> pendingOnly] \in Calls
    BY DEF Calls, RowCalls
  <2> QED BY <1>1, <2>1, BeginsCurrent DEF ReadForRelease, Begin
<1>2. ASSUME NEW w \in Workers, NEW r \in Rows, ReadForCommit(w, r) \/ ReadForCancel(w, r)
      PROVE  Current'
  <2>1. [op |-> "commit", row |-> r] \in Calls /\ [op |-> "cancel", row |-> r] \in Calls
    BY DEF Calls, RowCalls
  <2> QED BY <1>2, <2>1, BeginsCurrent DEF ReadForCommit, ReadForCancel, Begin
<1>3. ASSUME NEW w \in Workers, NEW r \in Rows, NEW m \in Medias, ReadForPublish(w, r, m)
      PROVE  Current'
  <2>1. [op |-> "publish", row |-> r, media |-> m] \in Calls
    BY DEF Calls, RowCalls
  <2> QED BY <1>3, <2>1, BeginsCurrent DEF ReadForPublish, Begin
<1>4. ASSUME NEW w \in Workers, NEW p \in Pairs, ReadPairReceipts(w, p)
      PROVE  Current'
  <2>1. [op |-> "pair_checked", pair |-> p] \in Calls
    BY DEF Calls, PairCalls
  <2> QED BY <1>4, <2>1, BeginsCurrent DEF ReadPairReceipts, Begin
<1>5. ASSUME NEW w \in Workers,
             \/ WriteRelease(w) \/ WriteCommit(w) \/ WriteCancel(w) \/ WritePublish(w)
             \/ ReservePairWhole(w) \/ ReservePairSecond(w) \/ Abandon(w)
      PROVE  Current'
  <2>1. call[w] # Idle /\ Return(w)
    BY <1>5, OpsAreNotIdle
       DEF WriteRelease, WriteCommit, WriteCancel, WritePublish, ReservePairWhole,
           ReservePairSecond, Abandon
  <2> QED BY <2>1, ReturnsCurrent
<1>6. ASSUME NEW w \in Workers, ReservePairFirst(w)
      PROVE  Current'
  <2>1. call[w] # Idle
    BY <1>6, OpsAreNotIdle DEF ReservePairFirst
  <2>2. \A v \in Workers : v # w => call'[v] = Idle
    BY <1>0, <1>6, <2>1 DEF ReservePairFirst, Current, Alone
  <2>3. \/ call'[w] = Idle
        \/ /\ call'[w].op = "pair_second" /\ rejected' = rejected
           /\ call'[w].pair.second \notin rejected
    BY <1>0, <1>6 DEF ReservePairFirst
  <2>4. StillTrue(w)'
    BY <2>3 DEF StillTrue, Idle
  <2> QED BY <2>2, <2>4 DEF Current, Alone, StillTrue, Idle
<1>7. CASE NotPreempted /\ call' = call
  BY <1>7, AllIdleIsCurrent
<1>8. CASE UNCHANGED <<resv, rejected, call>>
  BY <1>8 DEF Current, Alone, StillTrue, IsActive
<1> QED BY <1>1, <1>2, <1>3, <1>4, <1>5, <1>6, <1>7, <1>8
        DEF Next, Worker, vars, ReserveInventoryAsset, EnsurePerceptualMetadata, RejectAsset,
            ExpireInventoryReservations, CampaignRelease, Tick

LEMMA CurrentHolds ==
  ASSUME ~Overlap
  PROVE  Spec => []Current
<1>1. Init => Current
  BY DEF Init, Current, Alone, StillTrue, Idle
<1>2. TypeOK /\ Current /\ [Next]_vars => Current'
  BY CurrentSteps
<1> QED BY <1>1, <1>2, TypeCorrect, PTL DEF Spec

-----------------------------------------------------------------------------
(* A row that exists stays, and a row that was committed is committed or has *)
(* ended, whatever step is taken.                                            *)
LEMMA RowsGoOn ==
  ASSUME TypeOK, [Next]_vars, NEW r \in Rows
  PROVE  /\ ~IsFresh(resv, r) => ~IsFresh(resv', r)
         /\ resv[r].status \in Later => resv'[r].status \in Later
<1>0. resv \in Tables /\ clock \in Nat
  BY DEF TypeOK, Tables
<1>1. ASSUME NEW t \in Tables, NEW u, Lasting(t, u)
      PROVE  /\ ~IsFresh(t, r) => ~IsFresh(u, r)
             /\ t[r].status \in Later => u[r].status \in Later
  BY <1>1, LastingFacts
<1>2. ASSUME NEW t \in Tables, NEW u, NEW o, NEW n, Reservation(t, u, o, n)
      PROVE  /\ u \in Tables
             /\ ~IsFresh(t, r) => ~IsFresh(u, r)
             /\ t[r].status \in Later => u[r].status \in Later
  <2>1. /\ u \in Tables /\ Swept(t) \in Tables
        /\ ~IsFresh(t, r) => ~IsFresh(Swept(t), r)
        /\ t[r].status \in Later => Swept(t)[r].status \in Later
    BY <1>0, <1>1, <1>2, ReservationInserts
  <2>2. CASE u = Swept(t)
    BY <2>1, <2>2
  <2>3. ASSUME NEW q \in Rows, Insertion(Swept(t), u, o, n, q)
        PROVE  /\ ~IsFresh(t, r) => ~IsFresh(u, r)
               /\ t[r].status \in Later => u[r].status \in Later
    <3>1. CASE r = q
      BY <2>1, <2>3, <3>1, StatusSets DEF Insertion, IsFresh
    <3>2. CASE r # q
      BY <2>1, <2>3, <3>2 DEF Insertion, IsFresh
    <3> QED BY <3>1, <3>2
  <2> QED BY <1>0, <1>2, <2>1, <2>2, <2>3, ReservationInserts
<1>3. CASE Lasting(resv, resv')
  BY <1>0, <1>1, <1>3
<1>4. CASE Reservation(resv, resv', origin, origin')
  BY <1>0, <1>2, <1>4
<1>5. ASSUME NEW mid, NEW o, Reservation(resv, mid, origin, o),
             Reservation(mid, resv', o, origin')
      PROVE  /\ ~IsFresh(resv, r) => ~IsFresh(resv', r)
             /\ resv[r].status \in Later => resv'[r].status \in Later
  <2>1. /\ mid \in Tables
        /\ ~IsFresh(resv, r) => ~IsFresh(mid, r)
        /\ resv[r].status \in Later => mid[r].status \in Later
    BY <1>0, <1>2, <1>5
  <2> QED BY <1>2, <1>5, <2>1
<1> QED BY <1>3, <1>4, <1>5, RowsOfStep DEF RowStep

(* What a call knows of its row however many others run beside it: the row   *)
(* it selected exists, and one it is to publish has been committed.          *)
Known(c, t) ==
  /\ c.op \in {"commit", "cancel"} => ~IsFresh(t, c.row)
  /\ c.op = "publish" => t[c.row].status \in Later

AllKnown == \A w \in Workers : Known(call[w], resv)

LEMMA KnownBegins ==
  ASSUME TypeOK, AllKnown, NEW w \in Workers, NEW c, Begin(w, c), Known(c, resv)
  PROVE  AllKnown'
<1>1. \A v \in Workers : call'[v] = (IF v = w THEN c ELSE call[v])
  BY DEF Begin, TypeOK
<1>2. resv' = resv
  BY DEF Begin
<1>3. ASSUME NEW v \in Workers PROVE Known(call'[v], resv)
  BY <1>1 DEF AllKnown
<1> QED BY <1>2, <1>3 DEF AllKnown, Known, IsFresh

LEMMA KnownGoesOn ==
  ASSUME TypeOK, AllKnown, [Next]_vars,
         \A w \in Workers : \/ call'[w] = call[w]
                            \/ call'[w].op \notin {"commit", "cancel", "publish"}
  PROVE  AllKnown'
<1> SUFFICES ASSUME NEW w \in Workers PROVE Known(call'[w], resv')
  BY DEF AllKnown, Known, IsFresh
<1>1. CASE call'[w] = call[w]
  <2>1. call[w] \in Calls /\ Known(call[w], resv)
    BY DEF TypeOK, AllKnown
  <2>2. CASE call[w].op \in {"commit", "cancel", "publish"}
    <3>1. call[w].row \in Rows
      BY <2>1, <2>2, CallShape
    <3> QED BY <1>1, <2>1, <3>1, RowsGoOn DEF Known
  <2> QED BY <1>1, <2>2 DEF Known
<1>2. CASE call'[w].op \notin {"commit", "cancel", "publish"}
  BY <1>2 DEF Known
<1> QED BY <1>1, <1>2

LEMMA KnownSteps ==
  ASSUME TypeOK, AllKnown, [Next]_vars
  PROVE  AllKnown'
<1>0. call \in [Workers -> Calls]
  BY DEF TypeOK
<1>1. ASSUME NEW w \in Workers, NEW r \in Rows, NEW to, NEW pendingOnly,
             ReadForRelease(w, r, to, pendingOnly)
      PROVE  AllKnown'
  <2>1. Known([op |-> "release", row |-> r, to |-> to, pendingOnly |-> pendingOnly], resv)
    BY DEF Known
  <2> QED BY <1>1, <2>1, KnownBegins DEF ReadForRelease
<1>2. ASSUME NEW w \in Workers, NEW r \in Rows, ReadForCommit(w, r) \/ ReadForCancel(w, r)
      PROVE  AllKnown'
  <2>1. ~IsFresh(resv, r)
    BY <1>2, FreshIsNotActive DEF ReadForCommit, ReadForCancel, IsFresh
  <2>2. Known([op |-> "commit", row |-> r], resv) /\ Known([op |-> "cancel", row |-> r], resv)
    BY <2>1 DEF Known
  <2> QED BY <1>2, <2>2, KnownBegins DEF ReadForCommit, ReadForCancel
<1>3. ASSUME NEW w \in Workers, NEW r \in Rows, NEW m \in Medias, ReadForPublish(w, r, m)
      PROVE  AllKnown'
  <2>1. Known([op |-> "publish", row |-> r, media |-> m], resv)
    BY <1>3 DEF ReadForPublish, Known, Later
  <2> QED BY <1>3, <2>1, KnownBegins DEF ReadForPublish
<1>4. ASSUME NEW w \in Workers, NEW p \in Pairs, ReadPairReceipts(w, p)
      PROVE  AllKnown'
  <2>1. Known([op |-> "pair_checked", pair |-> p], resv)
    BY DEF Known
  <2> QED BY <1>4, <2>1, KnownBegins DEF ReadPairReceipts
<1>5. ASSUME NEW w \in Workers,
             \/ WriteRelease(w) \/ WriteCommit(w) \/ WriteCancel(w) \/ WritePublish(w)
             \/ ReservePairWhole(w) \/ ReservePairSecond(w) \/ Abandon(w)
      PROVE  AllKnown'
  <2>1. \A v \in Workers : call'[v] = (IF v = w THEN Idle ELSE call[v])
    BY <1>0, <1>5 DEF WriteRelease, WriteCommit, WriteCancel, WritePublish, ReservePairWhole,
                     ReservePairSecond, Abandon, Return
  <2> QED BY <2>1, KnownGoesOn DEF Idle
<1>6. ASSUME NEW w \in Workers, ReservePairFirst(w)
      PROVE  AllKnown'
  <2>1. \A v \in Workers : \/ call'[v] = call[v]
                            \/ call'[v].op \in {"idle", "pair_second"}
    BY <1>0, <1>6 DEF ReservePairFirst, Idle
  <2> QED BY <2>1, KnownGoesOn
<1>7. CASE call' = call
  BY <1>7, KnownGoesOn
<1> QED BY <1>1, <1>2, <1>3, <1>4, <1>5, <1>6, <1>7
        DEF Next, Worker, vars, ReserveInventoryAsset, EnsurePerceptualMetadata, RejectAsset,
            ExpireInventoryReservations, CampaignRelease, Tick

(* Whatever runs between the statements of a commit, cancellation or         *)
(* publication, the event it writes is true of its row, or the row had ended *)
(* (commit_, cancel_ and publish_inventory_reservation).                     *)
THEOREM EvidenceHolds == Spec => EvidenceOfLiveRowsIsTrue
<1> DEFINE True(e) == \/ resv'[e.row].status = StatusOfEvent(e)
                      \/ resv[e.row].status \in TerminalStatus
           Fits == \A e \in events' \ events : True(e)
<1>1. TypeOK /\ AllKnown /\ [Next]_vars => [Fits]_vars
  <2> SUFFICES ASSUME TypeOK, AllKnown, [Next]_vars, NEW e \in events' \ events
               PROVE  True(e)
    OBVIOUS
  <2>0. resv \in Tables /\ call \in [Workers -> Calls]
    BY DEF TypeOK, Tables
  <2>1. CASE CampaignRelease
    <3>1. PICK r \in Rows : /\ e = [row |-> r, type |-> "campaign_lifecycle_release"]
                            /\ resv[r].status = "pending"
      BY <2>1 DEF CampaignRelease
    <3>2. resv'[r] = WithStatus(resv[r], "released")
      BY <2>1, <3>1 DEF CampaignRelease
    <3> QED BY <2>0, <3>1, <3>2, RowShape, WithStatusFacts, StatusSets
            DEF StatusOfEvent, TerminalStatus
  <2>2. ASSUME NEW w \in Workers, WriteCommit(w)
        PROVE  True(e)
    <3>1. e = [row |-> call[w].row, type |-> "draft_ingest_accepted"] /\ call[w].row \in Rows
      BY <2>0, <2>2, CallShape DEF WriteCommit
    <3>2. StatusOfEvent(e) = "committed"
      BY <3>1 DEF StatusOfEvent
    <3>3. ~IsFresh(resv, call[w].row)
      BY <2>2 DEF WriteCommit, AllKnown, Known
    <3>4. CASE resv[call[w].row].status = "pending"
      <4>1. resv'[call[w].row] = WithStatus(resv[call[w].row], "committed")
        BY <2>0, <2>2, <3>1, <3>4 DEF WriteCommit, SetStatus, Tables
      <4> QED BY <2>0, <3>1, <3>2, <4>1, RowShape, WithStatusFacts, StatusSets DEF ActiveStatus
    <3>5. CASE resv[call[w].row].status # "pending"
      <4>1. resv' = resv
        BY <2>2, <3>5 DEF WriteCommit
      <4> QED BY <2>0, <3>1, <3>2, <3>3, <3>5, <4>1, RowShape, StatusSets
              DEF IsFresh, ActiveStatus
    <3> QED BY <3>4, <3>5
  <2>3. ASSUME NEW w \in Workers, WriteCancel(w)
        PROVE  True(e)
    <3>1. e = [row |-> call[w].row, type |-> "draft_cancelled"] /\ call[w].row \in Rows
      BY <2>0, <2>3, CallShape DEF WriteCancel
    <3>2. StatusOfEvent(e) = "cancelled"
      BY <3>1 DEF StatusOfEvent
    <3>3. ~IsFresh(resv, call[w].row)
      BY <2>3 DEF WriteCancel, AllKnown, Known
    <3>4. CASE IsActive(resv, call[w].row)
      <4>1. resv'[call[w].row] = WithStatus(resv[call[w].row], "cancelled")
        BY <2>0, <2>3, <3>1, <3>4 DEF WriteCancel, SetStatus, Tables
      <4>2. resv[call[w].row] \in RowRecords /\ "cancelled" \in Statuses
        BY <2>0, <3>1, RowShape DEF Statuses, TerminalStatus
      <4>3. resv'[call[w].row].status = "cancelled"
        BY <4>1, <4>2, WithStatusFacts
      <4> QED BY <3>1, <3>2, <4>3
    <3>5. CASE ~IsActive(resv, call[w].row)
      BY <2>0, <3>1, <3>3, <3>5, RowShape, StatusSets DEF IsFresh, IsActive
    <3> QED BY <3>4, <3>5
  <2>4. ASSUME NEW w \in Workers, WritePublish(w)
        PROVE  True(e)
    <3>1. /\ e = [row |-> call[w].row, type |-> "publication_confirmed", media |-> call[w].media]
          /\ call[w].row \in Rows
      BY <2>0, <2>4, CallShape DEF WritePublish
    <3>2. StatusOfEvent(e) = "published"
      BY <3>1 DEF StatusOfEvent
    <3>3. resv[call[w].row].status \in Later
      BY <2>4 DEF WritePublish, AllKnown, Known
    <3>4. CASE resv[call[w].row].status = "committed"
      <4>1. resv'[call[w].row] = WithStatus(resv[call[w].row], "published")
        BY <2>0, <2>4, <3>1, <3>4 DEF WritePublish, SetStatus, Tables
      <4>2. resv[call[w].row] \in RowRecords /\ "published" \in Statuses
        BY <2>0, <3>1, RowShape DEF Statuses, TerminalStatus
      <4>3. resv'[call[w].row].status = "published"
        BY <4>1, <4>2, WithStatusFacts
      <4> QED BY <3>1, <3>2, <4>3
    <3>5. CASE resv[call[w].row].status # "committed"
      BY <3>1, <3>3, <3>5 DEF Later
    <3> QED BY <3>4, <3>5
  <2>5. CASE events' = events
    BY <2>5
  <2> QED BY ZenonT(30), <2>1, <2>2, <2>3, <2>4, <2>5
          DEF Next, Worker, vars, ReserveInventoryAsset, EnsurePerceptualMetadata, RejectAsset,
              ExpireInventoryReservations, Tick, Abandon, Begin, ReadForRelease, ReadForCommit,
              ReadForCancel, ReadForPublish, ReadPairReceipts, WriteRelease,
              ReservePairWhole, ReservePairFirst, ReservePairSecond
<1>2. Init => AllKnown
  BY DEF Init, AllKnown, Known, Idle
<1>3. TypeOK /\ AllKnown /\ [Next]_vars => AllKnown'
  BY KnownSteps
<1> QED BY <1>1, <1>2, <1>3, TypeCorrect, PTL DEF Spec, EvidenceOfLiveRowsIsTrue

-----------------------------------------------------------------------------
Cleared(t, gone) == \A r \in Rows : IsActive(t, r) => t[r].asset \notin gone

LEMMA ClearedLasts ==
  ASSUME NEW t \in Tables, NEW u, Lasting(t, u), NEW gone, Cleared(t, gone)
  PROVE  Cleared(u, gone)
BY LastingFacts, FreshIsNotActive DEF Cleared

(* A reservation of an asset that is not rejected keeps rejected ones free.  *)
LEMMA ClearedReserves ==
  ASSUME NEW t \in Tables, NEW a \in Assets, NEW to \in Destinations, NEW k \in RowKeys,
         NEW p \in Pairs \cup {NoPair}, NEW paired, clock \in Nat,
         CanReserve(t, a, to, k, paired), NEW gone, Cleared(t, gone), a \notin gone
  PROVE  Reserved(t, a, to, k, p) \in Tables /\ Cleared(Reserved(t, a, to, k, p), gone)
<1> DEFINE s == Swept(t)
           u == Reserved(t, a, to, k, p)
<1>1. s \in Tables /\ Cleared(s, gone) /\ u \in Tables
  BY SweptRelabels, RelabelledAdvances, RelabelledLasts, ClearedLasts, ReservedFacts
<1>2. CASE KeyActive(s, k)
  BY <1>1, <1>2 DEF Reserved
<1>3. CASE ~KeyActive(s, k)
  <2>1. FreshRow(s) \in Rows
    BY <1>3 DEF FreshRow, CanReserve
  <2>2. u[FreshRow(s)].asset = a /\ \A r \in Rows : r # FreshRow(s) => u[r] = s[r]
    BY <1>1, <1>3, <2>1 DEF Reserved, Tables
  <2> QED BY <1>1, <2>2 DEF Cleared, IsActive
<1> QED BY <1>1, <1>2, <1>3

(* No second asset of a pair waits for its metadata, so the commit that      *)
(* splits the transaction of a pair does not happen.                         *)
SecondsHashed == \A p \in Pairs : p.second \in HashedAtStart

SecondsReady ==
  /\ \A p \in Pairs : p.second \in hashed
  /\ \A w \in Workers : call[w].op # "pair_second"

LEMMA HashedGrows ==
  ASSUME [Next]_vars
  PROVE  hashed \subseteq hashed'
<1>1. ASSUME NEW w \in Workers, Worker(w)
      PROVE  hashed \subseteq hashed'
  BY <1>1 DEF Worker, Abandon, Begin, ReadForRelease, ReadForCommit, ReadForCancel,
              ReadForPublish, ReadPairReceipts, WriteRelease, WriteCommit, WriteCancel,
              WritePublish, ReservePairWhole, ReservePairFirst, ReservePairSecond
<1> QED BY <1>1
        DEF Next, vars, ReserveInventoryAsset, EnsurePerceptualMetadata, RejectAsset,
            ExpireInventoryReservations, CampaignRelease, Tick

LEMMA ReadyBegins ==
  ASSUME TypeOK, SecondsReady, NEW w \in Workers, NEW c, Begin(w, c), c.op # "pair_second"
  PROVE  \A v \in Workers : call'[v].op # "pair_second"
BY DEF Begin, TypeOK, SecondsReady

LEMMA ReadySteps ==
  ASSUME TypeOK, SecondsReady, [Next]_vars
  PROVE  SecondsReady'
<1>0. call \in [Workers -> Calls]
  BY DEF TypeOK
<1>1. ASSUME NEW w \in Workers, NEW r \in Rows,
             \/ \E to \in {"released", "cancelled"}, pendingOnly \in BOOLEAN :
                  ReadForRelease(w, r, to, pendingOnly)
             \/ ReadForCommit(w, r) \/ ReadForCancel(w, r)
             \/ \E m \in Medias : ReadForPublish(w, r, m)
      PROVE  \A v \in Workers : call'[v].op # "pair_second"
  BY <1>1, ReadyBegins DEF ReadForRelease, ReadForCommit, ReadForCancel, ReadForPublish
<1>2. ASSUME NEW w \in Workers, NEW p \in Pairs, ReadPairReceipts(w, p)
      PROVE  \A v \in Workers : call'[v].op # "pair_second"
  BY <1>2, ReadyBegins DEF ReadPairReceipts
<1>3. ASSUME NEW w \in Workers,
             \/ WriteRelease(w) \/ WriteCommit(w) \/ WriteCancel(w) \/ WritePublish(w)
             \/ ReservePairWhole(w) \/ ReservePairSecond(w) \/ Abandon(w)
      PROVE  \A v \in Workers : call'[v].op # "pair_second"
  <2>1. call' = [call EXCEPT ![w] = Idle]
    BY <1>3 DEF WriteRelease, WriteCommit, WriteCancel, WritePublish, ReservePairWhole,
                ReservePairSecond, Abandon, Return
  <2> QED BY <1>0, <2>1 DEF SecondsReady, Idle
<1>4. ASSUME NEW w \in Workers, ReservePairFirst(w)
      PROVE  FALSE
  BY <1>0, <1>4, CallShape DEF ReservePairFirst, SecondsReady
<1>5. ASSUME call' = call
      PROVE  \A v \in Workers : call'[v].op # "pair_second"
  BY <1>5 DEF SecondsReady
<1>6. \A v \in Workers : call'[v].op # "pair_second"
  BY <1>1, <1>2, <1>3, <1>4, <1>5
     DEF Next, Worker, vars, ReserveInventoryAsset, EnsurePerceptualMetadata, RejectAsset,
         ExpireInventoryReservations, CampaignRelease, Tick
<1>7. \A p \in Pairs : p.second \in hashed'
  BY HashedGrows DEF SecondsReady
<1> QED BY <1>6, <1>7 DEF SecondsReady

LEMMA SecondsStayReady ==
  ASSUME SecondsHashed
  PROVE  Spec => []SecondsReady
<1>1. Init => SecondsReady
  BY DEF Init, SecondsReady, SecondsHashed, Idle
<1>2. TypeOK /\ SecondsReady /\ [Next]_vars => SecondsReady'
  BY ReadySteps
<1> QED BY <1>1, <1>2, TypeCorrect, PTL DEF Spec

(* However processes overlap, a rejected asset is never held: a rejection    *)
(* between the reads of a pair reservation and its transaction included,     *)
(* when second assets are hashed beforehand (review_rendered_asset,          *)
(* _reserve_inventory_asset, reserve_experiment_pair).                       *)
THEOREM RejectedIsNeverHeld ==
  ASSUME SecondsHashed
  PROVE  Spec => []RejectedNeverHeld
<1>1. Init => Cleared(resv, rejected)
  BY DEF Init, Cleared
<1>2. TypeOK /\ SecondsReady /\ Cleared(resv, rejected) /\ [Next]_vars => Cleared(resv', rejected')
  <2> SUFFICES ASSUME TypeOK, SecondsReady, Cleared(resv, rejected), [Next]_vars
               PROVE  Cleared(resv', rejected')
    OBVIOUS
  <2>0. resv \in Tables /\ call \in [Workers -> Calls] /\ clock \in Nat
    BY DEF TypeOK, Tables
  <2>1. ASSUME NEW q \in Requests, ReserveInventoryAsset(q.asset, q.account, q.key)
        PROVE  Cleared(resv', rejected')
    BY <2>0, <2>1, RequestShape, ClearedReserves DEF ReserveInventoryAsset
  <2>2. ASSUME NEW a \in Assets, RejectAsset(a)
        PROVE  Cleared(resv', rejected')
    <3> SUFFICES ASSUME NEW r \in Rows, IsActive(resv', r)
                 PROVE  resv'[r].asset \notin rejected'
      BY DEF Cleared
    <3>1. CASE IsActive(resv, r) /\ resv[r].asset = a
      <4>1. resv'[r] = WithStatus(resv[r], "expired")
        BY <2>2, <3>1 DEF RejectAsset
      <4>2. resv'[r].status = "expired"
        <5>1. resv[r] \in RowRecords /\ "expired" \in Statuses
          BY <2>0, RowShape DEF Statuses, TerminalStatus
        <5> QED BY <4>1, <5>1, WithStatusFacts
      <4> QED BY <4>2 DEF IsActive, ActiveStatus
    <3>2. CASE ~(IsActive(resv, r) /\ resv[r].asset = a)
      <4>1. resv'[r] = resv[r]
        BY <2>2, <3>2 DEF RejectAsset
      <4> QED BY <2>2, <3>2, <4>1 DEF RejectAsset, IsActive, Cleared
    <3> QED BY <3>1, <3>2
  <2>3. ASSUME NEW w \in Workers, ReservePairWhole(w)
        PROVE  Cleared(resv', rejected')
    <3> DEFINE p == call[w].pair
    <3>1. /\ p \in Pairs /\ p.first \notin rejected /\ p.second \notin rejected
          /\ rejected' = rejected
      BY <2>0, <2>3, CallShape DEF ReservePairWhole
    <3>2. AfterFirst(p) \in Tables /\ Cleared(AfterFirst(p), rejected)
      BY <2>0, <2>3, <3>1, PairShape, ClearedReserves DEF ReservePairWhole, AfterFirst
    <3> QED BY <2>0, <2>3, <3>1, <3>2, PairShape, ClearedReserves DEF ReservePairWhole
  <2>4. ASSUME NEW w \in Workers, ReservePairFirst(w)
        PROVE  Cleared(resv', rejected')
    <3>1. /\ call[w].pair \in Pairs /\ call[w].pair.first \notin rejected
          /\ rejected' = rejected
      BY <2>0, <2>4, CallShape DEF ReservePairFirst
    <3> QED BY <2>0, <2>4, <3>1, PairShape, ClearedReserves DEF ReservePairFirst, AfterFirst
  <2>5. ASSUME NEW w \in Workers, ReservePairSecond(w)
        PROVE  Cleared(resv', rejected')
    BY <2>5 DEF ReservePairSecond, SecondsReady
  <2>6. CASE Lasting(resv, resv') /\ rejected' = rejected
    BY <2>0, <2>6, ClearedLasts
  <2>7. CASE resv' = resv /\ rejected' = rejected
    BY <2>7
  <2>8. ASSUME NEW w \in Workers,
               WriteRelease(w) \/ WriteCommit(w) \/ WriteCancel(w) \/ WritePublish(w)
        PROVE  Cleared(resv', rejected')
    BY <2>6, <2>8, RowsLast DEF WriteRelease, WriteCommit, WriteCancel, WritePublish
  <2>9. CASE ExpireInventoryReservations
    BY <2>0, <2>6, <2>9, SweptRelabels, RelabelledLasts DEF ExpireInventoryReservations
  <2>10. CASE CampaignRelease
    <3>1. Relabelled(resv, resv')
      BY <2>0, <2>10 DEF CampaignRelease, Relabelled, TerminalStatus, Later, IsActive, ActiveStatus
    <3> QED BY <2>0, <2>6, <2>10, <3>1, RelabelledLasts DEF CampaignRelease
  <2> QED BY <2>1, <2>2, <2>3, <2>4, <2>5, <2>7, <2>8, <2>9, <2>10
          DEF Next, Worker, vars, EnsurePerceptualMetadata, Tick, Abandon, Begin,
              ReadForRelease, ReadForCommit, ReadForCancel, ReadForPublish,
              ReadPairReceipts
<1>3. Cleared(resv, rejected) => RejectedNeverHeld
  BY DEF Cleared, RejectedNeverHeld
<1>4. TypeOK /\ SecondsReady /\ Cleared(resv, rejected) /\ [Next]_vars
        => Cleared(resv, rejected)'
  BY <1>2 DEF Cleared, IsActive
<1> QED BY <1>1, <1>3, <1>4, SecondsStayReady, TypeCorrect, PTL DEF Spec

-----------------------------------------------------------------------------
(* Pairs whose second asset has an identity, and reservations that end       *)
(* inside the cooldown.                                                      *)
SecondsIdentified == \A p \in Pairs : Family[p.second] # NoFamily

Sheltered ==
  /\ TTL <= Cooldown + 1 /\ PairTTL <= Cooldown + 1
  /\ SecondsIdentified

Clash(x, y) ==
  /\ SameIdentity(x.asset, y.asset)
  /\ {x.account, y.account} \subseteq Accounts /\ x.account # y.account

(* An account's claim on a family, through rows and publications: A are the  *)
(* assignments, o the origins and now the time.                              *)
RowsDated(t, now) ==
  \A r \in Rows : ~IsFresh(t, r) =>
    t[r].at <= now /\ t[r].expires <= t[r].at + Cooldown + 1
OriginKept(t, o) ==
  \A r \in Rows :
    ~IsFresh(t, r) /\ Family[t[r].asset] = NoFamily /\ t[r].account # NoAccount
      => o[t[r].asset] = t[r].account
RowsApart(t) ==
  \A r, s \in Rows :
    IsActive(t, r) /\ IsActive(t, s) /\ Clash(t[r], t[s]) => PairIn(t, r, s)
PastApart(t, A) ==
  \A r \in Rows, m \in A :
    IsActive(t, r) /\ Clash(m, t[r])
      => m.at + Cooldown < t[r].at \/ PairIn(t, m.row, r)
Published(t, A, now) ==
  \A m \in A : /\ m.row \in Rows /\ t[m.row].status = "published"
               /\ m.asset = t[m.row].asset /\ m.account = t[m.row].account
               /\ m.at \in Nat /\ m.at <= now
AllApart(t, A) ==
  \A m, n \in A : Clash(m, n) /\ Near(m, n) => PairIn(t, m.row, n.row)

Book(t, o, A, now) ==
  /\ RowsDated(t, now) /\ OriginKept(t, o) /\ RowsApart(t) /\ PastApart(t, A)
  /\ Published(t, A, now) /\ AllApart(t, A)

LEMMA ClashSymmetric ==
  ASSUME NEW x, NEW y, Clash(x, y)
  PROVE  Clash(y, x)
BY DEF Clash, SameIdentity

LEMMA PublishedIsOld ==
  ASSUME NEW t, NEW A, NEW now, Published(t, A, now), NEW m \in A
  PROVE  m.row \in Rows /\ ~IsFresh(t, m.row) /\ ~IsActive(t, m.row)
         /\ t[m.row].status \in TerminalStatus
BY DEF Published, IsFresh, IsActive, ActiveStatus, TerminalStatus

LEMMA BookLasts ==
  ASSUME NEW t \in Tables, NEW u, Lasting(t, u), NEW o, NEW A, NEW now, Book(t, o, A, now)
  PROVE  Book(u, o, A, now)
<1>1. \A m \in A : m.row \in Rows /\ u[m.row] = t[m.row]
  BY PublishedIsOld DEF Lasting, Book
<1>2. RowsDated(u, now)
  BY LastingFacts DEF Book, RowsDated
<1>3. OriginKept(u, o)
  BY LastingFacts DEF Book, OriginKept
<1>4. ASSUME NEW r \in Rows, IsActive(u, r)
      PROVE  /\ IsActive(t, r)
             /\ u[r].asset = t[r].asset /\ u[r].account = t[r].account
             /\ u[r].pair = t[r].pair /\ u[r].at = t[r].at
  BY <1>4, LastingFacts, FreshIsNotActive
<1>5. RowsApart(u)
  <2> SUFFICES ASSUME NEW r \in Rows, NEW s \in Rows, IsActive(u, r), IsActive(u, s),
                      Clash(u[r], u[s])
               PROVE  PairIn(u, r, s)
    BY DEF RowsApart
  <2>1. Clash(t[r], t[s]) /\ IsActive(t, r) /\ IsActive(t, s)
    BY <1>4 DEF Clash
  <2>2. PairIn(t, r, s)
    BY <2>1 DEF Book, RowsApart
  <2> QED BY <1>4, <2>2 DEF PairIn
<1>6. PastApart(u, A)
  <2> SUFFICES ASSUME NEW r \in Rows, NEW m \in A, IsActive(u, r), Clash(m, u[r])
               PROVE  m.at + Cooldown < u[r].at \/ PairIn(u, m.row, r)
    BY DEF PastApart
  <2>1. Clash(m, t[r]) /\ IsActive(t, r) /\ u[r].at = t[r].at
    BY <1>4 DEF Clash
  <2>2. m.at + Cooldown < t[r].at \/ PairIn(t, m.row, r)
    BY <2>1 DEF Book, PastApart
  <2> QED BY <1>1, <1>4, <2>1, <2>2 DEF PairIn
<1>7. Published(u, A, now)
  BY <1>1 DEF Book, Published
<1>8. AllApart(u, A)
  BY <1>1 DEF Book, AllApart, PairIn
<1> QED BY <1>2, <1>3, <1>5, <1>6, <1>7, <1>8 DEF Book

(* What an insert finds of a publication of the same family.                 *)
LEMMA InsertedAfter ==
  ASSUME NEW s \in Tables, NEW u \in Tables, NEW o, NEW n, NEW q, Insertion(s, u, o, n, q),
         OriginKept(s, o), Published(s, assignments, clock), Sheltered,
         NEW m \in assignments, Clash(m, u[q]), InWindow(m.at)
  PROVE  PairIn(u, m.row, q)
<1> DEFINE a == u[q].asset
           use == [asset |-> m.asset, account |-> m.account, at |-> m.at]
<1>1. use \in Uses(s)
  BY DEF Uses
<1>2. m.account \in Accounts /\ u[q].account \in Accounts /\ m.account # u[q].account
      /\ m.account # NoAccount /\ u[q].account # NoAccount /\ SameIdentity(a, m.asset)
  BY IdentityAssumption DEF Clash, SameIdentity
<1>3. PICK paired \in Assets :
        /\ paired = a \/ (u[q].pair \in Pairs /\ paired = u[q].pair.first /\ a = u[q].pair.second)
        /\ Eligible(s, a, u[q].account, paired)
        /\ ~UniquenessConflict(s, a, u[q].account, paired)
  BY DEF Insertion
<1>4. m.row \in Rows /\ m.row # q /\ u[m.row] = s[m.row] /\ ~IsFresh(s, m.row)
      /\ m.asset = s[m.row].asset /\ m.account = s[m.row].account
  BY PublishedIsOld DEF Published, Insertion
<1>5. CASE m.asset = a
  <2>1. CASE Family[a] = NoFamily
    <3>1. paired = a
      BY <1>3, <2>1 DEF Sheltered, SecondsIdentified
    <3>2. origin[a] \in {NoAccount, u[q].account}
      BY <1>2, <1>3, <2>1, <3>1 DEF Eligible
    <3>3. o[a] = m.account
      BY <1>2, <1>4, <1>5, <2>1 DEF OriginKept
    <3> QED BY <1>2, <3>2, <3>3 DEF Insertion
  <2>2. CASE Family[a] # NoFamily
    <3>1. \/ use.account \in {NoAccount, u[q].account}
          \/ ~InWindow(use.at)
          \/ ~SameIdentity(a, use.asset)
          \/ paired # a /\ use.asset = paired
      BY <1>1, <1>2, <1>3, <2>2 DEF Eligible
    <3> QED BY <1>2, <1>5, <3>1
  <2> QED BY <2>1, <2>2
<1>6. CASE m.asset # a
  <2>1. Family[a] # NoFamily /\ Family[m.asset] = Family[a]
    BY <1>2, <1>6 DEF SameIdentity
  <2>2. ~(/\ use.asset # a /\ Family[a] # NoFamily /\ Family[use.asset] = Family[a]
          /\ InWindow(use.at)
          /\ u[q].account = NoAccount \/ use.account # u[q].account
          /\ ~(paired # a /\ use.asset = paired))
    BY <1>1, <1>3 DEF UniquenessConflict
  <2>3. paired # a /\ m.asset = paired
    BY <1>2, <1>6, <2>1, <2>2
  <2>4. u[q].pair \in Pairs /\ u[m.row].asset = u[q].pair.first /\ a = u[q].pair.second
    BY <1>3, <1>4, <2>3
  <2> QED BY <2>4 DEF PairIn
<1> QED BY <1>5, <1>6

LEMMA OriginInserts ==
  ASSUME NEW s \in Tables, NEW u \in Tables, NEW o \in [Assets -> Destinations], NEW n, NEW q,
         Insertion(s, u, o, n, q), SecondsIdentified, OriginKept(s, o)
  PROVE  OriginKept(u, n)
<1> SUFFICES ASSUME NEW r \in Rows, ~IsFresh(u, r), Family[u[r].asset] = NoFamily,
                    u[r].account # NoAccount
             PROVE  n[u[r].asset] = u[r].account
  BY DEF OriginKept
<1>1. /\ q \in Rows /\ \A x \in Rows : x # q => u[x] = s[x]
      /\ n = IF o[u[q].asset] = NoAccount THEN [o EXCEPT ![u[q].asset] = u[q].account] ELSE o
  BY DEF Insertion
<1>2. CASE r # q
  <2>1. u[r] = s[r] /\ ~IsFresh(s, r)
    BY <1>1, <1>2 DEF IsFresh
  <2>2. o[u[r].asset] = u[r].account
    BY <2>1 DEF OriginKept
  <2> QED BY <1>1, <2>2
<1>3. CASE r = q
  <2>1. u[q].asset \in Assets /\ u[q].account \in Destinations
    BY <1>1, RowShape DEF Tables, RowRecords
  <2>2. PICK paired \in Assets :
          /\ paired = u[q].asset \/ (u[q].pair \in Pairs /\ u[q].asset = u[q].pair.second)
          /\ Eligible(s, u[q].asset, u[q].account, paired)
    BY DEF Insertion
  <2>3. origin[u[q].asset] \in {NoAccount, u[q].account}
    BY <1>3, <2>2 DEF Eligible, SecondsIdentified
  <2>4. o[u[q].asset] \in {NoAccount, u[q].account}
    BY <2>3 DEF Insertion
  <2> QED BY <1>1, <1>3, <2>1, <2>4
<1> QED BY <1>2, <1>3

LEMMA BookInserts ==
  ASSUME NEW s \in Tables, NEW u \in Tables, NEW o \in [Assets -> Destinations], NEW n, NEW q,
         Insertion(s, u, o, n, q), NoneOverdue(s), Sheltered, clock \in Nat,
         Book(s, o, assignments, clock)
  PROVE  Book(u, n, assignments, clock)
<1>1. /\ q \in Rows /\ IsFresh(s, q) /\ u[q].at = clock
      /\ u[q].expires = clock + (IF u[q].pair = NoPair THEN TTL ELSE PairTTL)
      /\ \A r \in Rows : r # q => u[r] = s[r]
      /\ n = IF o[u[q].asset] = NoAccount THEN [o EXCEPT ![u[q].asset] = u[q].account] ELSE o
  BY DEF Insertion
<1>2. \A m \in assignments : m.row \in Rows /\ m.row # q /\ u[m.row] = s[m.row]
  BY <1>1, PublishedIsOld DEF Book
<1>3. RowsDated(u, clock)
  <2>1. u[q].at <= clock /\ u[q].expires <= u[q].at + Cooldown + 1
    BY <1>1, BoundsAssumption DEF Sheltered
  <2> QED BY <1>1, <2>1 DEF Book, RowsDated, IsFresh
<1>4. OriginKept(u, n)
  BY OriginInserts DEF Book, Sheltered
<1>5. ASSUME NEW r \in Rows, r # q, IsActive(u, r), Clash(u[r], u[q])
      PROVE  PairIn(u, r, q)
  <2>1. u[r] = s[r] /\ IsActive(s, r)
    BY <1>1, <1>5 DEF IsActive
  <2>2. InWindow(s[r].at)
    <3>1. s[r].expires <= s[r].at + Cooldown + 1 /\ ~(s[r].expires <= clock)
      BY <2>1, FreshIsNotActive DEF Book, RowsDated, NoneOverdue
    <3>2. s[r].at \in Nat /\ s[r].expires \in Nat /\ Cooldown \in Nat
      BY RowShape, BoundsAssumption DEF RowRecords
    <3> QED BY <3>1, <3>2 DEF InWindow
  <2>3. SameIdentity(s[r].asset, u[q].asset) /\ s[r].account # u[q].account
    BY <1>5, <2>1 DEF Clash
  <2> QED BY <1>1, <1>5, <2>1, <2>2, <2>3, InsertedBeside
<1>6. RowsApart(u)
  <2> SUFFICES ASSUME NEW r1 \in Rows, NEW r2 \in Rows, IsActive(u, r1), IsActive(u, r2),
                      Clash(u[r1], u[r2])
               PROVE  PairIn(u, r1, r2)
    BY DEF RowsApart
  <2>1. CASE r1 # q /\ r2 # q
    <3>1. u[r1] = s[r1] /\ u[r2] = s[r2]
      BY <1>1, <2>1
    <3> QED BY <3>1 DEF Book, RowsApart, PairIn, IsActive
  <2>2. CASE r1 # q /\ r2 = q
    BY <1>5, <2>2
  <2>3. CASE r1 = q /\ r2 # q
    BY <1>5, <2>3, ClashSymmetric, PairInSymmetric
  <2>4. r1 # r2
    BY DEF Clash
  <2> QED BY <2>1, <2>2, <2>3, <2>4
<1>7. PastApart(u, assignments)
  <2> SUFFICES ASSUME NEW r \in Rows, NEW m \in assignments, IsActive(u, r), Clash(m, u[r])
               PROVE  m.at + Cooldown < u[r].at \/ PairIn(u, m.row, r)
    BY DEF PastApart
  <2>1. CASE r # q
    <3>1. u[r] = s[r] /\ u[m.row] = s[m.row]
      BY <1>1, <1>2, <2>1
    <3> QED BY <3>1 DEF Book, PastApart, PairIn, IsActive
  <2>2. CASE r = q /\ InWindow(m.at)
    BY <2>2, InsertedAfter DEF Book
  <2>3. CASE r = q /\ ~InWindow(m.at)
    <3>1. m.at \in Nat /\ Cooldown \in Nat
      BY BoundsAssumption DEF Book, Published
    <3> QED BY <1>1, <2>3, <3>1 DEF InWindow
  <2> QED BY <2>1, <2>2, <2>3
<1>8. Published(u, assignments, clock)
  BY <1>2 DEF Book, Published
<1>9. AllApart(u, assignments)
  BY <1>2 DEF Book, AllApart, PairIn
<1> QED BY <1>3, <1>4, <1>6, <1>7, <1>8, <1>9 DEF Book

LEMMA BookReserves ==
  ASSUME NEW t \in Tables, NEW u, NEW o \in [Assets -> Destinations], NEW n, Sheltered,
         clock \in Nat, Reservation(t, u, o, n), Book(t, o, assignments, clock)
  PROVE  u \in Tables /\ Book(u, n, assignments, clock)
<1>1. Swept(t) \in Tables /\ NoneOverdue(Swept(t)) /\ u \in Tables
      /\ Book(Swept(t), o, assignments, clock)
  BY ReservationInserts, BookLasts
<1> QED BY <1>1, ReservationInserts, BookInserts

LEMMA BookAges ==
  ASSUME NEW t \in Tables, NEW o, NEW A, NEW now \in Nat, NEW later \in Nat, now <= later,
         Book(t, o, A, now)
  PROVE  Book(t, o, A, later)
<1>1. \A r \in Rows : t[r].at \in Nat
  BY RowShape DEF RowRecords
<1>2. RowsDated(t, later)
  BY <1>1 DEF Book, RowsDated
<1>3. Published(t, A, later)
  BY DEF Book, Published
<1> QED BY <1>2, <1>3 DEF Book

(* Publishing a committed row: the row's own claim becomes the publication's. *)
LEMMA BookPublishes ==
  ASSUME TypeOK, Current, NEW w \in Workers, WritePublish(w),
         Book(resv, origin, assignments, clock)
  PROVE  Book(resv', origin', assignments', clock')
<1> DEFINE r == call[w].row
           m == [row |-> r, media |-> call[w].media, asset |-> resv[r].asset,
                 account |-> resv[r].account, at |-> clock]
<1>0. /\ resv \in Tables /\ call \in [Workers -> Calls] /\ clock \in Nat
      /\ origin' = origin /\ clock' = clock
  BY DEF TypeOK, Tables, WritePublish
<1>1. r \in Rows /\ resv[r].status = "committed"
  BY <1>0, CallShape DEF WritePublish, Current, StillTrue
<1>2. \A n \in assignments : n.row # r
  BY <1>1 DEF Book, Published
<1>3. assignments' = assignments \cup {m} /\ resv' = SetStatus(r, "published")
  BY <1>1, <1>2 DEF WritePublish
<1>4. resv'[r] = WithStatus(resv[r], "published") /\ \A s \in Rows : s # r => resv'[s] = resv[s]
  BY <1>0, <1>1, <1>3 DEF SetStatus, Tables
<1>5. /\ resv'[r].status = "published" /\ resv'[r].asset = resv[r].asset
      /\ resv'[r].account = resv[r].account /\ resv'[r].pair = resv[r].pair
      /\ resv'[r].at = resv[r].at
  <2>1. resv[r] \in RowRecords /\ "published" \in Statuses
    BY <1>0, <1>1, RowShape DEF Statuses, TerminalStatus
  <2> QED BY <1>4, <2>1, WithStatusFacts, WithStatusKeeps
<1>6. Lasting(resv, resv')
  BY RowsLast
<1>7. Book(resv', origin, assignments, clock)
  BY <1>0, <1>6, BookLasts
<1>8. IsActive(resv, r) /\ resv[r].at <= clock /\ resv[r].at \in Nat /\ Cooldown \in Nat
  <2>1. IsActive(resv, r)
    BY <1>1 DEF IsActive, ActiveStatus
  <2> QED BY <1>0, <1>1, <2>1, FreshIsNotActive, RowShape, BoundsAssumption
          DEF Book, RowsDated, RowRecords
<1>9. /\ m.row = r /\ m.asset = resv[r].asset /\ m.account = resv[r].account /\ m.at = clock
  OBVIOUS
<1> HIDE DEF m
<1>10. Published(resv', assignments', clock)
  BY <1>0, <1>1, <1>3, <1>5, <1>7, <1>9 DEF Book, Published
<1>12. ASSUME NEW s \in Rows, IsActive(resv', s), Clash(m, resv'[s])
       PROVE  PairIn(resv', m.row, s)
  <2>1. s # r
    BY <1>5, <1>12 DEF IsActive, ActiveStatus
  <2>2. IsActive(resv, s) /\ resv'[s] = resv[s]
    BY <1>4, <1>12, <2>1 DEF IsActive
  <2>3. Clash(resv[r], resv[s])
    BY <1>9, <1>12, <2>2 DEF Clash
  <2>4. PairIn(resv, r, s)
    BY <1>1, <1>7, <1>8, <2>2, <2>3 DEF Book, RowsApart
  <2> QED BY <1>5, <1>9, <2>2, <2>4 DEF PairIn
<1>13. PastApart(resv', assignments')
  BY <1>3, <1>7, <1>12 DEF Book, PastApart
<1>14. ASSUME NEW n \in assignments, Clash(n, m), Near(n, m)
       PROVE  PairIn(resv', n.row, m.row)
  <2>1. Clash(n, resv[r])
    BY <1>9, <1>14 DEF Clash
  <2>2. n.at + Cooldown < resv[r].at \/ PairIn(resv, n.row, r)
    BY <1>1, <1>8, <2>1 DEF Book, PastApart
  <2>3. n.at \in Nat /\ clock <= n.at + Cooldown
    BY <1>9, <1>14 DEF Near, Book, Published
  <2>4. PairIn(resv, n.row, r)
    BY <1>0, <1>8, <2>2, <2>3
  <2>5. n.row \in Rows /\ resv'[n.row] = resv[n.row]
    BY <1>2, <1>4 DEF Book, Published
  <2> QED BY <1>5, <1>9, <2>4, <2>5 DEF PairIn
<1>15. AllApart(resv', assignments')
  <2>1. ~Clash(m, m)
    BY DEF Clash
  <2>2. ASSUME NEW x \in assignments', NEW y \in assignments', Clash(x, y), Near(x, y)
        PROVE  PairIn(resv', x.row, y.row)
    <3>1. CASE x \in assignments /\ y \in assignments
      BY <1>7, <2>2, <3>1 DEF Book, AllApart
    <3>2. CASE x \in assignments /\ y = m
      BY <1>14, <2>2, <3>2
    <3>3. CASE x = m /\ y \in assignments
      <4>1. Clash(y, x) /\ Near(y, x)
        BY <2>2, ClashSymmetric DEF Near
      <4> QED BY <1>14, <3>3, <4>1, PairInSymmetric
    <3> QED BY <1>3, <2>1, <2>2, <3>1, <3>2, <3>3
  <2> QED BY <2>2 DEF AllApart
<1> QED BY <1>0, <1>7, <1>10, <1>13, <1>15 DEF Book

LEMMA AssignmentsOfStep ==
  ASSUME [Next]_vars
  PROVE  assignments' = assignments \/ \E w \in Workers : WritePublish(w)
<1>1. ASSUME NEW w \in Workers, Worker(w), ~WritePublish(w)
      PROVE  assignments' = assignments
  BY <1>1 DEF Worker, Abandon, Begin, ReadForRelease, ReadForCommit, ReadForCancel,
              ReadForPublish, ReadPairReceipts, WriteRelease, WriteCommit, WriteCancel,
              ReservePairWhole, ReservePairFirst, ReservePairSecond
<1> QED BY <1>1
        DEF Next, vars, ReserveInventoryAsset, EnsurePerceptualMetadata, RejectAsset,
            ExpireInventoryReservations, CampaignRelease, Tick

LEMMA BookSteps ==
  ASSUME TypeOK, Current, Sheltered, Book(resv, origin, assignments, clock), [Next]_vars
  PROVE  Book(resv', origin', assignments', clock')
<1>1. /\ resv \in Tables /\ clock \in Nat /\ clock' \in Nat /\ clock <= clock'
      /\ origin \in [Assets -> Destinations] /\ resv' \in Tables
  BY ClockAdvances, TableOfStep DEF TypeOK, Tables, TableStep
<1>2. ASSUME NEW w \in Workers, WritePublish(w)
      PROVE  Book(resv', origin', assignments', clock')
  BY <1>2, BookPublishes
<1>3. CASE Lasting(resv, resv') /\ origin' = origin /\ assignments' = assignments
  BY <1>1, <1>3, BookLasts, BookAges
<1>4. CASE /\ Reservation(resv, resv', origin, origin')
           /\ UNCHANGED <<assignments, clock>>
  BY <1>1, <1>4, BookReserves
<1>5. ASSUME NEW mid, NEW o, Reservation(resv, mid, origin, o),
             Reservation(mid, resv', o, origin'), UNCHANGED <<assignments, clock>>
      PROVE  Book(resv', origin', assignments', clock')
  <2>1. mid \in Tables /\ Book(mid, o, assignments, clock)
    BY <1>1, <1>5, BookReserves
  <2>2. o \in [Assets -> Destinations]
    BY <1>1, <1>5, OriginShape DEF Reservation
  <2> QED BY <1>1, <1>5, <2>1, <2>2, BookReserves
<1> QED BY <1>2, <1>3, <1>4, <1>5, RowsOfStep, AssignmentsOfStep DEF RowStep

LEMMA BookHolds ==
  ASSUME ~Overlap, Sheltered
  PROVE  Spec => []Book(resv, origin, assignments, clock)
<1> DEFINE B == Book(resv, origin, assignments, clock)
<1>1. Init => B
  <2> SUFFICES ASSUME Init PROVE B
    OBVIOUS
  <2>1. assignments = {} /\ \A r \in Rows : IsFresh(resv, r) /\ ~IsActive(resv, r)
    BY DEF Init, AbsentRow, IsFresh, IsActive, ActiveStatus
  <2> QED BY <2>1 DEF Book, RowsDated, OriginKept, RowsApart, PastApart, Published, AllApart
<1>2. TypeOK /\ Current /\ B /\ [Next]_vars => B'
  <2> SUFFICES ASSUME TypeOK, Current, B, [Next]_vars PROVE B'
    OBVIOUS
  <2>1. Book(resv', origin', assignments', clock')
    BY BookSteps
  <2> QED BY <2>1 DEF Book, RowsDated, OriginKept, RowsApart, PastApart, Published, AllApart, IsFresh, IsActive, Clash, SameIdentity, PairIn, Near
<1> QED BY <1>1, <1>2, CurrentHolds, TypeCorrect, PTL DEF Spec

(* The path from reservation to publication keeps what the reservation       *)
(* checked: no family is published by two accounts inside the cooldown, the  *)
(* pair apart, when processes take turns and no reservation outlives the     *)
(* cooldown (_reserve_inventory_asset, publish_inventory_reservation).       *)
THEOREM FamiliesArePublishedApart ==
  ASSUME ~Overlap, Sheltered
  PROVE  Spec => []NoCrossAccountReuse
<1>1. Book(resv, origin, assignments, clock) => NoCrossAccountReuse
  BY DEF Book, AllApart, NoCrossAccountReuse, Clash, PairIn, PairException
<1> QED BY <1>1, BookHolds, PTL

-----------------------------------------------------------------------------
(* An asset without identity keeps the account of its first reservation.     *)
LEMMA OriginLasts ==
  ASSUME NEW t \in Tables, NEW u, Lasting(t, u), NEW o, OriginKept(t, o)
  PROVE  OriginKept(u, o)
BY LastingFacts DEF OriginKept

LEMMA OriginReserves ==
  ASSUME NEW t \in Tables, NEW u, NEW o \in [Assets -> Destinations], NEW n,
         SecondsIdentified, clock \in Nat, Reservation(t, u, o, n), OriginKept(t, o)
  PROVE  u \in Tables /\ OriginKept(u, n)
<1>1. Swept(t) \in Tables /\ u \in Tables /\ OriginKept(Swept(t), o)
  BY ReservationInserts, OriginLasts
<1>2. ASSUME NEW q \in Rows, Insertion(Swept(t), u, o, n, q)
      PROVE  OriginKept(u, n)
  BY <1>1, <1>2, OriginInserts
<1> QED BY <1>1, <1>2, ReservationInserts

LEMMA OriginSteps ==
  ASSUME TypeOK, SecondsIdentified, OriginKept(resv, origin), [Next]_vars
  PROVE  OriginKept(resv', origin')
<1>1. resv \in Tables /\ clock \in Nat /\ origin \in [Assets -> Destinations]
  BY DEF TypeOK, Tables
<1>2. CASE Lasting(resv, resv') /\ origin' = origin
  BY <1>1, <1>2, OriginLasts
<1>3. CASE Reservation(resv, resv', origin, origin')
  BY <1>1, <1>3, OriginReserves
<1>4. ASSUME NEW mid, NEW o, Reservation(resv, mid, origin, o),
             Reservation(mid, resv', o, origin')
      PROVE  OriginKept(resv', origin')
  <2>1. mid \in Tables /\ OriginKept(mid, o)
    BY <1>1, <1>4, OriginReserves
  <2>2. o \in [Assets -> Destinations]
    BY <1>1, <1>4, OriginShape DEF Reservation
  <2> QED BY <1>1, <1>4, <2>1, <2>2, OriginReserves
<1> QED BY <1>2, <1>3, <1>4, RowsOfStep DEF RowStep

(* An asset that carries no reuse identity stays with the account it was     *)
(* first reserved for, after its row has ended and whatever processes        *)
(* overlap, unless it is the second of a pair, for which                     *)
(* _pair_scoped_eligibility drops the check of the origin                    *)
(* (evaluate_assignment_eligibility, persist_assignment_origin).             *)
THEOREM UnidentifiedStayAtOrigin ==
  ASSUME SecondsIdentified
  PROVE  Spec => []UnidentifiedAssetsKeepOrigin
<1>1. Init => OriginKept(resv, origin)
  BY DEF Init, OriginKept, AbsentRow, IsFresh
<1>2. TypeOK /\ OriginKept(resv, origin) /\ [Next]_vars => OriginKept(resv, origin)'
  <2> SUFFICES ASSUME TypeOK, OriginKept(resv, origin), [Next]_vars
               PROVE  OriginKept(resv, origin)'
    OBVIOUS
  <2>1. OriginKept(resv', origin')
    BY OriginSteps
  <2> QED BY <2>1 DEF OriginKept, IsFresh
<1>3. OriginKept(resv, origin) => UnidentifiedAssetsKeepOrigin
  BY DEF OriginKept, UnidentifiedAssetsKeepOrigin
<1> QED BY <1>1, <1>2, <1>3, TypeCorrect, PTL DEF Spec

-----------------------------------------------------------------------------
(* Pairs.  No second asset of a pair waits for its metadata, and a pair is   *)
(* reserved by one call at a time, so the receipts a call has read are still *)
(* there when its transaction writes them.                                   *)
OneCallPerPair ==
  \A v, w \in Workers, p \in Pairs : InPair(v, p) /\ InPair(w, p) => v = w

Unassigned(p, t, n) == n[p] = 0 /\ ~KeyStored(t, FirstKey(p)) /\ ~KeyStored(t, SecondKey(p))
Assigned(p, t, n) == n[p] = 2 /\ KeyStored(t, FirstKey(p)) /\ KeyStored(t, SecondKey(p))

(* Both halves are booked at once, on receipts that are still unwritten.     *)
PairsWhole ==
  /\ \A p \in Pairs : Unassigned(p, resv, receipts) \/ Assigned(p, resv, receipts)
  /\ \A w \in Workers : call[w].op = "pair_checked" => receipts[call[w].pair] = 0

PairKeys == Pairs \X {1, 2}

LEMMA PairKeysDiffer ==
  /\ \A p \in Pairs : FirstKey(p) \in PairKeys /\ SecondKey(p) \in PairKeys
                      /\ FirstKey(p) # SecondKey(p)
  /\ \A p, q \in Pairs : p # q => /\ FirstKey(p) # FirstKey(q) /\ SecondKey(p) # SecondKey(q)
                                  /\ FirstKey(p) # SecondKey(q)
  /\ NoKey \notin PairKeys
BY IdentityAssumption DEF PairKeys, FirstKey, SecondKey

LEMMA RequestKeysDiffer ==
  ASSUME NEW q \in Requests
  PROVE  q.key \notin PairKeys
BY IdentityAssumption DEF PairKeys

(* Keys outlast their rows' status, so only an insert stores another.        *)
LEMMA KeysLast ==
  ASSUME NEW t \in Tables, NEW u, Lasting(t, u), NEW k
  PROVE  KeyStored(u, k) <=> KeyStored(t, k)
BY LastingFacts DEF KeyStored

LEMMA ReservedKeys ==
  ASSUME NEW t \in Tables, NEW a \in Assets, NEW to \in Destinations, NEW k \in RowKeys,
         NEW p \in Pairs \cup {NoPair}, NEW paired, clock \in Nat,
         CanReserve(t, a, to, k, paired)
  PROVE  /\ Reserved(t, a, to, k, p) \in Tables
         /\ \A j : j # k => (KeyStored(Reserved(t, a, to, k, p), j) <=> KeyStored(t, j))
         /\ KeyStored(Reserved(t, a, to, k, p), k)
<1> DEFINE s == Swept(t)
           u == Reserved(t, a, to, k, p)
<1>1. s \in Tables /\ Lasting(t, s) /\ u \in Tables
  BY SweptRelabels, RelabelledAdvances, RelabelledLasts, ReservedFacts
<1>2. \A j : KeyStored(s, j) <=> KeyStored(t, j)
  BY <1>1, KeysLast
<1>3. CASE KeyActive(s, k)
  <2>1. u = s
    BY <1>3 DEF Reserved
  <2>2. KeyStored(s, k)
    BY <1>3, FreshIsNotActive DEF KeyActive, KeyStored
  <2> QED BY <1>1, <1>2, <2>1, <2>2
<1>4. CASE ~KeyActive(s, k)
  <2> DEFINE q == FreshRow(s)
  <2>1. q \in Rows /\ IsFresh(s, q)
    BY <1>4 DEF FreshRow, CanReserve
  <2>2. /\ u[q].key = k /\ u[q].status = "pending"
        /\ \A r \in Rows : r # q => u[r] = s[r]
    BY <1>1, <1>4, <2>1 DEF Reserved, Tables
  <2> HIDE DEF q, u, s
  <2>3. KeyStored(u, k)
    BY <2>1, <2>2 DEF KeyStored, IsFresh
  <2>4. ASSUME NEW j, j # k
        PROVE  KeyStored(u, j) <=> KeyStored(s, j)
    BY <2>1, <2>2, <2>4 DEF KeyStored, IsFresh
  <2> QED BY <1>1, <1>2, <2>3, <2>4 DEF u
<1> QED BY <1>3, <1>4

(* A step that stores no key of a pair and writes no receipt, and in which a *)
(* call keeps to the pair it is at or gives it up.                           *)
LEMMA PairsUntouched ==
  ASSUME PairsWhole, receipts' = receipts,
         \A k \in PairKeys : KeyStored(resv', k) <=> KeyStored(resv, k),
         \A w \in Workers : \/ call'[w] = call[w] \/ call'[w].op # "pair_checked"
                            \/ receipts[call'[w].pair] = 0
  PROVE  PairsWhole'
<1>1. ASSUME NEW w \in Workers, call'[w].op = "pair_checked"
      PROVE  receipts'[call'[w].pair] = 0
  BY <1>1 DEF PairsWhole
<1>2. ASSUME NEW p \in Pairs
      PROVE  Unassigned(p, resv', receipts') \/ Assigned(p, resv', receipts')
  BY PairKeysDiffer DEF PairsWhole, Unassigned, Assigned
<1>3. /\ \A p \in Pairs : Unassigned(p, resv', receipts') \/ Assigned(p, resv', receipts')
      /\ \A w \in Workers : call'[w].op = "pair_checked" => receipts'[call'[w].pair] = 0
  BY <1>1, <1>2
<1> QED BY <1>3 DEF PairsWhole, Unassigned, Assigned, KeyStored, IsFresh

LEMMA PairsKeptBegins ==
  ASSUME TypeOK, PairsWhole, NEW w \in Workers, NEW c, Begin(w, c),
         c.op = "pair_checked" => receipts[c.pair] = 0
  PROVE  PairsWhole'
<1>1. resv' = resv /\ receipts' = receipts
  BY DEF Begin
<1>2. \A v \in Workers : \/ call'[v] = call[v] \/ call'[v].op # "pair_checked"
                         \/ receipts[call'[v].pair] = 0
  BY DEF Begin, TypeOK
<1> QED BY <1>1, <1>2, PairsUntouched

LEMMA PairsLast ==
  ASSUME TypeOK, PairsWhole, Lasting(resv, resv'), receipts' = receipts,
         \A w \in Workers : call'[w] = call[w] \/ call'[w].op # "pair_checked"
  PROVE  PairsWhole'
<1>1. resv \in Tables
  BY DEF TypeOK, Tables
<1>2. \A k \in PairKeys : KeyStored(resv', k) <=> KeyStored(resv, k)
  BY <1>1, KeysLast
<1> QED BY <1>2, PairsUntouched

(* The transaction of a whole pair: nobody else is at this pair.             *)
LEMMA PairIsBooked ==
  ASSUME TypeOK, PairsWhole, OneCallPerPair, NEW w \in Workers, ReservePairWhole(w)
  PROVE  PairsWhole'
<1>0. resv \in Tables /\ clock \in Nat /\ call \in [Workers -> Calls]
  BY DEF TypeOK, Tables
<1>1. PICK p \in Pairs : p = call[w].pair /\ InPair(w, p)
  BY <1>0, CallShape DEF ReservePairWhole, InPair
<1>2. receipts' = [receipts EXCEPT ![p] = @ + 2] /\ receipts[p] = 0
  BY <1>1 DEF ReservePairWhole, PairsWhole
<1>3. receipts'[p] = 2 /\ \A q \in Pairs : q # p => receipts'[q] = receipts[q]
  BY <1>2 DEF TypeOK
<1>4. ASSUME NEW v \in Workers, call'[v].op = "pair_checked"
      PROVE  receipts'[call'[v].pair] = 0
  <2>1. CASE v = w
    BY <1>0, <1>4, <2>1 DEF ReservePairWhole, Return, Idle
  <2>2. CASE v # w
    <3>1. call'[v] = call[v]
      BY <1>0, <2>2 DEF ReservePairWhole, Return
    <3>2. call[v].pair \in Pairs /\ call[v].pair # p
      BY <1>0, <1>1, <1>4, <2>2, <3>1, CallShape DEF OneCallPerPair, InPair
    <3> QED BY <1>3, <1>4, <3>1, <3>2 DEF PairsWhole
  <2> QED BY <2>1, <2>2
<1>5. /\ AfterFirst(p) \in Tables /\ KeyStored(AfterFirst(p), FirstKey(p))
      /\ \A j : j # FirstKey(p) => (KeyStored(AfterFirst(p), j) <=> KeyStored(resv, j))
  <2>1. CanReserve(resv, p.first, p.firstTo, FirstKey(p), p.first)
    BY <1>1 DEF ReservePairWhole
  <2> QED BY <1>0, <2>1, PairShape, ReservedKeys DEF AfterFirst
<1>6. /\ KeyStored(resv', SecondKey(p))
      /\ \A j : j # SecondKey(p) => (KeyStored(resv', j) <=> KeyStored(AfterFirst(p), j))
  <2>1. /\ CanReserve(AfterFirst(p), p.second, p.secondTo, SecondKey(p), p.first)
        /\ resv' = Reserved(AfterFirst(p), p.second, p.secondTo, SecondKey(p), p)
    BY <1>1 DEF ReservePairWhole
  <2> QED BY <1>0, <1>5, <2>1, PairShape, ReservedKeys
<1>7. Assigned(p, resv', receipts')
  BY <1>3, <1>5, <1>6, PairKeysDiffer DEF Assigned
<1>8. ASSUME NEW q \in Pairs, q # p
      PROVE  Unassigned(q, resv', receipts') \/ Assigned(q, resv', receipts')
  <2>1. /\ KeyStored(resv', FirstKey(q)) <=> KeyStored(resv, FirstKey(q))
        /\ KeyStored(resv', SecondKey(q)) <=> KeyStored(resv, SecondKey(q))
    BY <1>5, <1>6, <1>8, PairKeysDiffer
  <2> QED BY <1>3, <1>8, <2>1 DEF PairsWhole, Unassigned, Assigned
<1>9. /\ \A q \in Pairs : Unassigned(q, resv', receipts') \/ Assigned(q, resv', receipts')
      /\ \A v \in Workers : call'[v].op = "pair_checked" => receipts'[call'[v].pair] = 0
  BY <1>4, <1>7, <1>8
<1> QED BY <1>9 DEF PairsWhole, Unassigned, Assigned, KeyStored, IsFresh

LEMMA PairsSteps ==
  ASSUME TypeOK, SecondsReady, PairsWhole, OneCallPerPair, [Next]_vars
  PROVE  PairsWhole'
<1>0. resv \in Tables /\ clock \in Nat /\ call \in [Workers -> Calls]
  BY DEF TypeOK, Tables
<1>1. ASSUME NEW w \in Workers, NEW r \in Rows,
             \/ \E to \in {"released", "cancelled"}, pendingOnly \in BOOLEAN :
                  ReadForRelease(w, r, to, pendingOnly)
             \/ ReadForCommit(w, r) \/ ReadForCancel(w, r)
             \/ \E m \in Medias : ReadForPublish(w, r, m)
      PROVE  PairsWhole'
  BY <1>1, PairsKeptBegins DEF ReadForRelease, ReadForCommit, ReadForCancel, ReadForPublish
<1>2. ASSUME NEW w \in Workers, NEW p \in Pairs, ReadPairReceipts(w, p)
      PROVE  PairsWhole'
  BY <1>2, PairsKeptBegins DEF ReadPairReceipts
<1>3. ASSUME NEW w \in Workers,
             WriteRelease(w) \/ WriteCommit(w) \/ WriteCancel(w) \/ WritePublish(w)
      PROVE  PairsWhole'
  <2>1. receipts' = receipts /\ call' = [call EXCEPT ![w] = Idle]
    BY <1>3 DEF WriteRelease, WriteCommit, WriteCancel, WritePublish, Return
  <2>2. \A v \in Workers : call'[v] = call[v] \/ call'[v].op # "pair_checked"
    BY <1>0, <2>1 DEF Idle
  <2> QED BY <1>3, <2>1, <2>2, RowsLast, PairsLast
<1>4. ASSUME NEW w \in Workers, ReservePairWhole(w)
      PROVE  PairsWhole'
  BY <1>4, PairIsBooked
<1>5. ASSUME NEW w \in Workers, ReservePairFirst(w) \/ ReservePairSecond(w)
      PROVE  FALSE
  BY <1>0, <1>5, CallShape DEF ReservePairFirst, ReservePairSecond, SecondsReady
<1>6. ASSUME NEW q \in Requests, ReserveInventoryAsset(q.asset, q.account, q.key)
      PROVE  PairsWhole'
  <2>1. \A k \in PairKeys : KeyStored(resv', k) <=> KeyStored(resv, k)
    BY <1>0, <1>6, RequestShape, RequestKeysDiffer, ReservedKeys DEF ReserveInventoryAsset
  <2> QED BY <1>6, <2>1, PairsUntouched DEF ReserveInventoryAsset
<1>7. ASSUME NEW w \in Workers, Abandon(w)
      PROVE  PairsWhole'
  <2>1. \A v \in Workers : call'[v] = call[v] \/ call'[v].op # "pair_checked"
    BY <1>0, <1>7 DEF Abandon, Return, Idle
  <2> QED BY <1>7, <2>1, PairsLast, SameTableLasts DEF Abandon
<1>8. CASE ExpireInventoryReservations
  BY <1>0, <1>8, SweptRelabels, RelabelledLasts, PairsLast DEF ExpireInventoryReservations
<1>9. ASSUME NEW a \in Assets, RejectAsset(a)
      PROVE  PairsWhole'
  <2>1. Relabelled(resv, resv')
    BY <1>0, <1>9 DEF RejectAsset, Relabelled, TerminalStatus, Later
  <2> QED BY <1>0, <1>9, <2>1, RelabelledLasts, PairsLast DEF RejectAsset
<1>10. CASE CampaignRelease
  <2>1. Relabelled(resv, resv')
    BY <1>0, <1>10
       DEF CampaignRelease, Relabelled, TerminalStatus, Later, IsActive, ActiveStatus
  <2> QED BY <1>0, <1>10, <2>1, RelabelledLasts, PairsLast DEF CampaignRelease
<1>11. CASE UNCHANGED <<resv, receipts, call>>
  BY <1>11, SameTableLasts, PairsLast
<1> QED BY <1>1, <1>2, <1>3, <1>4, <1>5, <1>6, <1>7, <1>8, <1>9, <1>10, <1>11
        DEF Next, Worker, vars, EnsurePerceptualMetadata, Tick

(* "Atomically reserve and immutably assign one governed experiment pair":   *)
(* whatever else interleaves, a pair nobody is reserving has both rows and   *)
(* both receipts or none, when its second asset is hashed beforehand and no  *)
(* two calls reserve it at once (reserve_experiment_pair).                   *)
THEOREM PairsAreWhole ==
  ASSUME SecondsHashed
  PROVE  Spec /\ []OneCallPerPair => []PairAllOrNothing
<1>1. Init => PairsWhole
  <2> SUFFICES ASSUME Init PROVE PairsWhole
    OBVIOUS
  <2>1. \A w \in Workers : call[w].op = "idle"
    BY DEF Init, Idle
  <2>2. \A k : ~KeyStored(resv, k)
    BY DEF Init, KeyStored, IsFresh, AbsentRow
  <2> QED BY <2>1, <2>2 DEF Init, PairsWhole, Unassigned
<1>2. TypeOK /\ SecondsReady /\ PairsWhole /\ OneCallPerPair /\ [Next]_vars => PairsWhole'
  BY PairsSteps
<1>3. PairsWhole => PairAllOrNothing
  BY DEF PairsWhole, PairAllOrNothing, Unassigned, Assigned
<1> QED BY <1>1, <1>2, <1>3, SecondsStayReady, TypeCorrect, PTL DEF Spec

(* One process has no rival, and processes that take turns meet no rival, so *)
(* for them the condition on the calls holds by itself.                      *)
THEOREM TurnsKeepPairsWhole ==
  ASSUME SecondsHashed, ~Overlap \/ \A v, w \in Workers : v = w
  PROVE  Spec => []PairAllOrNothing
<1>1. CASE \A v, w \in Workers : v = w
  <2>1. OneCallPerPair
    BY <1>1 DEF OneCallPerPair
  <2> QED BY <2>1, PairsAreWhole, PTL
<1>2. CASE ~Overlap
  <2>1. Current => OneCallPerPair
    BY DEF Current, Alone, OneCallPerPair, InPair, Idle
  <2> QED BY <1>2, <2>1, CurrentHolds, PairsAreWhole, PTL
<1> QED BY <1>1, <1>2

=============================================================================
