-------------------- MODULE InventoryReservations_proofs --------------------
(***************************************************************************)
(* Proofs about InventoryReservations for every number of assets, rows,    *)
(* workers and accounts.  Each action is one step on the table from t to   *)
(* u: rows end, change between active states, or are inserted; Advance     *)
(* names what all of them have in common.                                  *)
(***************************************************************************)
EXTENDS InventoryReservations, TLAPS

Tables == [Rows -> RowRecords]

(* What every step does to the table: an ended row is left alone, an active  *)
(* row keeps its asset for as long as it is active, a row is never made      *)
(* fresh again and a new row starts active.                                  *)
Advance(t, u) ==
  \A r \in Rows :
    /\ t[r].status \in TerminalStatus => u[r] = t[r]
    /\ ~IsFresh(t, r) => ~IsFresh(u, r)
    /\ ~IsFresh(t, r) /\ IsActive(u, r) => IsActive(t, r) /\ u[r].asset = t[r].asset
    /\ IsFresh(t, r) /\ ~IsFresh(u, r) => IsActive(u, r)

(* A step that inserts nothing.                                              *)
NoInsert(t, u) ==
  \A r \in Rows : IsFresh(t, r) => u[r] = t[r]

(* What an update makes of an active row: no row becomes pending again.      *)
Later == {"committed"} \cup TerminalStatus

-----------------------------------------------------------------------------
(* Changing the status of a row record changes nothing else of it.           *)
LEMMA WithStatusFacts ==
  ASSUME NEW x \in RowRecords, NEW s \in Statuses
  PROVE  /\ WithStatus(x, s) \in RowRecords
         /\ WithStatus(x, s).status = s
         /\ WithStatus(x, s).asset = x.asset
         /\ WithStatus(x, s).expires = x.expires
         /\ s = x.status => WithStatus(x, s) = x
BY DEF WithStatus, RowRecords

LEMMA StatusSets ==
  /\ TerminalStatus \subseteq Statuses /\ ActiveStatus \subseteq Statuses
  /\ TerminalStatus \cap ActiveStatus = {}
  /\ "absent" \notin TerminalStatus \cup ActiveStatus
  /\ Later \subseteq ActiveStatus \cup TerminalStatus /\ "pending" \notin Later
  /\ \A s \in Statuses : s = "absent" \/ s \in ActiveStatus \/ s \in TerminalStatus
BY DEF Statuses, TerminalStatus, ActiveStatus, Later

LEMMA RowShape ==
  ASSUME NEW t \in Tables, NEW r \in Rows
  PROVE  t[r] \in RowRecords /\ t[r].status \in Statuses /\ t[r].asset \in Assets
         /\ t[r].expires \in Nat
BY DEF Tables, RowRecords

(* A table in which every row is the old one or the old active one with      *)
(* a later status.                                                           *)
Relabelled(t, u) ==
  /\ DOMAIN u = Rows /\ u = [r \in Rows |-> u[r]]
  /\ \A r \in Rows :
       \/ u[r] = t[r]
       \/ IsActive(t, r) /\ \E s \in Later : u[r] = WithStatus(t[r], s)

LEMMA RelabelledAdvances ==
  ASSUME NEW t \in Tables, NEW u, Relabelled(t, u)
  PROVE  u \in Tables /\ Advance(t, u) /\ NoInsert(t, u)
<1>1. ASSUME NEW r \in Rows
      PROVE  /\ u[r] \in RowRecords
             /\ t[r].status \in TerminalStatus => u[r] = t[r]
             /\ ~IsFresh(t, r) => ~IsFresh(u, r)
             /\ ~IsFresh(t, r) /\ IsActive(u, r) => IsActive(t, r) /\ u[r].asset = t[r].asset
             /\ IsFresh(t, r) => u[r] = t[r]
  <2>1. CASE u[r] = t[r]
    BY <2>1, RowShape, StatusSets DEF IsActive, IsFresh
  <2>2. CASE IsActive(t, r) /\ \E s \in Later : u[r] = WithStatus(t[r], s)
    <3>1. PICK s \in Later : u[r] = WithStatus(t[r], s)
      BY <2>2
    <3>2. u[r] \in RowRecords /\ u[r].status = s /\ u[r].asset = t[r].asset
      BY <3>1, RowShape, WithStatusFacts, StatusSets
    <3> QED BY <2>2, <3>2, StatusSets DEF IsActive, IsFresh
  <2> QED BY <2>1, <2>2 DEF Relabelled
<1>2. u \in Tables
  BY <1>1 DEF Tables, Relabelled
<1>3. Advance(t, u)
  BY <1>1 DEF Advance, IsFresh
<1>4. NoInsert(t, u)
  BY <1>1 DEF NoInsert
<1> QED BY <1>2, <1>3, <1>4

LEMMA SweptRelabels ==
  ASSUME NEW t \in Tables
  PROVE  Relabelled(t, Swept(t))
BY StatusSets DEF Tables, Swept, Relabelled, TerminalStatus, Later

LEMMA KeepsExclusive ==
  ASSUME NEW t \in Tables, NEW u \in Tables, Exclusive(t), Advance(t, u), NoInsert(t, u)
  PROVE  Exclusive(u)
<1> SUFFICES ASSUME NEW r \in Rows, NEW s \in Rows,
                    IsActive(u, r), IsActive(u, s), u[r].asset = u[s].asset
             PROVE  r = s
  BY DEF Exclusive
<1>1. ~IsFresh(t, r) /\ ~IsFresh(t, s)
  BY StatusSets DEF NoInsert, IsFresh, IsActive
<1>2. IsActive(t, r) /\ IsActive(t, s) /\ t[r].asset = t[s].asset
  BY <1>1 DEF Advance
<1> QED BY <1>2 DEF Exclusive

LEMMA AdvanceReflexive ==
  ASSUME NEW t \in Tables
  PROVE  Advance(t, t)
BY RowShape, StatusSets DEF Advance, IsFresh, IsActive

-----------------------------------------------------------------------------
(* Inserting a pending row extends a step.                                   *)
LEMMA InsertAdvances ==
  ASSUME NEW t \in Tables, NEW u \in Tables, Advance(t, u),
         NEW q \in Rows, IsFresh(u, q), NEW x \in RowRecords, x.status = "pending"
  PROVE  /\ [u EXCEPT ![q] = x] \in Tables
         /\ Advance(t, [u EXCEPT ![q] = x])
         /\ Exclusive(u) /\ ~AssetTaken(u, x.asset) => Exclusive([u EXCEPT ![q] = x])
<1> DEFINE v == [u EXCEPT ![q] = x]
<1>1. v \in Tables /\ v[q] = x /\ \A r \in Rows : r # q => v[r] = u[r]
  BY DEF Tables
<1>2. IsActive(v, q) /\ ~IsFresh(v, q)
  BY <1>1 DEF IsActive, IsFresh, ActiveStatus
<1>3. IsFresh(t, q)
  <2>1. u[q].status = "absent" /\ ~IsActive(u, q)
    BY DEF IsFresh, IsActive, ActiveStatus
  <2> QED BY <2>1 DEF Advance, IsFresh
<1>4. Advance(t, v)
  <2> SUFFICES ASSUME NEW r \in Rows
               PROVE  /\ t[r].status \in TerminalStatus => v[r] = t[r]
                      /\ ~IsFresh(t, r) => ~IsFresh(v, r)
                      /\ ~IsFresh(t, r) /\ IsActive(v, r) => IsActive(t, r) /\ v[r].asset = t[r].asset
                      /\ IsFresh(t, r) /\ ~IsFresh(v, r) => IsActive(v, r)
    BY DEF Advance
  <2>1. CASE r = q
    BY <2>1, <1>2, <1>3, StatusSets DEF IsFresh
  <2>2. CASE r # q
    BY <2>2, <1>1 DEF Advance, IsFresh, IsActive
  <2> QED BY <2>1, <2>2
<1>5. ASSUME Exclusive(u), ~AssetTaken(u, x.asset) PROVE Exclusive(v)
  <2> SUFFICES ASSUME NEW r \in Rows, NEW s \in Rows,
                      IsActive(v, r), IsActive(v, s), v[r].asset = v[s].asset
               PROVE  r = s
    BY DEF Exclusive
  <2>1. CASE r # q /\ s # q
    BY <2>1, <1>1, <1>5 DEF Exclusive, IsActive
  <2>2. CASE r = q /\ s # q
    BY <2>2, <1>1, <1>5 DEF AssetTaken, IsActive
  <2>3. CASE r # q /\ s = q
    BY <2>3, <1>1, <1>5 DEF AssetTaken, IsActive
  <2> QED BY <2>1, <2>2, <2>3
<1> QED BY <1>1, <1>4, <1>5

NoneOverdue(t) == \A r \in Rows : IsActive(t, r) => ~(t[r].expires <= clock)

LEMMA NothingToSweep ==
  ASSUME NEW t \in Tables, NoneOverdue(t)
  PROVE  Swept(t) = t
BY DEF Tables, NoneOverdue, Swept

LEMMA SweptLeavesNoneOverdue ==
  ASSUME NEW t \in Tables
  PROVE  NoneOverdue(Swept(t))
<1> SUFFICES ASSUME NEW r \in Rows, IsActive(Swept(t), r)
             PROVE  ~(Swept(t)[r].expires <= clock)
  BY DEF NoneOverdue
<1>1. CASE IsActive(t, r) /\ t[r].expires <= clock
  <2>1. Swept(t)[r] = WithStatus(t[r], "expired")
    BY <1>1 DEF Swept
  <2>2. Swept(t)[r].status = "expired"
    BY <2>1, WithStatusFacts, RowShape, StatusSets DEF TerminalStatus
  <2> QED BY <2>2 DEF IsActive, ActiveStatus
<1>2. CASE ~(IsActive(t, r) /\ t[r].expires <= clock)
  BY <1>2 DEF Swept, IsActive
<1> QED BY <1>1, <1>2

(* What one call of _reserve_inventory_asset does to the table.              *)
LEMMA ReservedFacts ==
  ASSUME NEW t \in Tables, NEW a \in Assets, NEW to \in Destinations,
         NEW k \in RowKeys, NEW p \in Pairs \cup {NoPair}, NEW paired,
         clock \in Nat, CanReserve(t, a, to, k, paired)
  PROVE  /\ Reserved(t, a, to, k, p) \in Tables
         /\ NoneOverdue(Reserved(t, a, to, k, p))
         /\ \A old \in Tables :
              Advance(old, Swept(t)) => Advance(old, Reserved(t, a, to, k, p))
         /\ Exclusive(Swept(t)) => Exclusive(Reserved(t, a, to, k, p))
<1> DEFINE s == Swept(t)
           x == [status |-> "pending", asset |-> a, account |-> to, key |-> k,
                 pair |-> p, at |-> clock,
                 expires |-> clock + (IF p = NoPair THEN TTL ELSE PairTTL)]
           v == [s EXCEPT ![FreshRow(s)] = x]
<1>1. s \in Tables /\ NoneOverdue(s)
  BY SweptRelabels, RelabelledAdvances, SweptLeavesNoneOverdue
<1>2. CASE KeyActive(s, k)
  <2>1. Reserved(t, a, to, k, p) = s
    BY <1>2 DEF Reserved
  <2> QED BY <1>1, <2>1
<1>3. CASE ~KeyActive(s, k)
  <2>1. Reserved(t, a, to, k, p) = v
    BY <1>3 DEF Reserved
  <2>2. ~AssetTaken(s, a) /\ \E r \in Rows : IsFresh(s, r)
    BY <1>3 DEF CanReserve
  <2>3. FreshRow(s) \in Rows /\ IsFresh(s, FreshRow(s))
    BY <2>2 DEF FreshRow
  <2>4. TTL \in Nat \ {0} /\ PairTTL \in Nat \ {0}
    BY BoundsAssumption
  <2>5. (IF p = NoPair THEN TTL ELSE PairTTL) \in Nat \ {0}
    BY <2>4
  <2>6. clock + (IF p = NoPair THEN TTL ELSE PairTTL) \in Nat
        /\ ~(clock + (IF p = NoPair THEN TTL ELSE PairTTL) <= clock)
    BY <2>5
  <2>7. x \in RowRecords /\ x.status = "pending" /\ x.asset = a /\ ~(x.expires <= clock)
    BY <2>6 DEF RowRecords, Statuses, ActiveStatus
  <2> HIDE DEF x
  <2>8. v \in Tables
        /\ (Exclusive(s) /\ ~AssetTaken(s, x.asset) => Exclusive(v))
        /\ \A old \in Tables : Advance(old, s) => Advance(old, v)
    BY <1>1, <2>3, <2>7, InsertAdvances, AdvanceReflexive
  <2>9. NoneOverdue(v)
    BY <1>1, <2>3, <2>7 DEF NoneOverdue, Tables, IsActive
  <2> QED BY <2>1, <2>2, <2>7, <2>8, <2>9
<1> QED BY <1>2, <1>3

-----------------------------------------------------------------------------
(* The shape of a call in progress.                                          *)
LEMMA CallShape ==
  ASSUME NEW c \in Calls
  PROVE  /\ c.op = "release" => c.row \in Rows /\ c.to \in {"released", "cancelled"}
         /\ c.op \in {"commit", "cancel"} => c.row \in Rows
         /\ c.op = "publish" => c.row \in Rows /\ c.media \in Medias
         /\ c.op \in {"pair_checked", "pair_second"} => c.pair \in Pairs
<1>1. CASE c = Idle
  BY <1>1 DEF Idle
<1>2. CASE c \in [op : {"commit", "cancel"}, row : Rows]
  BY <1>2
<1>3. CASE c \in [op : {"release"}, row : Rows, to : {"released", "cancelled"},
                  pendingOnly : BOOLEAN]
  BY <1>3
<1>4. CASE c \in [op : {"publish"}, row : Rows, media : Medias]
  BY <1>4
<1>5. CASE c \in PairCalls
  BY <1>5 DEF PairCalls
<1> QED BY <1>1, <1>2, <1>3, <1>4, <1>5 DEF Calls, RowCalls

LEMMA PairShape ==
  ASSUME NEW p \in Pairs
  PROVE  /\ p.first \in Assets /\ p.second \in Assets
         /\ p.firstTo \in Destinations /\ p.secondTo \in Destinations
         /\ FirstKey(p) \in RowKeys /\ SecondKey(p) \in RowKeys
BY PairAssumption DEF Destinations, RowKeys, FirstKey, SecondKey

LEMMA RequestShape ==
  ASSUME NEW q \in Requests
  PROVE  q.asset \in Assets /\ q.account \in Destinations /\ q.key \in RowKeys
BY IdentityAssumption DEF RowKeys

(* The table after each step, as seen by the invariants.                     *)
TableStep(t, u) ==
  u \in Tables /\ Advance(t, u) /\ (Exclusive(t) => Exclusive(u))

LEMMA RelabelStep ==
  ASSUME NEW t \in Tables, NEW u, Relabelled(t, u)
  PROVE  TableStep(t, u)
BY RelabelledAdvances, KeepsExclusive DEF TableStep

LEMMA SetStatusStep ==
  ASSUME resv \in Tables, NEW r \in Rows, NEW s \in Later,
         IsActive(resv, r)
  PROVE  TableStep(resv, SetStatus(r, s))
<1>1. Relabelled(resv, SetStatus(r, s))
  BY DEF Relabelled, SetStatus, Tables
<1> QED BY <1>1, RelabelStep

LEMMA SameTableStep ==
  ASSUME resv \in Tables
  PROVE  TableStep(resv, resv)
BY AdvanceReflexive DEF TableStep

LEMMA ReserveStep ==
  ASSUME TypeOK, NEW a \in Assets, NEW to \in Destinations, NEW k \in RowKeys,
         NEW p \in Pairs \cup {NoPair}, NEW paired, CanReserve(resv, a, to, k, paired)
  PROVE  TableStep(resv, Reserved(resv, a, to, k, p))
<1>1. resv \in Tables /\ clock \in Nat
  BY DEF TypeOK, Tables
<1>2. TableStep(resv, Swept(resv))
  BY <1>1, SweptRelabels, RelabelStep
<1>3. /\ Reserved(resv, a, to, k, p) \in Tables
      /\ Advance(resv, Swept(resv)) => Advance(resv, Reserved(resv, a, to, k, p))
      /\ Exclusive(Swept(resv)) => Exclusive(Reserved(resv, a, to, k, p))
  BY <1>1, ReservedFacts
<1> QED BY <1>2, <1>3 DEF TableStep

(* The two reservations of a pair in one transaction.                        *)
LEMMA PairStep ==
  ASSUME TypeOK, NEW p \in Pairs,
         CanReserve(resv, p.first, p.firstTo, FirstKey(p), p.first),
         CanReserve(AfterFirst(p), p.second, p.secondTo, SecondKey(p), p.first)
  PROVE  TableStep(resv, Reserved(AfterFirst(p), p.second, p.secondTo, SecondKey(p), p))
<1> DEFINE u == AfterFirst(p)
<1>1. resv \in Tables /\ clock \in Nat
  BY DEF TypeOK, Tables
<1>2. TableStep(resv, u)
  BY PairShape, ReserveStep DEF AfterFirst
<1>3. NoneOverdue(u)
  BY <1>1, PairShape, ReservedFacts DEF AfterFirst
<1>4. Swept(u) = u
  BY <1>2, <1>3, NothingToSweep DEF TableStep
<1> HIDE DEF u
<1>5. CanReserve(u, p.second, p.secondTo, SecondKey(p), p.first)
  BY DEF u
<1>6. TableStep(resv, Reserved(u, p.second, p.secondTo, SecondKey(p), p))
  BY <1>1, <1>2, <1>4, <1>5, PairShape, ReservedFacts DEF TableStep
<1> QED BY <1>6 DEF u

-----------------------------------------------------------------------------
LEMMA TableOfStep ==
  ASSUME TypeOK, [Next]_vars
  PROVE  TableStep(resv, resv')
<1>0. resv \in Tables /\ call \in [Workers -> Calls]
  BY DEF TypeOK, Tables
<1>1. ASSUME NEW q \in Requests, ReserveInventoryAsset(q.asset, q.account, q.key)
      PROVE  TableStep(resv, resv')
  BY <1>1, RequestShape, ReserveStep DEF ReserveInventoryAsset
<1>2. CASE ExpireInventoryReservations
  BY <1>0, <1>2, SweptRelabels, RelabelStep DEF ExpireInventoryReservations
<1>3. ASSUME NEW a \in Assets, RejectAsset(a)
      PROVE  TableStep(resv, resv')
  <2>1. Relabelled(resv, resv')
    BY <1>0, <1>3 DEF RejectAsset, Relabelled, TerminalStatus, Later
  <2> QED BY <1>0, <2>1, RelabelStep
<1>4. CASE CampaignRelease
  <2>1. Relabelled(resv, resv')
    BY <1>0, <1>4 DEF CampaignRelease, Relabelled, TerminalStatus, Later, IsActive, ActiveStatus
  <2> QED BY <1>0, <2>1, RelabelStep
<1>5. ASSUME NEW w \in Workers, WriteRelease(w)
      PROVE  TableStep(resv, resv')
  <2>1. call[w].row \in Rows /\ call[w].to \in {"released", "cancelled"}
    BY <1>0, <1>5, CallShape DEF WriteRelease
  <2>2. resv[call[w].row] \in RowRecords /\ resv[call[w].row].status \in Statuses
    BY <1>0, <2>1, RowShape
  <2>3. CASE resv[call[w].row].status = call[w].to
    <3>1. WithStatus(resv[call[w].row], call[w].to) = resv[call[w].row]
      BY <2>2, <2>3, WithStatusFacts
    <3>2. resv' = resv
      BY <1>0, <1>5, <2>1, <3>1 DEF WriteRelease, SetStatus, Tables
    <3> QED BY <1>0, <3>2, SameTableStep
  <2>4. CASE /\ resv[call[w].row].status # call[w].to
             /\ Permitted(resv[call[w].row].status, call[w].to)
    BY <1>0, <1>5, <2>1, <2>4, SetStatusStep
       DEF WriteRelease, Permitted, IsActive, ActiveStatus, TerminalStatus, Later
  <2>5. CASE ~Permitted(resv[call[w].row].status, call[w].to)
    BY <1>0, <1>5, <2>5, SameTableStep DEF WriteRelease
  <2> QED BY <2>3, <2>4, <2>5
<1>6. ASSUME NEW w \in Workers, WriteCommit(w)
      PROVE  TableStep(resv, resv')
  BY <1>0, <1>6, CallShape, SetStatusStep, SameTableStep
     DEF WriteCommit, IsActive, ActiveStatus, Later
<1>7. ASSUME NEW w \in Workers, WriteCancel(w)
      PROVE  TableStep(resv, resv')
  BY <1>0, <1>7, CallShape, SetStatusStep, SameTableStep
     DEF WriteCancel, TerminalStatus, Later
<1>8. ASSUME NEW w \in Workers, WritePublish(w)
      PROVE  TableStep(resv, resv')
  BY <1>0, <1>8, CallShape, SetStatusStep, SameTableStep
     DEF WritePublish, IsActive, ActiveStatus, TerminalStatus, Later
<1>9. ASSUME NEW w \in Workers, ReservePairWhole(w)
      PROVE  TableStep(resv, resv')
  BY <1>0, <1>9, CallShape, PairStep DEF ReservePairWhole
<1>10. ASSUME NEW w \in Workers, ReservePairFirst(w)
       PROVE  TableStep(resv, resv')
  BY <1>0, <1>10, CallShape, PairShape, ReserveStep DEF ReservePairFirst, AfterFirst
<1>11. ASSUME NEW w \in Workers, ReservePairSecond(w)
       PROVE  TableStep(resv, resv')
  BY <1>0, <1>11, CallShape, PairShape, ReserveStep DEF ReservePairSecond
<1>12. CASE resv' = resv
  BY <1>0, <1>12, SameTableStep
<1> QED BY <1>1, <1>2, <1>3, <1>4, <1>5, <1>6, <1>7, <1>8, <1>9, <1>10, <1>11, <1>12
        DEF Next, Worker, vars, EnsurePerceptualMetadata, Tick, Abandon, Begin,
            ReadForRelease, ReadForCommit, ReadForCancel, ReadForPublish,
            ReadPairReceipts

-----------------------------------------------------------------------------
LEMMA InitTypeOK == Init => TypeOK
<1> SUFFICES ASSUME Init PROVE TypeOK
  OBVIOUS
<1>1. (CHOOSE a \in Assets : TRUE) \in Assets
  BY IdentityAssumption
<1>2. AbsentRow \in RowRecords
  BY <1>1 DEF AbsentRow, RowRecords, Statuses, Destinations, RowKeys
<1>3. Idle \in Calls
  BY DEF Calls
<1> QED BY <1>2, <1>3, IdentityAssumption DEF Init, TypeOK, Destinations

(* The entry of origin that a reservation stamps stays a destination.        *)
LEMMA OriginShape ==
  ASSUME NEW o \in [Assets -> Destinations], NEW t, NEW a \in Assets,
         NEW to \in Destinations, NEW k
  PROVE  OriginAfter(t, o, a, to, k) \in [Assets -> Destinations]
BY DEF OriginAfter

(* Beginning a call touches nothing but the worker's own entry.              *)
LEMMA BeginTypeOK ==
  ASSUME TypeOK, NEW w \in Workers, NEW c \in Calls, Begin(w, c)
  PROVE  TypeOK'
BY DEF TypeOK, Begin

LEMMA NextTypeOK ==
  ASSUME TypeOK, [Next]_vars
  PROVE  TypeOK'
<1>0. resv' \in [Rows -> RowRecords]
  BY TableOfStep DEF TableStep, Tables
<1>1. resv \in [Rows -> RowRecords] /\ call \in [Workers -> Calls] /\ clock \in Nat
      /\ Idle \in Calls
  BY DEF TypeOK, Calls
<1>2. ASSUME NEW q \in Requests, ReserveInventoryAsset(q.asset, q.account, q.key)
      PROVE  TypeOK'
  <2>1. origin' \in [Assets -> Destinations]
    BY <1>2, RequestShape, OriginShape DEF ReserveInventoryAsset, TypeOK
  <2> QED BY <1>0, <1>2, <2>1 DEF ReserveInventoryAsset, TypeOK
<1>3. ASSUME NEW a \in Assets, EnsurePerceptualMetadata(a) \/ RejectAsset(a)
      PROVE  TypeOK'
  BY <1>0, <1>3 DEF EnsurePerceptualMetadata, RejectAsset, TypeOK
<1>4. CASE ExpireInventoryReservations
  BY <1>0, <1>4 DEF ExpireInventoryReservations, TypeOK
<1>5. CASE CampaignRelease
  <2>1. ASSUME NEW r \in Rows
        PROVE  [row |-> r, type |-> "campaign_lifecycle_release"]
                  \in [row : Rows, type : EventTypes]
    BY DEF EventTypes
  <2>2. events' \subseteq [row : Rows, type : EventTypes]
                            \cup [row : Rows, type : EventTypes, media : Medias]
    BY <1>5, <2>1 DEF CampaignRelease, TypeOK
  <2> QED BY <1>0, <1>5, <2>2 DEF CampaignRelease, TypeOK
<1>6. ASSUME NEW w \in Workers, NEW r \in Rows, NEW to \in {"released", "cancelled"},
             NEW pendingOnly \in BOOLEAN, ReadForRelease(w, r, to, pendingOnly)
      PROVE  TypeOK'
  <2>1. [op |-> "release", row |-> r, to |-> to, pendingOnly |-> pendingOnly] \in Calls
    BY DEF Calls, RowCalls
  <2> QED BY <1>6, <2>1, BeginTypeOK DEF ReadForRelease
<1>7. ASSUME NEW w \in Workers, NEW r \in Rows, ReadForCommit(w, r) \/ ReadForCancel(w, r)
      PROVE  TypeOK'
  <2>1. [op |-> "commit", row |-> r] \in Calls /\ [op |-> "cancel", row |-> r] \in Calls
    BY DEF Calls, RowCalls
  <2> QED BY <1>7, <2>1, BeginTypeOK DEF ReadForCommit, ReadForCancel
<1>8. ASSUME NEW w \in Workers, NEW r \in Rows, NEW m \in Medias, ReadForPublish(w, r, m)
      PROVE  TypeOK'
  <2>1. [op |-> "publish", row |-> r, media |-> m] \in Calls
    BY DEF Calls, RowCalls
  <2> QED BY <1>8, <2>1, BeginTypeOK DEF ReadForPublish
<1>9. ASSUME NEW w \in Workers, NEW p \in Pairs, ReadPairReceipts(w, p)
      PROVE  TypeOK'
  <2>1. [op |-> "pair_checked", pair |-> p] \in Calls
    BY DEF Calls, PairCalls
  <2> QED BY <1>9, <2>1, BeginTypeOK DEF ReadPairReceipts
<1>10. ASSUME NEW w \in Workers, Return(w)
       PROVE  call' \in [Workers -> Calls]
  BY <1>1, <1>10 DEF Return
<1>11. ASSUME NEW w \in Workers, WriteRelease(w) \/ Abandon(w)
       PROVE  TypeOK'
  BY <1>0, <1>10, <1>11 DEF WriteRelease, Abandon, TypeOK
<1>12. ASSUME NEW w \in Workers, WriteCommit(w) \/ WriteCancel(w)
       PROVE  TypeOK'
  <2>1. call[w].row \in Rows
    BY <1>1, <1>12, CallShape DEF WriteCommit, WriteCancel
  <2>2. [row |-> call[w].row, type |-> "draft_ingest_accepted"]
           \in [row : Rows, type : EventTypes]
        /\ [row |-> call[w].row, type |-> "draft_cancelled"]
           \in [row : Rows, type : EventTypes]
    BY <2>1 DEF EventTypes
  <2> QED BY <1>0, <1>10, <1>12, <2>2 DEF WriteCommit, WriteCancel, TypeOK
<1>13. ASSUME NEW w \in Workers, WritePublish(w)
       PROVE  TypeOK'
  <2>1. call[w].row \in Rows /\ call[w].media \in Medias
    BY <1>1, <1>13, CallShape DEF WritePublish
  <2>2. resv[call[w].row].asset \in Assets /\ resv[call[w].row].account \in Destinations
    BY <1>1, <2>1 DEF RowRecords
  <2>3. [row |-> call[w].row, media |-> call[w].media, asset |-> resv[call[w].row].asset,
         account |-> resv[call[w].row].account, at |-> clock]
           \in [row : Rows, media : Medias, asset : Assets, account : Destinations, at : Nat]
    BY <1>1, <2>1, <2>2
  <2>4. [row |-> call[w].row, type |-> "publication_confirmed", media |-> call[w].media]
           \in [row : Rows, type : EventTypes, media : Medias]
    BY <2>1 DEF EventTypes
  <2> QED BY <1>0, <1>10, <1>13, <2>3, <2>4 DEF WritePublish, TypeOK
<1>14. ASSUME NEW w \in Workers,
              ReservePairWhole(w) \/ ReservePairFirst(w) \/ ReservePairSecond(w)
       PROVE  TypeOK'
  <2> DEFINE p == call[w].pair
  <2>1. p \in Pairs /\ p.first \in Assets /\ p.second \in Assets
    BY <1>1, <1>14, CallShape, PairShape
       DEF ReservePairWhole, ReservePairFirst, ReservePairSecond
  <2>2. OriginFirst(p) \in [Assets -> Destinations]
    BY <2>1, PairShape, OriginShape DEF OriginFirst, TypeOK
  <2>3. origin' \in [Assets -> Destinations]
    <3>1. origin \in [Assets -> Destinations] /\ p.secondTo \in Destinations
      BY <2>1, PairShape DEF TypeOK
    <3>2. CASE ReservePairWhole(w)
      BY <2>1, <2>2, <3>1, <3>2, OriginShape DEF ReservePairWhole
    <3>3. CASE ReservePairFirst(w)
      BY <2>2, <3>3 DEF ReservePairFirst
    <3>4. CASE ReservePairSecond(w)
      BY <2>1, <3>1, <3>4, OriginShape DEF ReservePairSecond
    <3> QED BY <1>14, <3>2, <3>3, <3>4
  <2>4. receipts' \in [Pairs -> Nat]
    BY <1>14, <2>1 DEF ReservePairWhole, ReservePairFirst, ReservePairSecond, TypeOK
  <2>5. call' \in [Workers -> Calls]
    <3>1. [op |-> "pair_second", pair |-> p] \in Calls
      BY <2>1 DEF Calls, PairCalls
    <3> QED BY <1>1, <1>10, <1>14, <3>1
            DEF ReservePairWhole, ReservePairFirst, ReservePairSecond
  <2>6. hashed' \subseteq Assets /\ UNCHANGED <<rejected, assignments, events, clock>>
    BY <1>14, <2>1 DEF ReservePairWhole, ReservePairFirst, ReservePairSecond, TypeOK
  <2> QED BY <1>0, <2>3, <2>4, <2>5, <2>6 DEF TypeOK
<1>15. CASE Tick
  BY <1>1, <1>15 DEF Tick, TypeOK
<1>16. CASE UNCHANGED vars
  BY <1>16 DEF vars, TypeOK
<1> QED BY <1>2, <1>3, <1>4, <1>5, <1>6, <1>7, <1>8, <1>9, <1>11, <1>12, <1>13, <1>14,
           <1>15, <1>16 DEF Next, Worker

-----------------------------------------------------------------------------
(* Every reachable state is well typed: no row, call or event of a kind the  *)
(* schema does not have.                                                     *)
THEOREM TypeCorrect == Spec => []TypeOK
<1>1. TypeOK /\ [Next]_vars => TypeOK'
  BY NextTypeOK
<1> QED BY <1>1, InitTypeOK, PTL DEF Spec

LEMMA InitExclusive == Init => OneActivePerAsset
BY DEF Init, OneActivePerAsset, Exclusive, IsActive, ActiveStatus, AbsentRow

(* No asset is promised twice, for any number of processes, assets and rows, *)
(* from the check made inside the reserving transaction alone: the theorem   *)
(* does not use the unique index (_reserve_inventory_asset).                 *)
THEOREM NeverPromisedTwice == Spec => []OneActivePerAsset
<1>1. TypeOK /\ OneActivePerAsset /\ [Next]_vars => OneActivePerAsset'
  BY TableOfStep DEF OneActivePerAsset, TableStep, Exclusive, IsActive
<1> QED BY <1>1, InitExclusive, TypeCorrect, PTL DEF Spec

(* No interleaving changes a row that has ended: a late release, commit,     *)
(* cancellation or publication cannot resurrect or relabel it                *)
(* (inventory_reservations_transition_guard).                                *)
THEOREM EndedStayEnded == Spec => EndedRowsStayEnded
<1>1. TypeOK /\ [Next]_vars =>
        [\A r \in Rows : resv[r].status \in TerminalStatus => resv'[r] = resv[r]]_vars
  BY TableOfStep DEF TableStep, Advance
<1> QED BY <1>1, TypeCorrect, PTL DEF Spec, EndedRowsStayEnded

-----------------------------------------------------------------------------
(* The holder of an asset is the one row that is active for it.              *)
LEMMA HolderFacts ==
  ASSUME NEW t, NEW a, Exclusive(t)
  PROVE  /\ HolderIn(t, a) # 0 =>
              /\ HolderIn(t, a) \in Rows
              /\ IsActive(t, HolderIn(t, a)) /\ t[HolderIn(t, a)].asset = a
         /\ HolderIn(t, a) \in Rows \cup {0}
         /\ \A r \in Rows : IsActive(t, r) /\ t[r].asset = a => HolderIn(t, a) = r
<1> DEFINE held == {r \in Rows : IsActive(t, r) /\ t[r].asset = a}
<1>1. CASE held = {}
  <2>1. HolderIn(t, a) = 0
    BY <1>1 DEF HolderIn
  <2> QED BY <1>1, <2>1
<1>2. CASE held # {}
  <2>1. HolderIn(t, a) = CHOOSE r \in held : TRUE
    BY <1>2 DEF HolderIn
  <2>2. HolderIn(t, a) \in held
    BY <1>2, <2>1
  <2> QED BY <2>2 DEF Exclusive
<1> QED BY <1>1, <1>2

LEMMA NobodyIsNoRow == \A r \in Rows : r # 0
BY BoundsAssumption DEF Rows

(* One step of the table is one transfer of leases, or none.                 *)
LEMMA StepTransfers ==
  ASSUME TypeOK, OneActivePerAsset, TableStep(resv, resv')
  PROVE  Leases!Transfer
<1> DEFINE h == [a \in Assets |-> HolderIn(resv, a)]
           g == [a \in Assets |-> HolderIn(resv', a)]
           sp == {r \in Rows : ~IsFresh(resv, r)}
           sq == {r \in Rows : ~IsFresh(resv', r)}
           took(a) == g[a] # h[a] /\ g[a] # 0
<1>1. Exclusive(resv) /\ Exclusive(resv') /\ resv \in Tables /\ resv' \in Tables
      /\ Advance(resv, resv')
  BY DEF OneActivePerAsset, TypeOK, Tables, TableStep
<1>2. g \in [Assets -> Rows \cup {0}]
  BY <1>1, HolderFacts
<1>3. ASSUME NEW a \in Assets, took(a)
      PROVE  /\ g[a] \in Rows /\ IsActive(resv', g[a]) /\ resv'[g[a]].asset = a
             /\ g[a] \notin sp
  <2>1. g[a] \in Rows /\ IsActive(resv', g[a]) /\ resv'[g[a]].asset = a
    BY <1>1, <1>3, HolderFacts
  <2>2. ASSUME ~IsFresh(resv, g[a]) PROVE FALSE
    <3>1. IsActive(resv, g[a]) /\ resv[g[a]].asset = a
      BY <1>1, <2>1, <2>2 DEF Advance
    <3>2. h[a] = g[a]
      BY <1>1, <2>1, <3>1, HolderFacts
    <3> QED BY <1>3, <3>2
  <2> QED BY <2>1, <2>2
<1>4. ASSUME NEW a \in Assets, NEW b \in Assets, took(a), g[a] = g[b]
      PROVE  a = b
  <2>1. g[a] # 0 /\ g[b] # 0
    BY <1>4
  <2>2. resv'[g[a]].asset = a /\ resv'[g[b]].asset = b
    BY <1>1, <2>1, HolderFacts
  <2> QED BY <1>4, <2>2
<1>5. sq = sp \cup {g[a] : a \in {b \in Assets : took(b)}}
  <2>1. ASSUME NEW r \in Rows, r \in sp PROVE r \in sq
    BY <1>1, <2>1 DEF Advance
  <2>2. ASSUME NEW r \in sq, r \notin sp
        PROVE  \E a \in Assets : took(a) /\ r = g[a]
    <3>1. IsActive(resv', r) /\ r \in Rows /\ resv'[r].asset \in Assets
      BY <1>1, <2>2, RowShape DEF Advance
    <3>2. g[resv'[r].asset] = r
      BY <1>1, <3>1, HolderFacts
    <3>3. h[resv'[r].asset] # r
      <4>1. ~IsActive(resv, r)
        BY <2>2, StatusSets DEF IsFresh, IsActive
      <4> QED BY <1>1, <3>1, <4>1, HolderFacts, NobodyIsNoRow
    <3> QED BY <3>1, <3>2, <3>3, NobodyIsNoRow
  <2>3. ASSUME NEW a \in Assets, took(a) PROVE g[a] \in sq
    <3>1. g[a] \in Rows /\ IsActive(resv', g[a])
      BY <1>3, <2>3
    <3> QED BY <3>1, StatusSets DEF IsActive, IsFresh
  <2> QED BY ZenonT(30), <2>1, <2>2, <2>3
<1> QED BY <1>2, <1>3, <1>4, <1>5 DEF Leases!Transfer, Leases!Taken

(* The reservation table implements exclusive leases: whatever processes     *)
(* interleave, a new holder of an asset is a row that never held anything.   *)
THEOREM ReservationsAreLeases == Spec => ImplementsLeases
<1>1. Init => Leases!LeaseInit
  <2> SUFFICES ASSUME Init PROVE Leases!LeaseInit
    OBVIOUS
  <2>1. \A r \in Rows : resv[r].status = "absent"
    BY DEF Init, AbsentRow
  <2>2. \A r \in Rows : ~IsActive(resv, r) /\ IsFresh(resv, r)
    BY <2>1 DEF IsActive, IsFresh, ActiveStatus
  <2> QED BY <2>2 DEF Leases!LeaseInit, HolderIn
<1>2. TypeOK /\ OneActivePerAsset /\ [Next]_vars => [Leases!Transfer]_(Leases!leaseVars)
  BY TableOfStep, StepTransfers
<1> QED BY <1>1, <1>2, TypeCorrect, NeverPromisedTwice, PTL
        DEF Spec, ImplementsLeases, Leases!LeaseSpec
=============================================================================
