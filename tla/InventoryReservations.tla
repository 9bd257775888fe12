------------------------ MODULE InventoryReservations ------------------------
(***************************************************************************)
(* The inventory-reservation table of Campaign Factory                     *)
(* (campaign_factory/inventory_reservations.py) with the SQLite indexes    *)
(* and triggers that guard it.                                             *)
(*                                                                         *)
(* Reserving runs inside BEGIN IMMEDIATE and is one step.  Releasing,      *)
(* committing, cancelling and publishing first SELECT the row outside any  *)
(* transaction and then UPDATE it: two steps, with other processes in      *)
(* between when Overlap is TRUE.                                           *)
(***************************************************************************)
EXTENDS Naturals, FiniteSets

CONSTANTS
  Assets,      \* rendered assets
  Accounts,    \* destination accounts
  NoAccount,   \* account_id IS NULL
  Families,    \* source-family / perceptual-cluster identities
  NoFamily,    \* an asset that carries no reuse identity
  Family,      \* Assets -> Families \cup {NoFamily}
  Keys,        \* caller-supplied idempotency keys
  NoKey,       \* idempotency_key IS NULL
  Requests,    \* the arguments callers pass to reserve_inventory_asset
  Pairs,       \* experiment pairs: records [first, second, firstTo, secondTo]
  NoPair,
  Medias,      \* Instagram media ids
  Workers,     \* processes that hold a connection to the database
  MaxRows,     \* bound: rows ever inserted
  MaxClock,    \* bound: time
  TTL,         \* default_reservation_ttl_days
  PairTTL,     \* lifetime of the rows of an experiment pair
  Cooldown,    \* reuse_cooldown_days
  Overlap,     \* TRUE when processes of the host overlap
  HashedAtStart \* assets whose perceptual metadata exists from the start

Rows == 1..MaxRows
RowKeys == Keys \cup (Pairs \X {1, 2}) \cup {NoKey}
Destinations == Accounts \cup {NoAccount}

ASSUME BoundsAssumption ==
  /\ MaxRows \in Nat /\ MaxClock \in Nat
  /\ TTL \in Nat \ {0} /\ PairTTL \in Nat \ {0} /\ Cooldown \in Nat
  /\ Overlap \in BOOLEAN

ASSUME IdentityAssumption ==
  /\ NoAccount \notin Accounts /\ NoFamily \notin Families
  /\ Family \in [Assets -> Families \cup {NoFamily}]
  /\ NoKey \notin Keys \cup (Pairs \X {1, 2})
  /\ Keys \cap (Pairs \X {1, 2}) = {}
  /\ NoPair \notin Pairs
  /\ Requests \subseteq [asset : Assets, account : Destinations, key : Keys \cup {NoKey}]
  /\ HashedAtStart \subseteq Assets /\ Assets # {}

ASSUME PairAssumption ==
  /\ Pairs \subseteq [first : Assets, second : Assets,
                      firstTo : Accounts, secondTo : Accounts]
  /\ \A p \in Pairs : p.first # p.second

VARIABLES
  resv,         \* the reservation table
  rejected,     \* assets with review_state = 'rejected'
  hashed,       \* assets whose perceptual metadata is stored
  origin,       \* rendered_assets.origin_account_id
  assignments,  \* asset_account_assignments written by publication
  events,       \* asset_inventory_reservation_events
  receipts,     \* experiment_assignment events per pair
  call,         \* what each worker is in the middle of
  clock

vars == <<resv, rejected, hashed, origin, assignments, events, receipts,
          call, clock>>

ActiveStatus == {"pending", "committed"}
TerminalStatus == {"released", "expired", "cancelled", "published"}
Statuses == {"absent"} \cup ActiveStatus \cup TerminalStatus

RowRecords == [status : Statuses, asset : Assets, account : Destinations,
               key : RowKeys, pair : Pairs \cup {NoPair},
               at : Nat, expires : Nat]

(* A row identifier no INSERT has used yet.                                  *)
AbsentRow == [status |-> "absent", asset |-> CHOOSE a \in Assets : TRUE,
              account |-> NoAccount, key |-> NoKey, pair |-> NoPair,
              at |-> 0, expires |-> 0]

EventTypes == {"draft_ingest_accepted", "draft_cancelled",
               "publication_confirmed", "campaign_lifecycle_release"}

Idle == [op |-> "idle"]
RowCalls ==
  [op : {"commit", "cancel"}, row : Rows]
    \cup [op : {"release"}, row : Rows, to : {"released", "cancelled"},
           pendingOnly : BOOLEAN]
    \cup [op : {"publish"}, row : Rows, media : Medias]
PairCalls == [op : {"pair_checked", "pair_second"}, pair : Pairs]
Calls == {Idle} \cup RowCalls \cup PairCalls

-----------------------------------------------------------------------------
(* The trigger inventory_reservations_transition_guard.                      *)
Permitted(old, new) ==
  \/ old = new
  \/ old = "pending" /\ new \in {"committed", "released", "expired", "cancelled"}
  \/ old = "committed" /\ new \in {"released", "expired", "cancelled", "published"}

IsActive(t, r) == t[r].status \in ActiveStatus
IsFresh(t, r) == t[r].status = "absent"
WithStatus(x, s) == [x EXCEPT !.status = s]

(* Mutants of Swept: a status the schema does not know; an overdue row is    *)
(* one whose deadline lies strictly before now.                              *)
SweptToUnknownStatus(t) ==
  [r \in Rows |-> IF IsActive(t, r) /\ t[r].expires <= clock
                  THEN WithStatus(t[r], "overdue") ELSE t[r]]
SweptStrictly(t) ==
  [r \in Rows |-> IF IsActive(t, r) /\ t[r].expires < clock
                  THEN WithStatus(t[r], "expired") ELSE t[r]]

(* expire_inventory_reservations: one UPDATE over every overdue active row.  *)
Swept(t) ==
  [r \in Rows |-> IF IsActive(t, r) /\ t[r].expires <= clock
                  THEN WithStatus(t[r], "expired")
                  ELSE t[r]]

InWindow(at) == at + Cooldown >= clock

(* Mutants of Uses: only committed rows count; publications are forgotten.   *)
UsesCommittedOnly(t) ==
  {[asset |-> t[r].asset, account |-> t[r].account, at |-> t[r].at] :
      r \in {q \in Rows : t[q].status = "committed"}}
UsesUnpublished(t) ==
  {[asset |-> t[r].asset, account |-> t[r].account, at |-> t[r].at] :
      r \in {q \in Rows : IsActive(t, q)}}

(* A use of an asset by an account: an active reservation or a publication.  *)
Uses(t) ==
  {[asset |-> t[r].asset, account |-> t[r].account, at |-> t[r].at] :
      r \in {q \in Rows : IsActive(t, q)}}
  \cup {[asset |-> m.asset, account |-> m.account, at |-> m.at] : m \in assignments}

SameIdentity(a, b) == a = b \/ (Family[a] = Family[b] /\ Family[a] # NoFamily)

(* evaluate_assignment_eligibility, narrowed for the second asset of a pair  *)
(* by _pair_scoped_eligibility, which keeps only the unpaired reuse matches. *)
Eligible(t, a, to, paired) ==
  \/ to = NoAccount
  \/ Family[a] = NoFamily /\ (paired # a \/ origin[a] \in {NoAccount, to})
  \/ /\ Family[a] # NoFamily
     /\ \A u \in Uses(t) :
          \/ u.account \in {NoAccount, to}
          \/ ~InWindow(u.at)
          \/ ~SameIdentity(a, u.asset)
          \/ paired # a /\ u.asset = paired

(* inventory_uniqueness_conflicts: another asset of the family is in use.    *)
UniquenessConflict(t, a, to, paired) ==
  \E u \in Uses(t) :
    /\ u.asset # a /\ Family[a] # NoFamily /\ Family[u.asset] = Family[a]
    /\ InWindow(u.at)
    /\ to = NoAccount \/ u.account # to
    /\ ~(paired # a /\ u.asset = paired)

(* Mutant of AssetTaken: a committed row does not hold its asset.            *)
AssetTakenByPending(t, a) == \E r \in Rows : t[r].status = "pending" /\ t[r].asset = a

AssetTaken(t, a) == \E r \in Rows : IsActive(t, r) /\ t[r].asset = a

(* The unique index on idempotency_key covers rows of every status.          *)
KeyStored(t, k) == \E r \in Rows : ~IsFresh(t, r) /\ t[r].key = k
KeyActive(t, k) == k # NoKey /\ \E r \in Rows : IsActive(t, r) /\ t[r].key = k

(* The checks _reserve_inventory_asset makes after the review state, on the  *)
(* table t; paired = a stands for paired_asset_id = None.                    *)
CanReserve(t, a, to, k, paired) ==
  LET s == Swept(t) IN
  \/ KeyActive(s, k)
  \/ /\ Eligible(s, a, to, paired)
     /\ ~AssetTaken(s, a)
     /\ ~UniquenessConflict(s, a, to, paired)
     /\ k # NoKey => ~KeyStored(s, k)
     /\ \E r \in Rows : IsFresh(s, r)

(* Mutant of FreshRow: the insert overwrites a row that has ended.           *)
FreshOrEndedRow(t) == CHOOSE r \in Rows : ~IsActive(t, r)

FreshRow(t) == CHOOSE r \in Rows : IsFresh(t, r)

(* The table _reserve_inventory_asset leaves: overdue rows are expired and   *)
(* either the key's active row is reused or a pending row is inserted.       *)
Reserved(t, a, to, k, p) ==
  LET s == Swept(t) IN
  IF KeyActive(s, k) THEN s
  ELSE [s EXCEPT ![FreshRow(s)] =
          [status |-> "pending", asset |-> a, account |-> to, key |-> k,
           pair |-> p, at |-> clock,
           expires |-> clock + (IF p = NoPair THEN TTL ELSE PairTTL)]]

(* persist_assignment_origin runs only when a row was inserted.              *)
OriginAfter(t, o, a, to, k) ==
  IF ~KeyActive(Swept(t), k) /\ o[a] = NoAccount THEN [o EXCEPT ![a] = to] ELSE o

-----------------------------------------------------------------------------
Init ==
  /\ resv = [r \in Rows |-> AbsentRow]
  /\ rejected = {}
  /\ hashed = HashedAtStart
  /\ origin = [a \in Assets |-> NoAccount]
  /\ assignments = {} /\ events = {}
  /\ receipts = [p \in Pairs |-> 0]
  /\ call = [w \in Workers |-> Idle]
  /\ clock = 0

(* With Overlap FALSE nothing runs while a worker is between two statements. *)
NotPreempted == Overlap \/ \A w \in Workers : call[w] = Idle

SetStatus(r, s) == [resv EXCEPT ![r] = WithStatus(resv[r], s)]
Return(w) == call' = [call EXCEPT ![w] = Idle]

(* reserve_inventory_asset: BEGIN IMMEDIATE, checks, insert, commit.  A call *)
(* that raises is rolled back and changes nothing.                           *)
ReserveInventoryAsset(a, to, k) ==
  /\ NotPreempted
  /\ a \in hashed /\ a \notin rejected
  /\ CanReserve(resv, a, to, k, a)
  /\ resv' = Reserved(resv, a, to, k, NoPair)
  /\ origin' = OriginAfter(resv, origin, a, to, k)
  /\ UNCHANGED <<rejected, hashed, assignments, events, receipts, call, clock>>

(* ensure_rendered_asset_perceptual_metadata commits on its own the first    *)
(* time an asset is touched, ending any transaction its caller had opened.   *)
EnsurePerceptualMetadata(a) ==
  /\ NotPreempted
  /\ a \notin hashed
  /\ hashed' = hashed \cup {a}
  /\ UNCHANGED <<resv, rejected, origin, assignments, events, receipts, call, clock>>

(* expire_inventory_reservations, run by the daily orchestrator, the reuse   *)
(* selection and `asset reservations reconcile --apply`.                     *)
ExpireInventoryReservations ==
  /\ NotPreempted
  /\ Swept(resv) # resv
  /\ resv' = Swept(resv)
  /\ UNCHANGED <<rejected, hashed, origin, assignments, events, receipts, call, clock>>

-----------------------------------------------------------------------------
(* The SELECT of a two-statement operation, with the early returns and       *)
(* errors that end it there left out: they change nothing.                   *)
Begin(w, c) ==
  /\ call[w] = Idle
  /\ NotPreempted
  /\ call' = [call EXCEPT ![w] = c]
  /\ UNCHANGED <<resv, rejected, hashed, origin, assignments, events, receipts, clock>>

ReadForRelease(w, r, to, pendingOnly) ==
  /\ IsActive(resv, r)
  /\ pendingOnly => resv[r].status = "pending"
  /\ Begin(w, [op |-> "release", row |-> r, to |-> to, pendingOnly |-> pendingOnly])

(* Mutant of ReadForCommit: the status check is gone.                        *)
ReadForCommitUnchecked(w, r) ==
  /\ ~IsFresh(resv, r)
  /\ Begin(w, [op |-> "commit", row |-> r])

ReadForCommit(w, r) ==
  /\ resv[r].status = "pending"
  /\ Begin(w, [op |-> "commit", row |-> r])

ReadForCancel(w, r) ==
  /\ IsActive(resv, r)
  /\ Begin(w, [op |-> "cancel", row |-> r])

(* Mutant of ReadForPublish: a pending row may be published, too.            *)
ReadForPublishActive(w, r, m) ==
  /\ IsActive(resv, r)
  /\ Begin(w, [op |-> "publish", row |-> r, media |-> m])

ReadForPublish(w, r, m) ==
  /\ resv[r].status = "committed"
  /\ Begin(w, [op |-> "publish", row |-> r, media |-> m])

(* UPDATE ... WHERE id = ?: no status guard but the trigger's; a refused     *)
(* update raises and the call ends without effect.                           *)
WriteRelease(w) ==
  /\ call[w].op = "release"
  /\ LET c == call[w] IN
     resv' = IF Permitted(resv[c.row].status, c.to)
             THEN SetStatus(c.row, c.to) ELSE resv
  /\ Return(w)
  /\ UNCHANGED <<rejected, hashed, origin, assignments, events, receipts, clock>>

(* UPDATE ... WHERE status = 'pending' followed by the event, whatever the   *)
(* UPDATE matched.                                                           *)
WriteCommit(w) ==
  /\ call[w].op = "commit"
  /\ LET r == call[w].row IN
     /\ resv' = IF resv[r].status = "pending" THEN SetStatus(r, "committed") ELSE resv
     /\ events' = events \cup {[row |-> r, type |-> "draft_ingest_accepted"]}
  /\ Return(w)
  /\ UNCHANGED <<rejected, hashed, origin, assignments, receipts, clock>>

WriteCancel(w) ==
  /\ call[w].op = "cancel"
  /\ LET r == call[w].row IN
     /\ resv' = IF IsActive(resv, r) THEN SetStatus(r, "cancelled") ELSE resv
     /\ events' = events \cup {[row |-> r, type |-> "draft_cancelled"]}
  /\ Return(w)
  /\ UNCHANGED <<rejected, hashed, origin, assignments, receipts, clock>>

(* The assignment's id is a hash of the reservation and the media id, and    *)
(* ON CONFLICT(id) DO NOTHING keeps the first.                               *)
WritePublish(w) ==
  /\ call[w].op = "publish"
  /\ LET r == call[w].row
         m == call[w].media IN
     /\ assignments' =
          IF \E s \in assignments : s.row = r /\ s.media = m THEN assignments
          ELSE assignments \cup {[row |-> r, media |-> m, asset |-> resv[r].asset,
                                  account |-> resv[r].account, at |-> clock]}
     /\ resv' = IF resv[r].status = "committed" THEN SetStatus(r, "published") ELSE resv
     /\ events' = events \cup {[row |-> r, type |-> "publication_confirmed", media |-> m]}
  /\ Return(w)
  /\ UNCHANGED <<rejected, hashed, origin, receipts, clock>>

(* A process dies between two statements, or its transaction raises and is   *)
(* rolled back.                                                              *)
Abandon(w) ==
  /\ call[w] # Idle
  /\ Return(w)
  /\ UNCHANGED <<resv, rejected, hashed, origin, assignments, events, receipts, clock>>

-----------------------------------------------------------------------------
(* A rejection expires every active row of the asset in its own transaction; *)
(* approving the same bytes again is refused, so it is permanent.            *)
RejectAsset(a) ==
  /\ NotPreempted
  /\ a \notin rejected
  /\ rejected' = rejected \cup {a}
  /\ resv' = [r \in Rows |-> IF IsActive(resv, r) /\ resv[r].asset = a
                             THEN WithStatus(resv[r], "expired") ELSE resv[r]]
  /\ UNCHANGED <<hashed, origin, assignments, events, receipts, call, clock>>

(* Pausing, cancelling, completing or archiving the campaign releases its    *)
(* pending rows and records an event for each.                               *)
CampaignRelease ==
  /\ NotPreempted
  /\ \E r \in Rows : resv[r].status = "pending"
  /\ LET pending == {r \in Rows : resv[r].status = "pending"} IN
     /\ resv' = [r \in Rows |-> IF r \in pending
                                THEN WithStatus(resv[r], "released") ELSE resv[r]]
     /\ events' = events \cup
          {[row |-> r, type |-> "campaign_lifecycle_release"] : r \in pending}
  /\ UNCHANGED <<rejected, hashed, origin, assignments, receipts, call, clock>>

-----------------------------------------------------------------------------
(* Mutant of ReadPairReceipts: a repeated call is not recognised.            *)
PairReceiptsUnread(w, p) ==
  /\ {p.first, p.second} \cap rejected = {}
  /\ Begin(w, [op |-> "pair_checked", pair |-> p])

(* reserve_experiment_pair.  The receipts of the pair and the review states  *)
(* are read before the transaction opens, which then reserves both assets.   *)
ReadPairReceipts(w, p) ==
  /\ receipts[p] = 0
  /\ {p.first, p.second} \cap rejected = {}
  /\ Begin(w, [op |-> "pair_checked", pair |-> p])

FirstKey(p) == <<p, 1>>
SecondKey(p) == <<p, 2>>
AfterFirst(p) == Reserved(resv, p.first, p.firstTo, FirstKey(p), p)
OriginFirst(p) == OriginAfter(resv, origin, p.first, p.firstTo, FirstKey(p))

(* Mutant of ReservePairWhole: the review states read before the transaction *)
(* are trusted.                                                              *)
ReservePairUnreviewed(w) ==
  /\ call[w].op = "pair_checked"
  /\ LET p == call[w].pair IN
     /\ p.second \in hashed
     /\ CanReserve(resv, p.first, p.firstTo, FirstKey(p), p.first)
     /\ CanReserve(AfterFirst(p), p.second, p.secondTo, SecondKey(p), p.first)
     /\ resv' = Reserved(AfterFirst(p), p.second, p.secondTo, SecondKey(p), p)
     /\ origin' = OriginAfter(AfterFirst(p), OriginFirst(p), p.second, p.secondTo,
                              SecondKey(p))
     /\ receipts' = [receipts EXCEPT ![p] = @ + 2]
     /\ hashed' = hashed \cup {p.first}
  /\ Return(w)
  /\ UNCHANGED <<rejected, assignments, events, clock>>

(* The second asset already has its metadata: the two reservations and the   *)
(* two receipts commit together or not at all.                               *)
ReservePairWhole(w) ==
  /\ call[w].op = "pair_checked"
  /\ LET p == call[w].pair IN
     /\ p.second \in hashed
     /\ {p.first, p.second} \cap rejected = {}
     /\ CanReserve(resv, p.first, p.firstTo, FirstKey(p), p.first)
     /\ CanReserve(AfterFirst(p), p.second, p.secondTo, SecondKey(p), p.first)
     /\ resv' = Reserved(AfterFirst(p), p.second, p.secondTo, SecondKey(p), p)
     /\ origin' = OriginAfter(AfterFirst(p), OriginFirst(p), p.second, p.secondTo,
                              SecondKey(p))
     /\ receipts' = [receipts EXCEPT ![p] = @ + 2]
     /\ hashed' = hashed \cup {p.first}
  /\ Return(w)
  /\ UNCHANGED <<rejected, assignments, events, clock>>

(* The second asset has none: storing it commits the first half of the pair  *)
(* and returns the row whose review state is then looked at.                 *)
ReservePairFirst(w) ==
  /\ call[w].op = "pair_checked"
  /\ LET p == call[w].pair IN
     /\ p.second \notin hashed /\ p.first \notin rejected
     /\ CanReserve(resv, p.first, p.firstTo, FirstKey(p), p.first)
     /\ resv' = AfterFirst(p)
     /\ origin' = OriginFirst(p)
     /\ hashed' = hashed \cup {p.first, p.second}
     /\ receipts' = [receipts EXCEPT ![p] = @ + 1]
     /\ call' = [call EXCEPT ![w] = IF p.second \in rejected THEN Idle
                                    ELSE [op |-> "pair_second", pair |-> p]]
  /\ UNCHANGED <<rejected, assignments, events, clock>>

(* _pair_scoped_eligibility rebuilds "allowed" from the reuse matches alone, *)
(* so the review state is not looked at again.                               *)
ReservePairSecond(w) ==
  /\ call[w].op = "pair_second"
  /\ LET p == call[w].pair IN
     /\ CanReserve(resv, p.second, p.secondTo, SecondKey(p), p.first)
     /\ resv' = Reserved(resv, p.second, p.secondTo, SecondKey(p), p)
     /\ origin' = OriginAfter(resv, origin, p.second, p.secondTo, SecondKey(p))
     /\ receipts' = [receipts EXCEPT ![p] = @ + 1]
  /\ Return(w)
  /\ UNCHANGED <<rejected, hashed, assignments, events, clock>>

-----------------------------------------------------------------------------
Tick ==
  /\ clock < MaxClock
  /\ clock' = clock + 1
  /\ UNCHANGED <<resv, rejected, hashed, origin, assignments, events, receipts, call>>

Worker(w) ==
  \/ \E r \in Rows :
       \/ \E pendingOnly \in BOOLEAN : ReadForRelease(w, r, "released", pendingOnly)
       \/ ReadForRelease(w, r, "cancelled", FALSE)
       \/ ReadForCommit(w, r)
       \/ ReadForCancel(w, r)
       \/ \E m \in Medias : ReadForPublish(w, r, m)
  \/ \E p \in Pairs : ReadPairReceipts(w, p)
  \/ WriteRelease(w) \/ WriteCommit(w) \/ WriteCancel(w) \/ WritePublish(w)
  \/ ReservePairWhole(w) \/ ReservePairFirst(w) \/ ReservePairSecond(w)
  \/ Abandon(w)

Next ==
  \/ \E q \in Requests : ReserveInventoryAsset(q.asset, q.account, q.key)
  \/ \E a \in Assets : EnsurePerceptualMetadata(a) \/ RejectAsset(a)
  \/ ExpireInventoryReservations
  \/ CampaignRelease
  \/ \E w \in Workers : Worker(w)
  \/ Tick

Spec == Init /\ [][Next]_vars

(* Time passes and the daily orchestrator sweeps on every pass; nobody has   *)
(* to finish, or start, any other call.                                      *)
FairSpec == Spec /\ WF_vars(Tick) /\ WF_vars(ExpireInventoryReservations)

-----------------------------------------------------------------------------
TypeOK ==
  /\ resv \in [Rows -> RowRecords]
  /\ rejected \subseteq Assets /\ hashed \subseteq Assets
  /\ origin \in [Assets -> Destinations]
  /\ assignments \subseteq [row : Rows, media : Medias, asset : Assets,
                            account : Destinations, at : Nat]
  /\ events \subseteq [row : Rows, type : EventTypes]
                        \cup [row : Rows, type : EventTypes, media : Medias]
  /\ receipts \in [Pairs -> Nat]
  /\ call \in [Workers -> Calls]
  /\ clock \in Nat

Exclusive(t) ==
  \A r, s \in Rows :
    IsActive(t, r) /\ IsActive(t, s) /\ t[r].asset = t[s].asset => r = s

(* No asset is ever promised twice: of the rows of one asset at most one is  *)
(* pending or committed, whatever processes interleave                       *)
(* (inventory_reservations.py, idx_asset_inventory_reservations_active_asset). *)
OneActivePerAsset == Exclusive(resv)

Near(m, n) == m.at <= n.at + Cooldown /\ n.at <= m.at + Cooldown

(* The exception is "pair_only": the other asset of an experiment pair may   *)
(* be used beside a row that belongs to that pair.                           *)
PairException(r, s) ==
  \E p \in Pairs :
    /\ {resv[r].asset, resv[s].asset} = {p.first, p.second}
    /\ p \in {resv[r].pair, resv[s].pair}

(* Two assets of one family are never held for different accounts inside the *)
(* cooldown, the pair exception apart, however rows come and go              *)
(* (inventory_uniqueness_conflicts, _pair_scoped_eligibility).               *)
FamilyExclusive ==
  \A r, s \in Rows :
    /\ IsActive(resv, r) /\ IsActive(resv, s) /\ resv[r].asset # resv[s].asset
    /\ SameIdentity(resv[r].asset, resv[s].asset)
    /\ Near(resv[r], resv[s])
    => \/ resv[r].account = resv[s].account /\ resv[r].account # NoAccount
       \/ PairException(r, s)

(* An asset that carries no reuse identity is only ever reserved for the     *)
(* account it was first reserved for, also after that row has ended          *)
(* (policy missingIdentity: origin_account_only).                            *)
UnidentifiedAssetsKeepOrigin ==
  \A r \in Rows :
    LET x == resv[r] IN
    ~IsFresh(resv, r) /\ Family[x.asset] = NoFamily /\ x.account # NoAccount
      => origin[x.asset] = x.account

(* A row that has ended never changes again, so a late release or commit     *)
(* cannot resurrect or relabel it (inventory_reservations_transition_guard). *)
EndedRowsStayEnded ==
  [][\A r \in Rows : resv[r].status \in TerminalStatus => resv'[r] = resv[r]]_vars

(* A rejected asset is never held, and so never reaches a draft: the review  *)
(* that rejects it expires its rows and later reservations are refused       *)
(* ("operator-rejected asset cannot be reserved").                           *)
RejectedNeverHeld ==
  \A r \in Rows : IsActive(resv, r) => resv[r].asset \notin rejected

(* The release that follows a failed draft handoff (pending_only) takes a    *)
(* pending row only: it never frees the asset of a draft that was accepted.  *)
OnlyPendingIsReleased ==
  [][\A w \in Workers :
       call[w].op = "release" /\ call[w].pendingOnly /\ resv' # resv
         /\ call'[w] = Idle
       => resv[call[w].row].status = "pending"]_vars

StatusOfEvent(e) ==
  CASE e.type = "draft_ingest_accepted" -> "committed"
    [] e.type = "draft_cancelled" -> "cancelled"
    [] e.type = "publication_confirmed" -> "published"
    [] OTHER -> "released"

(* Every immutable event is true when it is written: the row is in the       *)
(* status the event's evidence names.                                        *)
EvidenceIsTrue ==
  [][\A e \in events' \ events : resv'[e.row].status = StatusOfEvent(e)]_vars

(* Whatever ran between the statements of a commit, cancellation or          *)
(* publication, its event is true of the row unless the row had ended: only  *)
(* then does the compare and set match nothing (commit_, cancel_ and         *)
(* publish_inventory_reservation).                                           *)
EvidenceOfLiveRowsIsTrue ==
  [][\A e \in events' \ events :
       \/ resv'[e.row].status = StatusOfEvent(e)
       \/ resv[e.row].status \in TerminalStatus]_vars

(* A reservation is published under one media id, and only a published one   *)
(* has an assignment ("reservation already published to another media id").  *)
OnePublicationPerReservation ==
  \A m, n \in assignments :
    /\ resv[m.row].status = "published"
    /\ m.row = n.row => m.media = n.media

(* One family is not published by two accounts inside the cooldown, outside  *)
(* an experiment pair: the path from reservation to publication keeps what   *)
(* the reservation checked.                                                  *)
NoCrossAccountReuse ==
  \A m, n \in assignments :
    /\ SameIdentity(m.asset, n.asset) /\ Near(m, n)
    /\ {m.account, n.account} \subseteq Accounts /\ m.account # n.account
    => PairException(m.row, n.row)

InPair(w, p) == call[w].op \in {"pair_checked", "pair_second"} /\ call[w].pair = p

(* "Atomically reserve and immutably assign one governed experiment pair":   *)
(* when no process is reserving it a pair has both receipts and both its     *)
(* rows were inserted, or it has neither.                                    *)
PairAllOrNothing ==
  \A p \in Pairs : (\A w \in Workers : ~InPair(w, p)) =>
    \/ receipts[p] = 0 /\ ~KeyStored(resv, FirstKey(p)) /\ ~KeyStored(resv, SecondKey(p))
    \/ receipts[p] = 2 /\ KeyStored(resv, FirstKey(p)) /\ KeyStored(resv, SecondKey(p))

(* A reservation does not hold its asset for ever: every row whose deadline  *)
(* is inside the modelled time leaves the active states.                     *)
ReservationsEnd ==
  \A r \in Rows :
    IsActive(resv, r) /\ resv[r].expires <= MaxClock ~> ~IsActive(resv, r)

-----------------------------------------------------------------------------
(* The row that holds an asset; 0, no row identifier, when it is free.       *)
HolderIn(t, a) ==
  LET held == {r \in Rows : IsActive(t, r) /\ t[r].asset = a} IN
  IF held = {} THEN 0 ELSE CHOOSE r \in held : TRUE

Leases ==
  INSTANCE AssetLeases WITH
    Nobody <- 0,
    holder <- [a \in Assets |-> HolderIn(resv, a)],
    spent <- {r \in Rows : ~IsFresh(resv, r)}

(* Through sweeps, rejections, releases and pair transactions the table is   *)
(* an exclusive lease per asset: a new holder is always a row that never     *)
(* held anything (reserve_inventory_asset, reserve_experiment_pair).         *)
ImplementsLeases == Leases!LeaseSpec

=============================================================================
