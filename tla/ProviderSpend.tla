--------------------------- MODULE ProviderSpend ---------------------------
(***************************************************************************)
(* Money before it is spent: the table provider_spend_authorizations and   *)
(* the cost ledger ai_cost_events of Campaign Factory, in their two lanes. *)
(* Credits of the generation provider are authorized by                    *)
(* campaign_factory/provider_spend.py and settled from the worker's        *)
(* evidence; dollars are authorized, consumed and reconciled by            *)
(* campaign_factory/all_provider_cost.py.                                  *)
(*                                                                         *)
(* A request is a request fingerprint, the table's unique key.  What is    *)
(* read before a write transaction (the clock, the provider's balance) is  *)
(* read in a step of its own.  The run cap, governance, the kill switch    *)
(* and the signature of a payload only ever refuse: GiveUp stands for all  *)
(* refusals, as for a process that dies.  Signed budget overrides, which   *)
(* lift limits for one request, are left out.                              *)
(***************************************************************************)
EXTENDS Integers, FiniteSets, Functions

CONSTANTS
  Requests,       \* request fingerprints
  Procs,          \* processes
  Credits,        \* the requests paid in provider credits; the others are in USD
  Amount,         \* Requests -> the quoted amount
  Charges,        \* Requests -> what the provider may really charge
  JobsOf,         \* Requests -> the provider jobs its execution may have run
  Limits,         \* budget limits: [covers, period, cap], period 0 has no end
  Balance0,       \* the provider's balance of credits at the start
  MinBalance,     \* HIGGSFIELD_MIN_BALANCE_CREDITS
  TTL,            \* ttl_seconds
  MaxTime,        \* bound on the clock
  Issuable,       \* bound: the sets of requests that are issued in one behaviour
  NoCharge, NoRequest

ASSUME SpendAssumption ==
  /\ IsFiniteSet(Requests) /\ Credits \subseteq Requests
  /\ Amount \in [Requests -> Nat \ {0}]
  /\ Charges \in [Requests -> SUBSET Nat]
  /\ JobsOf \in [Requests -> Nat \ {0}]
  /\ \A l \in Limits : /\ l.covers \subseteq Requests /\ l.period \in Nat /\ l.cap \in Nat
                       /\ l.covers \subseteq Credits \/ l.covers \cap Credits = {}
  /\ Balance0 \in Nat /\ MinBalance \in 0..Balance0
  /\ TTL \in Nat /\ MaxTime \in Nat /\ Issuable \subseteq SUBSET Requests
  /\ NoCharge \notin Nat /\ NoRequest \notin Requests

VARIABLES
  now,       \* the clock
  auths,     \* provider_spend_authorizations, by request
  ledger,    \* the ai_cost_events row of each authorization
  incidents, \* requests with an overspend incident on manual hold
  procs,     \* what each process is doing
  calls,     \* calls to the provider, by request
  charged,   \* what the provider has charged for each request
  balance,   \* the provider's balance of credits
  stale      \* requests decided on a balance or a clock that no longer held

vars == <<now, auths, ledger, incidents, procs, calls, charged, balance, stale>>
provider == <<calls, charged, balance>>

Statuses == {"none", "authorized", "consumed", "cancelled"}
Settlements == {"none", "pending", "unknown", "known"}
Places == {"idle", "priced", "issued", "timed", "consumed", "called"}

Times == 0..MaxTime
Auths == [status : Statuses, issued : Times, expires : 0..MaxTime + TTL]
Entries == [state : Settlements, net : Nat]
ProcStates == [at : Places, req : Requests \cup {NoRequest}, ts : Times, seen : Int]

NoAuth == [status |-> "none", issued |-> 0, expires |-> 0]
NoEntry == [state |-> "none", net |-> 0]
Idle == [at |-> "idle", req |-> NoRequest, ts |-> 0, seen |-> 0]

Init ==
  /\ now = 0
  /\ auths = [r \in Requests |-> NoAuth]
  /\ ledger = [r \in Requests |-> NoEntry]
  /\ incidents = {}
  /\ procs = [p \in Procs |-> Idle]
  /\ calls = [r \in Requests |-> 0]
  /\ charged = [r \in Requests |-> NoCharge]
  /\ balance = Balance0
  /\ stale = {}

Go(p, place) == procs' = [procs EXCEPT ![p].at = place]
Rest(p) == procs' = [procs EXCEPT ![p] = Idle]

-----------------------------------------------------------------------------
(* What the table holds against a limit and against the balance.            *)

\* A reservation counts once consumed, and before that until it expires.
Counts(r, t) ==
  \/ auths[r].status = "consumed"
  \/ auths[r].status = "authorized" /\ auths[r].expires > t

\* Mutant: a cost that is not known yet counts for nothing.
CommittedAsRecorded ==
  [r \in Requests |-> IF r \notin Credits /\ ledger[r].state # "none" THEN ledger[r].net
                      ELSE Amount[r]]

\* A dollar authorization counts what it really cost once that is known.
Committed ==
  [r \in Requests |-> IF r \notin Credits /\ ledger[r].state = "known" THEN ledger[r].net
                      ELSE Amount[r]]

Window(l, t) == IF l.period = 0 THEN 0 ELSE t \div l.period

\* Every limit counts by the time of issue, within its window.
Counted(l, w, t) == {r \in l.covers : Counts(r, t) /\ Window(l, auths[r].issued) = w}
ReservedTotal(l, w, t) == SumFunctionOnSet(Committed, Counted(l, w, t))

Breaches(r, ts, t) ==
  {l \in Limits : /\ r \in l.covers
                  /\ ReservedTotal(l, Window(l, ts), t) + Amount[r] > l.cap}

\* Mutant: consumed authorizations are forgotten before their cost is known.
ActiveUntilConsumed ==
  {r \in Credits : auths[r].status = "authorized" /\ auths[r].expires > now}

\* What may still be charged: a consumed authorization leaves with its cost event.
ActiveReservations ==
  {r \in Credits : Counts(r, now) /\ ledger[r].state = "none"}

Total(rs) == SumFunctionOnSet(Amount, rs)
-----------------------------------------------------------------------------
(* Issue: the clock and the balance are read, then one transaction decides. *)

\* The requests that were priced or issued.
Begun ==
  {r \in Requests : auths[r].status # "none" \/ \E p \in Procs : procs[p].req = r}

Price(p, r) ==
  /\ procs[p] = Idle
  /\ {r} \cup Begun \in Issuable
  /\ r \in Credits => balance - Amount[r] >= MinBalance
  /\ procs' = [procs EXCEPT ![p] = [at |-> "priced", req |-> r, ts |-> now,
                                    seen |-> IF r \in Credits THEN balance ELSE 0]]
  /\ UNCHANGED <<now, auths, ledger, incidents, provider, stale>>

\* The credit lane takes the clock of its transaction for what has expired, the
\* dollar lane the clock it read before; an authorization is never issued twice.
Allowed(r, ts, seen) ==
  /\ auths[r].status = "none"
  /\ r \in Credits => seen - Total(ActiveReservations) - Amount[r] >= MinBalance
  /\ Breaches(r, ts, IF r \in Credits THEN now ELSE ts) = {}

\* Mutant: the lifetime is added twice.
ExpiryTwice(ts) == ts + TTL + TTL

Expiry(ts) == ts + TTL

Issue(p) ==
  LET r == procs[p].req  ts == procs[p].ts IN
  /\ procs[p].at = "priced"
  /\ IF Allowed(r, ts, procs[p].seen)
       THEN /\ auths' = [auths EXCEPT ![r] = [status |-> "authorized", issued |-> ts,
                                              expires |-> Expiry(ts)]]
            /\ procs' = [procs EXCEPT ![p] = [Idle EXCEPT !.at = "issued", !.req = r]]
            /\ stale' = IF r \in Credits /\ ~Allowed(r, ts, balance) THEN stale \cup {r}
                        ELSE stale
       ELSE Rest(p) /\ UNCHANGED <<auths, stale>>
  /\ UNCHANGED <<now, ledger, incidents, provider>>

\* A batch that resumes loads the authorization its first process issued.
Resume(p, r) ==
  /\ procs[p] = Idle
  /\ r \in Credits /\ auths[r].status # "none"
  /\ procs' = [procs EXCEPT ![p] = [Idle EXCEPT !.at = "issued", !.req = r]]
  /\ UNCHANGED <<now, auths, ledger, incidents, provider, stale>>

\* An aborted batch, or an attempt that could not begin, releases what is unconsumed.
Cancel(p) ==
  LET r == procs[p].req IN
  /\ procs[p].at \in {"issued", "timed"}
  /\ auths' = IF auths[r].status = "authorized"
                THEN [auths EXCEPT ![r].status = "cancelled"] ELSE auths
  /\ Rest(p)
  /\ UNCHANGED <<now, ledger, incidents, provider, stale>>

-----------------------------------------------------------------------------
(* Consume, call, settle.                                                   *)

ReadClock(p) ==
  /\ procs[p].at = "issued"
  /\ procs' = [procs EXCEPT ![p].at = "timed", ![p].ts = now]
  /\ UNCHANGED <<now, auths, ledger, incidents, provider, stale>>

\* Mutant: a consumed authorization can be consumed again.
ConsumableTwice(r, ts) == auths[r].status \in {"authorized", "consumed"} /\ auths[r].expires > ts

Consumable(r, ts) == auths[r].status = "authorized" /\ auths[r].expires > ts

\* The clock was read before the write lock was waited for.  The dollar lane inserts
\* the pending cost row in the same transaction.
Consume(p) ==
  LET r == procs[p].req IN
  /\ procs[p].at = "timed"
  /\ IF Consumable(r, procs[p].ts)
       THEN /\ auths' = [auths EXCEPT ![r].status = "consumed"]
            /\ ledger' = IF r \in Credits THEN ledger
                         ELSE [ledger EXCEPT ![r].state = "pending"]
            /\ procs' = [procs EXCEPT ![p] = [Idle EXCEPT !.at = "consumed", !.req = r]]
            /\ stale' = IF auths[r].expires <= now THEN stale \cup {r} ELSE stale
       ELSE Rest(p) /\ UNCHANGED <<auths, ledger, stale>>
  /\ UNCHANGED <<now, incidents, provider>>

Call(p) ==
  /\ procs[p].at = "consumed"
  /\ calls' = [calls EXCEPT ![procs[p].req] = @ + 1]
  /\ Go(p, "called")
  /\ UNCHANGED <<now, auths, ledger, incidents, charged, balance, stale>>

\* The provider charges a call whenever it likes, whoever still waits for it.
ProviderCharges(r) ==
  /\ calls[r] > 0 /\ charged[r] = NoCharge
  /\ \E c \in Charges[r] :
       /\ charged' = [charged EXCEPT ![r] = c]
       /\ balance' = IF r \in Credits THEN balance - c ELSE balance
  /\ UNCHANGED <<now, auths, ledger, incidents, procs, calls, stale>>

\* record_ai_cost keeps the first event of a source event key.
CostEvent(r, known) ==
  IF ledger[r].state # "none" THEN ledger
  ELSE [ledger EXCEPT ![r] = IF known THEN [state |-> "known", net |-> charged[r]]
                             ELSE [state |-> "unknown", net |-> 0]]

\* Each job's event is compared with the whole quote, so a charge within the quote for
\* every one of them can pass for no overspend.
MostUnnoticed(r) == JobsOf[r] * Amount[r]

\* Mutant: the overspend goes into the ledger and nowhere else.
EvidenceWithoutIncident(r) ==
  \E known \in BOOLEAN :
    /\ known => charged[r] # NoCharge
    /\ ledger' = CostEvent(r, known) /\ UNCHANGED incidents

\* The worker's evidence of a credit execution, charged or not: its cost is known when
\* every job's is; a job that cost more than the authorized maximum raises an incident.
Evidence(r) ==
  \E known, over \in BOOLEAN :
    /\ known \/ over => charged[r] # NoCharge
    /\ over => charged[r] > Amount[r] /\ (known \/ JobsOf[r] > 1)
    /\ known /\ ~over => charged[r] <= MostUnnoticed(r)
    /\ ledger' = CostEvent(r, known)
    /\ incidents' = IF over THEN incidents \cup {r} ELSE incidents

Record(p) ==
  /\ procs[p].at = "called" /\ procs[p].req \in Credits
  /\ Evidence(procs[p].req)
  /\ Rest(p)
  /\ UNCHANGED <<now, auths, provider, stale>>

\* A recovered generation brings its evidence later, once or again.
RecordRecovered(p, r) ==
  /\ procs[p] = Idle
  /\ r \in Credits /\ auths[r].status = "consumed" /\ calls[r] > 0
  /\ Evidence(r)
  /\ UNCHANGED <<now, auths, procs, provider, stale>>

Unsettled(r) == ledger[r].state \in {"pending", "unknown"}

\* A dollar cost: an exact one less its refund, or unknown.
Settle(r, state, net) ==
  ledger' = IF Unsettled(r) THEN [ledger EXCEPT ![r] = [state |-> state, net |-> net]]
            ELSE ledger

\* After the answer with or without its cost, after a timeout or an error, and at no
\* cost when the call was never made.
Reconcile(p) ==
  LET r == procs[p].req IN
  /\ r \notin Credits
  /\ \/ procs[p].at = "called" /\ Settle(r, "unknown", 0)
     \/ procs[p].at = "called" /\ charged[r] # NoCharge /\ Settle(r, "known", charged[r])
     \/ procs[p].at = "consumed" /\ Settle(r, "known", 0)
  /\ Rest(p)
  /\ UNCHANGED <<now, auths, incidents, provider, stale>>

\* An exact cost that arrives later, perhaps with a refund.
ReconcileLater(r) ==
  /\ r \notin Credits /\ charged[r] # NoCharge /\ Unsettled(r)
  /\ \E refund \in {0, charged[r]} : Settle(r, "known", charged[r] - refund)
  /\ UNCHANGED <<now, auths, incidents, procs, provider, stale>>

\* A refusal of some other check, an error, or the end of the process.
GiveUp(p) ==
  /\ procs[p] # Idle
  /\ Rest(p)
  /\ UNCHANGED <<now, auths, ledger, incidents, provider, stale>>

Tick ==
  /\ now < MaxTime
  /\ now' = now + 1
  /\ UNCHANGED <<auths, ledger, incidents, procs, provider, stale>>

Next ==
  \/ \E p \in Procs :
       \/ \E r \in Requests : Price(p, r) \/ Resume(p, r) \/ RecordRecovered(p, r)
       \/ Issue(p) \/ Cancel(p) \/ ReadClock(p) \/ Consume(p) \/ Call(p)
       \/ Record(p) \/ Reconcile(p) \/ GiveUp(p)
  \/ \E r \in Requests : ProviderCharges(r) \/ ReconcileLater(r)
  \/ Tick

Spec == Init /\ [][Next]_vars
-----------------------------------------------------------------------------
(* Correctness.                                                             *)

\* The rows and the processes are what the code can make of them.
TypeOK ==
  /\ now \in Times
  /\ auths \in [Requests -> Auths]
  /\ ledger \in [Requests -> Entries]
  /\ incidents \in SUBSET Credits
  /\ procs \in [Procs -> ProcStates]
  /\ calls \in [Requests -> Nat]
  /\ charged \in [Requests -> Nat \cup {NoCharge}]
  /\ balance \in Int
  /\ stale \in SUBSET Requests

Overrun(r) == charged[r] # NoCharge /\ charged[r] > Amount[r]

\* No limit (a day, a month, a creator, a campaign, a run) is ever reserved beyond
\* its cap, whatever expires, is cancelled or is settled for less and gives way to
\* other requests, unless the window holds a charge above its quote or an authorization
\* that had expired when it was consumed.
WithinCaps ==
  \A l \in Limits : \A w \in {Window(l, t) : t \in Times} :
    LET counted == Counted(l, w, now) IN
    \/ ReservedTotal(l, w, now) <= l.cap
    \/ \E r \in counted : Overrun(r) \/ r \in stale

\* If every outstanding authorization were charged its quote now, the provider's
\* balance would still not fall below its minimum, unless one cost more than its quote,
\* was issued on a balance read before another was charged and settled, or was recorded
\* at an unknown cost, which reserves nothing though the charge may be to come.
BalanceFloor ==
  LET exposed == {r \in Credits : /\ Counts(r, now) /\ charged[r] = NoCharge} IN
  \/ balance - Total(exposed) >= MinBalance
  \/ \E r \in Credits : Overrun(r) \/ r \in stale \/ ledger[r].state = "unknown"

\* One authorization pays for one call of the provider, and no call leaves before
\* it is consumed and, in dollars, before its row is in the ledger.
PaidOnce ==
  \A r \in Requests :
    /\ calls[r] <= 1
    /\ calls[r] > 0 => /\ auths[r].status = "consumed"
                       /\ r \notin Credits => ledger[r].state # "none"

\* A cost the ledger calls known is what the provider charged, in dollars less a
\* refund, and nothing when it was never called.  Known credits beyond what could pass
\* for the quote are an incident, and an incident is never about a charge within it.
KnownCostsAreTrue ==
  /\ \A r \in Requests : ledger[r].state = "known" =>
       /\ IF calls[r] = 0 THEN ledger[r].net = 0
          ELSE charged[r] # NoCharge /\ ledger[r].net \in 0..charged[r]
       /\ r \in Credits => /\ ledger[r].net = charged[r]
                           /\ charged[r] <= MostUnnoticed(r) \/ r \in incidents
  /\ \A r \in incidents : Overrun(r)
=============================================================================
