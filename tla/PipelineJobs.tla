---------------------------- MODULE PipelineJobs ----------------------------
(***************************************************************************)
(* The pipeline jobs of Campaign Factory: the table pipeline_jobs behind   *)
(* EventRepository (campaign_factory/events.py), the trigger that guards   *)
(* its effect states (campaign_factory/db.py), the processes that create,  *)
(* start, advance, finish and fail a job, the operator's reclaim pass, and *)
(* the reconciliation and retry of a job whose external effect is unknown. *)
(*                                                                         *)
(* A method of the repository reads before its transaction and writes in   *)
(* it; where the code does both, they are two steps here.  A process may   *)
(* stop between any two steps.  The age of updated_at is abstracted to     *)
(* "stale"; whoever writes a row makes it fresh again.                     *)
(***************************************************************************)
EXTENDS Naturals, FiniteSets

CONSTANTS
  Jobs,         \* the jobs stages create
  Procs,        \* the processes that work on them
  Policy,       \* Jobs -> recovery_policy
  NoJob, NoRow,
  MaxAttempts,  \* max_attempts of the reclaim pass
  MaxStarts,    \* bound on the starts of one job
  MaxGrants,    \* bound on the spend authorizations of one job
  Hasty         \* the jobs recovery may act on while their process is alive

POLICIES == {"LOCAL", "IDEMPOTENT_EXTERNAL", "NEVER_AUTOMATIC"}

ASSUME JobsAssumption ==
  /\ IsFiniteSet(Jobs) /\ NoJob \notin Jobs
  /\ Policy \in [Jobs -> POLICIES]
  /\ MaxAttempts \in Nat /\ MaxStarts \in Nat /\ MaxGrants \in Nat \ {0}
  /\ Hasty \subseteq Jobs

VARIABLES
  rows,      \* the table pipeline_jobs
  procs,     \* what each process is doing
  snapshot,  \* the stale rows an open reclaim pass has selected, by job
  tokens,    \* unconsumed spend authorizations of each job
  granted,   \* spend authorizations ever granted to each job
  provider,  \* the state of each job's latest operation at the provider
  operations \* operations the provider ever accepted for each job

vars == <<rows, procs, snapshot, tokens, granted, provider, operations>>
money == <<tokens, granted, provider, operations>>

Live == {"queued", "running"}
Ended == {"succeeded", "failed"}
JobStatuses == {"absent"} \cup Live \cup Ended

EffectTransitions ==
  [PRE_EFFECT |-> {"AUTHORIZATION_CONSUMED", "SUBMISSION_STARTED", "NO_EFFECT_CONFIRMED",
                   "EXTERNAL_ID_KNOWN", "FINALIZED"},
   AUTHORIZATION_CONSUMED |-> {"SUBMISSION_STARTED", "EXTERNAL_ID_KNOWN",
                               "NO_EFFECT_CONFIRMED", "FINALIZED"},
   SUBMISSION_STARTED |-> {"EXTERNAL_ID_KNOWN", "AMBIGUOUS", "PROVIDER_FAILED",
                           "NO_EFFECT_CONFIRMED", "EFFECT_CONFIRMED", "FINALIZED"},
   EXTERNAL_ID_KNOWN |-> {"AMBIGUOUS", "PROVIDER_FAILED", "PROVIDER_COMPLETED",
                          "EFFECT_CONFIRMED", "FINALIZED"},
   PROVIDER_FAILED |-> {"FINALIZED"},
   PROVIDER_COMPLETED |-> {"OUTPUT_DOWNLOADED", "OUTPUT_RETAINED", "AMBIGUOUS", "FINALIZED"},
   OUTPUT_DOWNLOADED |-> {"OUTPUT_RETAINED", "AMBIGUOUS", "FINALIZED"},
   OUTPUT_RETAINED |-> {"COST_RECONCILED", "AMBIGUOUS", "FINALIZED"},
   COST_RECONCILED |-> {"FINALIZED"},
   AMBIGUOUS |-> {"EXTERNAL_ID_KNOWN", "NO_EFFECT_CONFIRMED", "EFFECT_CONFIRMED"},
   NO_EFFECT_CONFIRMED |-> {"PRE_EFFECT", "FINALIZED"},
   EFFECT_CONFIRMED |-> {"FINALIZED"},
   FINALIZED |-> {}]

EffectStates == DOMAIN EffectTransitions

\* What mark_pipeline_effect_state checks on the row it read.
MayFollow(current, target) == target = current \/ target \in EffectTransitions[current]

\* The triggers on an update of a row: ended jobs are immutable, and status and
\* effect state have their transitions.
TriggersAllow(old, new) ==
  /\ old.status \notin Ended
  /\ \/ new.status = old.status
     \/ old.status = "queued" /\ new.status \in {"running", "failed"}
     \/ old.status = "running" /\ new.status \in {"queued", "succeeded", "failed"}
  /\ new.effect = old.effect \/ new.effect \in EffectTransitions[old.effect]

Rows == [status : JobStatuses, effect : EffectStates, external : BOOLEAN,
         attempts : 0..MaxStarts, stale : BOOLEAN]
NoJobRow == [status |-> "absent", effect |-> "PRE_EFFECT", external |-> FALSE,
             attempts |-> 0, stale |-> FALSE]

\* Where a process is: "at" is its place in the stage, "read" the row a method
\* selected before the transaction it has yet to run, "target" what it will write.
Places == {"idle", "created", "begun", "consumed", "AUTHORIZATION_CONSUMED",
           "SUBMISSION_STARTED", "accepted", "unanswered", "EXTERNAL_ID_KNOWN", "AMBIGUOUS",
           "PROVIDER_COMPLETED", "PROVIDER_FAILED", "OUTPUT_DOWNLOADED", "OUTPUT_RETAINED",
           "COST_RECONCILED", "failing"}
ProcStates == [at : Places, job : Jobs \cup {NoJob}, target : EffectStates \cup {"none"},
               read : Rows \cup {NoRow}, terminal : BOOLEAN]
Idle == [at |-> "idle", job |-> NoJob, target |-> "none", read |-> NoRow, terminal |-> FALSE]

Init ==
  /\ rows = [j \in Jobs |-> NoJobRow]
  /\ procs = [p \in Procs |-> Idle]
  /\ snapshot = [j \in Jobs |-> NoRow]
  /\ tokens = [j \in Jobs |-> 0]
  /\ granted = [j \in Jobs |-> 0]
  /\ provider = [j \in Jobs |-> "none"]
  /\ operations = [j \in Jobs |-> 0]

Paid(j) == Policy[j] = "NEVER_AUTOMATIC"

\* Every update also writes updated_at.
Touch(row) == [row EXCEPT !.stale = FALSE]

Holds(p, j) == procs[p].job = j /\ procs[p].at # "idle"
Unattended(j) == \A p \in Procs : ~Holds(p, j)

\* The threshold is hours, and the operator reconciles what a process gave up.
Recoverable(j) == j \in Hasty \/ Unattended(j)

-----------------------------------------------------------------------------
(* A stage: create, start, work, finish, or fail on any exception.          *)

\* create_pipeline_job; a paid job gets the authorization its lane issues.
Create(p, j) ==
  /\ procs[p] = Idle
  /\ rows[j].status = "absent"
  /\ rows' = [rows EXCEPT ![j].status = "queued"]
  /\ procs' = [procs EXCEPT ![p] = [Idle EXCEPT !.at = "created", !.job = j]]
  /\ tokens' = [tokens EXCEPT ![j] = IF Paid(j) THEN 1 ELSE 0]
  /\ granted' = [granted EXCEPT ![j] = IF Paid(j) THEN 1 ELSE 0]
  /\ UNCHANGED <<snapshot, provider, operations>>

\* start_pipeline_job by the creator, or by a process that takes a requeued job
\* up: a compare and set on the status, whose loser raises.
Start(p, j) ==
  /\ \/ procs[p].at = "created" /\ procs[p].job = j
     \/ procs[p] = Idle /\ rows[j].attempts > 0 /\ rows[j].status = "queued"
  /\ rows[j].attempts < MaxStarts
  /\ IF rows[j].status = "queued"
       THEN /\ rows' = [rows EXCEPT ![j] = [Touch(rows[j]) EXCEPT
                 !.status = "running", !.attempts = rows[j].attempts + 1]]
            /\ procs' = [procs EXCEPT ![p] = [Idle EXCEPT !.at = "begun", !.job = j]]
       ELSE /\ procs' = [procs EXCEPT ![p] = Idle]
            /\ UNCHANGED rows
  /\ UNCHANGED <<snapshot, money>>

\* consume_provider_spend_authorization: an authorization is consumed once.
Consume(p) ==
  LET j == procs[p].job IN
  /\ procs[p].at = "begun" /\ Paid(j)
  /\ IF tokens[j] > 0
       THEN /\ tokens' = [tokens EXCEPT ![j] = @ - 1]
            /\ procs' = [procs EXCEPT ![p].at = "consumed"]
       ELSE /\ procs' = [procs EXCEPT ![p].at = "failing"]
            /\ UNCHANGED tokens
  /\ UNCHANGED <<rows, snapshot, granted, provider, operations>>

\* The effect recorder's next call, from where the paid execution is.
NextMark(p) ==
  LET at == procs[p].at
      outcome == provider[procs[p].job] IN
  CASE at = "consumed" -> {"AUTHORIZATION_CONSUMED"}
    [] at = "AUTHORIZATION_CONSUMED" -> {"SUBMISSION_STARTED"}
    [] at = "accepted" -> {"EXTERNAL_ID_KNOWN"}
    [] at = "unanswered" -> {"AMBIGUOUS"}
    [] at = "EXTERNAL_ID_KNOWN" -> IF outcome = "completed" THEN {"PROVIDER_COMPLETED"}
                                   ELSE IF outcome = "failed" THEN {"PROVIDER_FAILED"} ELSE {}
    [] at = "PROVIDER_COMPLETED" -> {"OUTPUT_DOWNLOADED"}
    [] at = "OUTPUT_DOWNLOADED" -> {"OUTPUT_RETAINED"}
    [] at = "OUTPUT_RETAINED" -> {"COST_RECONCILED"}
    [] OTHER -> {}

\* mark_pipeline_effect_state reads the row and checks the transition on it...
MarkRead(p) ==
  /\ procs[p].target = "none"
  /\ \E target \in NextMark(p) :
       procs' = [procs EXCEPT ![p] =
         IF MayFollow(rows[@.job].effect, target)
           THEN [@ EXCEPT !.target = target] ELSE [@ EXCEPT !.at = "failing"]]
  /\ UNCHANGED <<rows, snapshot, money>>

\* ... and writes the state with no guard of its own: only the trigger aborts it.
MarkWrite(p) ==
  LET j == procs[p].job
      target == procs[p].target
      marked == [rows[j] EXCEPT !.effect = target,
                                !.external = @ \/ target = "EXTERNAL_ID_KNOWN"] IN
  /\ target # "none"
  /\ IF TriggersAllow(rows[j], marked)
       THEN /\ rows' = [rows EXCEPT ![j] = Touch(marked)]
            /\ procs' = [procs EXCEPT ![p].at = target, ![p].target = "none"]
       ELSE /\ procs' = [procs EXCEPT ![p].at = "failing", ![p].target = "none"]
            /\ UNCHANGED rows
  /\ UNCHANGED <<snapshot, money>>

\* The provider's CLI runs after SUBMISSION_STARTED is recorded: the operation
\* is accepted or not, and its id is answered or lost.
Submit(p, accepted, answered) ==
  LET j == procs[p].job IN
  /\ procs[p].at = "SUBMISSION_STARTED" /\ procs[p].target = "none"
  /\ answered => accepted
  /\ procs' = [procs EXCEPT ![p].at = IF answered THEN "accepted" ELSE "unanswered"]
  /\ provider' = IF accepted THEN [provider EXCEPT ![j] = "accepted"] ELSE provider
  /\ operations' = IF accepted THEN [operations EXCEPT ![j] = @ + 1] ELSE operations
  /\ UNCHANGED <<rows, snapshot, tokens, granted>>

\* The provider ends an operation it accepted.
ProviderEnds(j, outcome) ==
  /\ provider[j] = "accepted"
  /\ provider' = [provider EXCEPT ![j] = outcome]
  /\ UNCHANGED <<rows, procs, snapshot, tokens, granted, operations>>

\* The work of a stage is done: a local one at once, a paid one when its cost
\* is reconciled.
WorkDone(p) ==
  procs[p].target = "none" /\ procs[p].at = IF Paid(procs[p].job) THEN "COST_RECONCILED" ELSE "begun"

\* finish_pipeline_job: a compare and set on the status, under the trigger.
Finish(p) ==
  LET j == procs[p].job
      finished == [rows[j] EXCEPT !.status = "succeeded", !.effect = "FINALIZED"] IN
  /\ procs[p].at \notin {"idle", "created", "failing"} /\ WorkDone(p)
  /\ IF rows[j].status = "running" /\ TriggersAllow(rows[j], finished)
       THEN /\ rows' = [rows EXCEPT ![j] = Touch(finished)]
            /\ procs' = [procs EXCEPT ![p] = Idle]
       ELSE /\ procs' = [procs EXCEPT ![p].at = "failing"]
            /\ UNCHANGED rows
  /\ UNCHANGED <<snapshot, money>>

\* Any exception of the work; terminal for a technical rejection.
Raise(p, terminal) ==
  /\ procs[p].at \notin {"idle", "created", "failing"} /\ procs[p].target = "none"
  /\ terminal => procs[p].at = "COST_RECONCILED"
  /\ procs' = [procs EXCEPT ![p].at = "failing", ![p].terminal = terminal]
  /\ UNCHANGED <<rows, snapshot, money>>

\* fail_pipeline_job selects the row...
FailRead(p) ==
  /\ procs[p].at = "failing" /\ procs[p].read = NoRow
  /\ procs' = [procs EXCEPT ![p].read = rows[procs[p].job]]
  /\ UNCHANGED <<rows, snapshot, money>>

UnknownEffect == {"AUTHORIZATION_CONSUMED", "SUBMISSION_STARTED", "AMBIGUOUS"}
KnownEffect == {"EXTERNAL_ID_KNOWN", "PROVIDER_COMPLETED", "OUTPUT_DOWNLOADED",
                "OUTPUT_RETAINED", "COST_RECONCILED"}

\* Mutant: a submission that was started counts as none.
FailedAsNoEffect(row, read, terminal) ==
  IF read.status = "running" /\ read.effect \in UnknownEffect /\ ~read.external
    THEN [row EXCEPT !.effect = "NO_EFFECT_CONFIRMED"]
  ELSE IF read.status = "running" /\ read.effect \in KnownEffect THEN row
  ELSE [row EXCEPT !.status = "failed", !.effect = "FINALIZED"]

\* What fail_pipeline_job makes of the row, given the one it read.
Failed(row, read, terminal) ==
  IF read.status = "running" /\ read.effect \in UnknownEffect /\ ~read.external
    THEN [row EXCEPT !.effect = IF read.effect = "AUTHORIZATION_CONSUMED"
                                  THEN "NO_EFFECT_CONFIRMED" ELSE "AMBIGUOUS"]
  ELSE IF read.status = "running" /\ read.effect \in KnownEffect
          /\ ~(terminal /\ read.effect = "COST_RECONCILED")
    THEN row
  ELSE [row EXCEPT !.status = "failed", !.effect = "FINALIZED"]

\* ... and writes what the row it read calls for, if the job still runs.
FailWrite(p) ==
  LET j == procs[p].job
      failed == Failed(rows[j], procs[p].read, procs[p].terminal) IN
  /\ procs[p].read # NoRow
  /\ rows' = IF rows[j].status = "running" /\ TriggersAllow(rows[j], failed)
               THEN [rows EXCEPT ![j] = Touch(failed)] ELSE rows
  /\ procs' = [procs EXCEPT ![p] = Idle]
  /\ UNCHANGED <<snapshot, money>>

Crash(p) ==
  /\ procs[p].at # "idle"
  /\ procs' = [procs EXCEPT ![p] = Idle]
  /\ UNCHANGED <<rows, snapshot, money>>

-----------------------------------------------------------------------------
(* The operator's recovery.                                                 *)

\* Hours pass over a row nobody writes; an open pass takes no hours.
Age(j) ==
  /\ rows[j].status \in Live /\ ~rows[j].stale /\ snapshot[j] = NoRow
  /\ Recoverable(j)
  /\ rows' = [rows EXCEPT ![j].stale = TRUE]
  /\ UNCHANGED <<procs, snapshot, money>>

PassOpen == \E j \in Jobs : snapshot[j] # NoRow

\* reclaim_stale_pipeline_jobs selects the live rows before its first write.
ReclaimRead ==
  /\ ~PassOpen
  /\ snapshot' = [j \in Jobs |-> IF rows[j].status \in Live /\ rows[j].stale
                                   THEN rows[j] ELSE NoRow]
  /\ snapshot' # snapshot
  /\ UNCHANGED <<rows, procs, money>>

HeldEffect == UnknownEffect \cup KnownEffect \cup {"EFFECT_CONFIRMED"}
RetainedEffect == (KnownEffect \ {"EXTERNAL_ID_KNOWN"}) \cup {"EFFECT_CONFIRMED"}

Requeues(j, row, action) ==
  /\ action = "requeue" /\ row.attempts < MaxAttempts
  /\ row.effect = "PRE_EFFECT" \/ Policy[j] \in {"LOCAL", "IDEMPOTENT_EXTERNAL"}

\* Mutant: the failed row keeps its effect state.
ReclaimedKeepingEffect(j, row, action) ==
  IF Requeues(j, row, action) \/ (Paid(j) /\ row.effect \in HeldEffect)
    THEN [row EXCEPT !.status = IF Requeues(j, row, action) THEN "queued" ELSE @]
    ELSE [row EXCEPT !.status = "failed"]

\* Mutant: a held row always goes back to what its external id says.
ReclaimedBackToKnown(j, row, action) ==
  IF Requeues(j, row, action) THEN [row EXCEPT !.status = "queued", !.effect = "PRE_EFFECT"]
  ELSE IF Paid(j) /\ row.effect \in HeldEffect
    THEN [row EXCEPT !.effect = IF row.external THEN "EXTERNAL_ID_KNOWN" ELSE "AMBIGUOUS"]
  ELSE [row EXCEPT !.status = "failed", !.effect = "FINALIZED"]

\* What the pass makes of a row it selected: queued again, held, or failed.
Reclaimed(j, row, action) ==
  IF Requeues(j, row, action)
    THEN [row EXCEPT !.status = "queued", !.effect = "PRE_EFFECT"]
  ELSE IF Paid(j) /\ row.effect \in HeldEffect
    THEN [row EXCEPT !.effect = IF @ \in RetainedEffect THEN @
                                ELSE IF row.external THEN "EXTERNAL_ID_KNOWN" ELSE "AMBIGUOUS"]
  ELSE [row EXCEPT !.status = "failed", !.effect = "FINALIZED"]

\* Mutant: the update does not compare updated_at.
UnmovedByStatus(j) == snapshot[j] # NoRow /\ rows[j].status = snapshot[j].status

\* WHERE id = ? AND status = ? AND updated_at = ?
Unmoved(j) ==
  snapshot[j] # NoRow /\ rows[j].status = snapshot[j].status /\ rows[j].stale

\* One transaction over the rows selected; one refused write rolls it all back.
ReclaimWrite(action) ==
  LET new == [j \in Jobs |-> Reclaimed(j, snapshot[j], action)]
      moved == {j \in Jobs : Unmoved(j)} IN
  /\ PassOpen
  /\ rows' = IF \A j \in moved : TriggersAllow(rows[j], new[j])
               THEN [j \in Jobs |-> IF j \in moved THEN Touch(new[j]) ELSE rows[j]]
               ELSE rows
  /\ snapshot' = [j \in Jobs |-> NoRow]
  /\ UNCHANGED <<procs, money>>

\* reconcile_pipeline_external_effect, by what the provider's history shows.
\* No effect is proved only once no process can still submit the job.
Reconcile(j, classification) ==
  /\ rows[j].status = "running" /\ rows[j].effect \in {"SUBMISSION_STARTED", "AMBIGUOUS"}
  /\ Recoverable(j)
  /\ CASE classification = "EXACT_MATCH" -> provider[j] # "none"
       [] classification = "PROVIDER_PROVED_NO_EFFECT" -> provider[j] = "none" /\ Unattended(j)
       [] OTHER -> TRUE
  /\ rows' = [rows EXCEPT ![j] = [Touch(rows[j]) EXCEPT
       !.effect = CASE classification = "EXACT_MATCH" -> "EXTERNAL_ID_KNOWN"
                    [] classification = "PROVIDER_PROVED_NO_EFFECT" -> "NO_EFFECT_CONFIRMED"
                    [] OTHER -> "AMBIGUOUS",
       !.external = rows[j].external \/ classification = "EXACT_MATCH"]]
  /\ UNCHANGED <<procs, snapshot, money>>

\* authorize_pipeline_retry, with a fresh authorization.
AuthorizeRetry(j) ==
  /\ rows[j].status = "running" /\ rows[j].effect = "NO_EFFECT_CONFIRMED"
  /\ granted[j] < MaxGrants
  /\ rows' = [rows EXCEPT ![j] = [Touch(rows[j]) EXCEPT
       !.status = "queued", !.effect = "PRE_EFFECT", !.external = FALSE]]
  /\ tokens' = [tokens EXCEPT ![j] = @ + 1]
  /\ granted' = [granted EXCEPT ![j] = @ + 1]
  /\ UNCHANGED <<procs, snapshot, provider, operations>>

CLASSIFICATIONS == {"EXACT_MATCH", "PROVIDER_PROVED_NO_EFFECT", "MULTIPLE_MATCHES"}

Next ==
  \/ \E p \in Procs, j \in Jobs : Create(p, j) \/ Start(p, j)
  \/ \E p \in Procs : Consume(p) \/ MarkRead(p) \/ MarkWrite(p) \/ Finish(p)
  \/ \E p \in Procs, accepted, answered \in BOOLEAN : Submit(p, accepted, answered)
  \/ \E p \in Procs, terminal \in BOOLEAN : Raise(p, terminal)
  \/ \E p \in Procs : FailRead(p) \/ FailWrite(p) \/ Crash(p)
  \/ \E j \in Jobs, outcome \in {"completed", "failed"} : ProviderEnds(j, outcome)
  \/ \E j \in Jobs : Age(j) \/ AuthorizeRetry(j)
  \/ \E j \in Jobs, c \in CLASSIFICATIONS : Reconcile(j, c)
  \/ ReclaimRead
  \/ \E action \in {"fail", "requeue"} : ReclaimWrite(action)

Spec == Init /\ [][Next]_vars

-----------------------------------------------------------------------------
(* Every row, process and counter keeps its shape; a row is FINALIZED when   *)
(* and only when its job has ended.                                          *)
TypeOK ==
  /\ rows \in [Jobs -> Rows]
  /\ procs \in [Procs -> ProcStates]
  /\ snapshot \in [Jobs -> Rows \cup {NoRow}]
  /\ tokens \in [Jobs -> 0..MaxGrants] /\ granted \in [Jobs -> 0..MaxGrants]
  /\ provider \in [Jobs -> {"none", "accepted", "completed", "failed"}]
  /\ operations \in [Jobs -> Nat]
  /\ \A j \in Jobs : rows[j].effect = "FINALIZED" <=> rows[j].status \in Ended

(* A paid job has at most one operation at the provider, through crashes,    *)
(* lost answers, reclaim passes, requeues and authorized retries: replay     *)
(* never duplicates a paid effect.                                           *)
OneEffectPerJob == \A j \in Jobs : operations[j] <= 1

(* A job the ledger calls free of effect has none at the provider, whoever   *)
(* wrote that and however old the row was that they had read.                *)
NoEffectIsTrue ==
  \A j \in Jobs : rows[j].effect = "NO_EFFECT_CONFIRMED" => operations[j] = 0

(* A paid job is never written off while the provider may have run, or be    *)
(* running, an operation of it: failing one needs the provider's failure or  *)
(* the cost of the operation reconciled.                                     *)
EffectsAreNotWrittenOff ==
  [][\A j \in Jobs :
       rows[j].status # "failed" /\ rows'[j].status = "failed"
         /\ provider[j] \in {"accepted", "completed"}
       => rows[j].effect = "COST_RECONCILED"]_vars

(* A reclaim pass deals with every stale row nobody has written since it     *)
(* selected it: the row is queued again, held or failed.                     *)
ReclaimDealsWithAll ==
  [][\A j \in Jobs : Unmoved(j) /\ snapshot'[j] = NoRow => ~rows'[j].stale]_vars

(* One row can keep a pass from all the others, and only one kind does: a    *)
(* paid job whose authorization was consumed and nothing submitted.          *)
ReclaimFailsForOneReason ==
  [][\A j \in Jobs : Unmoved(j) /\ snapshot'[j] = NoRow =>
       \/ ~rows'[j].stale
       \/ \E k \in Jobs : Unmoved(k) /\ Paid(k) /\ rows[k].effect = "AUTHORIZATION_CONSUMED"]_vars
=============================================================================
