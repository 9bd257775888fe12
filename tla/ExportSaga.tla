----------------------------- MODULE ExportSaga -----------------------------
(***************************************************************************)
(* The draft handoff from Campaign Factory to ThreadsDashboard:            *)
(* export_threadsdash (adapters/threadsdash_draft_delivery.py), its table  *)
(* threadsdash_exports (adapters/threadsdash_export_saga.py), the signed   *)
(* owner API with its retries (adapters/threadsdash_owner_api.py) and the  *)
(* operator's `bridge reconcile` (state_ownership.py).                     *)
(*                                                                         *)
(* Every commit of the handoff is a step of its own, so a process may die  *)
(* between any two of them.  The dashboard is external: it keeps one draft *)
(* per idempotency key, and the network may lose an answer or deliver a    *)
(* request long after its sender gave up on it.                            *)
(***************************************************************************)
EXTENDS Naturals, FiniteSets

CONSTANTS
  Assets,       \* rendered assets, each bound to one destination
  Holds,        \* reservation rows
  AssetOf,      \* Holds -> Assets
  Exports,      \* export identifiers
  NoExport,
  Batches,      \* the asset sets callers export
  Workers,      \* processes that run export_threadsdash
  MaxAttempts,  \* INGEST_MAX_ATTEMPTS
  BridgeOverlaps \* TRUE when bridge reconcile may run beside an export

ASSUME ExportAssumption ==
  /\ NoExport \notin Exports /\ IsFiniteSet(Exports)
  /\ AssetOf \in [Holds -> Assets]
  /\ Batches \subseteq SUBSET Assets
  /\ MaxAttempts \in Nat \ {0}
  /\ BridgeOverlaps \in BOOLEAN

VARIABLES
  exports,   \* the table threadsdash_exports
  jobs,      \* the pipeline job of each export
  holds,     \* the status of each reservation row
  run,       \* what each worker is in the middle of
  inflight,  \* submissions the dashboard has not looked at yet
  drafts,    \* what the dashboard accepted
  todo       \* the exports the running bridge pass has still to visit

vars == <<exports, jobs, holds, run, inflight, drafts, todo>>

EXPORT_STATES == {"prepared", "submitted", "acceptance_unknown", "accepted", "rejected"}
HoldStates == {"absent", "pending", "committed", "released", "expired"}
Causes == {"none", "refused", "unknown", "accepted"}

ExportRows == [status : EXPORT_STATES \cup {"absent"}, assets : SUBSET Assets,
               carried : SUBSET Holds, ack : BOOLEAN, born : Nat]
AbsentExport == [status |-> "absent", assets |-> {}, carried |-> {},
                 ack |-> FALSE, born |-> 0]

Points == {"idle", "built", "prepared", "posting", "waiting", "acked", "unlisted",
           "recording", "failing", "closing"}
Runs == [at : Points, exp : Exports \cup {NoExport}, assets : SUBSET Assets,
         carried : SUBSET Holds, left : SUBSET Holds, tries : 0..MaxAttempts,
         cause : Causes]
Idle == [at |-> "idle", exp |-> NoExport, assets |-> {}, carried |-> {},
         left |-> {}, tries |-> 0, cause |-> "none"]

IsActive(r) == holds[r] \in {"pending", "committed"}
Drafted(e) == \E d \in drafts : d.exp = e

Goto(w, point) == run' = [run EXCEPT ![w].at = point]

(* The except block releases the payload's reservations unless the outcome   *)
(* is unknown or the acceptance is on record.                                *)
Fail(w, why) ==
  run' = [run EXCEPT ![w] =
            [@ EXCEPT !.at = "failing", !.cause = why,
                      !.left = IF why = "refused" THEN run[w].carried ELSE {}]]

(* set_export_state has no guard on the state it replaces and keeps an       *)
(* earlier acknowledgment.                                                   *)
SetExportState(e, s, acked) ==
  exports' = [exports EXCEPT ![e] =
                [@ EXCEPT !.status = s, !.ack = exports[e].ack \/ acked]]

-----------------------------------------------------------------------------
Init ==
  /\ exports = [e \in Exports |-> AbsentExport]
  /\ jobs = [e \in Exports |-> "none"]
  /\ holds = [r \in Holds |-> "absent"]
  /\ run = [w \in Workers |-> Idle]
  /\ inflight = {} /\ drafts = {} /\ todo = {}

(* The reservation service, as the handoff sees it.                          *)
Reserve(r) ==
  /\ holds[r] = "absent"
  /\ \A s \in Holds : AssetOf[s] = AssetOf[r] => ~IsActive(s)
  /\ holds' = [holds EXCEPT ![r] = "pending"]
  /\ UNCHANGED <<exports, jobs, run, inflight, drafts, todo>>

(* The sweep of overdue rows, an operator or a campaign transition.          *)
EndHold(r) ==
  /\ IsActive(r)
  /\ \E s \in {"expired", "released"} : holds' = [holds EXCEPT ![r] = s]
  /\ UNCHANGED <<exports, jobs, run, inflight, drafts, todo>>

-----------------------------------------------------------------------------
(* A pipeline job, a new export id, and the payload with the active          *)
(* reservation of each of its assets.                                        *)
StartExport(w, e, batch) ==
  LET found == {r \in Holds : IsActive(r) /\ AssetOf[r] \in batch} IN
  /\ run[w] = Idle
  /\ BridgeOverlaps \/ todo = {}
  /\ jobs[e] = "none"
  /\ jobs' = [jobs EXCEPT ![e] = "running"]
  /\ run' = [run EXCEPT ![w] = [Idle EXCEPT !.at = "built", !.exp = e,
                                            !.assets = batch, !.carried = found]]
  /\ UNCHANGED <<exports, holds, inflight, drafts, todo>>

(* The payload cannot be built: there is nothing to release.                 *)
PayloadFails(w) ==
  /\ run[w].at = "built"
  /\ run' = [run EXCEPT ![w] = [@ EXCEPT !.at = "failing", !.cause = "refused"]]
  /\ UNCHANGED <<exports, jobs, holds, inflight, drafts, todo>>

(* Readiness, contract, approval, governance, negotiation, upload or the     *)
(* manifest blocks the export before anything is submitted.                  *)
BlockedLocally(w) ==
  /\ run[w].at \in {"built", "prepared"}
  /\ Fail(w, "refused")
  /\ UNCHANGED <<exports, jobs, holds, inflight, drafts, todo>>

(* prepare_export: the intent is durable before the media upload.            *)
PrepareExport(w) ==
  /\ run[w].at = "built"
  /\ exports' = [exports EXCEPT ![run[w].exp] =
        [status |-> "prepared", assets |-> run[w].assets,
         carried |-> run[w].carried, ack |-> FALSE,
         born |-> 1 + Cardinality({e \in Exports : exports[e].born # 0})]]
  /\ Goto(w, "prepared")
  /\ UNCHANGED <<jobs, holds, inflight, drafts, todo>>

(* Mutant of Submit: the first request leaves before the state is written.   *)
SubmitUnrecorded(w) ==
  /\ run[w].at = "prepared"
  /\ Goto(w, "posting")
  /\ UNCHANGED <<exports, jobs, holds, inflight, drafts, todo>>

Submit(w) ==
  /\ run[w].at = "prepared"
  /\ SetExportState(run[w].exp, "submitted", FALSE)
  /\ Goto(w, "posting")
  /\ UNCHANGED <<jobs, holds, inflight, drafts, todo>>

(* One of the MaxAttempts attempts of _signed_json_request.                  *)
SendAttempt(w) ==
  /\ run[w].at = "posting" /\ run[w].tries < MaxAttempts
  /\ run' = [run EXCEPT ![w] = [@ EXCEPT !.at = "waiting", !.tries = run[w].tries + 1]]
  /\ inflight' = inflight \cup {[exp |-> run[w].exp, try |-> run[w].tries + 1]}
  /\ UNCHANGED <<exports, jobs, holds, drafts, todo>>

(* A timeout, a URLError or a retryable status: try again, or give up with   *)
(* TimeoutError.  The request itself may still be under way.                 *)
AttemptFails(w) ==
  /\ run[w].at = "waiting"
  /\ IF run[w].tries < MaxAttempts THEN Goto(w, "posting") ELSE Fail(w, "unknown")
  /\ UNCHANGED <<exports, jobs, holds, inflight, drafts, todo>>

-----------------------------------------------------------------------------
(* handoff_idempotency_key depends on the export id alone; that the dashboard *)
(* keeps one draft per key is taken from how the exporter relies on it.      *)
HandoffKey(e) == e

Awaits(w, m) == run[w].at = "waiting" /\ run[w].exp = m.exp /\ run[w].tries = m.try

(* The dashboard creates the draft or finds it by its key.  Its answer is    *)
(* lost, or reaches the attempt that waits for it: with post ids, without    *)
(* them, or broken - not JSON, no acknowledgment, or a connection closed     *)
(* before the answer, which raises neither TimeoutError nor URLError.        *)
Ingest(m) ==
  /\ inflight' = inflight \ {m}
  /\ drafts' = drafts \cup {[exp |-> m.exp, key |-> HandoffKey(m.exp)]}
  /\ \/ UNCHANGED run
     \/ \E w \in Workers :
          /\ Awaits(w, m)
          /\ \/ \E point \in {"acked", "unlisted"} : Goto(w, point)
             \/ Fail(w, "refused")
  /\ UNCHANGED <<exports, jobs, holds, todo>>

(* The dashboard answers a request with a status that is not retried.        *)
RefuseRequest(m) ==
  /\ inflight' = inflight \ {m}
  /\ \/ UNCHANGED run
     \/ \E w \in Workers : Awaits(w, m) /\ Fail(w, "refused")
  /\ UNCHANGED <<exports, jobs, holds, drafts, todo>>

(* _reconcile_dashboard_ingest_post_ids asks for the ids the acknowledgment  *)
(* did not list: none found, or no answer, is a TimeoutError; a refusal or a *)
(* broken answer is not.                                                     *)
AskForPostIds(w) ==
  /\ run[w].at = "unlisted"
  /\ \/ Goto(w, "acked")
     \/ Fail(w, "unknown")
     \/ Fail(w, "refused")
  /\ UNCHANGED <<exports, jobs, holds, inflight, drafts, todo>>

RecordAcceptance(w) ==
  /\ run[w].at = "acked"
  /\ SetExportState(run[w].exp, "accepted", TRUE)
  /\ run' = [run EXCEPT ![w] = [@ EXCEPT !.at = "recording", !.left = run[w].carried]]
  /\ UNCHANGED <<jobs, holds, inflight, drafts, todo>>

(* _commit_payload_inventory_reservations: one commit per row; a row that    *)
(* has ended raises.                                                         *)
CommitHold(w, r) ==
  /\ run[w].at = "recording"
  /\ r \in run[w].left
  /\ IF IsActive(r)
     THEN /\ holds' = [holds EXCEPT ![r] = "committed"]
          /\ run' = [run EXCEPT ![w].left = run[w].left \ {r}]
     ELSE Fail(w, "accepted") /\ UNCHANGED holds
  /\ UNCHANGED <<exports, jobs, inflight, drafts, todo>>

(* Mutant of FinishExport: the job does not wait for the reservations.       *)
FinishUncommitted(w) ==
  /\ run[w].at = "recording"
  /\ jobs' = [jobs EXCEPT ![run[w].exp] = "succeeded"]
  /\ run' = [run EXCEPT ![w] = Idle]
  /\ UNCHANGED <<exports, holds, inflight, drafts, todo>>

FinishExport(w) ==
  /\ run[w].at = "recording" /\ run[w].left = {}
  /\ jobs' = [jobs EXCEPT ![run[w].exp] = "succeeded"]
  /\ run' = [run EXCEPT ![w] = Idle]
  /\ UNCHANGED <<exports, holds, inflight, drafts, todo>>

(* The manifest cannot be written, or the event or the job is refused.       *)
FailsAfterAcceptance(w) ==
  /\ run[w].at = "recording" /\ run[w].left = {}
  /\ Fail(w, "accepted")
  /\ UNCHANGED <<exports, jobs, holds, inflight, drafts, todo>>

-----------------------------------------------------------------------------
(* _release_payload_inventory_reservations with pending_only.  The SELECT    *)
(* and the UPDATE of a row are one step here; InventoryReservations takes    *)
(* them apart.                                                               *)
ReleaseHold(w, r) ==
  /\ run[w].at = "failing"
  /\ r \in run[w].left
  /\ holds' = IF holds[r] = "pending" THEN [holds EXCEPT ![r] = "released"] ELSE holds
  /\ run' = [run EXCEPT ![w].left = run[w].left \ {r}]
  /\ UNCHANGED <<exports, jobs, inflight, drafts, todo>>

(* Mutants of OutcomeOf: a state the table does not have; a failure after    *)
(* acceptance_recorded is classed by its exception alone.                    *)
OutcomeFailed(why) == IF why = "refused" THEN "failed" ELSE "acceptance_unknown"
OutcomeForgetsAcceptance(why) ==
  IF why = "unknown" THEN "acceptance_unknown" ELSE "rejected"

OutcomeOf(why) ==
  CASE why = "accepted" -> "accepted"
    [] why = "unknown" -> "acceptance_unknown"
    [] OTHER -> "rejected"

(* Mutant of CloseExport: the state is written before the releases.          *)
CloseExportEarly(w) ==
  /\ run[w].at = "failing"
  /\ IF exports[run[w].exp].status = "absent" THEN UNCHANGED exports
     ELSE SetExportState(run[w].exp, OutcomeOf(run[w].cause), run[w].cause = "accepted")
  /\ Goto(w, "closing")
  /\ UNCHANGED <<jobs, holds, inflight, drafts, todo>>

(* An export that failed before prepare_export has no row to mark.           *)
CloseExport(w) ==
  /\ run[w].at = "failing" /\ run[w].left = {}
  /\ IF exports[run[w].exp].status = "absent" THEN UNCHANGED exports
     ELSE SetExportState(run[w].exp, OutcomeOf(run[w].cause), run[w].cause = "accepted")
  /\ Goto(w, "closing")
  /\ UNCHANGED <<jobs, holds, inflight, drafts, todo>>

FailJob(w) ==
  /\ run[w].at = "closing"
  /\ jobs' = [jobs EXCEPT ![run[w].exp] = "failed"]
  /\ run' = [run EXCEPT ![w] = Idle]
  /\ UNCHANGED <<exports, holds, inflight, drafts, todo>>

(* The process dies: no except block runs, what is committed stays.          *)
Crash(w) ==
  /\ run[w] # Idle
  /\ run' = [run EXCEPT ![w] = Idle]
  /\ UNCHANGED <<exports, jobs, holds, inflight, drafts, todo>>

-----------------------------------------------------------------------------
(* bridge reconcile.  The pass visits its rows oldest first; each visit is   *)
(* one step because the dashboard never forgets a draft, so its answer is    *)
(* as good when the row is written as when it was given.                     *)
Quiet == BridgeOverlaps \/ \A w \in Workers : run[w] = Idle

(* Mutant of Unsettled: rows a crash left submitted are not selected.        *)
UnsettledUnknown == {e \in Exports : exports[e].status \in {"acceptance_unknown", "accepted"}}

Unsettled ==
  {e \in Exports : exports[e].status \in {"submitted", "acceptance_unknown", "accepted"}}

BridgePass ==
  /\ todo = {} /\ Quiet
  /\ todo' = Unsettled
  /\ UNCHANGED <<exports, jobs, holds, run, inflight, drafts>>

(* --export-id takes a row of any state.                                     *)
BridgeNamed(e) ==
  /\ todo = {} /\ Quiet
  /\ exports[e].status # "absent"
  /\ todo' = {e}
  /\ UNCHANGED <<exports, jobs, holds, run, inflight, drafts>>

First(e) == e \in todo /\ \A f \in todo : exports[e].born <= exports[f].born

(* Mutant of BridgeAttach: any answer of the dashboard counts.               *)
BridgeAttachAny(e) ==
  /\ First(e)
  /\ SetExportState(e, "accepted", TRUE)
  /\ todo' = todo \ {e}
  /\ UNCHANGED <<jobs, holds, run, inflight, drafts>>

(* An acknowledgment already stored, or the dashboard's for the same bytes.  *)
BridgeAttach(e) ==
  /\ First(e)
  /\ exports[e].ack \/ Drafted(e)
  /\ SetExportState(e, "accepted", TRUE)
  /\ todo' = todo \ {e}
  /\ UNCHANGED <<jobs, holds, run, inflight, drafts>>

(* The request fails or the hashes differ: a finding, and the next row.      *)
BridgeReports(e) ==
  /\ First(e) /\ ~exports[e].ack
  /\ todo' = todo \ {e}
  /\ UNCHANGED <<exports, jobs, holds, run, inflight, drafts>>

(* An answer without an acknowledgment is dereferenced outside the try block *)
(* and ends the pass.                                                        *)
BridgeAborts(e) ==
  /\ First(e) /\ ~exports[e].ack /\ ~Drafted(e)
  /\ todo' = {}
  /\ UNCHANGED <<exports, jobs, holds, run, inflight, drafts>>

-----------------------------------------------------------------------------
Handoff(w) ==
  \/ \E e \in Exports, batch \in Batches : StartExport(w, e, batch)
  \/ PayloadFails(w) \/ BlockedLocally(w) \/ PrepareExport(w) \/ Submit(w)
  \/ SendAttempt(w) \/ AttemptFails(w) \/ AskForPostIds(w) \/ RecordAcceptance(w)
  \/ \E r \in Holds : CommitHold(w, r) \/ ReleaseHold(w, r)
  \/ FinishExport(w) \/ FailsAfterAcceptance(w) \/ CloseExport(w) \/ FailJob(w)
  \/ Crash(w)

Dashboard == \E m \in inflight : Ingest(m) \/ RefuseRequest(m)

Bridge ==
  \/ BridgePass
  \/ \E e \in Exports :
       BridgeNamed(e) \/ BridgeAttach(e) \/ BridgeReports(e) \/ BridgeAborts(e)

Next ==
  \/ \E r \in Holds : Reserve(r) \/ EndHold(r)
  \/ \E w \in Workers : Handoff(w)
  \/ Dashboard
  \/ Bridge

Spec == Init /\ [][Next]_vars

(* The operator keeps running the whole bridge, also between calls for one   *)
(* export; its passes make progress, and the owner API does not fail every   *)
(* request for a draft it holds.  Nothing else has to happen: exports may    *)
(* hang, requests may never arrive.                                          *)
FairSpec ==
  /\ Spec
  /\ SF_vars(BridgePass)
  /\ WF_vars(\E e \in Exports : BridgeAttach(e) \/ BridgeReports(e) \/ BridgeAborts(e))
  /\ \A e \in Exports : SF_vars(BridgeAttach(e))

-----------------------------------------------------------------------------
TypeOK ==
  /\ exports \in [Exports -> ExportRows]
  /\ jobs \in [Exports -> {"none", "running", "succeeded", "failed"}]
  /\ holds \in [Holds -> HoldStates]
  /\ run \in [Workers -> Runs]
  /\ inflight \subseteq [exp : Exports, try : 1..MaxAttempts]
  /\ drafts \subseteq [exp : Exports, key : Exports]
  /\ todo \subseteq Exports

(* Creator OS never claims an acceptance the dashboard did not make,         *)
(* whatever was lost, repeated or reconciled (set_export_state, "accepted"). *)
AcceptedHasDraft ==
  \A e \in Exports : exports[e].status = "accepted" => Drafted(e)

(* The intent is durable before the first byte leaves: whatever the          *)
(* dashboard holds or will receive, a crash leaves a row of the table that   *)
(* says it was submitted (prepare_export, set_export_state "submitted").     *)
SubmittedBeforeSent ==
  \A m \in inflight \cup drafts : exports[m.exp].status \notin {"absent", "prepared"}

(* An export the table calls rejected holds nothing back: none of the        *)
(* reservations its payload carried is pending, also when the process died   *)
(* half way ("releases a still-pending reservation when ingest fails").      *)
RejectedHoldsNothing ==
  \A e \in Exports : exports[e].status = "rejected" =>
    \A r \in exports[e].carried : holds[r] # "pending"

(* A job that succeeded has told the whole story: its export is accepted and *)
(* every reservation the payload carried was committed, so none is still     *)
(* pending (finish_pipeline_job after _commit_payload_inventory_reservations). *)
SucceededMeansCommitted ==
  \A e \in Exports : jobs[e] = "succeeded" =>
    /\ exports[e].ack
    /\ \A r \in exports[e].carried : holds[r] # "pending"

(* An acceptance on record is final: nothing that fails after it, and no     *)
(* reconciliation, takes it back (acceptance_recorded).                      *)
AcceptedStays ==
  [][\A e \in Exports : exports[e].status = "accepted"
       => exports'[e].status = "accepted"]_vars

Open(e) == exports[e].status \in {"submitted", "acceptance_unknown"}

(* A row that was never ingested ends every pass that reaches it, and with   *)
(* it the reconciliation of every later row.                                 *)
StandsBefore(f, e) ==
  Open(f) /\ ~exports[f].ack /\ ~Drafted(f) /\ exports[f].born < exports[e].born

(* After a lost answer or a crash the draft is found again: an export whose  *)
(* draft the dashboard holds does not stay submitted or unknown for ever,    *)
(* unless an older row for ever ends the passes (reconcile_bridge).          *)
DraftsAreAttached ==
  \A e \in Exports :
    <>[](\A f \in Exports : ~StandsBefore(f, e)) => (Drafted(e) /\ Open(e) ~> ~Open(e))

(* "A timeout after submission retains the reservation": no export's failure *)
(* releases the reservation of one whose outcome is unknown.                 *)
UnknownKeepsReservation ==
  [][run' # run => \A e \in Exports : exports[e].status = "acceptance_unknown" =>
       \A r \in exports[e].carried :
         holds[r] = "pending" => holds'[r] \in {"pending", "committed"}]_vars

(* "it must not create a new logical export": an asset whose export has an   *)
(* unknown outcome is not prepared for export again.                         *)
NoExportWhileUnknown ==
  [][\A e, f \in Exports :
       /\ exports[e].status = "acceptance_unknown"
       /\ exports[f].status = "absent" /\ exports'[f].status = "prepared"
       => exports[e].assets \cap exports'[f].assets = {}]_vars

(* An effect that may exist is reconciled, never written off: an export is   *)
(* rejected only when the dashboard holds no draft of it.                    *)
RejectedHasNoDraft ==
  \A e \in Exports : exports[e].status = "rejected" => ~Drafted(e)

(* "Creator OS records acceptance", "Creator OS commits the pending          *)
(* inventory reservation": once the job of an accepted export is closed and  *)
(* the bridge is at rest, none of its reservations is pending.               *)
AcceptedIsCommitted ==
  \A e \in Exports :
    exports[e].status = "accepted" /\ jobs[e] \in {"succeeded", "failed"} /\ todo = {}
      => \A r \in exports[e].carried : holds[r] # "pending"

-----------------------------------------------------------------------------
(* A submitted export and one whose outcome is unknown are open alike.       *)
ClaimOf(e) == IF Open(e) THEN "open" ELSE exports[e].status

Contract ==
  INSTANCE DraftHandoffs WITH
    claim <- [e \in Exports |-> ClaimOf(e)],
    carried <- [e \in Exports |-> exports[e].carried],
    drafted <- {e \in Exports : Drafted(e)},
    hold <- holds,
    done <- {e \in Exports : jobs[e] = "succeeded"}

(* When no bridge pass runs beside an exporter, the handoff with its retries, *)
(* lost answers, crashes and reconciliations is one of DraftHandoffs: an      *)
(* acceptance has its draft and is final (acceptance_recorded), and what is   *)
(* rejected or has succeeded holds no reservation back.                       *)
ImplementsHandoffs == Contract!HandoffSpec
=============================================================================
