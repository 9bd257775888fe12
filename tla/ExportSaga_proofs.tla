-------------------------- MODULE ExportSaga_proofs --------------------------
(***************************************************************************)
(* Proofs about ExportSaga for every number of exports, workers, assets,   *)
(* reservations and attempts.  A step moves at most one worker and writes  *)
(* at most one row of threadsdash_exports; Moved and Written say what such *)
(* a step changes, so that the invariant is shown once for each kind of    *)
(* step instead of once for each record update.                            *)
(***************************************************************************)
EXTENDS ExportSaga, FiniteSetTheorems, TLAPS

(* Points at which the worker has told the table that it submits, and those  *)
(* at which it has an acknowledgment in its hands.                           *)
Sent == {"posting", "waiting", "acked", "unlisted", "recording"}
Known == {"acked", "unlisted", "recording"}
Early == {"absent", "prepared"}

(* An export is worked on by one process, while its job is running; before   *)
(* that, and before prepare_export, it has no row.                           *)
Owned ==
  /\ \A w \in Workers : run[w].at # "idle" =>
       run[w].exp \in Exports /\ jobs[run[w].exp] = "running"
  /\ \A v, w \in Workers : run[v].at # "idle" /\ run[v].exp = run[w].exp => v = w
  /\ \A w \in Workers : run[w].at = "idle" => run[w] = Idle
  /\ \A w \in Workers : run[w].at = "built" => exports[run[w].exp].status = "absent"
  /\ \A e \in Exports : jobs[e] = "none" => exports[e].status = "absent"

(* Whoever sends, and whatever was sent, has a row past "prepared".          *)
Recorded ==
  /\ \A w \in Workers : run[w].at \in Sent => exports[run[w].exp].status \notin Early
  /\ \A m \in inflight \cup drafts : exports[m.exp].status \notin Early

(* Every claim of acceptance, in the table or in a worker, has a draft.      *)
Acknowledged ==
  /\ \A e \in Exports : exports[e].status = "accepted" \/ exports[e].ack => Drafted(e)
  /\ \A w \in Workers :
       run[w].at \in Known \/ run[w].cause = "accepted" => Drafted(run[w].exp)

Inv == TypeOK /\ Owned /\ Recorded /\ Acknowledged

-----------------------------------------------------------------------------
Moved(w, point, why) ==
  /\ run' \in [Workers -> Runs]
  /\ run'[w].at = point /\ run'[w].cause = why /\ run'[w].exp = run[w].exp
  /\ \A v \in Workers : v # w => run'[v] = run[v]

Written(e, s, acked) ==
  /\ exports' \in [Exports -> ExportRows]
  /\ exports'[e].status = s /\ exports'[e].ack = acked
  /\ \A f \in Exports : f # e => exports'[f] = exports[f]

LEMMA GotoMoves ==
  ASSUME TypeOK, NEW w \in Workers, NEW point \in Points, Goto(w, point)
  PROVE  Moved(w, point, run[w].cause)
BY DEF TypeOK, Goto, Moved, Runs

LEMMA FailMoves ==
  ASSUME TypeOK, NEW w \in Workers, NEW why \in Causes, Fail(w, why)
  PROVE  Moved(w, "failing", why)
<1> DEFINE kept == IF why = "refused" THEN run[w].carried ELSE {}
<1> DEFINE x == [run[w] EXCEPT !.at = "failing", !.cause = why, !.left = kept]
<1>1. run[w] \in Runs /\ kept \subseteq Holds
  BY DEF TypeOK, Runs
<1> HIDE DEF kept
<1>2. x \in Runs /\ x.at = "failing" /\ x.cause = why /\ x.exp = run[w].exp
  BY <1>1 DEF Runs, Points
<1>3. run' = [run EXCEPT ![w] = x]
  BY DEF Fail, kept
<1> HIDE DEF x
<1> QED BY <1>2, <1>3 DEF TypeOK, Moved

LEMMA StateWritten ==
  ASSUME TypeOK, NEW e \in Exports, NEW s \in EXPORT_STATES, NEW acked \in BOOLEAN,
         SetExportState(e, s, acked)
  PROVE  Written(e, s, exports[e].ack \/ acked)
BY ZenonT(30) DEF TypeOK, SetExportState, Written, ExportRows

LEMMA IdleIsRun == Idle \in Runs
BY ExportAssumption DEF Idle, Runs, Points, Causes

-----------------------------------------------------------------------------
(* A step of the reservation service or of a bridge pass that writes no row. *)
LEMMA NobodyMoves ==
  ASSUME Inv, UNCHANGED <<exports, jobs, run, inflight, drafts>>,
         holds' \in [Holds -> HoldStates], todo' \subseteq Exports
  PROVE  Inv'
BY DEF Inv, TypeOK, Owned, Recorded, Acknowledged, Drafted

(* A worker moves on, possibly with the dashboard, and no row is written.    *)
LEMMA WorkerMoves ==
  ASSUME Inv, NEW w \in Workers, NEW point \in Points \ {"idle", "built"}, NEW why,
         run[w].at # "idle", Moved(w, point, why), UNCHANGED <<exports, jobs, todo>>,
         holds' \in [Holds -> HoldStates],
         inflight' \subseteq [exp : Exports, try : 1..MaxAttempts],
         drafts \subseteq drafts', drafts' \subseteq [exp : Exports, key : Exports],
         \A m \in inflight' \cup drafts' : exports[m.exp].status \notin Early,
         point \in Sent => exports[run[w].exp].status \notin Early,
         point \in Known \/ why = "accepted" => \E d \in drafts' : d.exp = run[w].exp
  PROVE  Inv'
<1>1. TypeOK'
  BY DEF Inv, TypeOK, Moved
<1>2. Owned'
  BY DEF Inv, Owned, Moved
<1>3. Recorded'
  BY DEF Inv, Recorded, Moved
<1>4. Acknowledged'
  BY DEF Inv, Acknowledged, Moved, Drafted
<1> QED BY <1>1, <1>2, <1>3, <1>4 DEF Inv

(* A worker moves on and writes the row of its export.                       *)
LEMMA WorkerWrites ==
  ASSUME Inv, NEW w \in Workers, NEW point \in Points \ {"idle", "built"}, NEW why,
         NEW s, NEW acked, run[w].at # "idle",
         Moved(w, point, why), Written(run[w].exp, s, acked),
         UNCHANGED <<jobs, holds, inflight, drafts, todo>>,
         s \in Early => run[w].at = "built" /\ point \notin Sent,
         s = "accepted" \/ acked \/ point \in Known \/ why = "accepted"
           => Drafted(run[w].exp)
  PROVE  Inv'
<1>0. run[w].exp \in Exports /\ jobs[run[w].exp] = "running"
  BY DEF Inv, Owned
<1>1. TypeOK'
  BY DEF Inv, TypeOK, Moved, Written
<1>2. Owned'
  <2>1. \A v \in Workers : run'[v].at = "built" => exports'[run'[v].exp].status = "absent"
    BY <1>0 DEF Inv, Owned, Moved, Written
  <2>2. \A f \in Exports : jobs'[f] = "none" => exports'[f].status = "absent"
    BY <1>0 DEF Inv, Owned, Written
  <2>3. /\ \A v \in Workers : run'[v].at # "idle" =>
              run'[v].exp \in Exports /\ jobs'[run'[v].exp] = "running"
        /\ \A u, v \in Workers : run'[u].at # "idle" /\ run'[u].exp = run'[v].exp => u = v
        /\ \A v \in Workers : run'[v].at = "idle" => run'[v] = Idle
    BY DEF Inv, Owned, Moved
  <2> QED BY <2>1, <2>2, <2>3 DEF Owned
<1>3. Recorded'
  <2>1. ASSUME NEW m \in inflight \cup drafts
        PROVE  exports'[m.exp].status \notin Early
    <3>1. m.exp \in Exports /\ exports[m.exp].status \notin Early
      BY DEF Inv, TypeOK, Recorded
    <3>2. CASE m.exp # run[w].exp
      BY <3>1, <3>2 DEF Written
    <3>3. CASE m.exp = run[w].exp
      BY <3>1, <3>3 DEF Written, Inv, Owned, Early
    <3> QED BY <3>2, <3>3
  <2>2. ASSUME NEW v \in Workers, run'[v].at \in Sent
        PROVE  exports'[run'[v].exp].status \notin Early
    <3>1. CASE v = w
      BY <2>2, <3>1 DEF Moved, Written
    <3>2. CASE v # w
      <4>1. run'[v] = run[v] /\ run[v].at # "idle"
        BY <2>2, <3>2 DEF Moved, Sent
      <4>2. run[v].exp \in Exports /\ run[v].exp # run[w].exp
        BY <3>2, <4>1 DEF Inv, Owned
      <4> QED BY <2>2, <4>1, <4>2 DEF Written, Inv, Recorded
    <3> QED BY <3>1, <3>2
  <2> QED BY <2>1, <2>2 DEF Recorded
<1>4. Acknowledged'
  BY <1>0 DEF Inv, Acknowledged, Moved, Written, Drafted
<1> QED BY <1>1, <1>2, <1>3, <1>4 DEF Inv

(* A worker is done, fails its job, or dies.                                 *)
LEMMA WorkerStops ==
  ASSUME Inv, NEW w \in Workers, run[w].at # "idle", run' = [run EXCEPT ![w] = Idle],
         UNCHANGED <<exports, holds, inflight, drafts, todo>>,
         jobs' = jobs \/ \E s \in {"succeeded", "failed"} :
                           jobs' = [jobs EXCEPT ![run[w].exp] = s]
  PROVE  Inv'
<1>0. run[w].exp \in Exports /\ Idle.at = "idle" /\ Idle.exp = NoExport /\ Idle.cause = "none"
  BY DEF Inv, Owned, Idle
<1>1. run' \in [Workers -> Runs] /\ run'[w] = Idle
      /\ \A v \in Workers : v # w => run'[v] = run[v]
  BY IdleIsRun DEF Inv, TypeOK
<1>2. jobs' \in [Exports -> {"none", "running", "succeeded", "failed"}]
      /\ \A e \in Exports : e # run[w].exp => jobs'[e] = jobs[e]
      /\ jobs'[run[w].exp] # "none"
  BY <1>0 DEF Inv, TypeOK, Owned
<1>3. TypeOK'
  BY <1>1, <1>2 DEF Inv, TypeOK
<1>4. Owned'
  <2>1. ASSUME NEW v \in Workers, run'[v].at # "idle"
        PROVE  /\ v # w /\ run'[v] = run[v] /\ run[v].exp # run[w].exp
               /\ run[v].exp \in Exports /\ jobs[run[v].exp] = "running"
    BY <1>0, <1>1, <2>1 DEF Inv, Owned
  <2>2. ASSUME NEW u \in Workers, NEW v \in Workers,
               run'[u].at # "idle", run'[u].exp = run'[v].exp
        PROVE  u = v
    BY <1>0, <1>1, <2>1, <2>2, ExportAssumption DEF Inv, Owned
  <2>3. \A v \in Workers : run'[v].at = "built" => exports'[run'[v].exp].status = "absent"
    BY <1>0, <1>1 DEF Inv, Owned
  <2>4. \A v \in Workers : run'[v].at = "idle" => run'[v] = Idle
    BY <1>1 DEF Inv, Owned
  <2>5. \A e \in Exports : jobs'[e] = "none" => exports'[e].status = "absent"
    BY <1>2 DEF Inv, Owned
  <2> QED BY <1>2, <2>1, <2>2, <2>3, <2>4, <2>5 DEF Owned
<1>5. Recorded' /\ Acknowledged'
  BY <1>0, <1>1 DEF Inv, Recorded, Acknowledged, Drafted, Sent, Known
<1> QED BY <1>3, <1>4, <1>5 DEF Inv

-----------------------------------------------------------------------------
(* The bridge writes the row of an export whose draft exists.                *)
LEMMA BridgeKeepsInv ==
  ASSUME Inv, NEW e \in Exports, BridgeAttach(e)
  PROVE  Inv'
<1>1. Drafted(e) /\ Written(e, "accepted", TRUE)
  BY StateWritten DEF BridgeAttach, EXPORT_STATES, Inv, Acknowledged
<1>2. exports[e].status \notin Early
  BY <1>1 DEF Drafted, Inv, Recorded
<1>3. jobs[e] # "none" /\ \A w \in Workers : run[w].at = "built" => run[w].exp # e
  BY <1>2 DEF Inv, Owned, Early
<1>4. TypeOK'
  BY <1>1 DEF Inv, TypeOK, Written, BridgeAttach
<1>5. Owned'
  BY <1>1, <1>3 DEF Inv, Owned, Written, BridgeAttach
<1>6. Recorded'
  <2>1. ASSUME NEW f \in Exports, exports[f].status \notin Early
        PROVE  exports'[f].status \notin Early
    BY <1>1, <2>1 DEF Written, Early
  <2>2. \A w \in Workers : run[w].at \in Sent => run[w].exp \in Exports
    BY DEF Inv, Owned, Sent
  <2>3. \A m \in inflight \cup drafts : m.exp \in Exports
    BY DEF Inv, TypeOK
  <2> QED BY <2>1, <2>2, <2>3 DEF Inv, Recorded, BridgeAttach
<1>7. Acknowledged'
  BY <1>1 DEF Inv, Acknowledged, Written, Drafted, BridgeAttach
<1> QED BY <1>4, <1>5, <1>6, <1>7 DEF Inv

LEMMA StartKeepsInv ==
  ASSUME Inv, NEW w \in Workers, NEW e \in Exports, NEW batch \in Batches,
         StartExport(w, e, batch)
  PROVE  Inv'
<1> DEFINE found == {r \in Holds : IsActive(r) /\ AssetOf[r] \in batch}
<1> DEFINE x == [Idle EXCEPT !.at = "built", !.exp = e, !.assets = batch, !.carried = found]
<1>1. x \in Runs /\ x.at = "built" /\ x.exp = e /\ x.cause = "none"
  <2>1. found \subseteq Holds /\ batch \subseteq Assets
    BY ExportAssumption
  <2> HIDE DEF found
  <2> QED BY <2>1, IdleIsRun DEF Runs, Idle, Points
<1>2. run' = [run EXCEPT ![w] = x] /\ run[w].at = "idle" /\ jobs[e] = "none"
  BY DEF StartExport, Idle
<1> HIDE DEF x
<1>3. run' \in [Workers -> Runs] /\ run'[w] = x /\ \A v \in Workers : v # w => run'[v] = run[v]
  BY <1>1, <1>2 DEF Inv, TypeOK
<1>4. jobs' \in [Exports -> {"none", "running", "succeeded", "failed"}]
      /\ jobs'[e] = "running" /\ \A f \in Exports : f # e => jobs'[f] = jobs[f]
  BY DEF Inv, TypeOK, StartExport
<1>5. exports[e].status = "absent"
      /\ \A v \in Workers : run[v].at # "idle" => run[v].exp \in Exports /\ run[v].exp # e
  BY <1>2 DEF Inv, Owned
<1>6. TypeOK'
  BY <1>3, <1>4 DEF Inv, TypeOK, StartExport
<1>7. Owned'
  <2>1. \A v \in Workers : run'[v].at # "idle" =>
          run'[v].exp \in Exports /\ jobs'[run'[v].exp] = "running"
    BY <1>1, <1>3, <1>4, <1>5 DEF Inv, Owned
  <2>2. ASSUME NEW u \in Workers, NEW v \in Workers,
               run'[u].at # "idle", run'[u].exp = run'[v].exp
        PROVE  u = v
    <3>1. \A y \in Workers : run[y].at = "idle" => run[y].exp = NoExport
      BY DEF Inv, Owned, Idle
    <3> QED BY <1>1, <1>3, <1>5, <2>2, <3>1, ExportAssumption DEF Inv, Owned
  <2>3. \A v \in Workers : run'[v].at = "idle" => run'[v] = Idle
    BY <1>1, <1>3 DEF Inv, Owned
  <2>4. \A v \in Workers : run'[v].at = "built" => exports[run'[v].exp].status = "absent"
    BY <1>1, <1>3, <1>5 DEF Inv, Owned
  <2>5. \A f \in Exports : jobs'[f] = "none" => exports[f].status = "absent"
    BY <1>4 DEF Inv, Owned
  <2>6. exports' = exports
    BY DEF StartExport
  <2> QED BY <2>1, <2>2, <2>3, <2>4, <2>5, <2>6 DEF Owned
<1>8. Recorded'
  BY <1>1, <1>3 DEF Inv, Recorded, StartExport, Sent
<1>9. Acknowledged'
  BY <1>1, <1>3 DEF Inv, Acknowledged, Drafted, StartExport, Known
<1> QED BY <1>6, <1>7, <1>8, <1>9 DEF Inv

LEMMA DashboardKeepsInv ==
  ASSUME Inv, Dashboard
  PROVE  Inv'
<1>1. PICK m \in inflight : Ingest(m) \/ RefuseRequest(m)
  BY DEF Dashboard
<1>2. m \in [exp : Exports, try : 1..MaxAttempts] /\ exports[m.exp].status \notin Early
  BY DEF Inv, TypeOK, Recorded
<1>3. /\ UNCHANGED <<exports, jobs, holds, todo>>
      /\ inflight' \subseteq inflight
      /\ drafts' \in {drafts, drafts \cup {[exp |-> m.exp, key |-> m.exp]}}
  BY <1>1 DEF Ingest, RefuseRequest, HandoffKey
<1>4. /\ inflight' \subseteq [exp : Exports, try : 1..MaxAttempts]
      /\ drafts \subseteq drafts' /\ drafts' \subseteq [exp : Exports, key : Exports]
      /\ holds' \in [Holds -> HoldStates]
      /\ \A n \in inflight' \cup drafts' : exports[n.exp].status \notin Early
  BY <1>2, <1>3 DEF Inv, TypeOK, Recorded
<1>5. CASE UNCHANGED run
  BY <1>3, <1>4, <1>5 DEF Inv, TypeOK, Owned, Recorded, Acknowledged, Drafted
<1>6. ASSUME NEW w \in Workers, Awaits(w, m), Fail(w, "refused")
      PROVE  Inv'
  <2>1. Moved(w, "failing", "refused")
    BY <1>6, FailMoves DEF Inv, Causes
  <2> QED BY <1>3, <1>4, <1>6, <2>1, WorkerMoves DEF Awaits, Points, Sent, Known
<1>7. ASSUME NEW w \in Workers, Awaits(w, m), NEW point \in {"acked", "unlisted"},
             Goto(w, point), [exp |-> m.exp, key |-> m.exp] \in drafts'
      PROVE  Inv'
  <2>1. Moved(w, point, run[w].cause)
    BY <1>7, GotoMoves DEF Inv, Points
  <2>2. run[w].exp = m.exp /\ run[w].at = "waiting"
    BY <1>7 DEF Awaits
  <2>3. \E d \in drafts' : d.exp = run[w].exp
    BY <1>7, <2>2
  <2> QED BY <1>2, <1>3, <1>4, <2>1, <2>2, <2>3, WorkerMoves DEF Points
<1> QED BY <1>1, <1>5, <1>6, <1>7 DEF Ingest, RefuseRequest, HandoffKey

(* Moves of a worker that write no row.                                      *)
LEMMA MoveKeepsInv ==
  ASSUME Inv, NEW w \in Workers,
         \/ PayloadFails(w) \/ BlockedLocally(w) \/ SendAttempt(w) \/ AttemptFails(w)
         \/ AskForPostIds(w) \/ FailsAfterAcceptance(w)
         \/ \E r \in Holds : CommitHold(w, r) \/ ReleaseHold(w, r)
  PROVE  Inv'
<1> USE DEF Points, Causes
<1>1. /\ holds \in [Holds -> HoldStates] /\ run \in [Workers -> Runs] /\ run[w] \in Runs
      /\ inflight \subseteq [exp : Exports, try : 1..MaxAttempts]
      /\ drafts \subseteq [exp : Exports, key : Exports]
      /\ \A m \in inflight \cup drafts : exports[m.exp].status \notin Early
      /\ run[w].at \in Sent => exports[run[w].exp].status \notin Early
      /\ run[w].at \in Known \/ run[w].cause = "accepted"
           => \E d \in drafts : d.exp = run[w].exp
  BY DEF Inv, TypeOK, Recorded, Acknowledged, Drafted
<1>2. CASE PayloadFails(w)
  <2>1. Moved(w, "failing", "refused")
    BY <1>1, <1>2 DEF PayloadFails, Moved, Runs
  <2> QED BY <1>1, <1>2, <2>1, WorkerMoves DEF PayloadFails, Sent, Known
<1>3. CASE BlockedLocally(w)
  <2>1. Moved(w, "failing", "refused")
    BY <1>3, FailMoves DEF BlockedLocally, Inv
  <2> QED BY <1>1, <1>3, <2>1, WorkerMoves DEF BlockedLocally, Sent, Known
<1>4. CASE SendAttempt(w)
  <2>1. run[w].exp \in Exports /\ run[w].at = "posting"
    BY <1>4 DEF SendAttempt, Inv, Owned
  <2>2. run[w].tries + 1 \in 1..MaxAttempts
    BY <1>1, <1>4, ExportAssumption DEF SendAttempt, Runs
  <2>3. Moved(w, "waiting", run[w].cause)
    <3> DEFINE n == run[w].tries + 1
    <3> DEFINE x == [run[w] EXCEPT !.at = "waiting", !.tries = n]
    <3>0. n \in 0..MaxAttempts
      BY <2>2, ExportAssumption
    <3>2. run' = [run EXCEPT ![w] = x]
      BY <1>4 DEF SendAttempt
    <3> HIDE DEF n
    <3>1. x \in Runs /\ x.at = "waiting" /\ x.cause = run[w].cause /\ x.exp = run[w].exp
      BY <1>1, <3>0 DEF Runs
    <3> HIDE DEF x
    <3> QED BY <1>1, <3>1, <3>2 DEF Moved
  <2>4. /\ inflight' \subseteq [exp : Exports, try : 1..MaxAttempts]
        /\ \A m \in inflight' \cup drafts : exports[m.exp].status \notin Early
    BY <1>1, <1>4, <2>1, <2>2 DEF SendAttempt, Sent
  <2> QED BY <1>1, <1>4, <2>1, <2>3, <2>4, WorkerMoves DEF SendAttempt, Sent, Known
<1>5. CASE AttemptFails(w)
  <2>1. Moved(w, "posting", run[w].cause) \/ Moved(w, "failing", "unknown")
    BY <1>5, FailMoves, GotoMoves DEF AttemptFails, Inv
  <2>2. run[w].at = "waiting" /\ UNCHANGED <<exports, jobs, holds, inflight, drafts, todo>>
    BY <1>5 DEF AttemptFails
  <2>3. CASE Moved(w, "posting", run[w].cause)
    BY <1>1, <2>2, <2>3, WorkerMoves DEF Sent, Known
  <2>4. CASE Moved(w, "failing", "unknown")
    BY <1>1, <2>2, <2>4, WorkerMoves DEF Sent, Known
  <2> QED BY <2>1, <2>3, <2>4
<1>6. CASE AskForPostIds(w)
  <2>1. Moved(w, "acked", run[w].cause) \/ \E why \in {"unknown", "refused"} : Moved(w, "failing", why)
    BY <1>6, FailMoves, GotoMoves DEF AskForPostIds, Inv
  <2>2. run[w].at = "unlisted" /\ UNCHANGED <<exports, jobs, holds, inflight, drafts, todo>>
    BY <1>6 DEF AskForPostIds
  <2>3. CASE Moved(w, "acked", run[w].cause)
    BY <1>1, <2>2, <2>3, WorkerMoves DEF Sent, Known
  <2>4. ASSUME NEW why \in {"unknown", "refused"}, Moved(w, "failing", why)
        PROVE  Inv'
    BY <1>1, <2>2, <2>4, WorkerMoves DEF Sent, Known
  <2> QED BY <2>1, <2>3, <2>4
<1>7. CASE FailsAfterAcceptance(w)
  <2>1. Moved(w, "failing", "accepted") /\ run[w].at = "recording"
    BY <1>7, FailMoves DEF FailsAfterAcceptance, Inv
  <2> QED BY <1>1, <1>7, <2>1, WorkerMoves DEF FailsAfterAcceptance, Sent, Known
<1>8. ASSUME NEW r \in Holds, CommitHold(w, r)
      PROVE  Inv'
  <2>1. /\ run[w].at = "recording" /\ UNCHANGED <<exports, jobs, inflight, drafts, todo>>
        /\ holds' \in [Holds -> HoldStates]
    BY <1>1, <1>8 DEF CommitHold, HoldStates
  <2>2. CASE IsActive(r)
    <3>1. Moved(w, "recording", run[w].cause)
      BY <1>1, <1>8, <2>1, <2>2 DEF CommitHold, Moved, Runs
    <3> QED BY <1>1, <2>1, <3>1, WorkerMoves DEF Sent, Known
  <2>3. CASE ~IsActive(r)
    <3>1. Moved(w, "failing", "accepted")
      BY <1>8, <2>3, FailMoves DEF CommitHold, Inv
    <3> QED BY <1>1, <2>1, <3>1, WorkerMoves DEF Sent, Known
  <2> QED BY <2>2, <2>3
<1>9. ASSUME NEW r \in Holds, ReleaseHold(w, r)
      PROVE  Inv'
  <2>1. /\ run[w].at = "failing" /\ UNCHANGED <<exports, jobs, inflight, drafts, todo>>
        /\ holds' \in [Holds -> HoldStates]
    BY <1>1, <1>9 DEF ReleaseHold, HoldStates
  <2>2. Moved(w, "failing", run[w].cause)
    BY <1>1, <1>9, <2>1 DEF ReleaseHold, Moved, Runs
  <2> QED BY <1>1, <2>1, <2>2, WorkerMoves DEF Sent, Known
<1> QED BY <1>2, <1>3, <1>4, <1>5, <1>6, <1>7, <1>8, <1>9

(* Moves of a worker that write the row of its export.                       *)
LEMMA WriteKeepsInv ==
  ASSUME Inv, NEW w \in Workers,
         PrepareExport(w) \/ Submit(w) \/ RecordAcceptance(w) \/ CloseExport(w)
  PROVE  Inv'
<1> USE DEF Points, Causes
<1>1. /\ run \in [Workers -> Runs] /\ run[w] \in Runs
      /\ exports \in [Exports -> ExportRows]
      /\ \A e \in Exports : exports[e] \in ExportRows
      /\ run[w].at # "idle" => run[w].exp \in Exports
      /\ \A e \in Exports : exports[e].status = "accepted" \/ exports[e].ack => Drafted(e)
      /\ run[w].at \in Known \/ run[w].cause = "accepted" => Drafted(run[w].exp)
  BY DEF Inv, TypeOK, Owned, Acknowledged
<1>2. CASE PrepareExport(w)
  <2>1. run[w].at = "built" /\ UNCHANGED <<jobs, holds, inflight, drafts, todo>>
        /\ Moved(w, "prepared", run[w].cause)
    BY <1>2, GotoMoves DEF PrepareExport, Inv
  <2>2. Written(run[w].exp, "prepared", FALSE)
    <3> DEFINE n == 1 + Cardinality({e \in Exports : exports[e].born # 0})
    <3> DEFINE x == [status |-> "prepared", assets |-> run[w].assets,
                     carried |-> run[w].carried, ack |-> FALSE, born |-> n]
    <3>1. n \in Nat
      BY FS_Subset, FS_CardinalityType, ExportAssumption
    <3>2. exports' = [exports EXCEPT ![run[w].exp] = x]
      BY <1>2 DEF PrepareExport
    <3> HIDE DEF n
    <3>3. x \in ExportRows /\ x.status = "prepared" /\ x.ack = FALSE
      BY <1>1, <3>1 DEF ExportRows, EXPORT_STATES, Runs
    <3> HIDE DEF x
    <3> QED BY <1>1, <2>1, <3>2, <3>3 DEF Written
  <2> QED BY <1>1, <2>1, <2>2, WorkerWrites DEF Sent, Known
<1>3. CASE Submit(w)
  <2>1. run[w].at = "prepared" /\ UNCHANGED <<jobs, holds, inflight, drafts, todo>>
        /\ Moved(w, "posting", run[w].cause)
    BY <1>3, GotoMoves DEF Submit, Inv
  <2>2. exports[run[w].exp].ack \in BOOLEAN
    BY <1>1, <2>1 DEF ExportRows
  <2>3. Written(run[w].exp, "submitted", exports[run[w].exp].ack)
    BY <1>1, <1>3, <2>1, <2>2, StateWritten DEF Submit, EXPORT_STATES, Inv
  <2> QED BY <1>1, <2>1, <2>3, WorkerWrites DEF Sent, Known, Early
<1>4. CASE RecordAcceptance(w)
  <2>1. run[w].at = "acked" /\ UNCHANGED <<jobs, holds, inflight, drafts, todo>>
        /\ Moved(w, "recording", run[w].cause)
    BY <1>1, <1>4 DEF RecordAcceptance, Moved, Runs
  <2>2. Written(run[w].exp, "accepted", exports[run[w].exp].ack \/ TRUE)
    BY <1>1, <1>4, <2>1, StateWritten DEF RecordAcceptance, EXPORT_STATES, Inv
  <2> QED BY <1>1, <2>1, <2>2, WorkerWrites DEF Sent, Known, Early
<1>5. CASE CloseExport(w)
  <2>1. run[w].at = "failing" /\ UNCHANGED <<jobs, holds, inflight, drafts, todo>>
        /\ Moved(w, "closing", run[w].cause)
    BY <1>5, GotoMoves DEF CloseExport, Inv
  <2>2. CASE UNCHANGED exports
    <3>1. /\ holds' \in [Holds -> HoldStates]
          /\ inflight' \subseteq [exp : Exports, try : 1..MaxAttempts]
          /\ drafts' \subseteq [exp : Exports, key : Exports]
          /\ \A m \in inflight' \cup drafts' : exports[m.exp].status \notin Early
      BY <2>1 DEF Inv, TypeOK, Recorded
    <3> QED BY <1>1, <2>1, <2>2, <3>1, WorkerMoves DEF Sent, Known, Drafted
  <2>3. CASE SetExportState(run[w].exp, OutcomeOf(run[w].cause), run[w].cause = "accepted")
    <3>1. OutcomeOf(run[w].cause) \in EXPORT_STATES \ Early
          /\ (OutcomeOf(run[w].cause) = "accepted" => run[w].cause = "accepted")
      BY DEF OutcomeOf, EXPORT_STATES, Early
    <3> DEFINE accepted == run[w].cause = "accepted"
    <3> DEFINE told == exports[run[w].exp].ack \/ accepted
    <3> DEFINE s == OutcomeOf(run[w].cause)
    <3>2. accepted \in BOOLEAN /\ SetExportState(run[w].exp, s, accepted)
      BY <2>3
    <3>3. told => Drafted(run[w].exp)
      BY <1>1, <2>1
    <3>4. s \in EXPORT_STATES /\ s \notin Early /\ (s = "accepted" => Drafted(run[w].exp))
      BY <1>1, <3>1
    <3>5. TypeOK /\ run[w].exp \in Exports
      BY <1>1, <2>1 DEF Inv
    <3> HIDE DEF accepted, s
    <3>6. Written(run[w].exp, s, told)
      BY <3>2, <3>4, <3>5, StateWritten
    <3> HIDE DEF told
    <3>7. run[w].cause = "accepted" => Drafted(run[w].exp)
      BY <1>1
    <3> QED BY <2>1, <3>3, <3>4, <3>6, <3>7, WorkerWrites DEF Sent, Known
  <2> QED BY <1>5, <2>2, <2>3 DEF CloseExport
<1> QED BY <1>2, <1>3, <1>4, <1>5

-----------------------------------------------------------------------------
LEMMA InitInv == Init => Inv
<1> SUFFICES ASSUME Init PROVE Inv
  OBVIOUS
<1>1. AbsentExport \in ExportRows /\ AbsentExport.status = "absent" /\ AbsentExport.ack = FALSE
  BY DEF AbsentExport, ExportRows
<1>2. Idle.at = "idle" /\ Idle.cause = "none" /\ Idle.exp = NoExport
  BY DEF Idle
<1>3. TypeOK
  BY <1>1, IdleIsRun DEF Init, TypeOK, HoldStates
<1>4. Owned /\ Recorded /\ Acknowledged
  BY <1>1, <1>2 DEF Init, Owned, Recorded, Acknowledged, Sent, Known, Early
<1> QED BY <1>3, <1>4 DEF Inv

LEMMA NextInv == Inv /\ [Next]_vars => Inv'
<1> SUFFICES ASSUME Inv, [Next]_vars PROVE Inv'
  OBVIOUS
<1>1. holds \in [Holds -> HoldStates] /\ todo \subseteq Exports
  BY DEF Inv, TypeOK
<1>2. CASE UNCHANGED vars
  BY <1>1, <1>2, NobodyMoves DEF vars
<1>3. ASSUME NEW r \in Holds, Reserve(r) \/ EndHold(r)
      PROVE  Inv'
  <2>1. holds' \in [Holds -> HoldStates]
    BY <1>1, <1>3 DEF Reserve, EndHold, HoldStates
  <2> QED BY <1>1, <1>3, <2>1, NobodyMoves DEF Reserve, EndHold
<1>4. ASSUME NEW w \in Workers, Handoff(w)
      PROVE  Inv'
  <2>1. CASE \E e \in Exports, batch \in Batches : StartExport(w, e, batch)
    BY <2>1, StartKeepsInv
  <2>2. CASE FinishExport(w) \/ FailJob(w) \/ Crash(w)
    <3>1. run[w].at # "idle"
      BY <2>2 DEF FinishExport, FailJob, Crash, Inv, Owned
    <3> QED BY <2>2, <3>1, WorkerStops DEF FinishExport, FailJob, Crash
  <2> QED BY <1>4, <2>1, <2>2, MoveKeepsInv, WriteKeepsInv DEF Handoff
<1>5. CASE Bridge
  <2>1. ASSUME NEW e \in Exports, BridgeNamed(e) \/ BridgeReports(e) \/ BridgeAborts(e)
        PROVE  Inv'
    BY <1>1, <2>1, NobodyMoves DEF BridgeNamed, BridgeReports, BridgeAborts
  <2>2. CASE BridgePass
    BY <1>1, <2>2, NobodyMoves DEF BridgePass, Unsettled
  <2> QED BY <1>5, <2>1, <2>2, BridgeKeepsInv DEF Bridge
<1> QED BY <1>2, <1>3, <1>4, <1>5, DashboardKeepsInv DEF Next

(* The inductive invariant, for every behaviour of the handoff.              *)
THEOREM InvHolds == Spec => []Inv
<1> QED BY InitInv, NextInv, PTL DEF Spec

(* Every state the handoff reaches is well typed: its table, jobs, requests, *)
(* drafts and calls in progress (export_threadsdash, reconcile_bridge).      *)
THEOREM TypeCorrect == Spec => []TypeOK
<1>1. Inv => TypeOK
  BY DEF Inv
<1> QED BY <1>1, InvHolds, PTL

(* Creator OS never claims an acceptance the dashboard did not make, however *)
(* requests and answers are lost, repeated or reconciled (set_export_state). *)
THEOREM NoInventedAcceptance == Spec => []AcceptedHasDraft
<1>1. Inv => AcceptedHasDraft
  BY DEF Inv, Acknowledged, AcceptedHasDraft
<1> QED BY <1>1, InvHolds, PTL

(* Nothing is sent, and no draft exists, whose export the table does not     *)
(* know as submitted: prepare_export and the state "submitted" come first.   *)
THEOREM IntentIsDurable == Spec => []SubmittedBeforeSent
<1>1. Inv => SubmittedBeforeSent
  BY DEF Inv, Recorded, SubmittedBeforeSent, Early
<1> QED BY <1>1, InvHolds, PTL

-----------------------------------------------------------------------------
(* A reservation a payload carried was active then: it is never absent       *)
(* again, and once it has left "pending" it does not come back.              *)
Used(r) == holds[r] # "absent"
Spent(r) == holds[r] \notin {"absent", "pending"}

HoldsAdvance == \A r \in Holds : (Used(r) => Used(r)') /\ (Spent(r) => Spent(r)')

(* What a worker has still to release or to commit is what its row carries   *)
(* and what has not left "pending".                                          *)
Tidy(w) ==
  LET row == exports[run[w].exp] IN
  run[w].at # "idle" =>
    /\ run[w].left \subseteq run[w].carried
    /\ \A r \in run[w].carried : Used(r)
    /\ row.status # "absent" => row.carried = run[w].carried
    /\ run[w].at = "prepared" => row.status # "absent"
    /\ run[w].at \in {"failing", "closing"} <=> run[w].cause # "none"
    /\ run[w].at = "failing" /\ run[w].cause = "refused" /\ row.status # "absent" =>
         \A r \in run[w].carried \ run[w].left : Spent(r)
    /\ run[w].at = "recording" => /\ row.ack /\ row.status # "absent"
                                  /\ \A r \in run[w].carried \ run[w].left : Spent(r)

Honest(e) ==
  /\ \A r \in exports[e].carried : Used(r)
  /\ exports[e].status = "rejected" => \A r \in exports[e].carried : Spent(r)
  /\ jobs[e] = "succeeded" => exports[e].ack /\ \A r \in exports[e].carried : Spent(r)

Settled == (\A w \in Workers : Tidy(w)) /\ (\A e \in Exports : Honest(e))

LEMMA InitSettled == Init => Settled
<1> SUFFICES ASSUME Init PROVE Settled
  OBVIOUS
<1>1. \A w \in Workers : Tidy(w)
  BY DEF Init, Tidy, Idle
<1>2. \A e \in Exports : exports[e].carried = {} /\ exports[e].status = "absent" /\ jobs[e] = "none"
  BY DEF Init, AbsentExport
<1>3. \A e \in Exports : Honest(e)
  BY <1>2 DEF Honest
<1> QED BY <1>1, <1>3 DEF Settled

(* Nobody's row and nobody's place changes.                                  *)
LEMMA HoldsKeepSettled ==
  ASSUME Inv, Settled, HoldsAdvance, UNCHANGED <<exports, jobs, run>>
  PROVE  Settled'
<1>1. \A e \in Exports : exports[e].carried \subseteq Holds
  BY DEF Inv, TypeOK, ExportRows
<1>2. \A w \in Workers : run[w].carried \subseteq Holds
  BY DEF Inv, TypeOK, Runs
<1>3. ASSUME NEW w \in Workers PROVE Tidy(w)'
  BY <1>2 DEF Settled, Tidy, HoldsAdvance, Used, Spent
<1>4. ASSUME NEW e \in Exports PROVE Honest(e)'
  BY <1>1 DEF Settled, Honest, HoldsAdvance, Used, Spent
<1> QED BY <1>3, <1>4 DEF Settled

(* A worker's step leaves the others and their rows as they are.             *)
LEMMA WorkerKeepsSettled ==
  ASSUME Inv, Settled, HoldsAdvance, NEW w \in Workers, NEW x \in Exports,
         run[w].at # "idle", run[w].exp = x,
         \A v \in Workers : v # w => run'[v] = run[v],
         \A f \in Exports : f # x => exports'[f] = exports[f] /\ jobs'[f] = jobs[f],
         Tidy(w)', Honest(x)'
  PROVE  Settled'
<1>1. \A e \in Exports : exports[e].carried \subseteq Holds
  BY DEF Inv, TypeOK, ExportRows
<1>2. \A v \in Workers : run[v].carried \subseteq Holds
  BY DEF Inv, TypeOK, Runs
<1>3. ASSUME NEW v \in Workers, v # w PROVE Tidy(v)'
  <2>1. run[v].at # "idle" => run[v].exp \in Exports /\ run[v].exp # x
    BY <1>3 DEF Inv, Owned
  <2>2. run'[v] = run[v] /\ (run[v].at # "idle" => exports'[run[v].exp] = exports[run[v].exp])
    BY <1>3, <2>1
  <2> QED BY <1>2, <2>2 DEF Settled, Tidy, HoldsAdvance, Used, Spent
<1>4. ASSUME NEW e \in Exports, e # x PROVE Honest(e)'
  BY <1>1, <1>4 DEF Settled, Honest, HoldsAdvance, Used, Spent
<1> QED BY <1>3, <1>4 DEF Settled

(* Of a worker that moves on with its row and its job as they were, only the *)
(* place has to be looked at.                                                *)
LEMMA MoveKeepsSettled ==
  ASSUME Inv, Settled, HoldsAdvance, NEW w \in Workers, run[w].at # "idle",
         UNCHANGED <<exports, jobs>>, \A v \in Workers : v # w => run'[v] = run[v],
         run'[w].exp = run[w].exp, Tidy(w)'
  PROVE  Settled'
<1>1. PICK x \in Exports : run[w].exp = x
  BY DEF Inv, Owned
<1>3. exports[x].carried \subseteq Holds
  BY DEF Inv, TypeOK, ExportRows
<1>2. Honest(x)'
  BY <1>3 DEF Settled, Honest, HoldsAdvance, Used, Spent
<1> QED BY <1>1, <1>2, WorkerKeepsSettled

LEMMA FailFacts ==
  ASSUME TypeOK, NEW w \in Workers, NEW why \in Causes, Fail(w, why)
  PROVE  /\ \A v \in Workers : v # w => run'[v] = run[v]
         /\ run'[w].at = "failing" /\ run'[w].cause = why /\ run'[w].exp = run[w].exp
         /\ run'[w].carried = run[w].carried
         /\ run'[w].left = IF why = "refused" THEN run[w].carried ELSE {}
<1> DEFINE kept == IF why = "refused" THEN run[w].carried ELSE {}
<1> DEFINE x == [run[w] EXCEPT !.at = "failing", !.cause = why, !.left = kept]
<1>1. run[w] \in Runs
  BY DEF TypeOK
<1>2. run' = [run EXCEPT ![w] = x]
  BY DEF Fail
<1> HIDE DEF kept
<1>3. x.at = "failing" /\ x.cause = why /\ x.exp = run[w].exp /\ x.carried = run[w].carried
      /\ x.left = kept
  BY <1>1 DEF Runs
<1> HIDE DEF x
<1> QED BY <1>2, <1>3 DEF TypeOK, kept

LEMMA FailKeepsSettled ==
  ASSUME Inv, Settled, NEW w \in Workers, NEW why \in Causes \ {"none"}, Fail(w, why),
         run[w].at # "idle", UNCHANGED <<exports, jobs, holds>>
  PROVE  Settled'
<1>1. run'[w].carried = run[w].carried /\ run'[w].at = "failing" /\ run'[w].cause = why
      /\ run'[w].exp = run[w].exp /\ (why = "refused" => run'[w].left = run[w].carried)
      /\ run'[w].left \subseteq run[w].carried
      /\ \A v \in Workers : v # w => run'[v] = run[v]
  BY FailFacts DEF Inv
<1>2. HoldsAdvance
  BY DEF HoldsAdvance, Used, Spent
<1>3. Tidy(w)'
  BY <1>1 DEF Settled, Tidy, Used, Spent
<1> QED BY <1>1, <1>2, <1>3, MoveKeepsSettled

(* A worker moves from a place of the submission to another.                 *)
Submitting == {"built", "prepared", "posting", "waiting", "acked", "unlisted"}

LEMMA SubmissionKeepsSettled ==
  ASSUME Inv, Settled, NEW w \in Workers, UNCHANGED <<exports, jobs, holds>>,
         run[w].at \in Submitting, run'[w].at \in Submitting \ {"prepared"},
         \A v \in Workers : v # w => run'[v] = run[v],
         run'[w].exp = run[w].exp, run'[w].cause = run[w].cause,
         run'[w].carried = run[w].carried, run'[w].left = run[w].left
  PROVE  Settled'
<1>1. HoldsAdvance
  BY DEF HoldsAdvance, Used, Spent
<1>2. Tidy(w)'
  BY DEF Settled, Tidy, Used, Spent, Submitting
<1> QED BY <1>1, <1>2, MoveKeepsSettled DEF Submitting

LEMMA GotoFacts ==
  ASSUME TypeOK, NEW w \in Workers, NEW point \in Points, Goto(w, point)
  PROVE  /\ \A v \in Workers : v # w => run'[v] = run[v]
         /\ run'[w].at = point /\ run'[w].exp = run[w].exp /\ run'[w].cause = run[w].cause
         /\ run'[w].carried = run[w].carried /\ run'[w].left = run[w].left
BY DEF TypeOK, Goto, Runs

LEMMA MovesKeepSettled ==
  ASSUME Inv, Settled, NEW w \in Workers,
         \/ PayloadFails(w) \/ BlockedLocally(w) \/ SendAttempt(w) \/ AttemptFails(w)
         \/ AskForPostIds(w) \/ FailsAfterAcceptance(w)
  PROVE  Settled'
<1> USE DEF Points, Causes, Submitting
<1>1. TypeOK /\ run[w] \in Runs
  BY DEF Inv, TypeOK
<1>2. CASE PayloadFails(w)
  <2>1. /\ \A v \in Workers : v # w => run'[v] = run[v]
        /\ run'[w].at = "failing" /\ run'[w].cause = "refused" /\ run'[w].exp = run[w].exp
        /\ run'[w].carried = run[w].carried /\ run'[w].left = run[w].left
    BY <1>1, <1>2 DEF PayloadFails, TypeOK, Runs
  <2>2. exports[run[w].exp].status = "absent" /\ UNCHANGED <<exports, jobs, holds>>
        /\ run[w].at = "built"
    BY <1>2 DEF PayloadFails, Inv, Owned
  <2>3. HoldsAdvance
    BY <2>2 DEF HoldsAdvance, Used, Spent
  <2>4. Tidy(w)'
    BY <2>1, <2>2 DEF Settled, Tidy, Used, Spent
  <2> QED BY <2>1, <2>2, <2>3, <2>4, MoveKeepsSettled
<1>3. CASE BlockedLocally(w)
  BY <1>3, FailKeepsSettled DEF BlockedLocally
<1>4. CASE SendAttempt(w)
  <2>1. /\ \A v \in Workers : v # w => run'[v] = run[v]
        /\ run'[w].at = "waiting" /\ run'[w].cause = run[w].cause /\ run'[w].exp = run[w].exp
        /\ run'[w].carried = run[w].carried /\ run'[w].left = run[w].left
    BY <1>1, <1>4 DEF SendAttempt, TypeOK, Runs
  <2> QED BY <1>4, <2>1, SubmissionKeepsSettled DEF SendAttempt
<1>5. CASE AttemptFails(w)
  <2>1. CASE Goto(w, "posting")
    BY <1>1, <1>5, <2>1, GotoFacts, SubmissionKeepsSettled DEF AttemptFails
  <2>2. CASE Fail(w, "unknown")
    BY <1>5, <2>2, FailKeepsSettled DEF AttemptFails
  <2> QED BY <1>5, <2>1, <2>2 DEF AttemptFails
<1>6. CASE AskForPostIds(w)
  <2>1. CASE Goto(w, "acked")
    BY <1>1, <1>6, <2>1, GotoFacts, SubmissionKeepsSettled DEF AskForPostIds
  <2>2. CASE Fail(w, "unknown") \/ Fail(w, "refused")
    BY <1>6, <2>2, FailKeepsSettled DEF AskForPostIds
  <2> QED BY <1>6, <2>1, <2>2 DEF AskForPostIds
<1>7. CASE FailsAfterAcceptance(w)
  BY <1>7, FailKeepsSettled DEF FailsAfterAcceptance
<1> QED BY <1>2, <1>3, <1>4, <1>5, <1>6, <1>7

(* Committing and releasing, reservation by reservation.                     *)
LEMMA HoldStepsKeepSettled ==
  ASSUME Inv, Settled, NEW w \in Workers, NEW r \in Holds, CommitHold(w, r) \/ ReleaseHold(w, r)
  PROVE  Settled'
<1> DEFINE rest == run[w].left \ {r}
<1>1. /\ run[w] \in Runs /\ holds \in [Holds -> HoldStates]
      /\ run[w].at \in {"recording", "failing"} /\ r \in run[w].left
      /\ UNCHANGED <<exports, jobs>>
  BY DEF Inv, TypeOK, CommitHold, ReleaseHold
<1>2. CASE CommitHold(w, r) /\ ~IsActive(r)
  BY <1>2, FailKeepsSettled DEF CommitHold, Causes
<1>3. CASE run' = [run EXCEPT ![w].left = rest] /\ HoldsAdvance /\ Spent(r)'
  <2>1. /\ \A v \in Workers : v # w => run'[v] = run[v]
        /\ run'[w].at = run[w].at /\ run'[w].cause = run[w].cause /\ run'[w].exp = run[w].exp
        /\ run'[w].carried = run[w].carried /\ run'[w].left = rest
    BY <1>1, <1>3 DEF Inv, TypeOK, Runs
  <2>2. run[w].carried \subseteq Holds
    BY <1>1 DEF Runs
  <2>3. Tidy(w)'
    BY <1>1, <1>3, <2>1, <2>2 DEF Settled, Tidy, HoldsAdvance, Used, Spent
  <2> QED BY <1>1, <1>3, <2>1, <2>3, MoveKeepsSettled
<1>4. Used(r)
  BY <1>1 DEF Settled, Tidy
<1>5. CASE CommitHold(w, r) /\ IsActive(r)
  <2>1. HoldsAdvance /\ Spent(r)'
    BY <1>1, <1>5 DEF CommitHold, HoldsAdvance, Used, Spent
  <2> QED BY <1>3, <1>5, <2>1 DEF CommitHold
<1>6. CASE ReleaseHold(w, r)
  <2>1. HoldsAdvance /\ Spent(r)'
    BY <1>1, <1>4, <1>6 DEF ReleaseHold, HoldsAdvance, Used, Spent
  <2> QED BY <1>3, <1>6, <2>1 DEF ReleaseHold
<1> QED BY <1>2, <1>5, <1>6

LEMMA ReservationsKeepSettled ==
  ASSUME Inv, Settled, NEW r \in Holds, Reserve(r) \/ EndHold(r)
  PROVE  Settled'
<1>1. HoldsAdvance
  BY DEF Reserve, EndHold, IsActive, HoldsAdvance, Used, Spent, Inv, TypeOK
<1> QED BY <1>1, HoldsKeepSettled DEF Reserve, EndHold

LEMMA DashboardKeepsSettled ==
  ASSUME Inv, Settled, Dashboard
  PROVE  Settled'
<1>1. UNCHANGED <<exports, jobs, holds>>
  BY DEF Dashboard, Ingest, RefuseRequest
<1>2. HoldsAdvance
  BY <1>1 DEF HoldsAdvance, Used, Spent
<1>3. CASE UNCHANGED run
  BY <1>1, <1>2, <1>3, HoldsKeepSettled
<1>4. ASSUME NEW w \in Workers, run[w].at = "waiting", Fail(w, "refused")
      PROVE  Settled'
  BY <1>1, <1>4, FailKeepsSettled DEF Causes
<1>5. ASSUME NEW w \in Workers, NEW point \in {"acked", "unlisted"}, run[w].at = "waiting",
             Goto(w, point)
      PROVE  Settled'
  BY <1>1, <1>5, GotoFacts, SubmissionKeepsSettled DEF Inv, Points, Submitting
<1> QED BY <1>3, <1>4, <1>5 DEF Dashboard, Ingest, RefuseRequest, Awaits

(* A new export carries reservations that are active.                        *)
LEMMA StartKeepsSettled ==
  ASSUME Inv, Settled, NEW w \in Workers, NEW e \in Exports, NEW batch \in Batches,
         StartExport(w, e, batch)
  PROVE  Settled'
<1> DEFINE found == {r \in Holds : IsActive(r) /\ AssetOf[r] \in batch}
<1> DEFINE x == [Idle EXCEPT !.at = "built", !.exp = e, !.assets = batch, !.carried = found]
<1>1. \A r \in found : Used(r)
  BY DEF IsActive, Used
<1>2. run' = [run EXCEPT ![w] = x] /\ UNCHANGED <<exports, holds>>
      /\ jobs[e] = "none" /\ jobs' = [jobs EXCEPT ![e] = "running"]
  BY DEF StartExport
<1>3. x.at = "built" /\ x.exp = e /\ x.carried = found /\ x.left = {} /\ x.cause = "none"
  BY DEF Idle
<1> HIDE DEF x, found
<1>4. run'[w] = x /\ \A v \in Workers : v # w => run'[v] = run[v]
  BY <1>2 DEF Inv, TypeOK
<1>5. exports[e].status = "absent"
  BY <1>2 DEF Inv, Owned
<1>6. ASSUME NEW v \in Workers
      PROVE  Tidy(v)'
  <2>1. CASE v = w
    BY <1>1, <1>2, <1>3, <1>4, <1>5, <2>1 DEF Tidy, Used, Spent
  <2>2. CASE v # w
    BY <1>2, <1>4, <2>2 DEF Settled, Tidy, Used, Spent
  <2> QED BY <2>1, <2>2
<1>7. ASSUME NEW f \in Exports
      PROVE  Honest(f)'
  <2>1. jobs'[f] = "succeeded" => jobs[f] = "succeeded"
    BY <1>2 DEF Inv, TypeOK
  <2> QED BY <1>2, <2>1 DEF Settled, Honest, Used, Spent
<1> QED BY <1>6, <1>7 DEF Settled

LEMMA SetStateFacts ==
  ASSUME TypeOK, NEW e \in Exports, NEW s, NEW acked, SetExportState(e, s, acked)
  PROVE  /\ exports'[e].status = s /\ exports'[e].carried = exports[e].carried
         /\ exports'[e].ack = (exports[e].ack \/ acked)
         /\ \A f \in Exports : f # e => exports'[f] = exports[f]
BY DEF TypeOK, SetExportState, ExportRows

(* Writes of the row of a worker's own export.                               *)
LEMMA WritesKeepSettled ==
  ASSUME Inv, Settled, NEW w \in Workers,
         PrepareExport(w) \/ Submit(w) \/ RecordAcceptance(w) \/ CloseExport(w)
  PROVE  Settled'
<1> USE DEF Points
<1>1. /\ TypeOK /\ run[w] \in Runs /\ run[w].at # "idle"
      /\ UNCHANGED <<jobs, holds>>
  BY DEF Inv, TypeOK, PrepareExport, Submit, RecordAcceptance, CloseExport
<1>2. HoldsAdvance
  BY <1>1 DEF HoldsAdvance, Used, Spent
<1>3. PICK x \in Exports : run[w].exp = x
  BY <1>1 DEF Inv, Owned
<1>4. Tidy(w) /\ Honest(x) /\ jobs[x] = "running"
  BY <1>1, <1>3 DEF Settled, Inv, Owned
<1>5. CASE PrepareExport(w)
  <2>1. /\ \A v \in Workers : v # w => run'[v] = run[v]
        /\ run'[w].at = "prepared" /\ run'[w].exp = x /\ run'[w].cause = run[w].cause
        /\ run'[w].carried = run[w].carried /\ run'[w].left = run[w].left
    BY <1>1, <1>3, <1>5, GotoFacts DEF PrepareExport
  <2>2. /\ exports'[x].status = "prepared" /\ exports'[x].carried = run[w].carried
        /\ \A f \in Exports : f # x => exports'[f] = exports[f]
    BY <1>1, <1>3, <1>5 DEF PrepareExport, TypeOK
  <2>3. Tidy(w)' /\ Honest(x)'
    BY <1>1, <1>4, <1>5, <2>1, <2>2 DEF PrepareExport, Tidy, Honest, Used, Spent
  <2> QED BY <1>1, <1>2, <1>3, <2>1, <2>2, <2>3, WorkerKeepsSettled
<1>6. CASE Submit(w)
  <2>1. /\ \A v \in Workers : v # w => run'[v] = run[v]
        /\ run'[w].at = "posting" /\ run'[w].exp = x /\ run'[w].cause = run[w].cause
        /\ run'[w].carried = run[w].carried /\ run'[w].left = run[w].left
    BY <1>1, <1>3, <1>6, GotoFacts DEF Submit
  <2>2. /\ exports'[x].status = "submitted" /\ exports'[x].carried = exports[x].carried
        /\ \A f \in Exports : f # x => exports'[f] = exports[f]
    BY <1>1, <1>3, <1>6, SetStateFacts DEF Submit
  <2>3. exports[x].status # "absent"
    BY <1>1, <1>3, <1>4, <1>6 DEF Submit, Tidy
  <2>4. Tidy(w)' /\ Honest(x)'
    BY <1>1, <1>3, <1>4, <1>6, <2>1, <2>2, <2>3 DEF Submit, Tidy, Honest, Used, Spent
  <2> QED BY <1>1, <1>2, <1>3, <2>1, <2>2, <2>4, WorkerKeepsSettled
<1>7. CASE RecordAcceptance(w)
  <2>1. /\ \A v \in Workers : v # w => run'[v] = run[v]
        /\ run'[w].at = "recording" /\ run'[w].exp = x /\ run'[w].cause = run[w].cause
        /\ run'[w].carried = run[w].carried /\ run'[w].left = run[w].carried
    BY <1>1, <1>3, <1>7 DEF RecordAcceptance, TypeOK, Runs
  <2>2. /\ exports'[x].status = "accepted" /\ exports'[x].carried = exports[x].carried
        /\ exports'[x].ack /\ \A f \in Exports : f # x => exports'[f] = exports[f]
    BY <1>1, <1>3, <1>7, SetStateFacts DEF RecordAcceptance
  <2>3. exports[x].status # "absent"
    BY <1>3, <1>7 DEF RecordAcceptance, Inv, Recorded, Sent, Early
  <2>4. Tidy(w)' /\ Honest(x)'
    BY <1>1, <1>3, <1>4, <1>7, <2>1, <2>2, <2>3 DEF RecordAcceptance, Tidy, Honest, Used, Spent
  <2> QED BY <1>1, <1>2, <1>3, <2>1, <2>2, <2>4, WorkerKeepsSettled
<1>8. CASE CloseExport(w)
  <2>1. /\ \A v \in Workers : v # w => run'[v] = run[v]
        /\ run'[w].at = "closing" /\ run'[w].exp = x /\ run'[w].cause = run[w].cause
        /\ run'[w].carried = run[w].carried /\ run'[w].left = run[w].left
    BY <1>1, <1>3, <1>8, GotoFacts DEF CloseExport
  <2>2. CASE exports[x].status = "absent"
    <3>1. exports' = exports
      BY <1>3, <1>8, <2>2 DEF CloseExport
    <3>2. Tidy(w)' /\ Honest(x)'
      BY <1>1, <1>3, <1>4, <1>8, <2>1, <2>2, <3>1 DEF CloseExport, Tidy, Honest, Used, Spent
    <3> QED BY <1>1, <1>2, <1>3, <2>1, <3>1, <3>2, WorkerKeepsSettled
  <2>3. CASE exports[x].status # "absent"
    <3>1. /\ exports'[x].status = OutcomeOf(run[w].cause)
          /\ exports'[x].carried = exports[x].carried
          /\ \A f \in Exports : f # x => exports'[f] = exports[f]
      BY <1>1, <1>3, <1>8, <2>3, SetStateFacts DEF CloseExport
    <3>2. run[w].left = {} /\ run[w].at = "failing"
      BY <1>8 DEF CloseExport
    <3>3. OutcomeOf(run[w].cause) = "rejected" => \A r \in exports[x].carried : Spent(r)
      BY <1>1, <1>3, <1>4, <2>3, <3>2 DEF OutcomeOf, Tidy, Runs, Causes
    <3>4. Honest(x)'
      BY <1>1, <1>4, <3>1, <3>3 DEF Honest, Used, Spent
    <3>5. Tidy(w)'
      BY <1>1, <1>3, <1>4, <2>1, <2>3, <3>1, <3>2 DEF Tidy, Used, Spent
    <3> QED BY <1>1, <1>2, <1>3, <2>1, <3>1, <3>4, <3>5, WorkerKeepsSettled
  <2> QED BY <2>2, <2>3
<1> QED BY <1>5, <1>6, <1>7, <1>8

(* A worker is done, fails its job, or dies.                                 *)
LEMMA StopsKeepSettled ==
  ASSUME Inv, Settled, NEW w \in Workers, FinishExport(w) \/ FailJob(w) \/ Crash(w)
  PROVE  Settled'
<1>1. /\ TypeOK /\ run[w].at # "idle" /\ UNCHANGED <<exports, holds>>
      /\ run' = [run EXCEPT ![w] = Idle]
  BY DEF Inv, Owned, FinishExport, FailJob, Crash
<1>2. HoldsAdvance
  BY <1>1 DEF HoldsAdvance, Used, Spent
<1>3. PICK x \in Exports : run[w].exp = x
  BY <1>1 DEF Inv, Owned
<1>4. run'[w].at = "idle" /\ \A v \in Workers : v # w => run'[v] = run[v]
  BY <1>1 DEF TypeOK, Idle
<1>5. Tidy(w)'
  BY <1>4 DEF Tidy
<1>6. jobs'[x] # jobs[x] => jobs'[x] = "failed" \/ FinishExport(w)
  BY <1>3 DEF FinishExport, FailJob, Crash, Inv, TypeOK
<1>7. \A f \in Exports : f # x => jobs'[f] = jobs[f]
  BY <1>3 DEF FinishExport, FailJob, Crash, Inv, TypeOK
<1>8. FinishExport(w) => exports[x].ack /\ \A r \in exports[x].carried : Spent(r)
  BY <1>1, <1>3 DEF FinishExport, Settled, Tidy
<1>9. Honest(x)'
  BY <1>1, <1>6, <1>8 DEF Settled, Honest, Used, Spent
<1> QED BY <1>1, <1>2, <1>3, <1>4, <1>5, <1>7, <1>9, WorkerKeepsSettled

(* The bridge accepts the row of an export, whoever works on it.             *)
LEMMA AttachKeepsSettled ==
  ASSUME Inv, Settled, NEW e \in Exports, BridgeAttach(e)
  PROVE  Settled'
<1>1. /\ exports'[e].status = "accepted" /\ exports'[e].carried = exports[e].carried
      /\ exports'[e].ack /\ \A f \in Exports : f # e => exports'[f] = exports[f]
      /\ UNCHANGED <<jobs, holds, run>>
  BY SetStateFacts DEF BridgeAttach, Inv
<1>2. exports[e].status # "absent"
  BY DEF BridgeAttach, Inv, Acknowledged, Recorded, Drafted, Early
<1>3. ASSUME NEW w \in Workers
      PROVE  Tidy(w)'
  <2>1. run[w].at # "idle" => run[w].exp \in Exports
    BY DEF Inv, Owned
  <2>2. Tidy(w)
    BY DEF Settled
  <2>3. CASE run[w].at # "idle" /\ run[w].exp # e
    BY <1>1, <2>1, <2>2, <2>3 DEF Tidy, Used, Spent
  <2>4. CASE run[w].at # "idle" /\ run[w].exp = e
    BY <1>1, <1>2, <2>2, <2>4 DEF Tidy, Used, Spent
  <2> QED BY <1>1, <2>3, <2>4 DEF Tidy
<1>4. ASSUME NEW f \in Exports
      PROVE  Honest(f)'
  BY <1>1 DEF Settled, Honest, Used, Spent
<1> QED BY <1>3, <1>4 DEF Settled

LEMMA NextSettled == Inv /\ Settled /\ [Next]_vars => Settled'
<1> SUFFICES ASSUME Inv, Settled, [Next]_vars PROVE Settled'
  OBVIOUS
<1>1. CASE UNCHANGED <<exports, jobs, holds, run>>
  BY <1>1, HoldsKeepSettled DEF HoldsAdvance, Used, Spent
<1>2. ASSUME NEW w \in Workers, Handoff(w)
      PROVE  Settled'
  BY <1>2, StartKeepsSettled, MovesKeepSettled, HoldStepsKeepSettled, WritesKeepSettled,
     StopsKeepSettled DEF Handoff
<1>3. CASE Bridge
  BY <1>1, <1>3, AttachKeepsSettled DEF Bridge, BridgePass, BridgeNamed, BridgeReports,
     BridgeAborts
<1> QED BY <1>1, <1>2, <1>3, ReservationsKeepSettled, DashboardKeepsSettled DEF Next, vars

(* An export the table calls rejected holds no reservation back, at whatever *)
(* release its process died and whatever ran beside it                       *)
(* (_release_payload_inventory_reservations before the state is written).    *)
THEOREM RejectedLetsGo == Spec => []RejectedHoldsNothing
<1>1. Settled => RejectedHoldsNothing
  BY DEF Settled, Honest, Spent, RejectedHoldsNothing
<1> QED BY <1>1, InitInv, InitSettled, NextInv, NextSettled, PTL DEF Spec

(* A job that succeeded has its acknowledgment, and every reservation its    *)
(* payload carried was committed (finish_pipeline_job).                      *)
THEOREM SuccessIsComplete == Spec => []SucceededMeansCommitted
<1>1. Settled => SucceededMeansCommitted
  BY DEF Settled, Honest, Spent, SucceededMeansCommitted
<1> QED BY <1>1, InitInv, InitSettled, NextInv, NextSettled, PTL DEF Spec

-----------------------------------------------------------------------------
(* While the bridge keeps to the pauses between exports, the row of an export *)
(* and the worker that writes it go hand in hand.                            *)
Before(why) ==
  IF why = "accepted" THEN {"accepted"}
  ELSE IF why = "unknown" THEN {"submitted"} ELSE {"absent", "prepared", "submitted"}

Place(w) ==
  LET s == exports[run[w].exp].status IN
  /\ run[w].at = "prepared" => s = "prepared"
  /\ run[w].at \in {"posting", "waiting", "acked", "unlisted"} => s = "submitted"
  /\ run[w].at = "recording" => s = "accepted"
  /\ run[w].at = "failing" => s \in Before(run[w].cause)

InStep == \A w \in Workers : run[w].at # "idle" => Place(w)

Turns == todo = {} \/ \A w \in Workers : run[w].at = "idle"

LEMMA NextTurns == ASSUME ~BridgeOverlaps PROVE Inv /\ Turns /\ [Next]_vars => Turns'
<1> SUFFICES ASSUME Inv, Turns, [Next]_vars PROVE Turns'
  OBVIOUS
<1>1. CASE UNCHANGED <<todo, run>>
  BY <1>1 DEF Turns
<1>2. ASSUME NEW w \in Workers, Handoff(w)
      PROVE  Turns'
  <2>1. UNCHANGED todo /\ (run[w].at = "idle" => todo = {})
    BY <1>2 DEF Handoff, StartExport, PayloadFails, BlockedLocally, PrepareExport, Submit,
       SendAttempt, AttemptFails, AskForPostIds, RecordAcceptance, CommitHold, ReleaseHold,
       FinishExport, FailsAfterAcceptance, CloseExport, FailJob, Crash, Idle, Inv, Owned
  <2> QED BY <2>1 DEF Turns
<1>3. CASE Dashboard
  <2>1. UNCHANGED todo /\ (UNCHANGED run \/ \E w \in Workers : run[w].at = "waiting")
    BY <1>3 DEF Dashboard, Ingest, RefuseRequest, Awaits
  <2> QED BY <2>1 DEF Turns
<1>4. CASE Bridge
  <2>1. CASE BridgePass \/ \E e \in Exports : BridgeNamed(e)
    BY <2>1 DEF BridgePass, BridgeNamed, Quiet, Turns, Idle
  <2>2. ASSUME NEW e \in Exports, BridgeAttach(e) \/ BridgeReports(e) \/ BridgeAborts(e)
        PROVE  Turns'
    BY <2>2 DEF BridgeAttach, BridgeReports, BridgeAborts, First, Turns
  <2> QED BY <1>4, <2>1, <2>2 DEF Bridge
<1> QED BY <1>1, <1>2, <1>3, <1>4 DEF Next, vars, Reserve, EndHold

(* A worker moves on and leaves its row as it is.                            *)
LEMMA PlaceMoves ==
  ASSUME InStep, NEW w \in Workers, UNCHANGED exports,
         \A v \in Workers : v # w => run'[v] = run[v],
         run'[w].at = "idle" \/ (run'[w].exp = run[w].exp /\ Place(w)')
  PROVE  InStep'
BY DEF InStep, Place

(* A worker moves on and writes its row.                                     *)
LEMMA PlaceWrites ==
  ASSUME Inv, InStep, NEW w \in Workers, NEW x \in Exports, run[w].at # "idle",
         run[w].exp = x, \A v \in Workers : v # w => run'[v] = run[v],
         \A f \in Exports : f # x => exports'[f] = exports[f],
         Place(w)'
  PROVE  InStep'
<1>1. ASSUME NEW v \in Workers, v # w, run'[v].at # "idle"
      PROVE  Place(v)'
  <2>1. run[v].exp \in Exports /\ run[v].exp # x /\ run'[v] = run[v]
    BY <1>1 DEF Inv, Owned
  <2>2. exports'[run[v].exp] = exports[run[v].exp]
    BY <2>1
  <2> QED BY <1>1, <2>1, <2>2 DEF InStep, Place
<1> QED BY <1>1 DEF InStep

LEMMA FailInStep ==
  ASSUME Inv, InStep, NEW w \in Workers, NEW why \in Causes, Fail(w, why), UNCHANGED exports,
         exports[run[w].exp].status \in Before(why)
  PROVE  InStep'
BY FailFacts, PlaceMoves DEF Inv, Place

LEMMA DashboardInStep == ASSUME Inv, InStep, Dashboard PROVE InStep'
<1>1. UNCHANGED exports
  BY DEF Dashboard, Ingest, RefuseRequest
<1>2. CASE UNCHANGED run
  BY <1>1, <1>2 DEF InStep, Place
<1>3. ASSUME NEW w \in Workers, run[w].at = "waiting"
      PROVE  exports[run[w].exp].status = "submitted"
  BY <1>3 DEF InStep, Place
<1>4. ASSUME NEW w \in Workers, run[w].at = "waiting", Fail(w, "refused")
      PROVE  InStep'
  BY <1>1, <1>3, <1>4, FailInStep DEF Before, Causes
<1>5. ASSUME NEW w \in Workers, NEW point \in {"acked", "unlisted"}, run[w].at = "waiting",
             Goto(w, point)
      PROVE  InStep'
  BY <1>1, <1>3, <1>5, GotoFacts, PlaceMoves DEF Inv, Place, Points
<1> QED BY <1>2, <1>4, <1>5 DEF Dashboard, Ingest, RefuseRequest, Awaits

LEMMA StartInStep ==
  ASSUME Inv, InStep, NEW w \in Workers, NEW e \in Exports, NEW batch \in Batches,
         StartExport(w, e, batch)
  PROVE  InStep'
<1> DEFINE found == {r \in Holds : IsActive(r) /\ AssetOf[r] \in batch}
<1> DEFINE x == [Idle EXCEPT !.at = "built", !.exp = e, !.assets = batch, !.carried = found]
<1>1. run' = [run EXCEPT ![w] = x] /\ UNCHANGED exports
  BY DEF StartExport
<1>2. x.at = "built"
  BY DEF Idle
<1> HIDE DEF x
<1>3. run'[w] = x /\ \A v \in Workers : v # w => run'[v] = run[v]
  BY <1>1 DEF Inv, TypeOK
<1> QED BY <1>1, <1>2, <1>3 DEF InStep, Place

LEMMA MoveInStep ==
  ASSUME Inv, InStep, NEW w \in Workers,
         \/ PayloadFails(w) \/ BlockedLocally(w) \/ SendAttempt(w) \/ AttemptFails(w)
         \/ AskForPostIds(w) \/ FailsAfterAcceptance(w) \/ FinishExport(w) \/ FailJob(w)
         \/ Crash(w) \/ \E r \in Holds : CommitHold(w, r) \/ ReleaseHold(w, r)
  PROVE  InStep'
<1> USE DEF Points, Causes, Before
<1>1. /\ run[w].at # "idle" /\ UNCHANGED exports /\ TypeOK /\ run[w] \in Runs /\ Place(w)
      /\ run[w].at = "built" => exports[run[w].exp].status = "absent"
  BY DEF Inv, Owned, TypeOK, InStep, PayloadFails, BlockedLocally, SendAttempt, AttemptFails,
     AskForPostIds, FailsAfterAcceptance, FinishExport, FailJob, Crash, CommitHold, ReleaseHold
<1>2. CASE PayloadFails(w)
  <2>1. /\ \A v \in Workers : v # w => run'[v] = run[v]
        /\ run'[w].exp = run[w].exp /\ run'[w].at = "failing" /\ run'[w].cause = "refused"
        /\ run[w].at = "built"
    BY <1>1, <1>2 DEF PayloadFails, TypeOK, Runs
  <2> QED BY <1>1, <2>1, PlaceMoves DEF Place
<1>3. CASE BlockedLocally(w)
  BY <1>1, <1>3, FailInStep DEF BlockedLocally, Place
<1>4. CASE SendAttempt(w)
  <2>1. /\ \A v \in Workers : v # w => run'[v] = run[v]
        /\ run'[w].exp = run[w].exp /\ run'[w].at = "waiting" /\ run[w].at = "posting"
    BY <1>1, <1>4 DEF SendAttempt, TypeOK, Runs
  <2> QED BY <1>1, <2>1, PlaceMoves DEF Place
<1>5. CASE AttemptFails(w)
  <2>1. CASE Goto(w, "posting")
    BY <1>1, <1>5, <2>1, GotoFacts, PlaceMoves DEF AttemptFails, Place
  <2>2. CASE Fail(w, "unknown")
    BY <1>1, <1>5, <2>2, FailInStep DEF AttemptFails, Place
  <2> QED BY <1>5, <2>1, <2>2 DEF AttemptFails
<1>6. CASE AskForPostIds(w)
  <2>1. CASE Goto(w, "acked")
    BY <1>1, <1>6, <2>1, GotoFacts, PlaceMoves DEF AskForPostIds, Place
  <2>2. CASE Fail(w, "unknown") \/ Fail(w, "refused")
    BY <1>1, <1>6, <2>2, FailInStep DEF AskForPostIds, Place
  <2> QED BY <1>6, <2>1, <2>2 DEF AskForPostIds
<1>7. CASE FailsAfterAcceptance(w)
  BY <1>1, <1>7, FailInStep DEF FailsAfterAcceptance, Place
<1>8. CASE FinishExport(w) \/ FailJob(w) \/ Crash(w)
  <2>1. run' = [run EXCEPT ![w] = Idle]
    BY <1>8 DEF FinishExport, FailJob, Crash
  <2>2. run'[w].at = "idle" /\ \A v \in Workers : v # w => run'[v] = run[v]
    BY <1>1, <2>1 DEF TypeOK, Idle
  <2> QED BY <1>1, <2>2, PlaceMoves
<1>9. ASSUME NEW r \in Holds, CommitHold(w, r) \/ ReleaseHold(w, r)
      PROVE  InStep'
  <2> DEFINE rest == run[w].left \ {r}
  <2>1. CASE CommitHold(w, r) /\ Fail(w, "accepted")
    BY <1>1, <2>1, FailInStep DEF CommitHold, Place
  <2>2. CASE run' = [run EXCEPT ![w].left = rest]
    <3>1. /\ \A v \in Workers : v # w => run'[v] = run[v]
          /\ run'[w].exp = run[w].exp /\ run'[w].at = run[w].at /\ run'[w].cause = run[w].cause
      BY <1>1, <2>2 DEF TypeOK, Runs
    <3> QED BY <1>1, <3>1, PlaceMoves DEF Place
  <2> QED BY <1>9, <2>1, <2>2 DEF CommitHold, ReleaseHold
<1> QED BY <1>2, <1>3, <1>4, <1>5, <1>6, <1>7, <1>8, <1>9

(* What a write of its row does, and where the worker is afterwards.         *)
LEMMA RowWrites ==
  ASSUME Inv, InStep, NEW w \in Workers, NEW x \in Exports, run[w].exp = x,
         PrepareExport(w) \/ Submit(w) \/ RecordAcceptance(w)
           \/ (CloseExport(w) /\ exports[x].status # "absent")
  PROVE  /\ \A f \in Exports : f # x => exports'[f] = exports[f]
         /\ \A v \in Workers : v # w => run'[v] = run[v]
         /\ run'[w].exp = x
         /\ PrepareExport(w) =>
              /\ exports[x].status = "absent" /\ exports'[x].status = "prepared"
              /\ exports'[x].carried = run[w].carried /\ run'[w].at = "prepared"
         /\ Submit(w) =>
              /\ exports[x].status = "prepared" /\ exports'[x].status = "submitted"
              /\ exports'[x].carried = exports[x].carried /\ run'[w].at = "posting"
         /\ RecordAcceptance(w) =>
              /\ exports[x].status = "submitted" /\ exports'[x].status = "accepted"
              /\ exports'[x].carried = exports[x].carried /\ run'[w].at = "recording"
         /\ CloseExport(w) =>
              /\ exports[x].status \in Before(run[w].cause)
              /\ exports'[x].status = OutcomeOf(run[w].cause)
              /\ exports'[x].carried = exports[x].carried /\ run'[w].at = "closing"
<1> USE DEF Points
<1>1. TypeOK /\ run[w] \in Runs /\ run[w].at # "idle" /\ Place(w)
  BY DEF Inv, TypeOK, InStep, PrepareExport, Submit, RecordAcceptance, CloseExport
<1>2. CASE PrepareExport(w)
  <2>1. /\ \A v \in Workers : v # w => run'[v] = run[v]
        /\ run'[w].exp = x /\ run'[w].at = "prepared" /\ run[w].at = "built"
    BY <1>1, <1>2, GotoFacts DEF PrepareExport
  <2>2. exports[x].status = "absent"
    BY <2>1 DEF Inv, Owned
  <2>3. /\ exports'[x].status = "prepared" /\ exports'[x].carried = run[w].carried
        /\ \A f \in Exports : f # x => exports'[f] = exports[f]
    BY <1>1, <1>2 DEF PrepareExport, TypeOK
  <2> QED BY <2>1, <2>2, <2>3 DEF Submit, RecordAcceptance, CloseExport
<1>3. CASE Submit(w)
  <2>1. /\ \A v \in Workers : v # w => run'[v] = run[v]
        /\ run'[w].exp = x /\ run'[w].at = "posting" /\ run[w].at = "prepared"
    BY <1>1, <1>3, GotoFacts DEF Submit
  <2>2. /\ exports'[x].status = "submitted" /\ exports'[x].carried = exports[x].carried
        /\ \A f \in Exports : f # x => exports'[f] = exports[f]
    BY <1>1, <1>3, SetStateFacts DEF Submit
  <2> QED BY <1>1, <2>1, <2>2 DEF Place, PrepareExport, RecordAcceptance, CloseExport
<1>4. CASE RecordAcceptance(w)
  <2>1. /\ \A v \in Workers : v # w => run'[v] = run[v]
        /\ run'[w].exp = x /\ run'[w].at = "recording" /\ run[w].at = "acked"
    BY <1>1, <1>4 DEF RecordAcceptance, TypeOK, Runs
  <2>2. /\ exports'[x].status = "accepted" /\ exports'[x].carried = exports[x].carried
        /\ \A f \in Exports : f # x => exports'[f] = exports[f]
    BY <1>1, <1>4, SetStateFacts DEF RecordAcceptance
  <2> QED BY <1>1, <2>1, <2>2 DEF Place, PrepareExport, Submit, CloseExport
<1>5. CASE CloseExport(w) /\ exports[x].status # "absent"
  <2>1. /\ \A v \in Workers : v # w => run'[v] = run[v]
        /\ run'[w].exp = x /\ run'[w].at = "closing" /\ run[w].at = "failing"
    BY <1>1, <1>5, GotoFacts DEF CloseExport
  <2>2. /\ exports'[x].status = OutcomeOf(run[w].cause)
        /\ exports'[x].carried = exports[x].carried
        /\ \A f \in Exports : f # x => exports'[f] = exports[f]
    BY <1>1, <1>5, SetStateFacts DEF CloseExport
  <2> QED BY <1>1, <2>1, <2>2 DEF Place, PrepareExport, Submit, RecordAcceptance
<1> QED BY <1>2, <1>3, <1>4, <1>5

LEMMA WriteInStep ==
  ASSUME Inv, InStep, NEW w \in Workers,
         PrepareExport(w) \/ Submit(w) \/ RecordAcceptance(w) \/ CloseExport(w)
  PROVE  InStep'
<1>1. run[w].at # "idle" /\ TypeOK
  BY DEF Inv, PrepareExport, Submit, RecordAcceptance, CloseExport
<1>2. PICK x \in Exports : run[w].exp = x
  BY <1>1 DEF Inv, Owned
<1>3. CASE CloseExport(w) /\ exports[x].status = "absent"
  <2>1. UNCHANGED exports /\ Goto(w, "closing")
    BY <1>2, <1>3 DEF CloseExport
  <2> QED BY <1>1, <2>1, GotoFacts, PlaceMoves DEF Place, Points
<1>4. CASE ~(CloseExport(w) /\ exports[x].status = "absent")
  BY <1>1, <1>2, <1>4, RowWrites, PlaceWrites DEF Place
<1> QED BY <1>3, <1>4

LEMMA NextInStep ==
  ASSUME ~BridgeOverlaps
  PROVE  Inv /\ Turns /\ InStep /\ [Next]_vars => InStep'
<1> SUFFICES ASSUME Inv, Turns, InStep, [Next]_vars PROVE InStep'
  OBVIOUS
<1>1. CASE UNCHANGED <<exports, run>>
  BY <1>1 DEF InStep, Place
<1>2. ASSUME NEW w \in Workers, Handoff(w) PROVE InStep'
  BY <1>2, StartInStep, MoveInStep, WriteInStep DEF Handoff
<1>3. ASSUME NEW e \in Exports, BridgeAttach(e) PROVE InStep'
  BY <1>3 DEF BridgeAttach, First, Turns, InStep
<1> QED BY <1>1, <1>2, <1>3, DashboardInStep DEF Next, vars, Reserve, EndHold, Bridge,
           BridgePass, BridgeNamed, BridgeReports, BridgeAborts

-----------------------------------------------------------------------------
(* The refinement.  What of an export the contract sees did not change.      *)
Unseen(e) == ClaimOf(e)' = ClaimOf(e) /\ exports'[e].carried = exports[e].carried

Outcomes == {e \in Exports : jobs[e] = "succeeded"}

LEMMA StepUnseen ==
  ASSUME \A e \in Exports : Unseen(e), UNCHANGED <<drafts, holds, Outcomes>>
  PROVE  UNCHANGED Contract!handoffVars
<1>1. [e \in Exports |-> ClaimOf(e)]' = [e \in Exports |-> ClaimOf(e)]
  BY DEF Unseen
<1>2. [e \in Exports |-> exports[e].carried]' = [e \in Exports |-> exports[e].carried]
  BY DEF Unseen
<1>3. {e \in Exports : Drafted(e)}' = {e \in Exports : Drafted(e)}
  BY DEF Drafted
<1> QED BY <1>1, <1>2, <1>3 DEF Contract!handoffVars, Outcomes

LEMMA RowsUnseen ==
  ASSUME UNCHANGED <<exports, drafts, holds, Outcomes>>
  PROVE  UNCHANGED Contract!handoffVars
BY StepUnseen DEF Unseen, ClaimOf, Open

(* A step that writes what the table claims of one export.                   *)
LEMMA OneClaim ==
  ASSUME NEW x \in Exports, \A f \in Exports : f # x => exports'[f] = exports[f],
         exports'[x].carried = exports[x].carried, UNCHANGED <<drafts, holds, jobs>>
  PROVE  /\ [e \in Exports |-> ClaimOf(e)]' =
              [[e \in Exports |-> ClaimOf(e)] EXCEPT ![x] = ClaimOf(x)']
         /\ [e \in Exports |-> exports[e].carried]' = [e \in Exports |-> exports[e].carried]
         /\ {e \in Exports : Drafted(e)}' = {e \in Exports : Drafted(e)}
         /\ {e \in Exports : jobs[e] = "succeeded"}' = {e \in Exports : jobs[e] = "succeeded"}
         /\ holds' = holds
BY DEF ClaimOf, Open, Drafted

LEMMA PrepareIsSeen ==
  ASSUME Inv, Settled, InStep, NEW w \in Workers, PrepareExport(w)
  PROVE  \E e \in Exports, R \in SUBSET Holds : Contract!Prepare(e, R)
<1>1. PICK x \in Exports : run[w].exp = x
  BY DEF PrepareExport, Inv, Owned
<1>2. PICK R \in SUBSET Holds : run[w].carried = R
  BY DEF Inv, TypeOK, Runs
<1>3. /\ exports[x].status = "absent" /\ exports'[x].status = "prepared"
      /\ exports'[x].carried = R /\ \A f \in Exports : f # x => exports'[f] = exports[f]
  BY <1>1, <1>2, RowWrites
<1>4. \A r \in R : holds[r] # "absent"
  BY <1>2 DEF PrepareExport, Settled, Tidy, Used
<1>5. [e \in Exports |-> ClaimOf(e)]' =
        [[e \in Exports |-> ClaimOf(e)] EXCEPT ![x] = "prepared"]
  BY <1>3 DEF ClaimOf, Open
<1>6. [e \in Exports |-> exports[e].carried]' =
        [[e \in Exports |-> exports[e].carried] EXCEPT ![x] = R]
  BY <1>3
<1>7. {e \in Exports : Drafted(e)}' = {e \in Exports : Drafted(e)}
  BY DEF PrepareExport, Drafted
<1>8. Contract!Prepare(x, R)
  BY <1>3, <1>4, <1>5, <1>6, <1>7 DEF Contract!Prepare, ClaimOf, Open, PrepareExport
<1> QED BY <1>8

LEMMA SubmitIsSeen ==
  ASSUME Inv, InStep, NEW w \in Workers, Submit(w)
  PROVE  \E e \in Exports : Contract!Submit(e)
<1>1. PICK x \in Exports : run[w].exp = x
  BY DEF Submit, Inv, Owned
<1>2. /\ exports[x].status = "prepared" /\ exports'[x].status = "submitted"
      /\ exports'[x].carried = exports[x].carried
      /\ \A f \in Exports : f # x => exports'[f] = exports[f]
  BY <1>1, RowWrites
<1>3. UNCHANGED <<drafts, holds, jobs>>
  BY DEF Submit
<1>4. ClaimOf(x) = "prepared" /\ ClaimOf(x)' = "open"
  BY <1>2 DEF ClaimOf, Open
<1> QED BY <1>2, <1>3, <1>4, OneClaim DEF Contract!Submit

LEMMA AcceptanceIsSeen ==
  ASSUME Inv, InStep, NEW w \in Workers, RecordAcceptance(w)
  PROVE  \E e \in Exports : Contract!Accept(e)
<1>1. PICK x \in Exports : run[w].exp = x
  BY DEF RecordAcceptance, Inv, Owned
<1>2. /\ exports[x].status = "submitted" /\ exports'[x].status = "accepted"
      /\ exports'[x].carried = exports[x].carried
      /\ \A f \in Exports : f # x => exports'[f] = exports[f]
  BY <1>1, RowWrites
<1>3. ClaimOf(x) = "open" /\ ClaimOf(x)' = "accepted"
  BY <1>2 DEF ClaimOf, Open
<1>4. Drafted(x)
  BY <1>1 DEF RecordAcceptance, Inv, Acknowledged, Known
<1> QED BY <1>2, <1>3, <1>4, OneClaim DEF Contract!Accept, RecordAcceptance

(* The except block rejects what was refused, with nothing left to release;  *)
(* an unknown outcome stays open and an acceptance stays one.                *)
LEMMA CloseIsSeen ==
  ASSUME Inv, Settled, InStep, NEW w \in Workers, CloseExport(w)
  PROVE  (\E e \in Exports : Contract!Reject(e)) \/ UNCHANGED Contract!handoffVars
<1>1. PICK x \in Exports : run[w].exp = x
  BY DEF CloseExport, Inv, Owned
<1>2. UNCHANGED <<drafts, holds, jobs, Outcomes>>
  BY DEF CloseExport, Outcomes
<1>3. CASE exports[x].status = "absent"
  <2>1. UNCHANGED exports
    BY <1>1, <1>3 DEF CloseExport
  <2> QED BY <1>2, <2>1, RowsUnseen
<1>4. CASE exports[x].status # "absent"
  <2>1. /\ exports[x].status \in Before(run[w].cause)
        /\ exports'[x].status = OutcomeOf(run[w].cause)
        /\ exports'[x].carried = exports[x].carried
        /\ \A f \in Exports : f # x => exports'[f] = exports[f]
    BY <1>1, <1>4, RowWrites
  <2>2. CASE run[w].cause \in {"accepted", "unknown"}
    <3>1. \A e \in Exports : Unseen(e)
      BY <2>1, <2>2 DEF Unseen, ClaimOf, Open, Before, OutcomeOf
    <3> QED BY <1>2, <3>1, StepUnseen
  <2>3. CASE run[w].cause \notin {"accepted", "unknown"}
    <3>1. run[w].cause = "refused" /\ run[w].left = {} /\ run[w].at = "failing"
      BY <2>3 DEF CloseExport, Settled, Tidy, Inv, TypeOK, Runs, Causes
    <3>2. \A r \in exports[x].carried : holds[r] # "pending"
      BY <1>1, <1>4, <3>1 DEF Settled, Tidy, Spent
    <3>3. ClaimOf(x) \in {"prepared", "open"} /\ ClaimOf(x)' = "rejected"
      BY <1>4, <2>1, <3>1 DEF ClaimOf, Open, Before, OutcomeOf
    <3>4. Contract!Reject(x)
      BY <1>2, <2>1, <3>2, <3>3, OneClaim DEF Contract!Reject, Contract!Waiting
    <3> QED BY <3>4
  <2> QED BY <2>2, <2>3
<1> QED BY <1>3, <1>4

(* A draft is delivered for an export that was submitted once.               *)
LEMMA DashboardIsSeen ==
  ASSUME Inv, Dashboard
  PROVE  (\E e \in Exports : Contract!Deliver(e)) \/ UNCHANGED Contract!handoffVars
<1>1. UNCHANGED <<exports, holds, jobs, Outcomes>>
  BY DEF Dashboard, Ingest, RefuseRequest, Outcomes
<1>2. CASE UNCHANGED drafts
  BY <1>1, <1>2, RowsUnseen
<1>3. CASE ~UNCHANGED drafts
  <2>1. PICK m \in inflight : Ingest(m)
    BY <1>3 DEF Dashboard, RefuseRequest
  <2>2. PICK x \in Exports : m.exp = x
    BY DEF Inv, TypeOK
  <2> DEFINE d == [exp |-> m.exp, key |-> HandoffKey(m.exp)]
  <2>3. drafts' = drafts \cup {d} /\ d.exp = x
    BY <2>1, <2>2 DEF Ingest
  <2> HIDE DEF d
  <2>4. {e \in Exports : Drafted(e)}' = {e \in Exports : Drafted(e)} \cup {x}
    <3>1. \A e \in Exports : Drafted(e)' <=> (Drafted(e) \/ e = x)
      BY <2>3 DEF Drafted
    <3> QED BY <3>1
  <2>5. exports[x].status \in {"submitted", "acceptance_unknown", "accepted", "rejected"}
    BY <2>2 DEF Inv, Recorded, Early, TypeOK, ExportRows, EXPORT_STATES
  <2>6. /\ [e \in Exports |-> ClaimOf(e)]' = [e \in Exports |-> ClaimOf(e)]
        /\ [e \in Exports |-> exports[e].carried]' = [e \in Exports |-> exports[e].carried]
    BY <1>1 DEF ClaimOf, Open
  <2>7. Contract!Deliver(x)
    BY <1>1, <2>4, <2>5, <2>6 DEF Contract!Deliver, ClaimOf, Open
  <2> QED BY <2>7
<1> QED BY <1>2, <1>3

(* The bridge accepts what has a draft, also a row that was rejected.        *)
LEMMA AttachIsSeen ==
  ASSUME Inv, NEW x \in Exports, BridgeAttach(x)
  PROVE  Contract!Accept(x) \/ UNCHANGED Contract!handoffVars
<1>1. /\ exports'[x].status = "accepted" /\ exports'[x].carried = exports[x].carried
      /\ \A f \in Exports : f # x => exports'[f] = exports[f]
      /\ UNCHANGED <<drafts, holds, jobs, Outcomes>>
  BY SetStateFacts DEF BridgeAttach, Inv, Outcomes
<1>2. Drafted(x) /\ exports[x].status \notin Early
  BY DEF BridgeAttach, Inv, Acknowledged, Recorded, Drafted
<1>3. CASE exports[x].status = "accepted"
  BY <1>1, <1>3, StepUnseen DEF Unseen, ClaimOf, Open
<1>4. CASE exports[x].status # "accepted"
  <2>1. ClaimOf(x) \in {"open", "rejected"} /\ ClaimOf(x)' = "accepted"
    BY <1>1, <1>2, <1>4 DEF ClaimOf, Open, Early, Inv, TypeOK, ExportRows, EXPORT_STATES
  <2> QED BY <1>1, <1>2, <2>1, OneClaim DEF Contract!Accept
<1> QED BY <1>3, <1>4

(* A step that moves one reservation.                                        *)
LEMMA OnlyHolds ==
  ASSUME UNCHANGED <<exports, drafts, jobs>>
  PROVE  /\ [e \in Exports |-> ClaimOf(e)]' = [e \in Exports |-> ClaimOf(e)]
         /\ [e \in Exports |-> exports[e].carried]' = [e \in Exports |-> exports[e].carried]
         /\ {e \in Exports : Drafted(e)}' = {e \in Exports : Drafted(e)}
         /\ {e \in Exports : jobs[e] = "succeeded"}' = {e \in Exports : jobs[e] = "succeeded"}
BY DEF ClaimOf, Open, Drafted

LEMMA ReservationsAreSeen ==
  ASSUME NEW r \in Holds, Reserve(r) \/ EndHold(r)
  PROVE  Contract!Take(r) \/ Contract!End(r)
BY OnlyHolds DEF Reserve, EndHold, IsActive, Contract!Take, Contract!End

LEMMA HoldStepsAreSeen ==
  ASSUME Inv, Settled, InStep, NEW w \in Workers, NEW r \in Holds,
         CommitHold(w, r) \/ ReleaseHold(w, r)
  PROVE  \/ \E e \in Exports : Contract!Keep(e, r)
         \/ Contract!End(r)
         \/ UNCHANGED Contract!handoffVars
<1>1. UNCHANGED <<exports, drafts, jobs, Outcomes>>
  BY DEF CommitHold, ReleaseHold, Outcomes
<1>2. CASE UNCHANGED holds
  BY <1>1, <1>2, RowsUnseen
<1>3. CASE ReleaseHold(w, r) /\ ~UNCHANGED holds
  <2>1. holds[r] = "pending" /\ holds' = [holds EXCEPT ![r] = "released"]
    BY <1>3 DEF ReleaseHold
  <2> QED BY <1>1, <2>1, OnlyHolds DEF Contract!End
<1>4. CASE CommitHold(w, r) /\ ~UNCHANGED holds
  <2>1. PICK x \in Exports : run[w].exp = x
    BY <1>4 DEF CommitHold, Inv, Owned
  <2>2. /\ IsActive(r) /\ holds' = [holds EXCEPT ![r] = "committed"]
        /\ run[w].at = "recording" /\ r \in run[w].left
    BY <1>4 DEF CommitHold
  <2>3. exports[x].status = "accepted" /\ r \in exports[x].carried
    BY <2>1, <2>2 DEF InStep, Place, Settled, Tidy
  <2>4. holds[r] = "pending"
    BY <1>4, <2>2 DEF IsActive, Inv, TypeOK
  <2>5. Contract!Keep(x, r)
    BY <1>1, <2>2, <2>3, <2>4, OnlyHolds DEF Contract!Keep, ClaimOf, Open
  <2> QED BY <2>5
<1> QED BY <1>2, <1>3, <1>4

LEMMA FinishIsSeen ==
  ASSUME Inv, Settled, InStep, NEW w \in Workers, FinishExport(w)
  PROVE  \E e \in Exports : Contract!Complete(e)
<1>1. PICK x \in Exports : run[w].exp = x
  BY DEF FinishExport, Inv, Owned
<1>2. exports[x].status = "accepted" /\ \A r \in exports[x].carried : holds[r] # "pending"
  BY <1>1 DEF FinishExport, InStep, Place, Settled, Tidy, Spent
<1>3. {e \in Exports : jobs[e] = "succeeded"}' = {e \in Exports : jobs[e] = "succeeded"} \cup {x}
  BY <1>1 DEF FinishExport, Inv, TypeOK
<1>4. /\ [e \in Exports |-> ClaimOf(e)]' = [e \in Exports |-> ClaimOf(e)]
      /\ [e \in Exports |-> exports[e].carried]' = [e \in Exports |-> exports[e].carried]
      /\ {e \in Exports : Drafted(e)}' = {e \in Exports : Drafted(e)}
  BY DEF FinishExport, ClaimOf, Open, Drafted
<1>5. Contract!Complete(x)
  BY <1>2, <1>3, <1>4 DEF Contract!Complete, Contract!Waiting, ClaimOf, Open, FinishExport
<1> QED BY <1>5

(* The other steps of a worker are its own business.                         *)
LEMMA MovesUnseen ==
  ASSUME Inv, NEW w \in Workers,
         \/ \E e \in Exports, batch \in Batches : StartExport(w, e, batch)
         \/ PayloadFails(w) \/ BlockedLocally(w) \/ SendAttempt(w) \/ AttemptFails(w)
         \/ AskForPostIds(w) \/ FailsAfterAcceptance(w) \/ FailJob(w) \/ Crash(w)
  PROVE  UNCHANGED Contract!handoffVars
<1>1. UNCHANGED <<exports, drafts, holds>>
  BY DEF StartExport, PayloadFails, BlockedLocally, SendAttempt, AttemptFails,
     AskForPostIds, FailsAfterAcceptance, FailJob, Crash
<1>2. \A e \in Exports : (jobs'[e] = "succeeded") <=> (jobs[e] = "succeeded")
  <2>1. CASE UNCHANGED jobs
    BY <2>1
  <2>2. ASSUME NEW x \in Exports, jobs[x] = "none", jobs' = [jobs EXCEPT ![x] = "running"]
        PROVE  \A e \in Exports : (jobs'[e] = "succeeded") <=> (jobs[e] = "succeeded")
    BY <2>2 DEF Inv, TypeOK
  <2>3. CASE FailJob(w)
    BY <2>3 DEF FailJob, Inv, TypeOK, Owned
  <2> QED BY <2>1, <2>2, <2>3 DEF StartExport, PayloadFails, BlockedLocally, SendAttempt,
           AttemptFails, AskForPostIds, FailsAfterAcceptance, Crash
<1> QED BY <1>1, <1>2, RowsUnseen DEF Outcomes

LEMMA NextImplements ==
  ASSUME Inv, Settled, InStep, [Next]_vars
  PROVE  [Contract!HandoffNext]_(Contract!handoffVars)
<1> USE DEF Contract!HandoffNext
<1>1. CASE UNCHANGED <<exports, drafts, holds, jobs>>
  BY <1>1, RowsUnseen DEF Outcomes
<1>2. ASSUME NEW r \in Holds, Reserve(r) \/ EndHold(r)
      PROVE  Contract!HandoffNext
  BY <1>2, ReservationsAreSeen
<1>3. ASSUME NEW w \in Workers, PrepareExport(w) PROVE Contract!HandoffNext
  BY <1>3, PrepareIsSeen
<1>4. ASSUME NEW w \in Workers, Submit(w) PROVE Contract!HandoffNext
  BY <1>4, SubmitIsSeen
<1>5. ASSUME NEW w \in Workers, RecordAcceptance(w) PROVE Contract!HandoffNext
  BY <1>5, AcceptanceIsSeen
<1>6. ASSUME NEW w \in Workers, CloseExport(w)
      PROVE  [Contract!HandoffNext]_(Contract!handoffVars)
  BY <1>6, CloseIsSeen
<1>7. ASSUME NEW w \in Workers, FinishExport(w) PROVE Contract!HandoffNext
  BY <1>7, FinishIsSeen
<1>8. ASSUME NEW w \in Workers, NEW r \in Holds, CommitHold(w, r) \/ ReleaseHold(w, r)
      PROVE  [Contract!HandoffNext]_(Contract!handoffVars)
  BY <1>8, HoldStepsAreSeen
<1>9. CASE Dashboard
  BY <1>9, DashboardIsSeen
<1>10. ASSUME NEW e \in Exports, BridgeAttach(e)
       PROVE  [Contract!HandoffNext]_(Contract!handoffVars)
  BY <1>10, AttachIsSeen
<1>11. ASSUME NEW w \in Workers, Handoff(w)
       PROVE  [Contract!HandoffNext]_(Contract!handoffVars)
  BY <1>3, <1>4, <1>5, <1>6, <1>7, <1>8, <1>11, MovesUnseen DEF Handoff
<1>12. CASE Bridge
  BY <1>1, <1>10, <1>12
     DEF Bridge, BridgePass, BridgeNamed, BridgeReports, BridgeAborts
<1> QED BY <1>1, <1>2, <1>9, <1>11, <1>12 DEF Next, vars

LEMMA InitImplements == Init => Contract!HandoffInit /\ InStep
<1> SUFFICES ASSUME Init PROVE Contract!HandoffInit /\ InStep
  OBVIOUS
<1>1. \A e \in Exports : ClaimOf(e) = "absent" /\ exports[e].carried = {}
                         /\ ~Drafted(e) /\ jobs[e] # "succeeded"
  BY DEF Init, AbsentExport, ClaimOf, Open, Drafted
<1>2. InStep
  BY DEF Init, InStep, Idle
<1> QED BY <1>1, <1>2 DEF Init, Contract!HandoffInit

(* However requests, answers and processes are lost, and whatever the bridge *)
(* attaches between exports, the handoff keeps the contract of DraftHandoffs *)
(* (export_threadsdash, set_export_state, reconcile_bridge).                 *)
THEOREM HandoffKeepsItsContract ==
  ASSUME ~BridgeOverlaps
  PROVE  Spec => ImplementsHandoffs
<1> DEFINE Safe == Inv /\ Settled /\ Turns /\ InStep
<1>1. Init => Contract!HandoffInit /\ Safe
  <2>1. Init => Turns
    BY DEF Init, Turns
  <2> QED BY <2>1, InitInv, InitSettled, InitImplements
<1>2. Safe /\ [Next]_vars => Safe'
  BY NextInv, NextSettled, NextTurns, NextInStep
<1>3. Safe /\ [Next]_vars => [Contract!HandoffNext]_(Contract!handoffVars)
  BY NextImplements
<1> QED BY <1>1, <1>2, <1>3, PTL DEF Spec, ImplementsHandoffs, Contract!HandoffSpec

(* So an acceptance on record is never taken back: nothing the contract      *)
(* allows writes over one (set_export_state, acceptance_recorded).           *)
THEOREM AcceptancesStay == ASSUME ~BridgeOverlaps PROVE Spec => AcceptedStays
<1> DEFINE Safe == Inv /\ Settled /\ Turns /\ InStep
<1> DEFINE Kept == \A e \in Exports : exports[e].status = "accepted" => exports'[e].status = "accepted"
<1>1. Init => Safe
  BY InitInv, InitSettled, InitImplements DEF Init, Turns
<1>2. Safe /\ [Next]_vars => Safe' /\ [Contract!HandoffNext]_(Contract!handoffVars)
  BY NextInv, NextSettled, NextTurns, NextInStep, NextImplements
<1>3. [Contract!HandoffNext]_(Contract!handoffVars) => Kept
  <2> SUFFICES ASSUME [Contract!HandoffNext]_(Contract!handoffVars), NEW x \in Exports,
                      exports[x].status = "accepted"
               PROVE  exports'[x].status = "accepted"
    OBVIOUS
  <2> DEFINE claims == [e \in Exports |-> ClaimOf(e)]
  <2>1. claims[x] = "accepted"
    BY DEF ClaimOf, Open
  <2>2. claims'[x] = "accepted"
    <3>1. CASE claims' = claims
      BY <2>1, <3>1
    <3>2. ASSUME NEW e \in Exports, NEW c, claims[e] # "accepted",
                 claims' = [claims EXCEPT ![e] = c]
          PROVE  claims'[x] = "accepted"
      BY <2>1, <3>2
    <3> QED BY <3>1, <3>2 DEF Contract!HandoffNext, Contract!handoffVars, Contract!Take,
             Contract!End, Contract!Prepare, Contract!Submit, Contract!Deliver, Contract!Accept,
             Contract!Reject, Contract!Keep, Contract!Complete
  <2> QED BY <2>2 DEF ClaimOf, Open
<1>4. Safe /\ [Next]_vars => Safe' /\ [Kept]_vars
  BY <1>2, <1>3
<1> QED BY <1>1, <1>4, PTL DEF Spec, AcceptedStays
=============================================================================
