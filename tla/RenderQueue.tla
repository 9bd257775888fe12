---------------------------- MODULE RenderQueue ----------------------------
(***************************************************************************)
(* The machine-local render queue of Reel Factory: the table queue_jobs    *)
(* behind RenderQueue (reel_factory/render_queue.py) and the worker        *)
(* processes that lease its jobs, launch one subprocess per lease, send    *)
(* heartbeats and report the outcome (reel_factory/worker.py).             *)
(*                                                                         *)
(* Each queue method is one SQLite transaction guarded by a compare and    *)
(* set, hence one step.  A process may stop between any two of them, and   *)
(* what it launched may outlive it.                                        *)
(***************************************************************************)
EXTENDS Naturals, FiniteSets

CONSTANTS
  Jobs,          \* the job keys callers enqueue
  Procs,         \* worker processes
  Slots,         \* worker indices within a process
  Started,       \* Procs -> Nat, the second in which run_workers began
  NoWorker, NoJob,
  MaxAttempts,   \* the column max_attempts
  StaleAfter,    \* stale_after_sec, in heartbeat periods
  MaxStops,      \* bound on crashes and on exceptions other than a lost lease
  Timely,        \* TRUE when no live worker misses its heartbeats
  KillsChildren  \* TRUE when a process takes its subprocesses down with it

ASSUME QueueAssumption ==
  /\ IsFiniteSet(Jobs) /\ NoJob \notin Jobs
  /\ Started \in [Procs -> Nat]
  /\ NoWorker \notin Slots \X Nat
  /\ MaxAttempts \in Nat \ {0} /\ StaleAfter \in Nat /\ MaxStops \in Nat
  /\ Timely \in BOOLEAN /\ KillsChildren \in BOOLEAN

VARIABLES
  rows,    \* the table queue_jobs
  procs,   \* where run_workers of each process is
  slots,   \* what each _run_one is doing
  child,   \* the subprocess of each attempt of each job
  stops    \* stops so far

vars == <<rows, procs, slots, child, stops>>

QUEUE_STATES == {"queued", "claimed", "running", "succeeded", "failed", "interrupted"}
Terminal == {"succeeded", "failed", "interrupted"}
Attempts == 1..MaxAttempts
ChildStates == {"none", "live", "ok", "bad", "twice"}

\* worker_ids: host, index and second of the start; the host is the same.
WorkerId(p, i) == <<i, Started[p]>>

\* "age" is the time since heartbeat_at, "created" the order of created_at.
Rows == [status : QUEUE_STATES \cup {"absent"}, worker : (Slots \X Nat) \cup {NoWorker},
         age : 0..(StaleAfter + 1), attempts : 0..MaxAttempts, created : Nat]
Absent == [status |-> "absent", worker |-> NoWorker, age |-> 0, attempts |-> 0, created |-> 0]

\* The attempt number is not in the code: it tells the leases of one job apart.
SlotStates == [at : {"off", "ready", "claimed", "marked", "rendering", "done", "empty"},
               job : Jobs \cup {NoJob}, attempt : 0..MaxAttempts]
Off == [at |-> "off", job |-> NoJob, attempt |-> 0]
Ready == [Off EXCEPT !.at = "ready"]

Held(j) == rows[j].status \in {"claimed", "running"}

Init ==
  /\ rows = [j \in Jobs |-> Absent]
  /\ procs = [p \in Procs |-> "down"]
  /\ slots = [p \in Procs |-> [i \in Slots |-> Off]]
  /\ child = [j \in Jobs |-> [n \in Attempts |-> "none"]]
  /\ stops = 0

-----------------------------------------------------------------------------
\* Callers

Enqueued == {j \in Jobs : rows[j].status # "absent"}

\* created_at is the current second: later than every other row's, or the newest one's.
CreationTimes ==
  {Cardinality(Enqueued)} \cup
  {rows[k].created : k \in {k \in Enqueued : \A l \in Jobs : rows[l].created <= rows[k].created}}

\* INSERT OR IGNORE on the unique job_key: a known key changes nothing.
Enqueue(j) ==
  /\ rows[j].status = "absent"
  /\ \E t \in CreationTimes :
       rows' = [rows EXCEPT ![j] = [Absent EXCEPT !.status = "queued", !.created = t]]
  /\ UNCHANGED <<procs, slots, child, stops>>

-----------------------------------------------------------------------------
\* One process: rounds of recover_stale and a gather over its workers

StartWorkers(p) ==
  /\ procs[p] = "down"
  /\ procs' = [procs EXCEPT ![p] = "starting"]
  /\ UNCHANGED <<rows, slots, child, stops>>

\* Mutant: the cutoff itself counts as stale.
StaleAtCutoff(j) == Held(j) /\ rows[j].age >= StaleAfter

Stale(j) == Held(j) /\ rows[j].age > StaleAfter

\* Mutant: only a running lease is recovered.
RecoveredIfRunning(row) ==
  IF row.status = "claimed" THEN row
  ELSE IF row.attempts < MaxAttempts
  THEN [row EXCEPT !.status = "queued", !.worker = NoWorker, !.age = 0]
  ELSE [row EXCEPT !.status = "interrupted"]

Recovered(row) ==
  IF row.attempts < MaxAttempts
  THEN [row EXCEPT !.status = "queued", !.worker = NoWorker, !.age = 0]
  ELSE [row EXCEPT !.status = "interrupted"]

\* recover_stale opens every round, then gather starts one _run_one per worker.
RecoverStale(p) ==
  /\ procs[p] = "starting"
  /\ rows' = [j \in Jobs |-> IF Stale(j) THEN Recovered(rows[j]) ELSE rows[j]]
  /\ procs' = [procs EXCEPT ![p] = "working"]
  /\ slots' = [slots EXCEPT ![p] = [i \in Slots |-> Ready]]
  /\ UNCHANGED <<child, stops>>

\* gather waits for every worker; a round without a job, or --once, is the last.
EndRound(p) ==
  /\ procs[p] = "working"
  /\ \A i \in Slots : slots[p][i].at \in {"done", "empty"}
  /\ \E next \in {"starting", "down"} :
       /\ next = "starting" => \E i \in Slots : slots[p][i].at = "done"
       /\ procs' = [procs EXCEPT ![p] = next]
  /\ slots' = [slots EXCEPT ![p] = [i \in Slots |-> Off]]
  /\ UNCHANGED <<rows, child, stops>>

-----------------------------------------------------------------------------
\* One worker: _run_one.  No await separates claim from mark_running, so the
\* other workers of the process wait while one of them is between the two.

Uninterrupted(p) == \A i \in Slots : slots[p][i].at # "claimed"

Claimable(j) == rows[j].status = "queued" /\ rows[j].attempts < MaxAttempts

\* The oldest claimable job; rows of the same second follow their random job_id.
ClaimJob(p, i) ==
  /\ slots[p][i].at = "ready" /\ Uninterrupted(p)
  /\ \E j \in Jobs :
       /\ Claimable(j)
       /\ \A k \in Jobs : Claimable(k) => rows[j].created <= rows[k].created
       /\ rows' = [rows EXCEPT ![j] = [@ EXCEPT !.status = "claimed", !.age = 0,
                                                !.worker = WorkerId(p, i)]]
       /\ slots' = [slots EXCEPT ![p][i] = [Off EXCEPT !.at = "claimed", !.job = j]]
  /\ UNCHANGED <<procs, child, stops>>

NothingToClaim(p, i) ==
  /\ slots[p][i].at = "ready" /\ Uninterrupted(p)
  /\ ~ \E j \in Jobs : Claimable(j)
  /\ slots' = [slots EXCEPT ![p][i] = [Off EXCEPT !.at = "empty"]]
  /\ UNCHANGED <<rows, procs, child, stops>>

MayMark(p, i, j) == rows[j].status = "claimed" /\ rows[j].worker = WorkerId(p, i)
MayBeat(p, i, j) == Held(j) /\ rows[j].worker = WorkerId(p, i)
\* Mutant: any worker may finish a running job.
MayFinishForAnother(p, i, j) == rows[j].status = "running"
MayFinish(p, i, j) == rows[j].status = "running" /\ rows[j].worker = WorkerId(p, i)

\* Mutant: a job taken over is not charged again.
MarkRunningOnce(p, i) ==
  LET j == slots[p][i].job
      n == rows[j].attempts + 1
  IN
  /\ slots[p][i].at = "claimed"
  /\ MayMark(p, i, j)
  /\ rows' = [rows EXCEPT ![j] = [@ EXCEPT !.status = "running", !.age = 0, !.attempts = 1]]
  /\ slots' = [slots EXCEPT ![p][i] = [@ EXCEPT !.at = "marked", !.attempt = n]]
  /\ UNCHANGED <<procs, child, stops>>

MarkRunning(p, i) ==
  LET j == slots[p][i].job
      n == rows[j].attempts + 1
  IN
  /\ slots[p][i].at = "claimed"
  /\ MayMark(p, i, j)
  /\ rows' = [rows EXCEPT ![j] = [@ EXCEPT !.status = "running", !.age = 0, !.attempts = n]]
  /\ slots' = [slots EXCEPT ![p][i] = [@ EXCEPT !.at = "marked", !.attempt = n]]
  /\ UNCHANGED <<procs, child, stops>>

Launch(p, i) ==
  LET j == slots[p][i].job
      n == slots[p][i].attempt
  IN
  /\ slots[p][i].at = "marked" /\ Uninterrupted(p)
  /\ child' = [child EXCEPT ![j][n] = IF @ = "none" THEN "live" ELSE "twice"]
  /\ slots' = [slots EXCEPT ![p][i] = [@ EXCEPT !.at = "rendering"]]
  /\ UNCHANGED <<rows, procs, stops>>

\* After every line of output, and every five seconds without one.
Heartbeat(p, i) ==
  LET j == slots[p][i].job IN
  /\ slots[p][i].at = "rendering" /\ Uninterrupted(p)
  /\ MayBeat(p, i, j)
  /\ rows' = [rows EXCEPT ![j] = [@ EXCEPT !.age = 0]]
  /\ UNCHANGED <<procs, slots, child, stops>>

\* Mutant: a failed subprocess is reported with a status the table does not know.
OutcomeByExit(j, n) == IF child[j][n] = "ok" THEN "succeeded" ELSE "crashed"

Outcome(j, n) == IF child[j][n] = "ok" THEN "succeeded" ELSE "failed"

FinishJob(p, i) ==
  LET j == slots[p][i].job
      n == slots[p][i].attempt
  IN
  /\ slots[p][i].at = "rendering" /\ Uninterrupted(p)
  /\ child[j][n] \in {"ok", "bad"}
  /\ MayFinish(p, i, j)
  /\ rows' = [rows EXCEPT ![j] = [@ EXCEPT !.status = Outcome(j, n)]]
  /\ slots' = [slots EXCEPT ![p][i] = [Off EXCEPT !.at = "done"]]
  /\ UNCHANGED <<procs, child, stops>>

-----------------------------------------------------------------------------
\* The ways a process ends early

\* run_workers unwinds and takes every worker of the process with it.  A
\* subprocess is killed when the transport that holds it is closed in time.
Unwind(p) ==
  /\ procs' = [procs EXCEPT ![p] = "down"]
  /\ slots' = [slots EXCEPT ![p] = [i \in Slots |-> Off]]
  /\ \E killed \in SUBSET Slots :
       /\ KillsChildren => killed = Slots
       /\ child' = [j \in Jobs |-> [n \in Attempts |->
            IF child[j][n] = "live" /\ \E i \in killed :
                 slots[p][i] = [at |-> "rendering", job |-> j, attempt |-> n]
            THEN "bad" ELSE child[j][n]]]
  /\ UNCHANGED rows

\* A compare and set that finds another holder raises, and gather re-raises.
LeaseLost(p, i) ==
  LET j == slots[p][i].job
      n == slots[p][i].attempt
  IN
  /\ \/ slots[p][i].at = "claimed" /\ ~MayMark(p, i, j)
     \/ /\ slots[p][i].at = "rendering" /\ Uninterrupted(p)
        /\ \/ ~MayBeat(p, i, j)
           \/ child[j][n] \in {"ok", "bad"} /\ ~MayFinish(p, i, j)
  /\ Unwind(p)
  /\ UNCHANGED stops

\* A crash, a command that cannot be launched, an overlong output line, a busy
\* database: anything else that ends the process.
Stop(p) ==
  /\ procs[p] # "down" /\ stops < MaxStops
  /\ stops' = stops + 1
  /\ Unwind(p)

-----------------------------------------------------------------------------
\* The subprocesses and the clock

ChildExits(j, n) ==
  /\ child[j][n] = "live"
  /\ \E rc \in {"ok", "bad"} : child' = [child EXCEPT ![j][n] = rc]
  /\ UNCHANGED <<rows, procs, slots, stops>>

Tick ==
  /\ \E j \in Jobs : Held(j) /\ ~Stale(j)
  /\ Timely => \A p \in Procs, i \in Slots, j \in Jobs :
       slots[p][i].job = j /\ MayBeat(p, i, j) => rows[j].age < StaleAfter
  /\ rows' = [j \in Jobs |-> IF Held(j) /\ ~Stale(j)
                             THEN [rows[j] EXCEPT !.age = rows[j].age + 1] ELSE rows[j]]
  /\ UNCHANGED <<procs, slots, child, stops>>

-----------------------------------------------------------------------------

WorkerStep(p, i) ==
  \/ ClaimJob(p, i) \/ NothingToClaim(p, i) \/ MarkRunning(p, i)
  \/ Launch(p, i) \/ FinishJob(p, i) \/ LeaseLost(p, i)

ProcessStep(p) == StartWorkers(p) \/ RecoverStale(p) \/ EndRound(p)

Next ==
  \/ \E j \in Jobs : Enqueue(j)
  \/ \E p \in Procs : ProcessStep(p) \/ Stop(p)
  \/ \E p \in Procs, i \in Slots : WorkerStep(p, i) \/ Heartbeat(p, i)
  \/ \E j \in Jobs, n \in Attempts : ChildExits(j, n)
  \/ Tick

Spec == Init /\ [][Next]_vars

\* The event loop runs every ready worker, subprocesses end, time passes, and
\* the operator starts a process again whenever it has ended.
Fairness ==
  /\ \A p \in Procs : WF_vars(ProcessStep(p))
  /\ \A p \in Procs, i \in Slots : WF_vars(WorkerStep(p, i))
  /\ \A j \in Jobs, n \in Attempts : WF_vars(ChildExits(j, n))
  /\ WF_vars(Tick)

FairSpec == Spec /\ Fairness

-----------------------------------------------------------------------------
\* Properties

\* Every variable has its type.
TypeOK ==
  /\ rows \in [Jobs -> Rows]
  /\ procs \in [Procs -> {"down", "starting", "working"}]
  /\ slots \in [Procs -> [Slots -> SlotStates]]
  /\ child \in [Jobs -> [Attempts -> ChildStates]]
  /\ stops \in 0..MaxStops

\* A job ends for a reason the table can show: the outcome is the exit of the
\* subprocess of its last attempt, never of a worker that lost its lease
\* meanwhile, and only a job with no attempt left is interrupted.
EndsForAReason ==
  \A j \in Jobs :
    LET row == rows[j] IN
    /\ row.status \in {"succeeded", "failed"} => row.attempts \in Attempts
    /\ row.status = "succeeded" => child[j][row.attempts] = "ok"
    /\ row.status = "failed" => child[j][row.attempts] = "bad"
    /\ row.status = "interrupted" => row.attempts = MaxAttempts

\* mark_running pays for every subprocess with an attempt of its own, whoever
\* takes the job over in between, so a job renders max_attempts times at most.
OneRenderPerAttempt ==
  \A j \in Jobs, n \in Attempts :
    /\ child[j][n] # "twice"
    /\ child[j][n] # "none" => n <= rows[j].attempts

\* Nothing rewrites a row that has ended: not the late finish of a worker whose
\* job was interrupted, not a recovery, not another enqueue of the key.
EndedJobsStayEnded ==
  [][\A j \in Jobs : rows[j].status \in Terminal => rows'[j] = rows[j]]_vars

\* With heartbeats on time and no orphaned subprocess, two subprocesses never
\* render the same job at once.
OneRenderAtATime ==
  \A j \in Jobs, n, m \in Attempts :
    child[j][n] = "live" /\ child[j][m] = "live" => n = m

\* Every accepted job ends, however often its workers are lost.
JobsSettle == \A j \in Jobs : rows[j].status # "absent" ~> rows[j].status \in Terminal

-----------------------------------------------------------------------------
\* Whether a worker holds a job does not matter to whoever waits for it.
StateOf(j) ==
  IF rows[j].status \in {"queued", "claimed", "running"} THEN "open" ELSE rows[j].status

Contract ==
  INSTANCE RenderJobs WITH
    state <- [j \in Jobs |-> StateOf(j)],
    charged <- [j \in Jobs |-> rows[j].attempts],
    render <- child

\* Through stale leases, takeovers, late launches and stops a job is accepted and
\* ends once, each of its renders is one it was charged for, and it ends with the
\* result of the last of them (enqueue, mark_running, finish, recover_stale).
ImplementsJobs == Contract!JobSpec
=============================================================================
