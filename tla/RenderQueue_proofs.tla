------------------------- MODULE RenderQueue_proofs -------------------------
(***************************************************************************)
(* Proofs about RenderQueue for every number of jobs, processes, workers,  *)
(* attempts and stops.  What a step does to the slots is summarised by     *)
(* SlotMoved, Cleared and the equation slots' = slots, what it does to the *)
(* table by RowWritten and by equations on the rows.                       *)
(***************************************************************************)
EXTENDS RenderQueue, FiniteSetTheorems, TLAPS

SlotTable == [Procs -> [Slots -> SlotStates]]

SlotMoved(p, i, s) ==
  /\ slots' \in SlotTable
  /\ slots'[p][i] = s
  /\ \A q \in Procs, k \in Slots : q # p \/ k # i => slots'[q][k] = slots[q][k]

Cleared(p, s) ==
  /\ slots' \in SlotTable
  /\ \A k \in Slots : slots'[p][k] = s
  /\ \A q \in Procs, k \in Slots : q # p => slots'[q][k] = slots[q][k]

RowWritten(j, row) ==
  /\ rows' \in [Jobs -> Rows]
  /\ rows'[j] = row
  /\ \A k \in Jobs : k # j => rows'[k] = rows[k]

LEMMA SlotUpdate ==
  ASSUME slots \in SlotTable, NEW p \in Procs, NEW i \in Slots, NEW s \in SlotStates,
         slots' = [slots EXCEPT ![p][i] = s]
  PROVE  SlotMoved(p, i, s)
BY DEF SlotMoved, SlotTable

LEMMA ProcessUpdate ==
  ASSUME slots \in SlotTable, NEW p \in Procs, NEW s \in SlotStates,
         slots' = [slots EXCEPT ![p] = [k \in Slots |-> s]]
  PROVE  Cleared(p, s)
BY DEF Cleared, SlotTable

LEMMA RowUpdate ==
  ASSUME rows \in [Jobs -> Rows], NEW j \in Jobs, NEW row \in Rows,
         rows' = [rows EXCEPT ![j] = row]
  PROVE  RowWritten(j, row)
BY DEF RowWritten

LEMMA Constants ==
  /\ Off \in SlotStates /\ Ready \in SlotStates /\ Absent \in Rows
  /\ \A p \in Procs, i \in Slots : WorkerId(p, i) \in Slots \X Nat
BY QueueAssumption DEF Off, Ready, Absent, SlotStates, Rows, QUEUE_STATES, WorkerId

(* Updates of a row and of a slot stay in their types.                       *)
Claimed(row, w) == [row EXCEPT !.status = "claimed", !.age = 0, !.worker = w]
Marked(row) == [row EXCEPT !.status = "running", !.age = 0, !.attempts = row.attempts + 1]
Moved(slot, point, n) == [slot EXCEPT !.at = point, !.attempt = n]

LEMMA RowTypes ==
  ASSUME NEW row \in Rows
  PROVE  /\ \A w \in Slots \X Nat : Claimed(row, w) \in Rows
         /\ row.attempts < MaxAttempts => Marked(row) \in Rows /\ row.attempts + 1 \in Attempts
         /\ Recovered(row) \in Rows
         /\ [row EXCEPT !.age = 0] \in Rows
         /\ row.age <= StaleAfter => [row EXCEPT !.age = row.age + 1] \in Rows
         /\ \A s \in QUEUE_STATES : [row EXCEPT !.status = s] \in Rows
<1> DEFINE A == 0..(StaleAfter + 1)
           T == 0..MaxAttempts
           Q == QUEUE_STATES \cup {"absent"}
           W == (Slots \X Nat) \cup {NoWorker}
<1>1. 0 \in A /\ row.age \in A /\ row.attempts \in T /\ row.status \in Q /\ row.worker \in W
  BY QueueAssumption DEF Rows
<1>2. row.age <= StaleAfter => row.age + 1 \in A
  BY <1>1, QueueAssumption
<1>3. row.attempts < MaxAttempts => row.attempts + 1 \in T /\ row.attempts + 1 \in Attempts
  BY <1>1, QueueAssumption DEF Attempts
<1>4. Rows = [status : Q, worker : W, age : A, attempts : T, created : Nat]
  BY DEF Rows
<1>5. {"queued", "claimed", "running", "interrupted"} \subseteq Q /\ QUEUE_STATES \subseteq Q
  BY DEF QUEUE_STATES
<1>6. Slots \X Nat \subseteq W /\ NoWorker \in W
  OBVIOUS
<1> HIDE DEF A, T, Q, W
<1>7. \A w \in Slots \X Nat : Claimed(row, w) \in Rows
  BY <1>1, <1>4, <1>5, <1>6 DEF Claimed
<1>8. row.attempts < MaxAttempts => Marked(row) \in Rows /\ row.attempts + 1 \in Attempts
  BY <1>1, <1>3, <1>4, <1>5 DEF Marked
<1>9. Recovered(row) \in Rows
  BY <1>1, <1>4, <1>5, <1>6 DEF Recovered
<1>10. [row EXCEPT !.age = 0] \in Rows
  BY <1>1, <1>4
<1>11. row.age <= StaleAfter => [row EXCEPT !.age = row.age + 1] \in Rows
  BY <1>2, <1>4
<1>12. \A s \in QUEUE_STATES : [row EXCEPT !.status = s] \in Rows
  BY <1>4, <1>5
<1> QED BY <1>7, <1>8, <1>9, <1>10, <1>11, <1>12

LEMMA SlotTypes ==
  /\ \A slot \in SlotStates, n \in Attempts, point \in {"marked", "rendering"} :
       Moved(slot, point, n) \in SlotStates
  /\ \A j \in Jobs : [Off EXCEPT !.at = "claimed", !.job = j] \in SlotStates
<1> DEFINE T == 0..MaxAttempts
           P == {"off", "ready", "claimed", "marked", "rendering", "done", "empty"}
           J == Jobs \cup {NoJob}
<1>1. Attempts \subseteq T /\ 0 \in T
  BY QueueAssumption DEF Attempts
<1>2. SlotStates = [at : P, job : J, attempt : T]
  BY DEF SlotStates
<1>3. {"marked", "rendering", "claimed"} \subseteq P /\ Jobs \subseteq J /\ NoJob \in J
  OBVIOUS
<1> HIDE DEF T, P, J
<1> QED BY <1>1, <1>2, <1>3 DEF Moved, Off

Active(p, i) == slots[p][i].at \in {"claimed", "marked", "rendering"}
Charged(p, i) == slots[p][i].at \in {"marked", "rendering"}
SlotJob(p, i) == slots[p][i].job
SlotAttempt(p, i) == slots[p][i].attempt

(* A worker past mark_running holds a paid attempt, and its subprocess is    *)
(* there exactly from the launch on.                                         *)
Working ==
  \A p \in Procs, i \in Slots :
    /\ Active(p, i) => SlotJob(p, i) \in Jobs
    /\ Charged(p, i) =>
         /\ SlotAttempt(p, i) \in Attempts
         /\ SlotAttempt(p, i) <= rows[SlotJob(p, i)].attempts
         /\ slots[p][i].at = "marked" <=> child[SlotJob(p, i)][SlotAttempt(p, i)] = "none"

(* No two workers hold the same attempt of the same job.                     *)
OwnAttempt ==
  \A p, q \in Procs, i, k \in Slots :
    /\ Charged(p, i) /\ Charged(q, k)
    /\ SlotJob(p, i) = SlotJob(q, k) /\ SlotAttempt(p, i) = SlotAttempt(q, k)
    => p = q /\ i = k

(* What is claimed has an attempt left; a key nobody enqueued has used none. *)
Room ==
  \A j \in Jobs : /\ rows[j].status = "claimed" => rows[j].attempts < MaxAttempts
                  /\ rows[j].status = "absent" => rows[j].attempts = 0

Inv == TypeOK /\ Working /\ OwnAttempt /\ OneRenderPerAttempt /\ Room

-----------------------------------------------------------------------------
LEMMA EnqueueWrites ==
  ASSUME TypeOK, NEW j \in Jobs, Enqueue(j)
  PROVE  \E t \in Nat : RowWritten(j, [Absent EXCEPT !.status = "queued", !.created = t])
<1>1. CreationTimes \subseteq Nat
  <2>1. IsFiniteSet(Enqueued)
    BY QueueAssumption, FS_Subset DEF Enqueued
  <2>2. Cardinality(Enqueued) \in Nat
    BY <2>1, FS_CardinalityType
  <2> QED BY <2>2 DEF CreationTimes, TypeOK, Rows, Enqueued
<1>2. PICK t \in Nat : rows' = [rows EXCEPT ![j] = [Absent EXCEPT !.status = "queued", !.created = t]]
  BY <1>1 DEF Enqueue
<1>3. [Absent EXCEPT !.status = "queued", !.created = t] \in Rows
  BY Constants DEF Rows, QUEUE_STATES
<1> QED BY <1>2, <1>3, RowUpdate DEF TypeOK

LEMMA RecoverWrites ==
  ASSUME TypeOK, NEW p \in Procs, RecoverStale(p)
  PROVE  /\ rows' \in [Jobs -> Rows]
         /\ \A j \in Jobs : rows'[j] = IF Stale(j) THEN Recovered(rows[j]) ELSE rows[j]
         /\ Cleared(p, Ready)
<1>1. \A j \in Jobs : Recovered(rows[j]) \in Rows
  BY RowTypes DEF TypeOK
<1>2. Cleared(p, Ready)
  BY ProcessUpdate, Constants DEF RecoverStale, TypeOK, SlotTable
<1> QED BY <1>1, <1>2 DEF RecoverStale, TypeOK

LEMMA ClaimWrites ==
  ASSUME TypeOK, NEW p \in Procs, NEW i \in Slots, ClaimJob(p, i)
  PROVE  \E j \in Jobs :
           /\ Claimable(j)
           /\ RowWritten(j, Claimed(rows[j], WorkerId(p, i)))
           /\ SlotMoved(p, i, [Off EXCEPT !.at = "claimed", !.job = j])
<1>1. PICK j \in Jobs :
        /\ Claimable(j)
        /\ rows' = [rows EXCEPT ![j] = [@ EXCEPT !.status = "claimed", !.age = 0, !.worker = WorkerId(p, i)]]
        /\ slots' = [slots EXCEPT ![p][i] = [Off EXCEPT !.at = "claimed", !.job = j]]
  BY DEF ClaimJob
<1>2. rows' = [rows EXCEPT ![j] = Claimed(rows[j], WorkerId(p, i))]
  BY <1>1 DEF Claimed, TypeOK
<1>3. Claimed(rows[j], WorkerId(p, i)) \in Rows
  BY Constants, RowTypes DEF TypeOK
<1>4. RowWritten(j, Claimed(rows[j], WorkerId(p, i)))
  BY <1>2, <1>3, RowUpdate DEF TypeOK
<1>5. [Off EXCEPT !.at = "claimed", !.job = j] \in SlotStates
  BY SlotTypes
<1>6. SlotMoved(p, i, [Off EXCEPT !.at = "claimed", !.job = j])
  BY <1>1, <1>5, SlotUpdate DEF TypeOK, SlotTable
<1> QED BY <1>1, <1>4, <1>6

LEMMA MarkWrites ==
  ASSUME Inv, NEW p \in Procs, NEW i \in Slots, MarkRunning(p, i)
  PROVE  /\ SlotJob(p, i) \in Jobs
         /\ rows[SlotJob(p, i)].attempts + 1 \in Attempts
         /\ RowWritten(SlotJob(p, i), Marked(rows[SlotJob(p, i)]))
         /\ SlotMoved(p, i, Moved(slots[p][i], "marked", rows[SlotJob(p, i)].attempts + 1))
<1> DEFINE j == SlotJob(p, i)
<1>1. j \in Jobs /\ rows[j].status = "claimed"
  BY DEF Inv, Working, Active, SlotJob, MarkRunning, MayMark
<1>2. rows[j].attempts < MaxAttempts /\ rows[j] \in Rows /\ slots[p][i] \in SlotStates
  BY <1>1 DEF Inv, Room, TypeOK
<1>3. rows[j].attempts + 1 \in Attempts /\ Marked(rows[j]) \in Rows
  BY <1>2, RowTypes
<1>4. Moved(slots[p][i], "marked", rows[j].attempts + 1) \in SlotStates
  BY <1>1, <1>2, <1>3, SlotTypes
<1>5. rows' = [rows EXCEPT ![j] = Marked(rows[j])]
  BY <1>1, <1>2 DEF MarkRunning, SlotJob, Marked
<1>6. slots' = [slots EXCEPT ![p][i] = Moved(slots[p][i], "marked", rows[j].attempts + 1)]
  BY DEF MarkRunning, SlotJob, Moved, Inv, TypeOK
<1>7. RowWritten(j, Marked(rows[j]))
  BY <1>1, <1>3, <1>5, RowUpdate DEF Inv, TypeOK
<1>8. SlotMoved(p, i, Moved(slots[p][i], "marked", rows[j].attempts + 1))
  BY <1>4, <1>6, SlotUpdate DEF Inv, TypeOK, SlotTable
<1> QED BY <1>1, <1>3, <1>7, <1>8

ChildTable == [Jobs -> [Attempts -> ChildStates]]

ChildSet(j, n, c) ==
  /\ child' \in ChildTable
  /\ child'[j][n] = c
  /\ \A k \in Jobs, m \in Attempts : k # j \/ m # n => child'[k][m] = child[k][m]

LEMMA ChildUpdate ==
  ASSUME child \in ChildTable, NEW j \in Jobs, NEW n \in Attempts, NEW c \in ChildStates,
         child' = [child EXCEPT ![j][n] = c]
  PROVE  ChildSet(j, n, c)
BY DEF ChildSet, ChildTable

LEMMA LaunchWrites ==
  ASSUME Inv, NEW p \in Procs, NEW i \in Slots, Launch(p, i)
  PROVE  /\ SlotJob(p, i) \in Jobs /\ SlotAttempt(p, i) \in Attempts
         /\ child[SlotJob(p, i)][SlotAttempt(p, i)] = "none"
         /\ ChildSet(SlotJob(p, i), SlotAttempt(p, i), "live")
         /\ SlotMoved(p, i, Moved(slots[p][i], "rendering", SlotAttempt(p, i)))
<1> DEFINE j == SlotJob(p, i)
           n == SlotAttempt(p, i)
<1>1. j \in Jobs /\ n \in Attempts /\ child[j][n] = "none" /\ slots[p][i] \in SlotStates
  BY DEF Inv, Working, Active, Charged, Launch, TypeOK
<1>2. child' = [child EXCEPT ![j][n] = "live"]
  BY <1>1 DEF Launch, SlotJob, SlotAttempt, Inv, TypeOK
<1>3. ChildSet(j, n, "live")
  BY <1>1, <1>2, ChildUpdate DEF Inv, TypeOK, ChildTable, ChildStates
<1>4. slots' = [slots EXCEPT ![p][i] = Moved(slots[p][i], "rendering", n)]
  BY <1>1 DEF Launch, SlotAttempt, Moved, SlotStates
<1>5. Moved(slots[p][i], "rendering", n) \in SlotStates
  BY <1>1, SlotTypes
<1>6. SlotMoved(p, i, Moved(slots[p][i], "rendering", n))
  BY <1>4, <1>5, SlotUpdate DEF Inv, TypeOK, SlotTable
<1> QED BY <1>1, <1>3, <1>6

LEMMA HeartbeatWrites ==
  ASSUME Inv, NEW p \in Procs, NEW i \in Slots, Heartbeat(p, i)
  PROVE  /\ SlotJob(p, i) \in Jobs /\ Held(SlotJob(p, i))
         /\ RowWritten(SlotJob(p, i), [rows[SlotJob(p, i)] EXCEPT !.age = 0])
<1> DEFINE j == SlotJob(p, i)
<1>1. j \in Jobs /\ Held(j) /\ rows[j] \in Rows
  BY DEF Inv, Working, Active, SlotJob, Heartbeat, MayBeat, TypeOK
<1>2. rows' = [rows EXCEPT ![j] = [rows[j] EXCEPT !.age = 0]]
  BY <1>1 DEF Heartbeat, SlotJob
<1> QED BY <1>1, <1>2, RowTypes, RowUpdate DEF Inv, TypeOK

LEMMA FinishWrites ==
  ASSUME Inv, NEW p \in Procs, NEW i \in Slots, FinishJob(p, i)
  PROVE  /\ SlotJob(p, i) \in Jobs /\ MayFinish(p, i, SlotJob(p, i))
         /\ slots[p][i].at = "rendering"
         /\ child[SlotJob(p, i)][SlotAttempt(p, i)] \in {"ok", "bad"}
         /\ RowWritten(SlotJob(p, i), [rows[SlotJob(p, i)] EXCEPT
              !.status = Outcome(SlotJob(p, i), SlotAttempt(p, i))])
         /\ SlotMoved(p, i, [Off EXCEPT !.at = "done"])
<1> DEFINE j == SlotJob(p, i)
           n == SlotAttempt(p, i)
<1>1. j \in Jobs /\ rows[j] \in Rows /\ Outcome(j, n) \in QUEUE_STATES
  BY DEF Inv, Working, Active, SlotJob, FinishJob, TypeOK, Outcome, QUEUE_STATES
<1>2. rows' = [rows EXCEPT ![j] = [rows[j] EXCEPT !.status = Outcome(j, n)]]
  BY <1>1 DEF FinishJob, SlotJob, SlotAttempt
<1>3. RowWritten(j, [rows[j] EXCEPT !.status = Outcome(j, n)])
  BY <1>1, <1>2, RowTypes, RowUpdate DEF Inv, TypeOK
<1>4. [Off EXCEPT !.at = "done"] \in SlotStates
  BY Constants DEF SlotStates
<1>5. SlotMoved(p, i, [Off EXCEPT !.at = "done"])
  BY <1>4, SlotUpdate DEF FinishJob, Inv, TypeOK, SlotTable
<1> QED BY <1>1, <1>3, <1>5 DEF FinishJob, SlotJob, SlotAttempt

LEMMA IdleWrites ==
  ASSUME TypeOK, NEW p \in Procs, NEW i \in Slots, NothingToClaim(p, i)
  PROVE  SlotMoved(p, i, [Off EXCEPT !.at = "empty"])
<1>1. [Off EXCEPT !.at = "empty"] \in SlotStates
  BY Constants DEF SlotStates
<1> QED BY <1>1, SlotUpdate DEF NothingToClaim, TypeOK, SlotTable

(* A process that unwinds ends some of its own live subprocesses, all of     *)
(* them when it takes them with it.                                          *)
LEMMA UnwindWrites ==
  ASSUME TypeOK, NEW p \in Procs, Unwind(p)
  PROVE  /\ Cleared(p, Off) /\ procs' \in [Procs -> {"down", "starting", "working"}]
         /\ child' \in ChildTable
         /\ \A j \in Jobs, n \in Attempts :
              \/ child'[j][n] = child[j][n]
              \/ child[j][n] = "live" /\ child'[j][n] = "bad"
         /\ KillsChildren => \A j \in Jobs, n \in Attempts :
              child'[j][n] = "live" => ~ \E i \in Slots :
                slots[p][i] = [at |-> "rendering", job |-> j, attempt |-> n]
<1>1. PICK killed \in SUBSET Slots :
       /\ KillsChildren => killed = Slots
       /\ child' = [j \in Jobs |-> [n \in Attempts |->
            IF child[j][n] = "live" /\ \E i \in killed :
                 slots[p][i] = [at |-> "rendering", job |-> j, attempt |-> n]
            THEN "bad" ELSE child[j][n]]]
  BY DEF Unwind
<1>2. Cleared(p, Off)
  BY ProcessUpdate, Constants DEF Unwind, TypeOK, SlotTable
<1>3. procs' \in [Procs -> {"down", "starting", "working"}]
  BY DEF Unwind, TypeOK
<1>4. child' \in ChildTable
  BY <1>1 DEF TypeOK, ChildTable, ChildStates
<1> QED BY <1>1, <1>2, <1>3, <1>4

LEMMA ExitWrites ==
  ASSUME TypeOK, NEW j \in Jobs, NEW n \in Attempts, ChildExits(j, n)
  PROVE  child[j][n] = "live" /\ \E rc \in {"ok", "bad"} : ChildSet(j, n, rc)
BY ChildUpdate DEF ChildExits, TypeOK, ChildTable, ChildStates

LEMMA TickWrites ==
  ASSUME TypeOK, Tick
  PROVE  /\ rows' \in [Jobs -> Rows]
         /\ \A j \in Jobs : \/ rows'[j] = rows[j]
                            \/ /\ Held(j) /\ rows[j].age <= StaleAfter
                               /\ rows'[j] = [rows[j] EXCEPT !.age = rows[j].age + 1]
<1>1. \A j \in Jobs : Held(j) /\ ~Stale(j) => rows[j].age <= StaleAfter
  BY QueueAssumption DEF Stale, TypeOK, Rows
<1>2. \A j \in Jobs : Held(j) /\ ~Stale(j) =>
        [rows[j] EXCEPT !.age = rows[j].age + 1] \in Rows
  BY <1>1, RowTypes DEF TypeOK
<1>3. rows' \in [Jobs -> Rows]
  BY <1>2 DEF Tick, TypeOK
<1> QED BY <1>1, <1>3 DEF Tick

-----------------------------------------------------------------------------
(* Most steps buy no attempt and launch nothing: workers only leave, or claim. *)
Uncharged ==
  /\ \A j \in Jobs : rows'[j].attempts = rows[j].attempts
  /\ \A j \in Jobs, n \in Attempts :
       \/ child'[j][n] = child[j][n]
       \/ child[j][n] = "live" /\ child'[j][n] \in {"ok", "bad"}
  /\ \A p \in Procs, i \in Slots :
       \/ slots'[p][i] = slots[p][i]
       \/ /\ slots'[p][i].at \notin {"marked", "rendering"}
          /\ slots'[p][i].at = "claimed" => slots'[p][i].job \in Jobs

LEMMA UnchargedKeeps ==
  ASSUME Inv, Uncharged
  PROVE  Working' /\ OwnAttempt' /\ OneRenderPerAttempt'
<1>1. ASSUME NEW p \in Procs, NEW i \in Slots, Charged(p, i)'
      PROVE  slots'[p][i] = slots[p][i] /\ Charged(p, i)
  BY <1>1 DEF Uncharged, Charged
<1>2. OneRenderPerAttempt'
  BY DEF Inv, Uncharged, OneRenderPerAttempt
<1>3. Working'
  <2> SUFFICES ASSUME NEW p \in Procs, NEW i \in Slots
               PROVE  /\ Active(p, i)' => SlotJob(p, i)' \in Jobs
                      /\ Charged(p, i)' =>
                           /\ SlotAttempt(p, i)' \in Attempts
                           /\ SlotAttempt(p, i)' <= rows'[SlotJob(p, i)'].attempts
                           /\ slots'[p][i].at = "marked" <=>
                                child'[SlotJob(p, i)'][SlotAttempt(p, i)'] = "none"
    BY DEF Working
  <2>1. Active(p, i)' => SlotJob(p, i)' \in Jobs
    BY DEF Inv, Uncharged, Working, Active, SlotJob
  <2>2. CASE Charged(p, i)'
    <3>1. slots'[p][i] = slots[p][i] /\ Charged(p, i)
      BY <1>1, <2>2
    <3>2. SlotJob(p, i) \in Jobs /\ SlotAttempt(p, i) \in Attempts
      BY <3>1 DEF Inv, Working, Charged, Active
    <3>3. SlotJob(p, i)' = SlotJob(p, i) /\ SlotAttempt(p, i)' = SlotAttempt(p, i)
      BY <3>1 DEF SlotJob, SlotAttempt
    <3> QED BY <2>1, <3>1, <3>2, <3>3 DEF Inv, Working, Uncharged
  <2> QED BY <2>1, <2>2
<1>4. OwnAttempt'
  BY <1>1 DEF Inv, OwnAttempt, SlotJob, SlotAttempt
<1> QED BY <1>2, <1>3, <1>4

LEMMA MarkKeeps ==
  ASSUME Inv, NEW p \in Procs, NEW i \in Slots, MarkRunning(p, i)
  PROVE  Working' /\ OwnAttempt' /\ OneRenderPerAttempt'
<1> DEFINE j == SlotJob(p, i)
           a == rows[j].attempts
<1>1. /\ j \in Jobs /\ a + 1 \in Attempts /\ a \in Nat /\ child' = child
      /\ RowWritten(j, Marked(rows[j]))
      /\ SlotMoved(p, i, Moved(slots[p][i], "marked", a + 1))
  <2>1. /\ j \in Jobs /\ a + 1 \in Attempts
        /\ RowWritten(j, Marked(rows[j]))
        /\ SlotMoved(p, i, Moved(slots[p][i], "marked", a + 1))
    BY MarkWrites
  <2>2. a \in Nat /\ child' = child
    BY <2>1, QueueAssumption DEF MarkRunning, Inv, TypeOK, Rows
  <2> QED BY <2>1, <2>2
<1>2. rows'[j].attempts = a + 1 /\ \A k \in Jobs : k # j => rows'[k] = rows[k]
  BY <1>1 DEF RowWritten, Marked, Inv, TypeOK, Rows
<1>3. slots'[p][i].at = "marked" /\ slots'[p][i].job = j /\ slots'[p][i].attempt = a + 1
  BY <1>1 DEF SlotMoved, Moved, Inv, TypeOK, SlotStates, SlotJob
<1>4. \A q \in Procs, k \in Slots : q # p \/ k # i => slots'[q][k] = slots[q][k]
  BY <1>1 DEF SlotMoved
<1>5. child[j][a + 1] = "none"
  BY <1>1 DEF Inv, OneRenderPerAttempt
<1>6. \A k \in Jobs, n \in Attempts : n <= rows[k].attempts => n <= rows'[k].attempts
  BY <1>1, <1>2 DEF Attempts
<1>7. OneRenderPerAttempt'
  BY <1>1, <1>6 DEF Inv, OneRenderPerAttempt
<1>8. ASSUME NEW q \in Procs, NEW k \in Slots, q # p \/ k # i
      PROVE  /\ slots'[q][k] = slots[q][k]
             /\ Active(q, k) => SlotJob(q, k) \in Jobs
             /\ Charged(q, k) => /\ SlotJob(q, k) \in Jobs /\ SlotAttempt(q, k) \in Attempts
                                 /\ SlotAttempt(q, k) <= rows[SlotJob(q, k)].attempts
                                 /\ SlotAttempt(q, k) <= rows'[SlotJob(q, k)].attempts
  BY <1>4, <1>6, <1>8 DEF Inv, Working, Active, Charged
<1>9. Working'
  <2> SUFFICES ASSUME NEW q \in Procs, NEW k \in Slots
               PROVE  /\ Active(q, k)' => SlotJob(q, k)' \in Jobs
                      /\ Charged(q, k)' =>
                           /\ SlotAttempt(q, k)' \in Attempts
                           /\ SlotAttempt(q, k)' <= rows'[SlotJob(q, k)'].attempts
                           /\ slots'[q][k].at = "marked" <=>
                                child'[SlotJob(q, k)'][SlotAttempt(q, k)'] = "none"
    BY DEF Working
  <2>1. CASE q = p /\ k = i
    <3>1. slots'[q][k].job = j /\ slots'[q][k].attempt = a + 1 /\ slots'[q][k].at = "marked"
      BY <1>3, <2>1
    <3>2. /\ j \in Jobs /\ a + 1 \in Attempts
          /\ a + 1 <= rows'[j].attempts /\ child'[j][a + 1] = "none"
      BY <1>1, <1>2, <1>5
    <3> HIDE DEF j, a
    <3>3. SlotJob(q, k)' = j /\ SlotAttempt(q, k)' = a + 1
      BY <3>1 DEF SlotJob, SlotAttempt
    <3> QED BY <3>1, <3>2, <3>3
  <2>2. CASE q # p \/ k # i
    <3>1. slots'[q][k] = slots[q][k]
      BY <1>8, <2>2
    <3>2. /\ SlotJob(q, k)' = SlotJob(q, k) /\ SlotAttempt(q, k)' = SlotAttempt(q, k)
          /\ Active(q, k)' = Active(q, k) /\ Charged(q, k)' = Charged(q, k)
      BY <3>1 DEF SlotJob, SlotAttempt, Active, Charged
    <3>3. Charged(q, k) => (slots[q][k].at = "marked"
                              <=> child[SlotJob(q, k)][SlotAttempt(q, k)] = "none")
      BY DEF Inv, Working
    <3> QED BY <1>1, <1>8, <2>2, <3>1, <3>2, <3>3
  <2> QED BY <2>1, <2>2
<1>10. OwnAttempt'
  <2>1. ASSUME NEW q \in Procs, NEW k \in Slots, q # p \/ k # i, Charged(q, k)',
               slots'[q][k].job = j
        PROVE  slots'[q][k].attempt # a + 1
    BY <1>1, <1>8, <2>1 DEF Charged, SlotJob, SlotAttempt, Attempts
  <2>2. ASSUME NEW q \in Procs, NEW k \in Slots, NEW r \in Procs, NEW l \in Slots,
               Charged(q, k)', Charged(r, l)', SlotJob(q, k)' = SlotJob(r, l)',
               SlotAttempt(q, k)' = SlotAttempt(r, l)'
        PROVE  q = r /\ k = l
    <3>1. CASE (q = p /\ k = i) \/ (r = p /\ l = i)
      BY <1>3, <2>1, <2>2, <3>1 DEF SlotJob, SlotAttempt
    <3>2. CASE (q # p \/ k # i) /\ (r # p \/ l # i)
      BY <1>4, <2>2, <3>2 DEF Inv, OwnAttempt, Charged, SlotJob, SlotAttempt
    <3> QED BY <3>1, <3>2
  <2> QED BY <2>2 DEF OwnAttempt
<1> QED BY <1>7, <1>9, <1>10

LEMMA LaunchKeeps ==
  ASSUME Inv, NEW p \in Procs, NEW i \in Slots, Launch(p, i)
  PROVE  Working' /\ OwnAttempt' /\ OneRenderPerAttempt'
<1> DEFINE j == SlotJob(p, i)
           n == SlotAttempt(p, i)
<1>1. /\ j \in Jobs /\ n \in Attempts /\ Charged(p, i) /\ rows' = rows
      /\ ChildSet(j, n, "live")
      /\ SlotMoved(p, i, Moved(slots[p][i], "rendering", n))
  BY LaunchWrites DEF Launch, Charged
<1>2. slots'[p][i].at = "rendering" /\ slots'[p][i].job = j /\ slots'[p][i].attempt = n
  BY <1>1 DEF SlotMoved, Moved, Inv, TypeOK, SlotStates, SlotJob
<1>3. \A q \in Procs, k \in Slots : q # p \/ k # i => slots'[q][k] = slots[q][k]
  BY <1>1 DEF SlotMoved
<1>4. n <= rows[j].attempts
  BY <1>1 DEF Inv, Working
<1>5. \A q \in Procs, k \in Slots : Charged(q, k)' =>
        /\ Charged(q, k) /\ SlotJob(q, k)' = SlotJob(q, k) /\ SlotAttempt(q, k)' = SlotAttempt(q, k)
  BY <1>1, <1>2, <1>3 DEF Charged, SlotJob, SlotAttempt
<1>6. OwnAttempt'
  BY <1>5 DEF Inv, OwnAttempt
<1>7. OneRenderPerAttempt'
  BY <1>1, <1>4 DEF Inv, OneRenderPerAttempt, ChildSet
<1>8. Working'
  <2> SUFFICES ASSUME NEW q \in Procs, NEW k \in Slots
               PROVE  /\ Active(q, k)' => SlotJob(q, k)' \in Jobs
                      /\ Charged(q, k)' =>
                           /\ SlotAttempt(q, k)' \in Attempts
                           /\ SlotAttempt(q, k)' <= rows'[SlotJob(q, k)'].attempts
                           /\ slots'[q][k].at = "marked" <=>
                                child'[SlotJob(q, k)'][SlotAttempt(q, k)'] = "none"
    BY DEF Working
  <2>1. CASE q = p /\ k = i
    BY <1>1, <1>2, <1>4, <2>1 DEF SlotJob, SlotAttempt, ChildSet
  <2>2. CASE q # p \/ k # i
    <3>1. slots'[q][k] = slots[q][k]
      BY <1>3, <2>2
    <3>2. Active(q, k)' => SlotJob(q, k)' \in Jobs
      BY <3>1 DEF Inv, Working, Active, SlotJob
    <3>3. Charged(q, k) => SlotJob(q, k) # j \/ SlotAttempt(q, k) # n
      BY <1>1, <2>2 DEF Inv, OwnAttempt
    <3>4. Charged(q, k) => /\ SlotJob(q, k) \in Jobs /\ SlotAttempt(q, k) \in Attempts
                           /\ SlotAttempt(q, k) <= rows[SlotJob(q, k)].attempts
                           /\ slots[q][k].at = "marked" <=>
                                child[SlotJob(q, k)][SlotAttempt(q, k)] = "none"
      BY DEF Inv, Working, Charged, Active
    <3>5. Charged(q, k) => child'[SlotJob(q, k)][SlotAttempt(q, k)] = child[SlotJob(q, k)][SlotAttempt(q, k)]
      BY <1>1, <3>3, <3>4 DEF ChildSet
    <3> QED BY <1>1, <1>5, <3>1, <3>2, <3>4, <3>5
  <2> QED BY <2>1, <2>2
<1> QED BY <1>6, <1>7, <1>8

-----------------------------------------------------------------------------
(* Every other step is uncharged, and every step keeps the types and Room.   *)
LEMMA TableSteps ==
  ASSUME Inv, NEW j \in Jobs, Enqueue(j)
  PROVE  TypeOK' /\ Room' /\ Uncharged
<1>1. PICK t \in Nat : RowWritten(j, [Absent EXCEPT !.status = "queued", !.created = t])
  BY EnqueueWrites DEF Inv
<1>2. rows'[j].status = "queued" /\ rows'[j].attempts = 0 /\ rows[j].attempts = 0
  BY <1>1 DEF RowWritten, Absent, Enqueue, Inv, Room
<1>3. TypeOK'
  BY <1>1 DEF RowWritten, Inv, TypeOK, Enqueue
<1>4. Room'
  BY <1>1, <1>2 DEF RowWritten, Inv, Room
<1>5. Uncharged
  BY <1>1, <1>2 DEF RowWritten, Enqueue, Uncharged
<1> QED BY <1>3, <1>4, <1>5

LEMMA TickStep ==
  ASSUME Inv, Tick
  PROVE  TypeOK' /\ Room' /\ Uncharged
<1>1. rows' \in [Jobs -> Rows]
  BY TickWrites DEF Inv
<1>2. \A j \in Jobs : rows'[j].status = rows[j].status /\ rows'[j].attempts = rows[j].attempts
  <2> SUFFICES ASSUME NEW j \in Jobs
               PROVE  rows'[j].status = rows[j].status /\ rows'[j].attempts = rows[j].attempts
    OBVIOUS
  <2>1. rows'[j] = rows[j] \/ rows'[j] = [rows[j] EXCEPT !.age = rows[j].age + 1]
    BY TickWrites DEF Inv
  <2>2. rows[j] \in Rows
    BY DEF Inv, TypeOK
  <2> QED BY <2>1, <2>2 DEF Rows
<1>3. TypeOK'
  BY <1>1 DEF Inv, TypeOK, Tick
<1>4. Room' /\ Uncharged
  BY <1>2 DEF Inv, Room, Uncharged, Tick
<1> QED BY <1>3, <1>4

LEMMA RecoverStep ==
  ASSUME Inv, NEW p \in Procs, RecoverStale(p)
  PROVE  TypeOK' /\ Room' /\ Uncharged
<1>1. /\ rows' \in [Jobs -> Rows] /\ Cleared(p, Ready)
      /\ \A j \in Jobs : rows'[j] = IF Stale(j) THEN Recovered(rows[j]) ELSE rows[j]
  BY RecoverWrites DEF Inv
<1>2. \A j \in Jobs : rows'[j] = rows[j] \/ /\ rows'[j].status \in {"queued", "interrupted"}
                                            /\ rows'[j].attempts = rows[j].attempts
  BY ZenonT(30), <1>1 DEF Recovered, Inv, TypeOK, Rows
<1>3. TypeOK'
  BY <1>1 DEF Cleared, SlotTable, Inv, TypeOK, RecoverStale
<1>4. Room'
  BY <1>2 DEF Inv, Room
<1>5. Uncharged
  BY <1>1, <1>2 DEF Cleared, Ready, Off, Uncharged, RecoverStale
<1> QED BY <1>3, <1>4, <1>5

LEMMA ProcessSteps ==
  ASSUME Inv, NEW p \in Procs, StartWorkers(p) \/ EndRound(p)
  PROVE  TypeOK' /\ Room' /\ Uncharged
<1>1. CASE StartWorkers(p)
  BY <1>1 DEF StartWorkers, Inv, TypeOK, Room, Uncharged
<1>2. CASE EndRound(p)
  <2>1. Cleared(p, Off)
    BY ZenonT(30), <1>2, ProcessUpdate, Constants DEF EndRound, Inv, TypeOK, SlotTable
  <2>2. TypeOK'
    BY <1>2, <2>1 DEF EndRound, Cleared, SlotTable, Inv, TypeOK
  <2> QED BY <1>2, <2>1, <2>2 DEF EndRound, Cleared, Off, Inv, Room, Uncharged
<1> QED BY <1>1, <1>2

LEMMA UnwindSteps ==
  ASSUME Inv, NEW p \in Procs, Stop(p) \/ \E i \in Slots : LeaseLost(p, i)
  PROVE  TypeOK' /\ Room' /\ Uncharged /\ Unwind(p)
<1>1. Unwind(p) /\ stops' \in 0..MaxStops
  BY QueueAssumption DEF Stop, LeaseLost, Inv, TypeOK
<1>2. /\ Cleared(p, Off) /\ procs' \in [Procs -> {"down", "starting", "working"}]
      /\ child' \in ChildTable
      /\ \A j \in Jobs, n \in Attempts :
              \/ child'[j][n] = child[j][n]
              \/ child[j][n] = "live" /\ child'[j][n] = "bad"
  BY <1>1, UnwindWrites DEF Inv
<1>3. rows' = rows
  BY <1>1 DEF Unwind
<1>4. TypeOK'
  BY <1>1, <1>2, <1>3 DEF Cleared, SlotTable, ChildTable, Inv, TypeOK
<1>5. Room' /\ Uncharged
  BY <1>2, <1>3 DEF Cleared, Off, Inv, Room, Uncharged
<1> QED BY <1>1, <1>4, <1>5

LEMMA WorkerSteps ==
  ASSUME Inv, NEW p \in Procs, NEW i \in Slots,
         ClaimJob(p, i) \/ NothingToClaim(p, i) \/ Heartbeat(p, i) \/ FinishJob(p, i)
  PROVE  TypeOK' /\ Room' /\ Uncharged
<1>1. CASE ClaimJob(p, i)
  <2>1. PICK j \in Jobs :
           /\ Claimable(j)
           /\ RowWritten(j, Claimed(rows[j], WorkerId(p, i)))
           /\ SlotMoved(p, i, [Off EXCEPT !.at = "claimed", !.job = j])
    BY <1>1, ClaimWrites DEF Inv
  <2>2. rows'[j].status = "claimed" /\ rows'[j].attempts = rows[j].attempts
    BY <2>1 DEF RowWritten, Claimed, Inv, TypeOK, Rows
  <2>3. TypeOK'
    BY <1>1, <2>1 DEF RowWritten, SlotMoved, SlotTable, ClaimJob, Inv, TypeOK
  <2>4. Room'
    BY <2>1, <2>2 DEF RowWritten, Claimable, Inv, Room
  <2>5. Uncharged
    <3>1. slots'[p][i].at = "claimed" /\ slots'[p][i].job = j
      BY <2>1 DEF SlotMoved, Off
    <3>2. \A q \in Procs, k \in Slots : slots'[q][k] = slots[q][k] \/ (q = p /\ k = i)
      BY <2>1 DEF SlotMoved
    <3>3. \A k \in Jobs : rows'[k].attempts = rows[k].attempts
      BY <2>1, <2>2 DEF RowWritten
    <3> QED BY <1>1, <3>1, <3>2, <3>3 DEF ClaimJob, Uncharged
  <2> QED BY <2>3, <2>4, <2>5
<1>2. CASE NothingToClaim(p, i)
  <2>1. SlotMoved(p, i, [Off EXCEPT !.at = "empty"])
    BY <1>2, IdleWrites DEF Inv
  <2>2. TypeOK'
    BY <1>2, <2>1 DEF SlotMoved, SlotTable, NothingToClaim, Inv, TypeOK
  <2> QED BY <1>2, <2>1, <2>2 DEF SlotMoved, Off, NothingToClaim, Inv, Room, Uncharged
<1>3. CASE Heartbeat(p, i)
  <2> DEFINE j == SlotJob(p, i)
  <2>1. j \in Jobs /\ RowWritten(j, [rows[j] EXCEPT !.age = 0])
    BY <1>3, HeartbeatWrites
  <2>2. rows'[j].status = rows[j].status /\ rows'[j].attempts = rows[j].attempts
    BY <2>1 DEF RowWritten, Inv, TypeOK, Rows
  <2>3. TypeOK'
    BY <1>3, <2>1 DEF RowWritten, Heartbeat, Inv, TypeOK
  <2>4. Room' /\ Uncharged
    BY ZenonT(30), <1>3, <2>1, <2>2 DEF RowWritten, Heartbeat, Inv, Room, Uncharged
  <2> QED BY <2>3, <2>4
<1>4. CASE FinishJob(p, i)
  <2> DEFINE j == SlotJob(p, i)
             n == SlotAttempt(p, i)
  <2>1. /\ j \in Jobs /\ RowWritten(j, [rows[j] EXCEPT !.status = Outcome(j, n)])
        /\ SlotMoved(p, i, [Off EXCEPT !.at = "done"])
    BY <1>4, FinishWrites
  <2>2. rows'[j].status \in {"succeeded", "failed"} /\ rows'[j].attempts = rows[j].attempts
    BY <2>1 DEF RowWritten, Outcome, Inv, TypeOK, Rows
  <2>3. TypeOK'
    BY <1>4, <2>1 DEF RowWritten, SlotMoved, SlotTable, FinishJob, Inv, TypeOK
  <2>4. Room'
    BY <2>1, <2>2 DEF RowWritten, Inv, Room
  <2>5. Uncharged
    <3>1. slots'[p][i].at = "done"
      BY <2>1 DEF SlotMoved, Off
    <3>2. \A q \in Procs, k \in Slots : slots'[q][k] = slots[q][k] \/ (q = p /\ k = i)
      BY <2>1 DEF SlotMoved
    <3>3. \A k \in Jobs : rows'[k].attempts = rows[k].attempts
      BY <2>1, <2>2 DEF RowWritten
    <3> QED BY <1>4, <3>1, <3>2, <3>3 DEF FinishJob, Uncharged
  <2> QED BY <2>3, <2>4, <2>5
<1> QED BY <1>1, <1>2, <1>3, <1>4

LEMMA ExitStep ==
  ASSUME Inv, NEW j \in Jobs, NEW n \in Attempts, ChildExits(j, n)
  PROVE  TypeOK' /\ Room' /\ Uncharged
<1>1. child[j][n] = "live" /\ \E rc \in {"ok", "bad"} : ChildSet(j, n, rc)
  BY ExitWrites DEF Inv
<1>2. TypeOK'
  BY <1>1 DEF ChildSet, ChildTable, ChildExits, Inv, TypeOK
<1>3. Room' /\ Uncharged
  BY <1>1 DEF ChildSet, ChildExits, Inv, Room, Uncharged
<1> QED BY <1>2, <1>3

LEMMA ChargedSteps ==
  ASSUME Inv, NEW p \in Procs, NEW i \in Slots, MarkRunning(p, i) \/ Launch(p, i)
  PROVE  TypeOK' /\ Room'
<1>1. CASE MarkRunning(p, i)
  <2> DEFINE j == SlotJob(p, i)
  <2>1. /\ j \in Jobs /\ RowWritten(j, Marked(rows[j]))
        /\ SlotMoved(p, i, Moved(slots[p][i], "marked", rows[j].attempts + 1))
    BY <1>1, MarkWrites
  <2>2. rows'[j].status = "running"
    BY <2>1 DEF RowWritten, Marked, Inv, TypeOK, Rows
  <2>3. TypeOK'
    BY <1>1, <2>1 DEF RowWritten, SlotMoved, SlotTable, MarkRunning, Inv, TypeOK
  <2>4. Room'
    BY <2>1, <2>2 DEF RowWritten, Inv, Room
  <2> QED BY <2>3, <2>4
<1>2. CASE Launch(p, i)
  <2>1. /\ ChildSet(SlotJob(p, i), SlotAttempt(p, i), "live")
        /\ SlotMoved(p, i, Moved(slots[p][i], "rendering", SlotAttempt(p, i)))
    BY <1>2, LaunchWrites
  <2>2. TypeOK'
    BY <1>2, <2>1 DEF ChildSet, ChildTable, SlotMoved, SlotTable, Launch, Inv, TypeOK
  <2> QED BY <1>2, <2>2 DEF Launch, Inv, Room
<1> QED BY <1>1, <1>2

LEMMA InvInit == Init => Inv
<1> SUFFICES ASSUME Init PROVE Inv
  OBVIOUS
<1>1. \A p \in Procs, i \in Slots : slots[p][i] = Off
  BY DEF Init
<1>2. \A j \in Jobs : rows[j] = Absent
  BY DEF Init
<1>3. TypeOK
  <2>1. 0 \in 0..MaxStops
    BY QueueAssumption
  <2> QED BY <2>1, Constants DEF Init, TypeOK, ChildStates
<1>4. Working /\ OwnAttempt
  BY <1>1 DEF Off, Working, OwnAttempt, Active, Charged
<1>5. OneRenderPerAttempt
  BY DEF Init, OneRenderPerAttempt
<1>6. Room
  BY <1>2 DEF Absent, Room
<1> QED BY <1>3, <1>4, <1>5, <1>6 DEF Inv

LEMMA InvNext == Inv /\ [Next]_vars => Inv'
<1> SUFFICES ASSUME Inv, [Next]_vars PROVE Inv'
  OBVIOUS
<1>1. ASSUME NEW p \in Procs, NEW i \in Slots, MarkRunning(p, i) \/ Launch(p, i)
      PROVE  Inv'
  BY <1>1, ChargedSteps, MarkKeeps, LaunchKeeps DEF Inv
<1>2. ASSUME TypeOK' /\ Room' /\ Uncharged
      PROVE  Inv'
  BY <1>2, UnchargedKeeps DEF Inv
<1>3. ASSUME NEW j \in Jobs, Enqueue(j) PROVE Inv'
  BY <1>2, <1>3, TableSteps
<1>4. ASSUME NEW p \in Procs, ProcessStep(p) \/ Stop(p) PROVE Inv'
  BY <1>2, <1>4, RecoverStep, ProcessSteps, UnwindSteps DEF ProcessStep
<1>5. ASSUME NEW p \in Procs, NEW i \in Slots, WorkerStep(p, i) \/ Heartbeat(p, i) PROVE Inv'
  BY <1>1, <1>2, <1>5, WorkerSteps, UnwindSteps DEF WorkerStep
<1>6. ASSUME NEW j \in Jobs, NEW n \in Attempts, ChildExits(j, n) PROVE Inv'
  BY <1>2, <1>6, ExitStep
<1>7. CASE Tick
  BY <1>2, <1>7, TickStep
<1>8. CASE UNCHANGED vars
  BY <1>8 DEF vars, Inv, TypeOK, Working, OwnAttempt, OneRenderPerAttempt, Room, Active,
              Charged, SlotJob, SlotAttempt
<1> QED BY <1>3, <1>4, <1>5, <1>6, <1>7, <1>8 DEF Next

(* The inductive invariant, of every behaviour of the queue and its workers. *)
THEOREM InvHolds == Spec => []Inv
BY InvInit, InvNext, PTL DEF Spec

(* Every reachable state of the table, the processes and their workers is    *)
(* well typed: no claim, takeover or recovery counts past max_attempts.      *)
THEOREM TypeCorrect == Spec => []TypeOK
<1>1. Inv => TypeOK
  BY DEF Inv
<1> QED BY <1>1, InvHolds, PTL

(* Each subprocess of a job was paid for with an attempt of its own, through *)
(* every order of stale leases, takeovers, late launches and stops.          *)
THEOREM AttemptsPayForRenders == Spec => []OneRenderPerAttempt
<1>1. Inv => OneRenderPerAttempt
  BY DEF Inv
<1> QED BY <1>1, InvHolds, PTL

-----------------------------------------------------------------------------
(* What a step may do to a row: only mark_running makes one running, only    *)
(* finish gives it an outcome, and nothing touches it afterwards.            *)
EndedKept == \A j \in Jobs : rows[j].status \in Terminal => rows'[j] = rows[j]

NoNewRun ==
  \A j \in Jobs : rows'[j].status = "running" =>
    /\ rows[j].status = "running"
    /\ rows'[j].worker = rows[j].worker /\ rows'[j].attempts = rows[j].attempts

NoNewEnd ==
  \A j \in Jobs : rows'[j].status \in Terminal =>
    \/ rows'[j] = rows[j]
    \/ rows'[j].status = "interrupted" /\ rows'[j].attempts = MaxAttempts

LEMMA RowKinds ==
  ASSUME Inv, [Next]_vars
  PROVE  /\ EndedKept
         /\ NoNewRun \/ \E p \in Procs, i \in Slots : MarkRunning(p, i)
         /\ NoNewEnd \/ \E p \in Procs, i \in Slots : FinishJob(p, i)
<1>1. CASE rows' = rows
  BY <1>1 DEF EndedKept, NoNewRun, NoNewEnd
<1>2. ASSUME NEW j \in Jobs, Enqueue(j) PROVE EndedKept /\ NoNewRun /\ NoNewEnd
  <2>1. PICK t \in Nat : RowWritten(j, [Absent EXCEPT !.status = "queued", !.created = t])
    BY <1>2, EnqueueWrites DEF Inv
  <2>2. rows'[j].status = "queued" /\ rows[j].status = "absent"
    BY <1>2, <2>1 DEF RowWritten, Absent, Enqueue
  <2> QED BY <2>1, <2>2 DEF RowWritten, EndedKept, NoNewRun, NoNewEnd, Terminal
<1>3. ASSUME NEW p \in Procs, RecoverStale(p) PROVE EndedKept /\ NoNewRun /\ NoNewEnd
  <2>1. \A j \in Jobs : rows[j] \in Rows /\ rows'[j] = IF Stale(j) THEN Recovered(rows[j]) ELSE rows[j]
    BY <1>3, RecoverWrites DEF Inv, TypeOK
  <2>2. \A j \in Jobs : Stale(j) => rows[j].status \in {"claimed", "running"}
    BY DEF Stale, Held
  <2>3. \A row \in Rows : \/ Recovered(row).status = "queued"
                          \/ Recovered(row).status = "interrupted" /\ Recovered(row).attempts = MaxAttempts
    BY QueueAssumption DEF Recovered, Rows
  <2> QED BY <2>1, <2>2, <2>3 DEF EndedKept, NoNewRun, NoNewEnd, Terminal
<1>4. ASSUME NEW p \in Procs, NEW i \in Slots, ClaimJob(p, i)
      PROVE  EndedKept /\ NoNewRun /\ NoNewEnd
  <2>1. PICK j \in Jobs : Claimable(j) /\ RowWritten(j, Claimed(rows[j], WorkerId(p, i)))
    BY <1>4, ClaimWrites DEF Inv
  <2>2. rows'[j].status = "claimed" /\ rows[j].status = "queued"
    BY <2>1 DEF RowWritten, Claimed, Claimable, Inv, TypeOK, Rows
  <2> QED BY <2>1, <2>2 DEF RowWritten, EndedKept, NoNewRun, NoNewEnd, Terminal
<1>5. ASSUME NEW p \in Procs, NEW i \in Slots, MarkRunning(p, i)
      PROVE  EndedKept /\ NoNewEnd
  <2> DEFINE j == SlotJob(p, i)
  <2>1. j \in Jobs /\ RowWritten(j, Marked(rows[j]))
    BY <1>5, MarkWrites
  <2>2. rows'[j].status = "running" /\ rows[j].status = "claimed"
    BY <1>5, <2>1 DEF RowWritten, Marked, MarkRunning, MayMark, SlotJob, Inv, TypeOK, Rows
  <2> QED BY <2>1, <2>2 DEF RowWritten, EndedKept, NoNewEnd, Terminal
<1>6. ASSUME NEW p \in Procs, NEW i \in Slots, Heartbeat(p, i)
      PROVE  EndedKept /\ NoNewRun /\ NoNewEnd
  <2> DEFINE j == SlotJob(p, i)
  <2>1. j \in Jobs /\ Held(j) /\ RowWritten(j, [rows[j] EXCEPT !.age = 0])
    BY <1>6, HeartbeatWrites
  <2>2. /\ rows[j].status \in {"claimed", "running"} /\ rows'[j].status = rows[j].status
        /\ rows'[j].worker = rows[j].worker /\ rows'[j].attempts = rows[j].attempts
    BY <2>1 DEF RowWritten, Held, Inv, TypeOK, Rows
  <2> QED BY <2>1, <2>2 DEF RowWritten, EndedKept, NoNewRun, NoNewEnd, Terminal
<1>7. ASSUME NEW p \in Procs, NEW i \in Slots, FinishJob(p, i) PROVE EndedKept /\ NoNewRun
  <2> DEFINE j == SlotJob(p, i)
             n == SlotAttempt(p, i)
  <2>1. /\ j \in Jobs /\ rows[j].status = "running"
        /\ RowWritten(j, [rows[j] EXCEPT !.status = Outcome(j, n)])
    BY <1>7, FinishWrites DEF MayFinish
  <2>2. rows'[j].status \in {"succeeded", "failed"}
    BY <2>1 DEF RowWritten, Outcome, Inv, TypeOK, Rows
  <2> QED BY <2>1, <2>2 DEF RowWritten, EndedKept, NoNewRun, Terminal
<1>8. CASE Tick
  <2>1. \A j \in Jobs : \/ rows'[j] = rows[j]
                        \/ Held(j) /\ rows'[j] = [rows[j] EXCEPT !.age = rows[j].age + 1]
    BY <1>8, TickWrites DEF Inv
  <2>2. ASSUME NEW j \in Jobs
        PROVE  \/ rows'[j] = rows[j]
               \/ /\ rows[j].status \in {"claimed", "running"} /\ rows'[j].status = rows[j].status
                  /\ rows'[j].worker = rows[j].worker /\ rows'[j].attempts = rows[j].attempts
    <3>1. rows[j] \in Rows
      BY DEF Inv, TypeOK
    <3> QED BY <2>1, <3>1 DEF Held, Rows
  <2> QED BY <2>2 DEF EndedKept, NoNewRun, NoNewEnd, Terminal
<1>9. ASSUME NEW p \in Procs, StartWorkers(p) \/ EndRound(p) \/ Stop(p)
      PROVE  rows' = rows
  BY <1>9 DEF StartWorkers, EndRound, Stop, Unwind
<1>10. ASSUME NEW p \in Procs, NEW i \in Slots, NothingToClaim(p, i) \/ Launch(p, i) \/ LeaseLost(p, i)
       PROVE  rows' = rows
  BY <1>10 DEF NothingToClaim, Launch, LeaseLost, Unwind
<1>11. ASSUME NEW j \in Jobs, NEW n \in Attempts, ChildExits(j, n) PROVE rows' = rows
  BY <1>11 DEF ChildExits
<1>12. CASE UNCHANGED vars
  BY <1>1, <1>12 DEF vars
<1> QED BY <1>1, <1>2, <1>3, <1>4, <1>5, <1>6, <1>7, <1>8, <1>9, <1>10, <1>11, <1>12
        DEF Next, ProcessStep, WorkerStep

(* Nothing rewrites a row that has ended, whatever its last worker does later. *)
THEOREM EndedJobsAreFinal == Spec => EndedJobsStayEnded
<1>1. Inv /\ [Next]_vars =>
        [\A j \in Jobs : rows[j].status \in Terminal => rows'[j] = rows[j]]_vars
  BY RowKinds DEF EndedKept
<1> QED BY <1>1, InvHolds, PTL DEF Spec, EndedJobsStayEnded

-----------------------------------------------------------------------------
(* Worker processes that do not start in the same second have workers of     *)
(* different names.                                                          *)
DistinctStarts == \A p, q \in Procs : Started[p] = Started[q] => p = q

LEMMA NamesDiffer ==
  ASSUME DistinctStarts, NEW p \in Procs, NEW q \in Procs, NEW i \in Slots, NEW k \in Slots,
         WorkerId(p, i) = WorkerId(q, k)
  PROVE  p = q /\ i = k
BY DEF DistinctStarts, WorkerId

(* Whoever may finish a job holds its last attempt: a worker whose lease was *)
(* taken over finds another name, or another status, in the row.             *)
Holder ==
  \A p \in Procs, i \in Slots :
    Charged(p, i) /\ MayFinish(p, i, SlotJob(p, i)) =>
      SlotAttempt(p, i) = rows[SlotJob(p, i)].attempts

(* Workers keep their attempts, and exits stay what they are.                *)
LEMMA WorkKept ==
  ASSUME Inv, [Next]_vars
  PROVE  /\ \A j \in Jobs, n \in Attempts : child[j][n] \in {"ok", "bad"} => child'[j][n] = child[j][n]
         /\ \/ \A p \in Procs, i \in Slots : Charged(p, i)' =>
                 /\ Charged(p, i) /\ SlotJob(p, i)' = SlotJob(p, i)
                 /\ SlotAttempt(p, i)' = SlotAttempt(p, i)
            \/ \E p \in Procs, i \in Slots : MarkRunning(p, i)
<1>1. CASE Uncharged
  BY <1>1 DEF Uncharged, Charged, SlotJob, SlotAttempt
<1>2. ASSUME NEW p \in Procs, NEW i \in Slots, Launch(p, i)
      PROVE  /\ \A j \in Jobs, n \in Attempts : child[j][n] \in {"ok", "bad"} => child'[j][n] = child[j][n]
             /\ \A q \in Procs, k \in Slots : Charged(q, k)' =>
                  /\ Charged(q, k) /\ SlotJob(q, k)' = SlotJob(q, k)
                  /\ SlotAttempt(q, k)' = SlotAttempt(q, k)
  <2>1. /\ child[SlotJob(p, i)][SlotAttempt(p, i)] = "none"
        /\ ChildSet(SlotJob(p, i), SlotAttempt(p, i), "live")
        /\ SlotMoved(p, i, Moved(slots[p][i], "rendering", SlotAttempt(p, i)))
    BY <1>2, LaunchWrites
  <2>2. slots[p][i] \in SlotStates /\ Charged(p, i)
    BY <1>2 DEF Inv, TypeOK, Launch, Charged
  <2>3. slots'[p][i].job = slots[p][i].job /\ slots'[p][i].attempt = slots[p][i].attempt
    BY <2>1, <2>2 DEF SlotMoved, Moved, SlotStates, SlotAttempt
  <2>4. \A q \in Procs, k \in Slots : slots'[q][k] = slots[q][k] \/ (q = p /\ k = i)
    BY <2>1 DEF SlotMoved
  <2>5. \A j \in Jobs, n \in Attempts : child[j][n] \in {"ok", "bad"} => child'[j][n] = child[j][n]
    BY <2>1 DEF ChildSet
  <2> QED BY <2>2, <2>3, <2>4, <2>5 DEF Charged, SlotJob, SlotAttempt
<1>3. ASSUME NEW p \in Procs, NEW i \in Slots, MarkRunning(p, i)
      PROVE  child' = child
  BY <1>3 DEF MarkRunning
<1>4. Uncharged \/ \E p \in Procs, i \in Slots : MarkRunning(p, i) \/ Launch(p, i)
  <2>1. CASE UNCHANGED vars
    BY <2>1 DEF vars, Uncharged
  <2> QED BY <2>1, TableSteps, TickStep, RecoverStep, ProcessSteps, UnwindSteps,
             WorkerSteps, ExitStep
          DEF Next, ProcessStep, WorkerStep
<1> QED BY <1>1, <1>2, <1>3, <1>4

LEMMA HolderNext ==
  ASSUME DistinctStarts, Inv, Holder, [Next]_vars
  PROVE  Holder'
<1> SUFFICES ASSUME NEW p \in Procs, NEW i \in Slots,
                    Charged(p, i)', MayFinish(p, i, SlotJob(p, i))'
             PROVE  SlotAttempt(p, i)' = rows'[SlotJob(p, i)'].attempts
  BY DEF Holder
<1>1. /\ rows'[SlotJob(p, i)'].status = "running"
      /\ rows'[SlotJob(p, i)'].worker = WorkerId(p, i)
  BY DEF MayFinish
<1>2. Inv'
  BY InvNext
<1>3. SlotJob(p, i)' \in Jobs
  BY <1>2 DEF Inv, Working, Charged, Active
<1>4. ASSUME NEW q \in Procs, NEW k \in Slots, MarkRunning(q, k)
      PROVE  SlotAttempt(p, i)' = rows'[SlotJob(p, i)'].attempts
  <2> DEFINE j == SlotJob(q, k)
  <2>1. /\ j \in Jobs /\ RowWritten(j, Marked(rows[j]))
        /\ SlotMoved(q, k, Moved(slots[q][k], "marked", rows[j].attempts + 1))
    BY <1>4, MarkWrites
  <2>2. rows[j] \in Rows /\ slots[q][k] \in SlotStates /\ rows[j].worker = WorkerId(q, k)
    BY <1>4, <2>1 DEF Inv, TypeOK, MarkRunning, MayMark, SlotJob
  <2>3. rows'[j].worker = WorkerId(q, k) /\ rows'[j].attempts = rows[j].attempts + 1
    BY <2>1, <2>2 DEF RowWritten, Marked, Rows
  <2>4. slots'[q][k].job = j /\ slots'[q][k].attempt = rows[j].attempts + 1
    BY <2>1, <2>2 DEF SlotMoved, Moved, SlotStates, SlotJob
  <2>5. CASE p = q /\ i = k
    BY <2>3, <2>4, <2>5 DEF SlotJob, SlotAttempt
  <2>6. CASE p # q \/ i # k
    <3>1. slots'[p][i] = slots[p][i]
      BY <2>1, <2>6 DEF SlotMoved
    <3>2. SlotJob(p, i)' # j
      BY <1>1, <2>3, <2>6, NamesDiffer
    <3>3. rows'[SlotJob(p, i)'] = rows[SlotJob(p, i)']
      BY <1>3, <2>1, <3>2 DEF RowWritten
    <3> QED BY <1>1, <3>1, <3>3 DEF Holder, MayFinish, Charged, SlotJob, SlotAttempt
  <2> QED BY <2>5, <2>6
<1>5. CASE ~ \E q \in Procs, k \in Slots : MarkRunning(q, k)
  <2>1. Charged(p, i) /\ SlotJob(p, i)' = SlotJob(p, i) /\ SlotAttempt(p, i)' = SlotAttempt(p, i)
    BY <1>5, WorkKept
  <2>2. NoNewRun
    BY <1>5, RowKinds
  <2>3. /\ rows[SlotJob(p, i)].status = "running" /\ rows[SlotJob(p, i)].worker = WorkerId(p, i)
        /\ rows'[SlotJob(p, i)'].attempts = rows[SlotJob(p, i)].attempts
    BY <1>1, <1>3, <2>1, <2>2 DEF NoNewRun
  <2> QED BY <2>1, <2>3 DEF Holder, MayFinish
<1> QED BY <1>4, <1>5

LEMMA ReasonNext ==
  ASSUME Inv, Holder, EndsForAReason, [Next]_vars
  PROVE  EndsForAReason'
<1> SUFFICES ASSUME NEW j \in Jobs, rows'[j].status \in Terminal
             PROVE  /\ rows'[j].status \in {"succeeded", "failed"} => rows'[j].attempts \in Attempts
                    /\ rows'[j].status = "succeeded" => child'[j][rows'[j].attempts] = "ok"
                    /\ rows'[j].status = "failed" => child'[j][rows'[j].attempts] = "bad"
                    /\ rows'[j].status = "interrupted" => rows'[j].attempts = MaxAttempts
  BY DEF EndsForAReason, Terminal
<1>1. CASE rows'[j] = rows[j]
  BY <1>1, WorkKept DEF EndsForAReason, Terminal
<1>2. CASE rows'[j].status = "interrupted" /\ rows'[j].attempts = MaxAttempts
  BY <1>2
<1>3. ASSUME NEW p \in Procs, NEW i \in Slots, FinishJob(p, i), rows'[j] # rows[j]
      PROVE  /\ rows'[j].status \in {"succeeded", "failed"} /\ rows'[j].attempts \in Attempts
             /\ rows'[j].status = "succeeded" => child'[j][rows'[j].attempts] = "ok"
             /\ rows'[j].status = "failed" => child'[j][rows'[j].attempts] = "bad"
  <2> DEFINE n == SlotAttempt(p, i)
  <2>1. /\ SlotJob(p, i) \in Jobs /\ MayFinish(p, i, SlotJob(p, i)) /\ Charged(p, i)
        /\ child[SlotJob(p, i)][n] \in {"ok", "bad"}
        /\ RowWritten(SlotJob(p, i), [rows[SlotJob(p, i)] EXCEPT !.status = Outcome(SlotJob(p, i), n)])
    BY <1>3, FinishWrites DEF Charged
  <2>2. SlotJob(p, i) = j
    BY <1>3, <2>1 DEF RowWritten
  <2>3. n = rows[j].attempts /\ n \in Attempts /\ rows[j] \in Rows
    BY <2>1, <2>2 DEF Holder, Inv, Working, TypeOK
  <2>4. rows'[j].status = Outcome(j, n) /\ rows'[j].attempts = n
    BY <2>1, <2>2, <2>3 DEF RowWritten, Rows
  <2>5. child' = child
    BY <1>3 DEF FinishJob
  <2> QED BY <2>1, <2>2, <2>3, <2>4, <2>5 DEF Outcome
<1> QED BY <1>1, <1>2, <1>3, RowKinds DEF NoNewEnd

(* The recorded outcome is the exit of the last attempt's own subprocess,    *)
(* and only exhausted jobs are interrupted, when worker names are distinct.  *)
THEOREM OutcomesAreTheHolders ==
  ASSUME DistinctStarts
  PROVE  Spec => []EndsForAReason
<1>1. Init => Holder /\ EndsForAReason
  <2>1. ASSUME Init, NEW p \in Procs, NEW i \in Slots PROVE ~Charged(p, i)
    BY <2>1 DEF Init, Off, Charged
  <2>2. ASSUME Init, NEW j \in Jobs PROVE rows[j].status = "absent"
    BY <2>2 DEF Init, Absent
  <2> QED BY <2>1, <2>2 DEF Holder, EndsForAReason
<1>2. Inv /\ Holder /\ EndsForAReason /\ [Next]_vars => (Holder /\ EndsForAReason)'
  BY HolderNext, ReasonNext
<1> QED BY <1>1, <1>2, InvHolds, PTL DEF Spec

-----------------------------------------------------------------------------
(* The queue implements RenderJobs.  Of a step the contract sees what it     *)
(* does to StateOf, to the attempts and to the subprocesses.                 *)
Unseen(j) == StateOf(j)' = StateOf(j) /\ rows'[j].attempts = rows[j].attempts

LEMMA StepUnseen ==
  ASSUME \A j \in Jobs : Unseen(j), child' = child
  PROVE  UNCHANGED Contract!jobVars
<1>1. [j \in Jobs |-> StateOf(j)]' = [j \in Jobs |-> StateOf(j)]
  BY DEF Unseen
<1>2. [j \in Jobs |-> rows[j].attempts]' = [j \in Jobs |-> rows[j].attempts]
  BY DEF Unseen
<1> QED BY <1>1, <1>2 DEF Contract!jobVars

LEMMA OneRowSeen ==
  ASSUME NEW j \in Jobs, NEW row, RowWritten(j, row)
  PROVE  \A k \in Jobs : k # j => Unseen(k)
BY DEF RowWritten, Unseen, StateOf

LEMMA EnqueueAccepts ==
  ASSUME Inv, NEW j \in Jobs, Enqueue(j)
  PROVE  Contract!Accept(j)
<1>1. PICK t \in Nat : RowWritten(j, [Absent EXCEPT !.status = "queued", !.created = t])
  BY EnqueueWrites DEF Inv
<1>2. rows'[j].status = "queued" /\ rows'[j].attempts = 0 /\ \A k \in Jobs : k # j => Unseen(k)
  BY <1>1, OneRowSeen DEF RowWritten, Absent
<1>3. rows[j].status = "absent" /\ rows[j].attempts = 0
  BY DEF Enqueue, Inv, Room
<1>4. [k \in Jobs |-> StateOf(k)]' = [[k \in Jobs |-> StateOf(k)] EXCEPT ![j] = "open"]
  BY <1>2 DEF Unseen, StateOf
<1>5. [k \in Jobs |-> rows[k].attempts]' = [k \in Jobs |-> rows[k].attempts]
  BY <1>2, <1>3 DEF Unseen
<1> QED BY <1>3, <1>4, <1>5 DEF Contract!Accept, StateOf, Enqueue

LEMMA RecoveryInterrupts ==
  ASSUME Inv, NEW p \in Procs, RecoverStale(p)
  PROVE  \E S \in SUBSET Jobs : Contract!Interrupt(S)
<1> DEFINE S == {j \in Jobs : Stale(j) /\ rows[j].attempts = MaxAttempts}
<1>1. \A j \in Jobs : rows[j] \in Rows /\ rows'[j] = IF Stale(j) THEN Recovered(rows[j]) ELSE rows[j]
  BY RecoverWrites DEF Inv, TypeOK
<1>2. ASSUME NEW j \in Jobs
      PROVE  /\ rows'[j].attempts = rows[j].attempts
             /\ j \in S => StateOf(j) = "open" /\ StateOf(j)' = "interrupted"
             /\ j \notin S => StateOf(j)' = StateOf(j)
  <2>1. CASE j \in S
    <3>1. Recovered(rows[j]) = [rows[j] EXCEPT !.status = "interrupted"]
      BY <2>1, QueueAssumption DEF Recovered
    <3>2. Recovered(rows[j]).status = "interrupted" /\ Recovered(rows[j]).attempts = rows[j].attempts
      BY <1>1, <3>1 DEF Rows
    <3> QED BY <1>1, <2>1, <3>2 DEF StateOf, Stale, Held
  <2>2. CASE Stale(j) /\ j \notin S
    <3>1. rows[j].attempts < MaxAttempts
      BY <1>1, <2>2, QueueAssumption DEF Rows
    <3>2. Recovered(rows[j]).status = "queued" /\ Recovered(rows[j]).attempts = rows[j].attempts
      BY <1>1, <3>1 DEF Recovered, Rows
    <3> QED BY <1>1, <2>2, <3>2 DEF StateOf, Stale, Held
  <2>3. CASE ~Stale(j)
    BY <1>1, <2>3 DEF StateOf
  <2> QED BY <2>1, <2>2, <2>3
<1>3. \A j \in S : StateOf(j) = "open" /\ rows[j].attempts = MaxAttempts
  BY <1>2
<1>4. [j \in Jobs |-> rows[j].attempts]' = [j \in Jobs |-> rows[j].attempts]
  BY <1>2
<1>5. [j \in Jobs |-> StateOf(j)]' = [j \in Jobs |-> IF j \in S THEN "interrupted" ELSE StateOf(j)]
  BY <1>2
<1> HIDE DEF S
<1>6. S \subseteq Jobs
  BY DEF S
<1>7. Contract!Interrupt(S)
  BY <1>3, <1>4, <1>5, <1>6 DEF Contract!Interrupt, RecoverStale
<1> QED BY <1>6, <1>7

LEMMA MarkCharges ==
  ASSUME Inv, NEW p \in Procs, NEW i \in Slots, MarkRunning(p, i)
  PROVE  \E j \in Jobs : Contract!Charge(j)
<1>1. PICK j \in Jobs : j = SlotJob(p, i)
  BY MarkWrites
<1>2. RowWritten(j, Marked(rows[j])) /\ rows[j] \in Rows
  BY <1>1, MarkWrites DEF Inv, TypeOK
<1>3. rows[j].status = "claimed" /\ rows[j].attempts < MaxAttempts /\ child' = child
  BY <1>1 DEF MarkRunning, MayMark, SlotJob, Inv, Room
<1>4. /\ rows'[j].status = "running" /\ rows'[j].attempts = rows[j].attempts + 1
      /\ \A k \in Jobs : k # j => Unseen(k)
  BY <1>2, OneRowSeen DEF RowWritten, Marked, Rows
<1>5. [k \in Jobs |-> StateOf(k)]' = [k \in Jobs |-> StateOf(k)]
  BY <1>3, <1>4 DEF Unseen, StateOf
<1>6. [k \in Jobs |-> rows[k].attempts]' =
        [[k \in Jobs |-> rows[k].attempts] EXCEPT ![j] = rows[j].attempts + 1]
  BY <1>4 DEF Unseen
<1> QED BY <1>3, <1>5, <1>6 DEF Contract!Charge, StateOf

LEMMA LaunchBegins ==
  ASSUME Inv, NEW p \in Procs, NEW i \in Slots, Launch(p, i)
  PROVE  Contract!Begin(SlotJob(p, i), SlotAttempt(p, i))
<1> DEFINE j == SlotJob(p, i)
           n == SlotAttempt(p, i)
<1>1. j \in Jobs /\ n \in Attempts /\ child[j][n] = "none" /\ Charged(p, i)
  BY LaunchWrites DEF Charged, Launch
<1>2. n <= rows[j].attempts
  BY <1>1 DEF Inv, Working
<1>3. child' = [child EXCEPT ![j][n] = "live"] /\ rows' = rows
  BY <1>1 DEF Launch, SlotJob, SlotAttempt, Inv, TypeOK
<1>4. [k \in Jobs |-> StateOf(k)]' = [k \in Jobs |-> StateOf(k)]
  BY <1>3 DEF StateOf
<1> QED BY <1>1, <1>2, <1>3, <1>4 DEF Contract!Begin

(* Whoever may finish the job holds its last attempt, so its result counts.  *)
LEMMA FinishConcludes ==
  ASSUME Inv, Holder, NEW p \in Procs, NEW i \in Slots, FinishJob(p, i)
  PROVE  Contract!Conclude(SlotJob(p, i))
<1> DEFINE j == SlotJob(p, i)
           n == SlotAttempt(p, i)
<1>1. /\ j \in Jobs /\ MayFinish(p, i, j) /\ Charged(p, i) /\ child[j][n] \in {"ok", "bad"}
      /\ RowWritten(j, [rows[j] EXCEPT !.status = Outcome(j, n)]) /\ rows[j] \in Rows
  BY FinishWrites DEF Charged, Inv, TypeOK
<1>2. n = rows[j].attempts /\ n \in Attempts
  BY <1>1 DEF Holder, Inv, Working
<1>3. rows[j].status = "running" /\ Outcome(j, n) = IF child[j][n] = "ok" THEN "succeeded" ELSE "failed"
  BY <1>1 DEF MayFinish, Outcome
<1> HIDE DEF j, n
<1>4. /\ rows'[j].status = Outcome(j, n) /\ rows'[j].attempts = rows[j].attempts
      /\ \A k \in Jobs : k # j => Unseen(k)
  BY <1>1, OneRowSeen DEF RowWritten, Rows
<1>5. [k \in Jobs |-> StateOf(k)]' = [[k \in Jobs |-> StateOf(k)] EXCEPT ![j] = Outcome(j, n)]
  BY <1>3, <1>4 DEF Unseen, StateOf
<1>6. [k \in Jobs |-> rows[k].attempts]' = [k \in Jobs |-> rows[k].attempts]
  BY <1>4 DEF Unseen
<1>7. Contract!Conclude(j)
  BY <1>1, <1>2, <1>3, <1>5, <1>6 DEF Contract!Conclude, Contract!Charges, Attempts, StateOf, FinishJob
<1> QED BY <1>7 DEF j

(* Steps of subprocesses alone, one of them or those a process takes down.   *)
LEMMA ExitsEndRenders ==
  ASSUME child' \in ChildTable, rows' = rows,
         \A j \in Jobs, n \in Attempts :
           \/ child'[j][n] = child[j][n]
           \/ child[j][n] = "live" /\ child'[j][n] \in {"ok", "bad"}
  PROVE  Contract!RendersEnd
<1>1. [k \in Jobs |-> StateOf(k)]' = [k \in Jobs |-> StateOf(k)]
  BY DEF StateOf
<1>2. DOMAIN child' = Jobs /\ \A j \in Jobs : DOMAIN child'[j] = Attempts
  BY DEF ChildTable
<1> QED BY <1>1, <1>2 DEF Contract!RendersEnd, Contract!Charges, Attempts

(* Claims, heartbeats, the clock and the rounds of a process are not seen.   *)
LEMMA ClaimUnseen ==
  ASSUME Inv, NEW p \in Procs, NEW i \in Slots, ClaimJob(p, i)
  PROVE  UNCHANGED Contract!jobVars
<1>1. PICK j \in Jobs : Claimable(j) /\ RowWritten(j, Claimed(rows[j], WorkerId(p, i)))
  BY ClaimWrites DEF Inv
<1>2. /\ rows[j].status = "queued" /\ rows'[j].status = "claimed"
      /\ rows'[j].attempts = rows[j].attempts
  BY <1>1 DEF Claimable, RowWritten, Claimed, Inv, TypeOK, Rows
<1>3. \A k \in Jobs : Unseen(k)
  BY <1>1, <1>2, OneRowSeen DEF Unseen, StateOf
<1> QED BY <1>3, StepUnseen DEF ClaimJob

LEMMA HeartbeatUnseen ==
  ASSUME Inv, NEW p \in Procs, NEW i \in Slots, Heartbeat(p, i)
  PROVE  UNCHANGED Contract!jobVars
<1> DEFINE j == SlotJob(p, i)
<1>1. j \in Jobs /\ RowWritten(j, [rows[j] EXCEPT !.age = 0]) /\ rows[j] \in Rows
  BY HeartbeatWrites DEF Inv, TypeOK
<1>2. rows'[j].status = rows[j].status /\ rows'[j].attempts = rows[j].attempts
  BY <1>1 DEF RowWritten, Rows
<1> HIDE DEF j
<1>3. \A k \in Jobs : Unseen(k)
  BY <1>1, <1>2, OneRowSeen DEF Unseen, StateOf
<1> QED BY <1>3, StepUnseen DEF Heartbeat

LEMMA TickUnseen ==
  ASSUME Inv, Tick
  PROVE  UNCHANGED Contract!jobVars
<1>1. ASSUME NEW j \in Jobs PROVE Unseen(j)
  <2>1. \/ rows'[j] = rows[j]
        \/ rows'[j] = [rows[j] EXCEPT !.age = rows[j].age + 1]
    BY TickWrites DEF Inv
  <2>2. rows[j] \in Rows
    BY DEF Inv, TypeOK
  <2>3. rows'[j].status = rows[j].status /\ rows'[j].attempts = rows[j].attempts
    BY <2>1, <2>2 DEF Rows
  <2> QED BY <2>3 DEF Unseen, StateOf
<1> QED BY <1>1, StepUnseen DEF Tick

LEMMA NextImplements ==
  ASSUME Inv, Holder, [Next]_vars
  PROVE  [Contract!JobNext]_(Contract!jobVars)
<1>1. ASSUME NEW j \in Jobs, Enqueue(j) PROVE Contract!JobNext
  BY <1>1, EnqueueAccepts DEF Contract!JobNext
<1>2. ASSUME NEW p \in Procs, RecoverStale(p) PROVE Contract!JobNext
  BY <1>2, RecoveryInterrupts DEF Contract!JobNext
<1>3. ASSUME NEW p \in Procs, NEW i \in Slots, MarkRunning(p, i) PROVE Contract!JobNext
  BY <1>3, MarkCharges DEF Contract!JobNext
<1>4. ASSUME NEW p \in Procs, NEW i \in Slots, Launch(p, i) PROVE Contract!JobNext
  BY <1>4, LaunchBegins, LaunchWrites DEF Contract!JobNext, Contract!Charges, Attempts
<1>5. ASSUME NEW p \in Procs, NEW i \in Slots, FinishJob(p, i) PROVE Contract!JobNext
  <2>1. SlotJob(p, i) \in Jobs /\ Contract!Conclude(SlotJob(p, i))
    BY <1>5, FinishConcludes, FinishWrites
  <2> QED BY <2>1 DEF Contract!JobNext
<1>6. ASSUME NEW p \in Procs, Stop(p) \/ \E i \in Slots : LeaseLost(p, i)
      PROVE  Contract!JobNext
  <2>1. Unwind(p)
    BY <1>6 DEF Stop, LeaseLost
  <2>2. rows' = rows
    BY <2>1 DEF Unwind
  <2> QED BY <2>1, <2>2, UnwindWrites, ExitsEndRenders DEF Inv, Contract!JobNext
<1>7. ASSUME NEW j \in Jobs, NEW n \in Attempts, ChildExits(j, n) PROVE Contract!JobNext
  <2>1. child[j][n] = "live" /\ \E rc \in {"ok", "bad"} : ChildSet(j, n, rc)
    BY <1>7, ExitWrites DEF Inv
  <2>2. /\ child' \in ChildTable /\ child'[j][n] \in {"ok", "bad"}
        /\ \A k \in Jobs, m \in Attempts : k # j \/ m # n => child'[k][m] = child[k][m]
    BY <2>1 DEF ChildSet
  <2> QED BY <1>7, <2>1, <2>2, ExitsEndRenders DEF Contract!JobNext, ChildExits
<1>8. ASSUME NEW p \in Procs, NEW i \in Slots, ClaimJob(p, i) \/ Heartbeat(p, i)
      PROVE  UNCHANGED Contract!jobVars
  BY <1>8, ClaimUnseen, HeartbeatUnseen
<1>9. CASE Tick
  BY <1>9, TickUnseen
<1>10. CASE UNCHANGED <<rows, child>>
  BY <1>10, StepUnseen DEF Unseen, StateOf
<1>11. ASSUME NEW p \in Procs,
              StartWorkers(p) \/ EndRound(p) \/ \E i \in Slots : NothingToClaim(p, i)
       PROVE  UNCHANGED <<rows, child>>
  BY <1>11 DEF StartWorkers, EndRound, NothingToClaim
<1> QED BY <1>1, <1>2, <1>3, <1>4, <1>5, <1>6, <1>7, <1>8, <1>9, <1>10, <1>11
        DEF Next, ProcessStep, WorkerStep, vars

(* Whatever workers claim, lose, take over and finish late, and wherever     *)
(* processes stop, the queue keeps its contract with whoever enqueued the    *)
(* job, when the names of workers are distinct.                              *)
THEOREM QueueKeepsItsContract ==
  ASSUME DistinctStarts
  PROVE  Spec => ImplementsJobs
<1>1. Init => Contract!JobInit /\ Holder
  <2> SUFFICES ASSUME Init PROVE Contract!JobInit /\ Holder
    OBVIOUS
  <2>1. \A j \in Jobs : StateOf(j) = "absent" /\ rows[j].attempts = 0
    BY DEF Init, Absent, StateOf
  <2>2. \A p \in Procs, i \in Slots : ~Charged(p, i)
    BY DEF Init, Off, Charged
  <2> QED BY <2>1, <2>2 DEF Init, Contract!JobInit, Contract!Charges, Attempts, Holder
<1>2. Inv /\ Holder /\ [Next]_vars => Holder'
  BY HolderNext
<1>3. Inv /\ Holder /\ [Next]_vars => [Contract!JobNext]_(Contract!jobVars)
  BY NextImplements
<1> QED BY <1>1, <1>2, <1>3, InvHolds, PTL DEF Spec, ImplementsJobs, Contract!JobSpec

-----------------------------------------------------------------------------
(* When heartbeats come in time and processes take their subprocesses with   *)
(* them, a worker keeps its lease for as long as it works on the job ...     *)
LeaseKept ==
  \A p \in Procs, i \in Slots : Active(p, i) =>
    LET row == rows[SlotJob(p, i)] IN
    /\ row.worker = WorkerId(p, i) /\ row.age <= StaleAfter
    /\ row.status = IF slots[p][i].at = "claimed" THEN "claimed" ELSE "running"

(* ... and every live subprocess has a worker that waits for it.             *)
LiveIsRendered ==
  \A j \in Jobs, n \in Attempts : child[j][n] = "live" =>
    \E p \in Procs, i \in Slots : slots[p][i] = [at |-> "rendering", job |-> j, attempt |-> n]

IdleWhenDown ==
  \A p \in Procs, i \in Slots : procs[p] # "working" => slots[p][i].at = "off"

Calm == DistinctStarts /\ Timely /\ KillsChildren

TimelyInv == LeaseKept /\ LiveIsRendered /\ IdleWhenDown

(* A step that leaves alone the rows that workers hold, and moves no worker  *)
(* to another lease.                                                         *)
LEMMA LeaseFrame ==
  ASSUME Inv, LeaseKept,
         \A p \in Procs, i \in Slots : Active(p, i)' =>
           /\ slots'[p][i] = slots[p][i]
           /\ LET j == SlotJob(p, i) IN
              /\ rows'[j].worker = rows[j].worker /\ rows'[j].status = rows[j].status
              /\ rows'[j].age <= StaleAfter
  PROVE  LeaseKept'
BY DEF LeaseKept, Active, SlotJob

(* Two workers never hold leases on the same job.                            *)
LEMMA OneHolder ==
  ASSUME DistinctStarts, LeaseKept, NEW p \in Procs, NEW q \in Procs, NEW i \in Slots, NEW k \in Slots,
         Active(p, i), Active(q, k), SlotJob(p, i) = SlotJob(q, k)
  PROVE  p = q /\ i = k
BY NamesDiffer DEF LeaseKept

LEMMA LeaseTable ==
  ASSUME Calm, Inv, TimelyInv,
         \/ \E j \in Jobs : Enqueue(j)
         \/ \E p \in Procs : RecoverStale(p)
         \/ Tick
  PROVE  LeaseKept'
<1>1. \A p \in Procs, i \in Slots : Active(p, i) =>
        /\ SlotJob(p, i) \in Jobs /\ rows[SlotJob(p, i)] \in Rows
        /\ rows[SlotJob(p, i)].status \in {"claimed", "running"}
        /\ rows[SlotJob(p, i)].age <= StaleAfter
  BY DEF Inv, TypeOK, Working, TimelyInv, LeaseKept
<1>2. ASSUME NEW j \in Jobs, Enqueue(j) PROVE LeaseKept'
  <2>1. \A k \in Jobs : k # j => rows'[k] = rows[k]
    BY <1>2, EnqueueWrites DEF RowWritten, Inv
  <2>2. rows[j].status = "absent" /\ slots' = slots
    BY <1>2 DEF Enqueue
  <2>3. \A p \in Procs, i \in Slots : Active(p, i) => rows'[SlotJob(p, i)] = rows[SlotJob(p, i)]
    BY <1>1, <2>1, <2>2
  <2> QED BY <1>1, <2>2, <2>3, LeaseFrame DEF TimelyInv, Active
<1>3. ASSUME NEW p \in Procs, RecoverStale(p) PROVE LeaseKept'
  <2>1. /\ Cleared(p, Ready)
        /\ \A j \in Jobs : rows'[j] = IF Stale(j) THEN Recovered(rows[j]) ELSE rows[j]
    BY <1>3, RecoverWrites DEF Inv
  <2>2. ASSUME NEW q \in Procs, NEW i \in Slots, Active(q, i)
        PROVE  rows'[SlotJob(q, i)] = rows[SlotJob(q, i)]
    <3>1. ~Stale(SlotJob(q, i))
      BY <1>1, <2>2, QueueAssumption DEF Stale, Rows
    <3> QED BY <1>1, <2>1, <2>2, <3>1
  <2>3. ASSUME NEW q \in Procs, NEW i \in Slots, Active(q, i)'
        PROVE  slots'[q][i] = slots[q][i] /\ Active(q, i)
    BY <2>1, <2>3 DEF Cleared, Ready, Off, Active
  <2> QED BY <1>1, <2>2, <2>3, LeaseFrame DEF TimelyInv
<1>4. CASE Tick
  <2>1. /\ slots' = slots
        /\ \A p \in Procs, i \in Slots, j \in Jobs :
             slots[p][i].job = j /\ MayBeat(p, i, j) => rows[j].age < StaleAfter
    BY <1>4 DEF Tick, Calm
  <2>2. ASSUME NEW p \in Procs, NEW i \in Slots, Active(p, i)
        PROVE  LET j == SlotJob(p, i) IN
               /\ rows'[j].worker = rows[j].worker /\ rows'[j].status = rows[j].status
               /\ rows'[j].age <= StaleAfter
    <3> DEFINE j == SlotJob(p, i)
    <3>1. j \in Jobs /\ rows[j] \in Rows /\ rows[j].age <= StaleAfter
      BY <1>1, <2>2
    <3>2. MayBeat(p, i, j)
      BY <1>1, <2>2 DEF TimelyInv, LeaseKept, MayBeat, Held
    <3>3. rows[j].age < StaleAfter
      BY <2>1, <3>1, <3>2 DEF SlotJob
    <3>4. rows'[j] = rows[j] \/ rows'[j] = [rows[j] EXCEPT !.age = rows[j].age + 1]
      BY <1>4, <3>1, TickWrites DEF Inv
    <3>5. rows[j].age \in Nat /\ rows[j].age + 1 <= StaleAfter
      BY <3>1, <3>3, QueueAssumption DEF Rows
    <3> QED BY <3>1, <3>4, <3>5 DEF Rows
  <2> QED BY <2>1, <2>2, LeaseFrame DEF TimelyInv, Active
<1> QED BY <1>2, <1>3, <1>4

LEMMA LeaseWorkers ==
  ASSUME Calm, Inv, TimelyInv, NEW p \in Procs, NEW i \in Slots,
         ClaimJob(p, i) \/ MarkRunning(p, i) \/ Heartbeat(p, i) \/ FinishJob(p, i) \/ Launch(p, i)
  PROVE  LeaseKept'
<1>1. \A q \in Procs, k \in Slots : Active(q, k) =>
        /\ SlotJob(q, k) \in Jobs /\ rows[SlotJob(q, k)] \in Rows /\ slots[q][k] \in SlotStates
        /\ rows[SlotJob(q, k)].status \in {"claimed", "running"}
        /\ rows[SlotJob(q, k)].worker = WorkerId(q, k)
        /\ rows[SlotJob(q, k)].age <= StaleAfter
  BY DEF Inv, TypeOK, Working, TimelyInv, LeaseKept
<1>2. 0 <= StaleAfter
  BY QueueAssumption
<1>3. CASE ClaimJob(p, i)
  <2>1. PICK j \in Jobs :
           /\ Claimable(j)
           /\ RowWritten(j, Claimed(rows[j], WorkerId(p, i)))
           /\ SlotMoved(p, i, [Off EXCEPT !.at = "claimed", !.job = j])
    BY <1>3, ClaimWrites DEF Inv
  <2>2. rows[j] \in Rows
    BY DEF Inv, TypeOK
  <2>3. rows'[j].worker = WorkerId(p, i) /\ rows'[j].age = 0 /\ rows'[j].status = "claimed"
    BY <2>1, <2>2 DEF RowWritten, Claimed, Rows
  <2>4. slots'[p][i].at = "claimed" /\ slots'[p][i].job = j
    BY <2>1 DEF SlotMoved, Off
  <2>5. ASSUME NEW q \in Procs, NEW k \in Slots, q # p \/ k # i, Active(q, k)'
        PROVE  /\ slots'[q][k] = slots[q][k] /\ Active(q, k)
               /\ rows'[SlotJob(q, k)] = rows[SlotJob(q, k)]
    <3>1. slots'[q][k] = slots[q][k] /\ Active(q, k)
      BY <2>1, <2>5 DEF SlotMoved, Active
    <3> QED BY <1>1, <2>1, <3>1 DEF RowWritten, Claimable
  <2> SUFFICES ASSUME NEW q \in Procs, NEW k \in Slots, Active(q, k)'
               PROVE  LET row == rows'[SlotJob(q, k)'] IN
                      /\ row.worker = WorkerId(q, k) /\ row.age <= StaleAfter
                      /\ row.status = IF slots'[q][k].at = "claimed" THEN "claimed" ELSE "running"
    BY DEF LeaseKept
  <2>6. CASE q = p /\ k = i
    BY <1>2, <2>3, <2>4, <2>6 DEF SlotJob
  <2>7. CASE q # p \/ k # i
    BY <2>5, <2>7 DEF TimelyInv, LeaseKept, SlotJob
  <2> QED BY <2>6, <2>7
<1>4. CASE MarkRunning(p, i)
  <2> DEFINE j == SlotJob(p, i)
  <2>1. /\ j \in Jobs /\ RowWritten(j, Marked(rows[j])) /\ Active(p, i)
        /\ SlotMoved(p, i, Moved(slots[p][i], "marked", rows[j].attempts + 1))
    BY <1>4, MarkWrites DEF MarkRunning, Active
  <2>2. rows[j].worker = WorkerId(p, i) /\ rows[j] \in Rows /\ slots[p][i] \in SlotStates
    BY <1>1, <2>1
  <2>3. rows'[j].worker = WorkerId(p, i) /\ rows'[j].age = 0 /\ rows'[j].status = "running"
    BY <2>1, <2>2 DEF RowWritten, Marked, Rows
  <2>4. slots'[p][i].at = "marked" /\ slots'[p][i].job = j
    BY <2>1, <2>2 DEF SlotMoved, Moved, SlotStates, SlotJob
  <2>5. ASSUME NEW q \in Procs, NEW k \in Slots, q # p \/ k # i, Active(q, k)'
        PROVE  /\ slots'[q][k] = slots[q][k] /\ Active(q, k)
               /\ rows'[SlotJob(q, k)] = rows[SlotJob(q, k)]
    <3>1. slots'[q][k] = slots[q][k] /\ Active(q, k)
      BY <2>1, <2>5 DEF SlotMoved, Active
    <3>2. SlotJob(q, k) # j
      BY <2>1, <2>5, <3>1, OneHolder DEF Calm, TimelyInv
    <3> QED BY <1>1, <2>1, <3>1, <3>2 DEF RowWritten
  <2> SUFFICES ASSUME NEW q \in Procs, NEW k \in Slots, Active(q, k)'
               PROVE  LET row == rows'[SlotJob(q, k)'] IN
                      /\ row.worker = WorkerId(q, k) /\ row.age <= StaleAfter
                      /\ row.status = IF slots'[q][k].at = "claimed" THEN "claimed" ELSE "running"
    BY DEF LeaseKept
  <2>6. CASE q = p /\ k = i
    BY <1>2, <2>3, <2>4, <2>6 DEF SlotJob
  <2>7. CASE q # p \/ k # i
    BY <2>5, <2>7 DEF TimelyInv, LeaseKept, SlotJob
  <2> QED BY <2>6, <2>7
<1>5. CASE Heartbeat(p, i)
  <2> DEFINE j == SlotJob(p, i)
  <2>1. /\ j \in Jobs /\ RowWritten(j, [rows[j] EXCEPT !.age = 0]) /\ slots' = slots
    BY <1>5, HeartbeatWrites DEF Heartbeat
  <2>2. /\ rows'[j].worker = rows[j].worker /\ rows'[j].status = rows[j].status
        /\ rows'[j].age = 0
    BY <2>1 DEF RowWritten, Inv, TypeOK, Rows
  <2>3. ASSUME NEW q \in Procs, NEW k \in Slots, Active(q, k)
        PROVE  LET h == SlotJob(q, k) IN
               /\ rows'[h].worker = rows[h].worker /\ rows'[h].status = rows[h].status
               /\ rows'[h].age <= StaleAfter
    BY <1>1, <1>2, <2>1, <2>2, <2>3 DEF RowWritten
  <2> QED BY <2>1, <2>3, LeaseFrame DEF TimelyInv, Active
<1>6. CASE FinishJob(p, i)
  <2> DEFINE j == SlotJob(p, i)
             n == SlotAttempt(p, i)
  <2>1. /\ j \in Jobs /\ RowWritten(j, [rows[j] EXCEPT !.status = Outcome(j, n)]) /\ Active(p, i)
        /\ SlotMoved(p, i, [Off EXCEPT !.at = "done"])
    BY <1>6, FinishWrites DEF Active
  <2>2. ASSUME NEW q \in Procs, NEW k \in Slots, Active(q, k)'
        PROVE  /\ slots'[q][k] = slots[q][k] /\ Active(q, k)
               /\ rows'[SlotJob(q, k)] = rows[SlotJob(q, k)]
    <3>1. q # p \/ k # i
      BY <2>1, <2>2 DEF SlotMoved, Off, Active
    <3>2. slots'[q][k] = slots[q][k] /\ Active(q, k)
      BY <2>1, <2>2, <3>1 DEF SlotMoved, Active
    <3>3. SlotJob(q, k) # j
      BY <2>1, <3>1, <3>2, OneHolder DEF Calm, TimelyInv
    <3> QED BY <1>1, <2>1, <3>2, <3>3 DEF RowWritten
  <2> QED BY <1>1, <2>2, LeaseFrame DEF TimelyInv
<1>7. CASE Launch(p, i)
  <2>1. /\ rows' = rows /\ slots[p][i].at = "marked" /\ slots[p][i] \in SlotStates
        /\ SlotMoved(p, i, Moved(slots[p][i], "rendering", SlotAttempt(p, i)))
    BY <1>7, LaunchWrites DEF Launch, Inv, TypeOK
  <2>2. slots'[p][i].at = "rendering" /\ slots'[p][i].job = slots[p][i].job
    BY <2>1 DEF SlotMoved, Moved, SlotStates
  <2>3. \A q \in Procs, k \in Slots : slots'[q][k] = slots[q][k] \/ (q = p /\ k = i)
    BY <2>1 DEF SlotMoved
  <2> QED BY <2>1, <2>2, <2>3 DEF TimelyInv, LeaseKept, Active, SlotJob
<1> QED BY <1>3, <1>4, <1>5, <1>6, <1>7

LEMMA IdleNext ==
  ASSUME Inv, IdleWhenDown, [Next]_vars
  PROVE  IdleWhenDown'
<1>1. ASSUME NEW p \in Procs, NEW i \in Slots, NEW s \in SlotStates,
             slots[p][i].at # "off", SlotMoved(p, i, s), procs' = procs
      PROVE  IdleWhenDown'
  <2>1. procs[p] = "working"
    BY <1>1 DEF IdleWhenDown
  <2> QED BY <1>1, <2>1 DEF IdleWhenDown, SlotMoved
<1>2. ASSUME NEW p \in Procs, Cleared(p, Off), \A q \in Procs : q # p => procs'[q] = procs[q]
      PROVE  IdleWhenDown'
  BY <1>2 DEF Cleared, Off, IdleWhenDown
<1>3. ASSUME NEW p \in Procs, RecoverStale(p) PROVE IdleWhenDown'
  BY <1>3, RecoverWrites DEF Inv, TypeOK, RecoverStale, Cleared, IdleWhenDown
<1>4. ASSUME NEW p \in Procs, EndRound(p) PROVE IdleWhenDown'
  <2>1. Cleared(p, Off)
    BY <1>4, ProcessUpdate, Constants DEF EndRound, Inv, TypeOK, SlotTable
  <2>2. \A q \in Procs : q # p => procs'[q] = procs[q]
    BY <1>4 DEF EndRound, Inv, TypeOK
  <2> QED BY <1>2, <2>1, <2>2
<1>5. ASSUME NEW p \in Procs, Stop(p) \/ \E i \in Slots : LeaseLost(p, i) PROVE IdleWhenDown'
  <2>1. Unwind(p)
    BY <1>5, UnwindSteps
  <2>2. Cleared(p, Off) /\ \A q \in Procs : q # p => procs'[q] = procs[q]
    <3>1. Cleared(p, Off)
      BY <2>1, UnwindWrites DEF Inv
    <3>2. procs' = [procs EXCEPT ![p] = "down"] /\ procs \in [Procs -> {"down", "starting", "working"}]
      BY <2>1 DEF Unwind, Inv, TypeOK
    <3> QED BY <3>1, <3>2
  <2> QED BY <1>2, <2>2
<1>6. ASSUME NEW p \in Procs, StartWorkers(p) PROVE IdleWhenDown'
  BY <1>6 DEF StartWorkers, Inv, TypeOK, IdleWhenDown
<1>7. ASSUME NEW p \in Procs, NEW i \in Slots,
             ClaimJob(p, i) \/ NothingToClaim(p, i) \/ MarkRunning(p, i) \/ Launch(p, i) \/ FinishJob(p, i)
      PROVE  IdleWhenDown'
  <2>1. slots[p][i].at # "off" /\ procs' = procs
    BY <1>7 DEF ClaimJob, NothingToClaim, MarkRunning, Launch, FinishJob
  <2>2. \E s : SlotMoved(p, i, s)
    BY <1>7, ClaimWrites, IdleWrites, MarkWrites, LaunchWrites, FinishWrites DEF Inv
  <2>3. PICK s : SlotMoved(p, i, s)
    BY <2>2
  <2>4. s \in SlotStates
    BY <2>3 DEF SlotMoved, SlotTable
  <2> QED BY <1>1, <2>1, <2>3, <2>4
<1>8. CASE UNCHANGED <<slots, procs>>
  BY <1>8 DEF IdleWhenDown
<1> QED BY <1>3, <1>4, <1>5, <1>6, <1>7, <1>8
        DEF Next, ProcessStep, WorkerStep, Enqueue, Heartbeat, ChildExits, Tick, vars

Render(j, n) == [at |-> "rendering", job |-> j, attempt |-> n]

LEMMA LiveNext ==
  ASSUME Calm, Inv, TimelyInv, [Next]_vars
  PROVE  LiveIsRendered'
<1>1. ASSUME NEW p \in Procs, NEW i \in Slots,
             \A q \in Procs, k \in Slots : q # p \/ k # i => slots'[q][k] = slots[q][k],
             \A j \in Jobs, n \in Attempts :
               child'[j][n] = "live" => child[j][n] = "live" /\ slots[p][i] # Render(j, n)
      PROVE  LiveIsRendered'
  <2> SUFFICES ASSUME NEW j \in Jobs, NEW n \in Attempts, child'[j][n] = "live"
               PROVE  \E q \in Procs, k \in Slots : slots'[q][k] = Render(j, n)
    BY DEF LiveIsRendered, Render
  <2>1. PICK q \in Procs, k \in Slots : slots[q][k] = Render(j, n)
    BY <1>1 DEF TimelyInv, LiveIsRendered, Render
  <2> QED BY <1>1, <2>1
<1>2. ASSUME NEW p \in Procs, NEW s, Cleared(p, s),
             \A j \in Jobs, n \in Attempts : child'[j][n] = "live" =>
               child[j][n] = "live" /\ ~ \E i \in Slots : slots[p][i] = Render(j, n)
      PROVE  LiveIsRendered'
  <2> SUFFICES ASSUME NEW j \in Jobs, NEW n \in Attempts, child'[j][n] = "live"
               PROVE  \E q \in Procs, k \in Slots : slots'[q][k] = Render(j, n)
    BY DEF LiveIsRendered, Render
  <2>1. PICK q \in Procs, k \in Slots : slots[q][k] = Render(j, n)
    BY <1>2 DEF TimelyInv, LiveIsRendered, Render
  <2> QED BY <1>2, <2>1 DEF Cleared
<1>3. ASSUME slots' = slots, \A j \in Jobs, n \in Attempts : child'[j][n] = "live" => child[j][n] = "live"
      PROVE  LiveIsRendered'
  BY <1>3 DEF TimelyInv, LiveIsRendered
<1>4. ASSUME NEW p \in Procs, RecoverStale(p) PROVE LiveIsRendered'
  <2>1. Cleared(p, Ready) /\ child' = child /\ procs[p] # "working"
    BY <1>4, RecoverWrites DEF RecoverStale, Inv
  <2>2. \A j \in Jobs, n \in Attempts, i \in Slots : slots[p][i] # Render(j, n)
    BY <2>1 DEF TimelyInv, IdleWhenDown, Render
  <2> QED BY <1>2, <2>1, <2>2
<1>5. ASSUME NEW p \in Procs, EndRound(p) PROVE LiveIsRendered'
  <2>1. Cleared(p, Off) /\ child' = child
    BY <1>5, ProcessUpdate, Constants DEF EndRound, Inv, TypeOK, SlotTable
  <2>2. \A j \in Jobs, n \in Attempts, i \in Slots : slots[p][i] # Render(j, n)
    BY <1>5 DEF EndRound, Render
  <2> QED BY <1>2, <2>1, <2>2
<1>6. ASSUME NEW p \in Procs, Stop(p) \/ \E i \in Slots : LeaseLost(p, i) PROVE LiveIsRendered'
  <2>1. Unwind(p)
    BY <1>6, UnwindSteps
  <2>2. /\ Cleared(p, Off)
        /\ \A j \in Jobs, n \in Attempts :
             \/ child'[j][n] = child[j][n]
             \/ child[j][n] = "live" /\ child'[j][n] = "bad"
        /\ \A j \in Jobs, n \in Attempts : child'[j][n] = "live" =>
             ~ \E i \in Slots : slots[p][i] = Render(j, n)
    BY <2>1, UnwindWrites DEF Calm, Inv, Render
  <2> QED BY <1>2, <2>2
<1>7. ASSUME NEW p \in Procs, NEW i \in Slots, ClaimJob(p, i) \/ NothingToClaim(p, i) \/ MarkRunning(p, i)
      PROVE  LiveIsRendered'
  <2>1. child' = child /\ slots[p][i].at # "rendering"
    BY <1>7 DEF ClaimJob, NothingToClaim, MarkRunning
  <2>2. \A q \in Procs, k \in Slots : q # p \/ k # i => slots'[q][k] = slots[q][k]
    <3>1. \E t : SlotMoved(p, i, t)
      BY <1>7, ClaimWrites, IdleWrites, MarkWrites DEF Inv
    <3> QED BY <3>1 DEF SlotMoved
  <2> QED BY <1>1, <2>1, <2>2 DEF Render
<1>8. ASSUME NEW p \in Procs, NEW i \in Slots, FinishJob(p, i) PROVE LiveIsRendered'
  <2>1. /\ child' = child /\ child[SlotJob(p, i)][SlotAttempt(p, i)] \in {"ok", "bad"}
        /\ \A q \in Procs, k \in Slots : q # p \/ k # i => slots'[q][k] = slots[q][k]
    BY <1>8, FinishWrites DEF FinishJob, SlotMoved
  <2>2. \A j \in Jobs, n \in Attempts : child[j][n] = "live" => slots[p][i] # Render(j, n)
    BY <2>1 DEF Render, SlotJob, SlotAttempt
  <2> QED BY <1>1, <2>1, <2>2
<1>9. ASSUME NEW p \in Procs, NEW i \in Slots, Launch(p, i) PROVE LiveIsRendered'
  <2> DEFINE j == SlotJob(p, i)
             n == SlotAttempt(p, i)
  <2>1. /\ j \in Jobs /\ n \in Attempts /\ ChildSet(j, n, "live")
        /\ SlotMoved(p, i, Moved(slots[p][i], "rendering", n))
    BY <1>9, LaunchWrites
  <2>2. slots[p][i] \in SlotStates /\ slots[p][i].at = "marked"
    BY <1>9 DEF Launch, Inv, TypeOK
  <2>3. slots'[p][i] = Render(j, n)
    BY <2>1, <2>2 DEF SlotMoved, Moved, Render, SlotStates, SlotJob
  <2> SUFFICES ASSUME NEW h \in Jobs, NEW m \in Attempts, child'[h][m] = "live"
               PROVE  \E q \in Procs, k \in Slots : slots'[q][k] = Render(h, m)
    BY DEF LiveIsRendered, Render
  <2>4. CASE h = j /\ m = n
    BY <2>3, <2>4
  <2>5. CASE h # j \/ m # n
    <3>1. child[h][m] = "live"
      BY <2>1, <2>5 DEF ChildSet
    <3>2. PICK q \in Procs, k \in Slots : slots[q][k] = Render(h, m)
      BY <3>1 DEF TimelyInv, LiveIsRendered, Render
    <3>3. slots'[q][k] = slots[q][k]
      BY <2>1, <2>2, <3>2 DEF SlotMoved, Render
    <3> QED BY <3>2, <3>3
  <2> QED BY <2>4, <2>5
<1>10. ASSUME NEW j \in Jobs, NEW n \in Attempts, ChildExits(j, n) PROVE LiveIsRendered'
  <2>1. slots' = slots /\ \A h \in Jobs, m \in Attempts : child'[h][m] = "live" => child[h][m] = "live"
    BY <1>10, ExitWrites DEF ChildExits, ChildSet, Inv
  <2> QED BY <1>3, <2>1
<1>11. CASE UNCHANGED <<slots, child>>
  BY <1>3, <1>11
<1> QED BY <1>4, <1>5, <1>6, <1>7, <1>8, <1>9, <1>10, <1>11
        DEF Next, ProcessStep, WorkerStep, StartWorkers, Enqueue, Heartbeat, Tick, vars

LEMMA LeaseNext ==
  ASSUME Calm, Inv, TimelyInv, [Next]_vars
  PROVE  LeaseKept'
<1>1. ASSUME NEW p \in Procs, Cleared(p, Off), rows' = rows PROVE LeaseKept'
  BY <1>1 DEF TimelyInv, LeaseKept, Cleared, Off, Active, SlotJob
<1>2. ASSUME NEW p \in Procs, EndRound(p) PROVE LeaseKept'
  <2>1. Cleared(p, Off) /\ rows' = rows
    BY <1>2, ProcessUpdate, Constants DEF EndRound, Inv, TypeOK, SlotTable
  <2> QED BY <1>1, <2>1
<1>3. ASSUME NEW p \in Procs, Stop(p) \/ \E i \in Slots : LeaseLost(p, i) PROVE LeaseKept'
  <2>1. Cleared(p, Off) /\ rows' = rows
    BY <1>3, UnwindSteps, UnwindWrites DEF Unwind, Inv
  <2> QED BY <1>1, <2>1
<1>4. ASSUME NEW p \in Procs, NEW i \in Slots, NothingToClaim(p, i) PROVE LeaseKept'
  <2>1. SlotMoved(p, i, [Off EXCEPT !.at = "empty"]) /\ rows' = rows
    BY <1>4, IdleWrites DEF NothingToClaim, Inv
  <2>2. slots'[p][i].at = "empty"
    BY <2>1 DEF SlotMoved, Off
  <2>3. \A q \in Procs, k \in Slots : slots'[q][k] = slots[q][k] \/ (q = p /\ k = i)
    BY <2>1 DEF SlotMoved
  <2> QED BY <2>1, <2>2, <2>3 DEF TimelyInv, LeaseKept, Active, SlotJob
<1>5. CASE UNCHANGED <<rows, slots>>
  BY <1>5 DEF TimelyInv, LeaseKept, Active, SlotJob
<1> QED BY <1>2, <1>3, <1>4, <1>5, LeaseTable, LeaseWorkers
        DEF Next, ProcessStep, WorkerStep, StartWorkers, ChildExits, vars

(* With heartbeats on time, no orphaned subprocess and distinct worker       *)
(* names, no job is ever rendered twice at once.                             *)
THEOREM OneRenderWhenTimely ==
  ASSUME Calm
  PROVE  Spec => []OneRenderAtATime
<1>1. Init => TimelyInv
  <2>1. ASSUME Init, NEW p \in Procs, NEW i \in Slots PROVE slots[p][i].at = "off"
    BY <2>1 DEF Init, Off
  <2>2. ASSUME Init, NEW j \in Jobs, NEW n \in Attempts PROVE child[j][n] = "none"
    BY <2>2 DEF Init
  <2> QED BY <2>1, <2>2 DEF TimelyInv, LeaseKept, LiveIsRendered, IdleWhenDown, Active
<1>2. Inv /\ TimelyInv /\ [Next]_vars => TimelyInv'
  BY LeaseNext, LiveNext, IdleNext DEF TimelyInv
<1>3. ASSUME Inv, TimelyInv PROVE OneRenderAtATime
  <2> SUFFICES ASSUME NEW j \in Jobs, NEW n \in Attempts, NEW m \in Attempts,
                      child[j][n] = "live", child[j][m] = "live"
               PROVE  n = m
    BY DEF OneRenderAtATime
  <2>1. PICK p \in Procs, i \in Slots : slots[p][i] = Render(j, n)
    BY <1>3 DEF TimelyInv, LiveIsRendered, Render
  <2>2. PICK q \in Procs, k \in Slots : slots[q][k] = Render(j, m)
    BY <1>3 DEF TimelyInv, LiveIsRendered, Render
  <2>3. p = q /\ i = k
    BY <1>3, <2>1, <2>2, OneHolder DEF Calm, TimelyInv, Active, SlotJob, Render
  <2> QED BY <2>1, <2>2, <2>3 DEF Render
<1> QED BY <1>1, <1>2, <1>3, InvHolds, PTL DEF Spec
=============================================================================
