------------------------ MODULE PipelineJobs_proofs ------------------------
(***************************************************************************)
(* Proofs about PipelineJobs for every number of jobs and processes: a     *)
(* paid job has one effect at most and is never written off while the      *)
(* provider may have run it, as long as recovery acts on a paid job only   *)
(* when no process holds it (Attended).  Jobs that are not paid may be     *)
(* recovered under a living process.                                       *)
(***************************************************************************)
EXTENDS PipelineJobs, TLAPS

Attended == \A j \in Jobs : Paid(j) => j \notin Hasty

(* What holds of a process whatever job it holds.                            *)
ProcOK(p) ==
  LET proc == procs[p] IN
  /\ proc.at # "idle" => proc.job \in Jobs
  /\ proc.read # NoRow => proc.at = "failing"
  /\ proc.target # "none" =>
       proc.at \in {"consumed", "AUTHORIZATION_CONSUMED", "accepted", "unanswered",
                    "EXTERNAL_ID_KNOWN", "PROVIDER_COMPLETED", "OUTPUT_DOWNLOADED",
                    "OUTPUT_RETAINED"}
  /\ proc.target = "AUTHORIZATION_CONSUMED" => proc.at = "consumed"
  /\ proc.target = "SUBMISSION_STARTED" => proc.at = "AUTHORIZATION_CONSUMED"
  /\ proc.target = "AMBIGUOUS" => proc.at = "unanswered"
  /\ proc.target \notin {"PRE_EFFECT", "NO_EFFECT_CONFIRMED", "EFFECT_CONFIRMED", "FINALIZED"}
  /\ proc.at # "idle" /\ ~Paid(proc.job) =>
       /\ proc.at \in {"created", "begun", "failing"}
       /\ proc.read # NoRow => proc.read.effect \in {"PRE_EFFECT", "FINALIZED"}

(* A row a pass has selected is as it was, unless somebody refreshed it.     *)
Selected(j) == snapshot[j] # NoRow /\ rows[j].stale => rows[j] = snapshot[j]

LocalJob(j) ==
  rows[j].effect \in {"PRE_EFFECT", "FINALIZED"} /\ provider[j] = "none" /\ operations[j] = 0

(* The effect state in the ledger and the operation at the provider.         *)
PaidRow(j) ==
  /\ operations[j] = IF provider[j] = "none" THEN 0 ELSE 1
  /\ rows[j].effect \in {"PRE_EFFECT", "AUTHORIZATION_CONSUMED", "NO_EFFECT_CONFIRMED"} =>
       provider[j] = "none"
  /\ rows[j].effect \in UnknownEffect \cup {"PRE_EFFECT", "NO_EFFECT_CONFIRMED"} => ~rows[j].external
  /\ rows[j].status \in {"absent", "queued"} => rows[j].effect = "PRE_EFFECT"
  /\ rows[j].effect = "PROVIDER_FAILED" => provider[j] = "failed"
  /\ rows[j].effect # "EFFECT_CONFIRMED"

EffectAt(place) ==
  IF place \in {"created", "begun", "consumed"} THEN "PRE_EFFECT"
  ELSE IF place \in {"accepted", "unanswered"} THEN "SUBMISSION_STARTED" ELSE place

(* The process that holds a paid job knows its row.                          *)
Holder(p, j) ==
  LET proc == procs[p] IN
  /\ rows[j].status = IF proc.at = "created" THEN "queued" ELSE "running"
  /\ proc.at = "created" => rows[j].attempts = 0
  /\ proc.at # "failing" => rows[j].effect = EffectAt(proc.at)
  /\ proc.at = "SUBMISSION_STARTED" => provider[j] = "none"
  /\ rows[j].effect # "NO_EFFECT_CONFIRMED" /\ ~rows[j].stale
  /\ proc.read # NoRow => proc.read = rows[j]
  /\ proc.target = "PROVIDER_FAILED" => provider[j] = "failed"

PaidJob(j) ==
  /\ PaidRow(j)
  /\ \A p \in Procs : Holds(p, j) => Holder(p, j)
  /\ \A p, q \in Procs : Holds(p, j) /\ Holds(q, j) => p = q

Absent(j) == rows[j].status = "absent" => rows[j] = NoJobRow

Jobwise(j) ==
  Selected(j) /\ Absent(j) /\ (Paid(j) => PaidJob(j)) /\ (~Paid(j) => LocalJob(j))

Inv ==
  /\ TypeOK /\ \A j \in Jobs : tokens[j] <= granted[j]
  /\ \A p \in Procs : ProcOK(p)
  /\ \A j \in Jobs : Jobwise(j)

-----------------------------------------------------------------------------
LEMMA EffectNames ==
  EffectStates = {"PRE_EFFECT", "AUTHORIZATION_CONSUMED", "SUBMISSION_STARTED",
                  "EXTERNAL_ID_KNOWN", "PROVIDER_FAILED", "PROVIDER_COMPLETED",
                  "OUTPUT_DOWNLOADED", "OUTPUT_RETAINED", "COST_RECONCILED", "AMBIGUOUS",
                  "NO_EFFECT_CONFIRMED", "EFFECT_CONFIRMED", "FINALIZED"}
BY DEF EffectStates, EffectTransitions

LEMMA IdleFacts ==
  Idle \in ProcStates /\ Idle.at = "idle" /\ Idle.target = "none" /\ Idle.read = NoRow
BY DEF Idle, ProcStates, Places

(* A process that takes up a job starts with nothing read and nothing to write. *)
LEMMA TakesUp ==
  ASSUME NEW place \in Places, NEW j \in Jobs
  PROVE  LET at == [Idle EXCEPT !.at = place, !.job = j]
         IN  /\ at \in ProcStates /\ at.at = place /\ at.job = j
             /\ at.target = "none" /\ at.read = NoRow
BY IdleFacts DEF ProcStates

LEMMA TouchFacts ==
  ASSUME NEW row \in Rows
  PROVE  /\ Touch(row) \in Rows /\ Touch(row).stale = FALSE
         /\ Touch(row).status = row.status /\ Touch(row).effect = row.effect
         /\ Touch(row).external = row.external /\ Touch(row).attempts = row.attempts
BY DEF Touch, Rows

LEMMA StartsFacts ==
  ASSUME NEW row \in Rows, NEW n \in 0..MaxStarts
  PROVE  LET started == [Touch(row) EXCEPT !.status = "running", !.attempts = n]
         IN  /\ started \in Rows /\ started.status = "running" /\ started.effect = row.effect
             /\ started.external = row.external /\ started.stale = FALSE
<1>1. ASSUME NEW x \in Rows
      PROVE  LET started == [x EXCEPT !.status = "running", !.attempts = n]
             IN  /\ started \in Rows /\ started.status = "running" /\ started.effect = x.effect
                 /\ started.external = x.external /\ started.stale = x.stale
  BY DEF Rows, JobStatuses, Live
<1> QED BY <1>1, TouchFacts

LEMMA FailsFacts ==
  ASSUME NEW proc \in ProcStates, NEW t \in BOOLEAN
  PROVE  LET failing == [proc EXCEPT !.at = "failing", !.terminal = t]
         IN  /\ failing \in ProcStates /\ failing.at = "failing" /\ failing.job = proc.job
             /\ failing.target = proc.target /\ failing.read = proc.read
BY DEF ProcStates, Places

LEMMA InitInv == Init => Inv
<1> SUFFICES ASSUME Init PROVE Inv
  OBVIOUS
<1>1. /\ NoJobRow \in Rows /\ NoJobRow.effect = "PRE_EFFECT" /\ NoJobRow.status = "absent"
      /\ NoJobRow.attempts = 0 /\ NoJobRow.external = FALSE
  BY EffectNames, JobsAssumption DEF NoJobRow, Rows, JobStatuses, Live, Ended
<1>2. TypeOK /\ \A j \in Jobs : tokens[j] <= granted[j]
  BY <1>1, IdleFacts, JobsAssumption DEF Init, TypeOK, Ended
<1>3. \A p \in Procs : ProcOK(p)
  BY IdleFacts DEF Init, ProcOK
<1>4. ASSUME NEW j \in Jobs PROVE Jobwise(j)
  BY <1>1, IdleFacts DEF Init, Jobwise, Selected, Absent, PaidJob, PaidRow, Holds, LocalJob
<1> QED BY <1>2, <1>3, <1>4 DEF Inv

-----------------------------------------------------------------------------
(* A job nobody touches stays as it is: its row, its operation and its       *)
(* selection, and every process that holds it afterwards is as it was.       *)
LEMMA Untouched ==
  ASSUME NEW j \in Jobs, Jobwise(j), rows'[j] = rows[j], snapshot'[j] = snapshot[j],
         provider'[j] = provider[j], operations'[j] = operations[j],
         \A p \in Procs : procs'[p] = procs[p] \/ ~Holds(p, j)'
  PROVE  Jobwise(j)'
<1>1. Selected(j)' /\ Absent(j)' /\ (~Paid(j) => LocalJob(j)')
  BY DEF Jobwise, Selected, Absent, LocalJob
<1>2. ASSUME Paid(j) PROVE PaidJob(j)'
  <2>1. PaidRow(j)'
    BY <1>2 DEF Jobwise, PaidJob, PaidRow
  <2>2. ASSUME NEW p \in Procs, Holds(p, j)'
        PROVE  procs'[p] = procs[p] /\ Holds(p, j)
    BY <2>2 DEF Holds
  <2>3. ASSUME NEW p \in Procs, Holds(p, j)' PROVE Holder(p, j)'
    BY <1>2, <2>2, <2>3 DEF Jobwise, PaidJob, Holder
  <2> QED BY <1>2, <2>1, <2>2, <2>3 DEF Jobwise, PaidJob
<1> QED BY <1>1, <1>2 DEF Jobwise, Paid

(* One process moves on, and nothing else.                                   *)
LEMMA ProcStep ==
  ASSUME Inv, NEW p \in Procs, procs' \in [Procs -> ProcStates],
         \A q \in Procs \ {p} : procs'[q] = procs[q], ProcOK(p)',
         UNCHANGED <<rows, snapshot, provider, operations, granted>>,
         tokens' \in [Jobs -> 0..MaxGrants], \A j \in Jobs : tokens'[j] <= granted[j],
         procs'[p].at = "idle" \/
           /\ procs'[p].job = procs[p].job /\ procs[p].at # "idle"
           /\ Paid(procs[p].job) => Holder(p, procs[p].job)'
  PROVE  Inv'
<1>1. TypeOK' /\ \A j \in Jobs : tokens'[j] <= granted'[j]
  BY DEF Inv, TypeOK
<1>2. \A q \in Procs : ProcOK(q)'
  BY DEF Inv, ProcOK
<1>3. ASSUME NEW j \in Jobs PROVE Jobwise(j)'
  <2>1. /\ Selected(j)' /\ Absent(j)'
        /\ (~Paid(j) => LocalJob(j)') /\ (Paid(j) => PaidRow(j)')
    BY DEF Inv, Jobwise, Selected, Absent, LocalJob, PaidJob, PaidRow
  <2>2. ASSUME NEW q \in Procs, Holds(q, j)' PROVE Holds(q, j)
    BY <2>2 DEF Holds
  <2>3. ASSUME Paid(j), NEW q \in Procs, Holds(q, j)' PROVE Holder(q, j)'
    <3>1. CASE q = p
      BY <2>3, <3>1 DEF Holds
    <3>2. CASE q # p
      BY <2>2, <2>3, <3>2 DEF Inv, Jobwise, PaidJob, Holder
    <3> QED BY <3>1, <3>2
  <2> QED BY <2>1, <2>2, <2>3 DEF Inv, Jobwise, PaidJob, Paid
<1> QED BY <1>1, <1>2, <1>3 DEF Inv

(* A process takes a step on its own job and may write its row; nobody else  *)
(* holds the job if it is paid.                                              *)
LEMMA JobStep ==
  ASSUME Inv, NEW p \in Procs, NEW j \in Jobs,
         procs' \in [Procs -> ProcStates], rows' \in [Jobs -> Rows],
         rows'[j].effect = "FINALIZED" <=> rows'[j].status \in Ended,
         provider' \in [Jobs -> {"none", "accepted", "completed", "failed"}],
         operations' \in [Jobs -> Nat],
         tokens' \in [Jobs -> 0..MaxGrants], granted' \in [Jobs -> 0..MaxGrants],
         \A k \in Jobs : tokens'[k] <= granted'[k],
         \A q \in Procs \ {p} : procs'[q] = procs[q],
         \A k \in Jobs \ {j} : /\ rows'[k] = rows[k] /\ provider'[k] = provider[k]
                               /\ operations'[k] = operations[k],
         snapshot' = snapshot, ProcOK(p)',
         rows'[j] = rows[j] \/ (~rows'[j].stale /\ rows'[j].status # "absent"),
         procs'[p].at = "idle" \/ procs'[p].job = j,
         Paid(j) => /\ PaidRow(j)' /\ \A q \in Procs \ {p} : ~Holds(q, j)
                    /\ procs'[p].at # "idle" => Holder(p, j)',
         ~Paid(j) => LocalJob(j)'
  PROVE  Inv'
<1>1. TypeOK' /\ \A k \in Jobs : tokens'[k] <= granted'[k]
  BY DEF Inv, TypeOK
<1>2. \A q \in Procs : ProcOK(q)'
  BY DEF Inv, ProcOK
<1>3. ASSUME NEW k \in Jobs \ {j} PROVE Jobwise(k)'
  <2>1. \A q \in Procs : procs'[q] = procs[q] \/ ~Holds(q, k)'
    BY DEF Holds
  <2> QED BY <2>1, Untouched DEF Inv
<1>4. Jobwise(j)'
  <2>1. Selected(j)' /\ Absent(j)'
    BY DEF Inv, Jobwise, Selected, Absent
  <2>2. ASSUME Paid(j) PROVE PaidJob(j)'
    <3>1. ASSUME NEW q \in Procs, Holds(q, j)' PROVE q = p
      BY <2>2, <3>1 DEF Holds
    <3>2. Holds(p, j)' => Holder(p, j)'
      BY <2>2 DEF Holds
    <3> QED BY <2>2, <3>1, <3>2 DEF PaidJob
  <2> QED BY <2>1, <2>2 DEF Jobwise, Paid
<1> QED BY <1>1, <1>2, <1>3, <1>4 DEF Inv

(* The holder of a paid job is alone with it and knows its row.              *)
LEMMA Alone ==
  ASSUME Inv, NEW p \in Procs, procs[p].at # "idle"
  PROVE  /\ procs[p].job \in Jobs
         /\ Paid(procs[p].job) =>
              /\ PaidRow(procs[p].job) /\ Holder(p, procs[p].job)
              /\ \A q \in Procs \ {p} : ~Holds(q, procs[p].job)
         /\ ~Paid(procs[p].job) => LocalJob(procs[p].job)
<1>1. procs[p].job \in Jobs /\ Holds(p, procs[p].job)
  BY DEF Inv, ProcOK, Holds
<1> QED BY <1>1 DEF Inv, Jobwise, PaidJob

(* A process gives its job up.                                               *)
LEMMA GivesUp ==
  ASSUME Inv, NEW p \in Procs, procs' = [procs EXCEPT ![p] = Idle],
         UNCHANGED <<rows, snapshot, money>>
  PROVE  Inv'
<1>1. /\ procs' \in [Procs -> ProcStates] /\ procs'[p] = Idle
      /\ \A q \in Procs \ {p} : procs'[q] = procs[q]
  BY IdleFacts DEF Inv, TypeOK
<1>2. ProcOK(p)'
  BY <1>1, IdleFacts DEF ProcOK
<1>3. tokens' \in [Jobs -> 0..MaxGrants] /\ \A j \in Jobs : tokens'[j] <= granted[j]
  BY DEF money, Inv, TypeOK
<1>4. procs'[p].at = "idle" /\ UNCHANGED <<rows, snapshot, provider, operations, granted>>
  BY <1>1, IdleFacts DEF money
<1> QED BY <1>1, <1>2, <1>3, <1>4, ProcStep
-----------------------------------------------------------------------------
(* Creating and starting a job.                                              *)
LEMMA CreateKeepsInv ==
  ASSUME Inv, NEW p \in Procs, NEW j \in Jobs, Create(p, j)
  PROVE  Inv'
<1> DEFINE next == [Idle EXCEPT !.at = "created", !.job = j]
<1>1. /\ next \in ProcStates /\ next.at = "created" /\ next.job = j
      /\ next.target = "none" /\ next.read = NoRow
  BY TakesUp DEF Places
<1>2. /\ procs' = [procs EXCEPT ![p] = next] /\ rows[j].status = "absent"
      /\ rows' = [rows EXCEPT ![j].status = "queued"]
      /\ UNCHANGED <<snapshot, provider, operations>>
  BY DEF Create
<1> HIDE DEF next
<1>3. /\ procs' \in [Procs -> ProcStates] /\ procs'[p] = next
      /\ \A q \in Procs \ {p} : procs'[q] = procs[q]
  BY <1>1, <1>2 DEF Inv, TypeOK
<1>4. /\ rows[j] = NoJobRow /\ rows[j].effect = "PRE_EFFECT" /\ rows[j].external = FALSE
      /\ rows[j].attempts = 0 /\ rows[j].stale = FALSE
  BY <1>2 DEF Inv, Jobwise, Absent, NoJobRow
<1>5. /\ rows' \in [Jobs -> Rows] /\ rows'[j].status = "queued"
      /\ rows'[j].effect = "PRE_EFFECT" /\ rows'[j].external = FALSE
      /\ rows'[j].attempts = 0 /\ rows'[j].stale = FALSE
      /\ \A k \in Jobs \ {j} : rows'[k] = rows[k]
  BY <1>2, <1>4 DEF Inv, TypeOK, Rows, JobStatuses, Live
<1>6. /\ tokens' \in [Jobs -> 0..MaxGrants] /\ granted' \in [Jobs -> 0..MaxGrants]
      /\ \A k \in Jobs : tokens'[k] <= granted'[k]
  BY JobsAssumption DEF Create, Inv, TypeOK
<1>7. ProcOK(p)'
  BY <1>1, <1>3 DEF ProcOK, Paid
<1>8. /\ provider' \in [Jobs -> {"none", "accepted", "completed", "failed"}]
      /\ operations' \in [Jobs -> Nat]
  BY <1>2 DEF Inv, TypeOK
<1>9. \A q \in Procs : Paid(j) => ~Holds(q, j)
  BY <1>2 DEF Inv, Jobwise, PaidJob, Holder
<1>10. Paid(j) => PaidRow(j)' /\ Holder(p, j)'
  BY <1>1, <1>2, <1>3, <1>4, <1>5
     DEF Inv, Jobwise, PaidJob, PaidRow, Holder, EffectAt, UnknownEffect, NoJobRow
<1>11. ~Paid(j) => LocalJob(j)'
  BY <1>2, <1>5 DEF Inv, Jobwise, LocalJob
<1> QED
  BY <1>1, <1>2, <1>3, <1>5, <1>6, <1>7, <1>8, <1>9, <1>10, <1>11, JobStep DEF Ended

LEMMA StartKeepsInv ==
  ASSUME Inv, NEW p \in Procs, NEW j \in Jobs, Start(p, j)
  PROVE  Inv'
<1>1. CASE rows[j].status # "queued"
  BY <1>1, GivesUp DEF Start
<1>2. CASE rows[j].status = "queued"
  <2> DEFINE next == [Idle EXCEPT !.at = "begun", !.job = j]
             row == [Touch(rows[j]) EXCEPT !.status = "running", !.attempts = rows[j].attempts + 1]
  <2>1. /\ next \in ProcStates /\ next.at = "begun" /\ next.job = j
        /\ next.target = "none" /\ next.read = NoRow
    BY TakesUp DEF Places
  <2>2. /\ row \in Rows /\ row.status = "running" /\ row.effect = rows[j].effect
        /\ row.external = rows[j].external /\ row.stale = FALSE
    <3>1. rows[j] \in Rows /\ rows[j].attempts \in 0..MaxStarts /\ rows[j].attempts < MaxStarts
      BY DEF Start, Inv, TypeOK, Rows
    <3>2. rows[j].attempts + 1 \in 0..MaxStarts
      BY <3>1, JobsAssumption
    <3> QED BY <3>1, <3>2, StartsFacts
  <2>3. /\ procs' = [procs EXCEPT ![p] = next] /\ rows' = [rows EXCEPT ![j] = row]
        /\ UNCHANGED <<snapshot, money>>
    BY <1>2 DEF Start
  <2> HIDE DEF next, row
  <2>4. /\ procs' \in [Procs -> ProcStates] /\ procs'[p] = next
        /\ \A q \in Procs \ {p} : procs'[q] = procs[q]
    BY <2>1, <2>3 DEF Inv, TypeOK
  <2>5. /\ rows' \in [Jobs -> Rows] /\ rows'[j] = row
        /\ \A k \in Jobs \ {j} : rows'[k] = rows[k]
    BY <2>2, <2>3 DEF Inv, TypeOK
  <2>6. /\ tokens' \in [Jobs -> 0..MaxGrants] /\ granted' \in [Jobs -> 0..MaxGrants]
        /\ \A k \in Jobs : tokens'[k] <= granted'[k]
        /\ provider' \in [Jobs -> {"none", "accepted", "completed", "failed"}]
        /\ operations' \in [Jobs -> Nat] /\ provider' = provider /\ operations' = operations
    BY <2>3 DEF money, Inv, TypeOK
  <2>7. ProcOK(p)'
    BY <2>1, <2>4 DEF ProcOK, Paid
  <2>8. \A q \in Procs \ {p} : Paid(j) => ~Holds(q, j)
    <3>1. CASE procs[p].at = "created" /\ procs[p].job = j
      BY <3>1 DEF Inv, Jobwise, PaidJob, Holds
    <3>2. CASE rows[j].attempts > 0
      BY <1>2, <3>2 DEF Inv, Jobwise, PaidJob, Holder
    <3> QED BY <3>1, <3>2 DEF Start
  <2>9. ASSUME Paid(j) PROVE rows[j].effect = "PRE_EFFECT" /\ PaidRow(j)' /\ Holder(p, j)'
    <3>1. PaidRow(j) /\ rows[j].effect = "PRE_EFFECT"
      BY <1>2, <2>9 DEF Inv, Jobwise, PaidJob, PaidRow
    <3> QED BY <2>1, <2>2, <2>4, <2>5, <2>6, <3>1 DEF PaidRow, Holder, EffectAt
  <2>10. ~Paid(j) => LocalJob(j)'
    BY <2>2, <2>5, <2>6 DEF Inv, Jobwise, LocalJob
  <2>11. rows'[j].effect # "FINALIZED"
    BY <1>2, <2>2, <2>5 DEF Inv, TypeOK, Ended
  <2> QED
    BY <2>1, <2>2, <2>3, <2>4, <2>5, <2>6, <2>7, <2>8, <2>9, <2>10, <2>11, JobStep DEF Ended
<1> QED BY <1>1, <1>2

-----------------------------------------------------------------------------
(* The paid execution: only the process moves, or its row with it.           *)
LEMMA MovesKeepInv ==
  ASSUME Inv, NEW p \in Procs,
         Consume(p) \/ MarkRead(p) \/ (\E t \in BOOLEAN : Raise(p, t)) \/ FailRead(p)
  PROVE  Inv'
<1> DEFINE j == procs[p].job
<1> USE DEF Places
<1>1. CASE Consume(p)
  <2>1. /\ procs[p].at = "begun" /\ Paid(j) /\ procs[p].target = "none" /\ procs[p].read = NoRow
        /\ UNCHANGED <<rows, snapshot, granted, provider, operations>>
    BY <1>1 DEF Consume, Inv, ProcOK
  <2>2. j \in Jobs /\ Holder(p, j)
    BY <2>1, Alone
  <2>3. \E at \in {"consumed", "failing"} : procs' = [procs EXCEPT ![p].at = at]
    BY <1>1 DEF Consume
  <2>4. /\ procs' \in [Procs -> ProcStates] /\ procs'[p].at \in {"consumed", "failing"}
        /\ procs'[p].job = j /\ procs'[p].target = "none" /\ procs'[p].read = NoRow
        /\ \A q \in Procs \ {p} : procs'[q] = procs[q]
    BY <2>1, <2>3 DEF Inv, TypeOK, ProcStates
  <2>5. tokens' \in [Jobs -> 0..MaxGrants] /\ \A k \in Jobs : tokens'[k] <= granted[k]
    BY <1>1, <2>2, JobsAssumption DEF Consume, Inv, TypeOK
  <2>6. ProcOK(p)'
    BY <2>1, <2>2, <2>4 DEF ProcOK, Paid
  <2>7. Holder(p, j)'
    BY <2>1, <2>2, <2>4 DEF Holder, EffectAt
  <2> QED BY <2>1, <2>4, <2>5, <2>6, <2>7, ProcStep
<1>2. CASE MarkRead(p)
  <2>1. PICK target \in NextMark(p) :
          procs' = [procs EXCEPT ![p] =
            IF MayFollow(rows[@.job].effect, target)
              THEN [@ EXCEPT !.target = target] ELSE [@ EXCEPT !.at = "failing"]]
    BY <1>2 DEF MarkRead
  <2>2. /\ procs[p].at \in {"consumed", "AUTHORIZATION_CONSUMED", "accepted", "unanswered",
                           "EXTERNAL_ID_KNOWN", "PROVIDER_COMPLETED", "OUTPUT_DOWNLOADED",
                           "OUTPUT_RETAINED"}
        /\ target = "AUTHORIZATION_CONSUMED" => procs[p].at = "consumed"
        /\ target = "SUBMISSION_STARTED" => procs[p].at = "AUTHORIZATION_CONSUMED"
        /\ target = "AMBIGUOUS" => procs[p].at = "unanswered"
        /\ target = "PROVIDER_FAILED" => provider[j] = "failed"
        /\ target \in {"AUTHORIZATION_CONSUMED", "SUBMISSION_STARTED", "AMBIGUOUS",
                       "EXTERNAL_ID_KNOWN", "PROVIDER_COMPLETED", "PROVIDER_FAILED",
                       "OUTPUT_DOWNLOADED", "OUTPUT_RETAINED", "COST_RECONCILED"}
    BY <2>1 DEF NextMark
  <2>3. procs[p].target = "none" /\ procs[p].read = NoRow
    BY <1>2, <2>2 DEF MarkRead, Inv, ProcOK
  <2>4. j \in Jobs /\ Paid(j) /\ Holder(p, j)
    BY <2>2, Alone DEF Inv, ProcOK
  <2>5. target \in EffectStates
    BY <2>2, EffectNames
  <2>6. /\ procs' \in [Procs -> ProcStates] /\ procs'[p].job = j /\ procs'[p].read = NoRow
        /\ \/ procs'[p].at = procs[p].at /\ procs'[p].target = target
           \/ procs'[p].at = "failing" /\ procs'[p].target = "none"
        /\ \A q \in Procs \ {p} : procs'[q] = procs[q]
    BY SMTT(30), <2>1, <2>3, <2>5 DEF Inv, TypeOK, ProcStates
  <2>7. ProcOK(p)'
    BY <2>2, <2>3, <2>4, <2>6 DEF ProcOK, Paid
  <2>8. Holder(p, j)'
    BY <1>2, <2>2, <2>4, <2>6 DEF MarkRead, money, Holder
  <2>9. /\ UNCHANGED <<rows, snapshot, provider, operations, granted>>
        /\ tokens' \in [Jobs -> 0..MaxGrants] /\ \A k \in Jobs : tokens'[k] <= granted[k]
    BY <1>2 DEF MarkRead, money, Inv, TypeOK
  <2> QED BY <2>2, <2>6, <2>7, <2>8, <2>9, ProcStep
<1>3. ASSUME NEW terminal \in BOOLEAN, Raise(p, terminal)
      PROVE  Inv'
  <2>1. /\ procs[p].at \notin {"idle", "created", "failing"} /\ procs[p].target = "none"
        /\ procs[p].read = NoRow
    BY <1>3 DEF Raise, Inv, ProcOK
  <2>2. j \in Jobs /\ (Paid(j) => Holder(p, j))
    BY <2>1, Alone
  <2> DEFINE next == [procs[p] EXCEPT !.at = "failing", !.terminal = terminal]
  <2>a. /\ next \in ProcStates /\ next.at = "failing" /\ next.job = j
        /\ next.target = "none" /\ next.read = NoRow
    <3>1. procs[p] \in ProcStates
      BY DEF Inv, TypeOK
    <3>2. [procs[p] EXCEPT !.at = "failing", !.terminal = terminal] = next
      OBVIOUS
    <3> HIDE DEF next
    <3> QED BY <2>1, <3>1, <3>2, FailsFacts
  <2>b. procs' = [procs EXCEPT ![p] = next]
    BY <1>3 DEF Raise, Inv, TypeOK
  <2> HIDE DEF next
  <2>3. /\ procs' \in [Procs -> ProcStates] /\ procs'[p].at = "failing"
        /\ procs'[p].job = j /\ procs'[p].target = "none" /\ procs'[p].read = NoRow
        /\ \A q \in Procs \ {p} : procs'[q] = procs[q]
    BY <2>a, <2>b DEF Inv, TypeOK
  <2>4. ProcOK(p)'
    BY <2>2, <2>3 DEF ProcOK, Paid
  <2>5. /\ UNCHANGED <<rows, snapshot, provider, operations, granted>>
        /\ tokens' \in [Jobs -> 0..MaxGrants] /\ \A k \in Jobs : tokens'[k] <= granted[k]
    BY <1>3 DEF Raise, money, Inv, TypeOK
  <2>6. Paid(j) => Holder(p, j)'
    BY <2>1, <2>2, <2>3, <2>5 DEF Holder
  <2> QED BY <2>1, <2>3, <2>4, <2>5, <2>6, ProcStep
<1>4. CASE FailRead(p)
  <2>1. procs[p].at = "failing" /\ procs[p].target = "none" /\ procs' = [procs EXCEPT ![p].read = rows[j]]
    BY <1>4 DEF FailRead, Inv, ProcOK
  <2>2. j \in Jobs /\ (Paid(j) => Holder(p, j)) /\ (~Paid(j) => LocalJob(j))
    BY <2>1, Alone
  <2>3. /\ procs' \in [Procs -> ProcStates] /\ procs'[p].at = "failing"
        /\ procs'[p].job = j /\ procs'[p].target = "none" /\ procs'[p].read = rows[j]
        /\ \A q \in Procs \ {p} : procs'[q] = procs[q]
    BY <2>1, <2>2 DEF Inv, TypeOK, ProcStates
  <2>4. ProcOK(p)'
    BY <2>2, <2>3 DEF ProcOK, Paid, LocalJob
  <2>5. /\ UNCHANGED <<rows, snapshot, provider, operations, granted>>
        /\ tokens' \in [Jobs -> 0..MaxGrants] /\ \A k \in Jobs : tokens'[k] <= granted[k]
    BY <1>4 DEF FailRead, money, Inv, TypeOK
  <2>6. Paid(j) => Holder(p, j)'
    BY <2>1, <2>2, <2>3, <2>5 DEF Holder
  <2> QED BY <2>1, <2>3, <2>4, <2>5, <2>6, ProcStep
<1> QED BY <1>1, <1>2, <1>3, <1>4

(* A row keeps what TypeOK says of it.                                       *)
LEMMA HeldRow ==
  ASSUME Inv, UNCHANGED rows
  PROVE  /\ rows' \in [Jobs -> Rows]
         /\ \A k \in Jobs : rows'[k].effect = "FINALIZED" <=> rows'[k].status \in Ended
BY DEF Inv, TypeOK

LEMMA MarkWriteKeepsInv ==
  ASSUME Inv, NEW p \in Procs, MarkWrite(p)
  PROVE  Inv'
<1>0. PICK j, target : j = procs[p].job /\ target = procs[p].target
  OBVIOUS
<1> DEFINE external == rows[j].external \/ target = "EXTERNAL_ID_KNOWN"
           marked == [rows[j] EXCEPT !.effect = target, !.external = external]
<1>1. /\ target # "none" /\ procs[p].at # "idle" /\ procs[p].read = NoRow
      /\ procs[p].at \notin {"created", "begun", "failing"}
      /\ UNCHANGED <<snapshot, tokens, granted, provider, operations>>
  BY <1>0 DEF MarkWrite, money, Inv, ProcOK
<1>2. /\ j \in Jobs /\ Paid(j) /\ PaidRow(j) /\ Holder(p, j)
      /\ \A q \in Procs \ {p} : ~Holds(q, j)
  BY <1>0, <1>1, Alone DEF Inv, ProcOK
<1>3. target \in EffectStates /\ rows[j] \in Rows /\ external \in BOOLEAN
  BY <1>0, <1>1, <1>2 DEF Inv, TypeOK, ProcStates, Rows
<1>4. /\ tokens' \in [Jobs -> 0..MaxGrants] /\ granted' \in [Jobs -> 0..MaxGrants]
      /\ \A k \in Jobs : tokens'[k] <= granted'[k]
      /\ provider' \in [Jobs -> {"none", "accepted", "completed", "failed"}]
      /\ operations' \in [Jobs -> Nat]
  BY <1>1 DEF Inv, TypeOK
<1>5. CASE ~TriggersAllow(rows[j], marked)
  <2>1. procs' = [procs EXCEPT ![p].at = "failing", ![p].target = "none"] /\ UNCHANGED rows
    BY <1>0, <1>5 DEF MarkWrite
  <2>2. /\ procs' \in [Procs -> ProcStates] /\ procs'[p].at = "failing"
        /\ procs'[p].target = "none" /\ procs'[p].job = j /\ procs'[p].read = NoRow
        /\ \A q \in Procs \ {p} : procs'[q] = procs[q]
    BY <1>0, <1>1, <2>1 DEF Places, Inv, TypeOK, ProcStates
  <2>3. ProcOK(p)'
    BY <1>2, <2>2 DEF ProcOK, Paid
  <2>4. Holder(p, j)' /\ PaidRow(j)'
    BY <1>0, <1>1, <1>2, <2>1, <2>2 DEF Holder, PaidRow
  <2> QED BY <1>0, <1>1, <1>2, <1>4, <2>1, <2>2, <2>3, <2>4, JobStep, HeldRow
<1>6. CASE TriggersAllow(rows[j], marked)
  <2>1. /\ procs' = [procs EXCEPT ![p].at = target, ![p].target = "none"]
        /\ rows' = [rows EXCEPT ![j] = Touch(marked)] /\ rows[j].status \notin Ended
    BY <1>0, <1>6 DEF MarkWrite, TriggersAllow
  <2>2. /\ marked \in Rows /\ marked.effect = target /\ marked.external = external
        /\ marked.status = rows[j].status /\ marked.attempts = rows[j].attempts
    <3> HIDE DEF external
    <3> QED BY <1>3 DEF Rows
  <2> HIDE DEF marked
  <2>3. target \in {"AUTHORIZATION_CONSUMED", "SUBMISSION_STARTED", "AMBIGUOUS",
                    "EXTERNAL_ID_KNOWN", "PROVIDER_COMPLETED", "PROVIDER_FAILED",
                    "OUTPUT_DOWNLOADED", "OUTPUT_RETAINED", "COST_RECONCILED"}
    BY <1>0, <1>1, <1>3, EffectNames DEF Inv, ProcOK
  <2>4. /\ procs' \in [Procs -> ProcStates] /\ procs'[p].at = target
        /\ procs'[p].target = "none" /\ procs'[p].job = j /\ procs'[p].read = NoRow
        /\ \A q \in Procs \ {p} : procs'[q] = procs[q]
    <3>1. target \in Places
      BY <2>3 DEF Places
    <3> QED BY <1>0, <1>1, <2>1, <3>1 DEF Inv, TypeOK, ProcStates
  <2>5. /\ rows' \in [Jobs -> Rows] /\ rows'[j].status = rows[j].status /\ rows'[j].effect = target
        /\ rows'[j].external = external /\ rows'[j].stale = FALSE
        /\ \A k \in Jobs \ {j} : rows'[k] = rows[k]
    BY <1>2, <2>1, <2>2, TouchFacts DEF Inv, TypeOK
  <2>6. ProcOK(p)'
    BY <1>2, <2>3, <2>4 DEF ProcOK, Paid
  <2>7. procs[p].at # "created" /\ rows[j].status = "running"
    BY <1>0, <1>1, <1>2 DEF Holder
  <2>8. PaidRow(j)'
    <3>1. target = "AUTHORIZATION_CONSUMED" => rows[j].effect = "PRE_EFFECT"
      BY <1>0, <1>2 DEF Inv, ProcOK, Holder, EffectAt
    <3>2. target = "SUBMISSION_STARTED" => rows[j].effect = "AUTHORIZATION_CONSUMED"
      BY <1>0, <1>2 DEF Inv, ProcOK, Holder, EffectAt
    <3>3. target = "AMBIGUOUS" => rows[j].effect = "SUBMISSION_STARTED"
      BY <1>0, <1>2 DEF Inv, ProcOK, Holder, EffectAt
    <3>4. target = "PROVIDER_FAILED" => provider[j] = "failed"
      BY <1>0, <1>2 DEF Holder
    <3>5. target \in UnknownEffect \cup {"PRE_EFFECT", "NO_EFFECT_CONFIRMED"} => ~external
      BY <1>2, <2>3, <3>1, <3>2, <3>3 DEF PaidRow, UnknownEffect
    <3>6. target \in {"PRE_EFFECT", "AUTHORIZATION_CONSUMED", "NO_EFFECT_CONFIRMED"} =>
            provider[j] = "none"
      BY <1>2, <2>3, <3>1 DEF PaidRow
    <3>7. operations[j] = IF provider[j] = "none" THEN 0 ELSE 1
      BY <1>2 DEF PaidRow
    <3> HIDE DEF external
    <3> QED BY <1>1, <2>3, <2>5, <2>7, <3>4, <3>5, <3>6, <3>7 DEF PaidRow
  <2>9. Holder(p, j)'
    <3>1. target = "SUBMISSION_STARTED" => provider[j] = "none"
      BY <1>0, <1>2 DEF Inv, ProcOK, Holder, EffectAt, PaidRow
    <3> QED BY <1>1, <2>3, <2>4, <2>5, <2>7, <3>1 DEF Holder, EffectAt
  <2> QED BY <1>1, <1>2, <1>4, <2>3, <2>4, <2>5, <2>6, <2>7, <2>8, <2>9, JobStep DEF Ended
<1> QED BY <1>5, <1>6

LEMMA SubmitKeepsInv ==
  ASSUME Inv, NEW p \in Procs, NEW accepted \in BOOLEAN, NEW answered \in BOOLEAN,
         Submit(p, accepted, answered)
  PROVE  Inv'
<1>0. PICK j : j = procs[p].job
  OBVIOUS
<1>1. /\ procs[p].at = "SUBMISSION_STARTED" /\ procs[p].target = "none" /\ procs[p].read = NoRow
      /\ UNCHANGED <<rows, snapshot, tokens, granted>>
  BY <1>0 DEF Submit, Inv, ProcOK
<1>2. /\ j \in Jobs /\ Paid(j) /\ PaidRow(j) /\ Holder(p, j)
      /\ \A q \in Procs \ {p} : ~Holds(q, j)
  BY <1>0, <1>1, Alone DEF Inv, ProcOK
<1>3. provider[j] = "none" /\ operations[j] = 0 /\ rows[j].effect = "SUBMISSION_STARTED"
        /\ rows[j].status = "running" /\ ~rows[j].stale
  BY <1>0, <1>1, <1>2 DEF Holder, PaidRow, EffectAt
<1>4. \E at \in {"accepted", "unanswered"} : procs' = [procs EXCEPT ![p].at = at]
  BY DEF Submit
<1>5. /\ procs' \in [Procs -> ProcStates] /\ procs'[p].at \in {"accepted", "unanswered"}
      /\ procs'[p].target = "none" /\ procs'[p].job = j /\ procs'[p].read = NoRow
      /\ \A q \in Procs \ {p} : procs'[q] = procs[q]
  <2>1. PICK at \in {"accepted", "unanswered"} : procs' = [procs EXCEPT ![p].at = at]
    BY <1>4
  <2>2. at \in Places
    BY DEF Places
  <2> QED BY <1>0, <1>1, <2>1, <2>2 DEF Inv, TypeOK, ProcStates
<1>6. /\ provider' \in [Jobs -> {"none", "accepted", "completed", "failed"}]
      /\ operations' \in [Jobs -> Nat]
      /\ provider'[j] = IF accepted THEN "accepted" ELSE "none"
      /\ operations'[j] = IF accepted THEN 1 ELSE 0
      /\ \A k \in Jobs \ {j} : provider'[k] = provider[k] /\ operations'[k] = operations[k]
  BY <1>0, <1>2, <1>3 DEF Submit, Inv, TypeOK
<1>7. /\ tokens' \in [Jobs -> 0..MaxGrants] /\ granted' \in [Jobs -> 0..MaxGrants]
      /\ rows' \in [Jobs -> Rows] /\ \A k \in Jobs : tokens'[k] <= granted'[k]
  BY <1>1 DEF Inv, TypeOK
<1>8. ProcOK(p)'
  BY <1>2, <1>5 DEF ProcOK, Paid
<1>9. PaidRow(j)'
  <2>1. provider'[j] = IF accepted THEN "accepted" ELSE "none"
    BY <1>6
  <2>2. operations'[j] = IF provider'[j] = "none" THEN 0 ELSE 1
    BY <1>6
  <2>3. rows'[j] = rows[j] /\ rows'[j].external = rows[j].external
    BY <1>1
  <2>4. ~rows[j].external
    BY <1>2, <1>3 DEF PaidRow, UnknownEffect
  <2> QED BY <1>3, <2>2, <2>3, <2>4 DEF PaidRow
<1>10. Holder(p, j)'
  BY <1>1, <1>3, <1>5 DEF Holder, EffectAt
<1> QED
  BY <1>1, <1>2, <1>3, <1>5, <1>6, <1>7, <1>8, <1>9, <1>10, JobStep DEF Ended

-----------------------------------------------------------------------------
(* A process finishes its job, or fails it, and gives it up.                 *)
LEMMA LeavesJob ==
  ASSUME Inv, NEW p \in Procs, NEW j \in Jobs, j = procs[p].job, procs[p].at # "idle",
         procs' = [procs EXCEPT ![p] = Idle], NEW row \in Rows,
         rows' = [rows EXCEPT ![j] = Touch(row)], UNCHANGED <<snapshot, money>>,
         row.effect = "FINALIZED" <=> row.status \in Ended, row.status \notin {"absent", "queued"},
         Paid(j) =>
           /\ row.effect \in {"PRE_EFFECT", "AUTHORIZATION_CONSUMED", "NO_EFFECT_CONFIRMED"} =>
                provider[j] = "none"
           /\ row.effect \in UnknownEffect \cup {"PRE_EFFECT", "NO_EFFECT_CONFIRMED"} => ~row.external
           /\ row.effect = "PROVIDER_FAILED" => provider[j] = "failed"
           /\ row.effect # "EFFECT_CONFIRMED",
         ~Paid(j) => row.effect \in {"PRE_EFFECT", "FINALIZED"}
  PROVE  Inv'
<1>1. /\ procs' \in [Procs -> ProcStates] /\ procs'[p] = Idle
      /\ \A q \in Procs \ {p} : procs'[q] = procs[q]
  BY IdleFacts DEF Inv, TypeOK
<1>2. ProcOK(p)'
  BY <1>1, IdleFacts DEF ProcOK
<1>3. /\ rows' \in [Jobs -> Rows] /\ rows'[j] = Touch(row)
      /\ \A k \in Jobs \ {j} : rows'[k] = rows[k]
  BY TouchFacts DEF Inv, TypeOK
<1>4. /\ rows'[j].status = row.status /\ rows'[j].effect = row.effect
      /\ rows'[j].external = row.external /\ rows'[j].stale = FALSE
  BY <1>3, TouchFacts
<1>5. /\ tokens' \in [Jobs -> 0..MaxGrants] /\ granted' \in [Jobs -> 0..MaxGrants]
      /\ \A k \in Jobs : tokens'[k] <= granted'[k]
      /\ provider' \in [Jobs -> {"none", "accepted", "completed", "failed"}]
      /\ operations' \in [Jobs -> Nat] /\ provider' = provider /\ operations' = operations
      /\ snapshot' = snapshot
  BY DEF money, Inv, TypeOK
<1>6. Paid(j) => PaidRow(j) /\ \A q \in Procs \ {p} : ~Holds(q, j)
  BY Alone
<1>7. Paid(j) => PaidRow(j)'
  BY <1>4, <1>5, <1>6 DEF PaidRow
<1>8. ~Paid(j) => LocalJob(j)'
  BY <1>4, <1>5, Alone DEF LocalJob
<1>9. procs'[p].at = "idle"
  BY <1>1, IdleFacts
<1> QED BY <1>1, <1>2, <1>3, <1>4, <1>5, <1>6, <1>7, <1>8, <1>9, JobStep

LEMMA FinishKeepsInv ==
  ASSUME Inv, NEW p \in Procs, Finish(p)
  PROVE  Inv'
<1>0. PICK j : j = procs[p].job
  OBVIOUS
<1> DEFINE finished == [rows[j] EXCEPT !.status = "succeeded", !.effect = "FINALIZED"]
<1>1. /\ procs[p].at \notin {"idle", "created", "failing"} /\ procs[p].target = "none"
      /\ procs[p].read = NoRow /\ UNCHANGED <<snapshot, money>>
  BY <1>0 DEF Finish, WorkDone, Inv, ProcOK
<1>2. /\ j \in Jobs /\ (Paid(j) => PaidRow(j) /\ Holder(p, j))
      /\ \A q \in Procs \ {p} : Paid(j) => ~Holds(q, j)
  BY <1>0, <1>1, Alone
<1>3. CASE rows[j].status = "running" /\ TriggersAllow(rows[j], finished)
  <2>1. procs' = [procs EXCEPT ![p] = Idle] /\ rows' = [rows EXCEPT ![j] = Touch(finished)]
    BY <1>0, <1>3 DEF Finish
  <2>2. finished \in Rows /\ finished.status = "succeeded" /\ finished.effect = "FINALIZED"
    <3>1. rows[j] \in Rows
      BY <1>2 DEF Inv, TypeOK
    <3>2. "FINALIZED" \in EffectStates /\ "succeeded" \in JobStatuses
      BY EffectNames DEF JobStatuses, Ended
    <3> QED BY <3>1, <3>2 DEF Rows
  <2> HIDE DEF finished
  <2> QED BY <1>0, <1>1, <1>2, <2>1, <2>2, LeavesJob DEF Ended, UnknownEffect
<1>4. CASE ~(rows[j].status = "running" /\ TriggersAllow(rows[j], finished))
  <2>1. procs' = [procs EXCEPT ![p].at = "failing"] /\ UNCHANGED rows
    BY <1>0, <1>4 DEF Finish
  <2>2. /\ procs' \in [Procs -> ProcStates] /\ procs'[p].at = "failing"
        /\ procs'[p].job = j /\ procs'[p].target = "none" /\ procs'[p].read = NoRow
        /\ \A q \in Procs \ {p} : procs'[q] = procs[q]
    BY <1>0, <1>1, <2>1 DEF Inv, TypeOK, ProcStates, Places
  <2>3. ProcOK(p)'
    BY <1>2, <2>2 DEF ProcOK, Paid
  <2>4. /\ UNCHANGED <<rows, snapshot, provider, operations, granted>>
        /\ tokens' \in [Jobs -> 0..MaxGrants] /\ \A k \in Jobs : tokens'[k] <= granted[k]
    BY <1>1, <2>1 DEF money, Inv, TypeOK
  <2>5. Paid(j) => Holder(p, j)'
    BY <1>1, <1>2, <2>2, <2>4, <1>0 DEF Holder
  <2> QED BY <1>0, <1>1, <2>2, <2>3, <2>4, <2>5, ProcStep
<1> QED BY <1>3, <1>4

(* What fail_pipeline_job writes for a row it read is always a legal row.    *)
LEMMA FailedFacts ==
  ASSUME NEW row \in Rows, NEW terminal \in BOOLEAN
  PROVE  LET failed == Failed(row, row, terminal) IN
         /\ failed \in Rows /\ failed.external = row.external
         /\ \/ failed = row
            \/ /\ row.effect \in UnknownEffect /\ ~row.external /\ failed.status = row.status
               /\ failed.effect = IF row.effect = "AUTHORIZATION_CONSUMED"
                                    THEN "NO_EFFECT_CONFIRMED" ELSE "AMBIGUOUS"
            \/ /\ failed.status = "failed" /\ failed.effect = "FINALIZED"
               /\ row.status = "running" /\ row.effect \in UnknownEffect => row.external
               /\ row.status = "running" /\ row.effect \in KnownEffect =>
                    row.effect = "COST_RECONCILED"
<1>1. /\ [row EXCEPT !.status = "failed", !.effect = "FINALIZED"] \in Rows
      /\ \A e \in EffectStates : [row EXCEPT !.effect = e] \in Rows
  BY EffectNames DEF Rows, JobStatuses, Ended
<1>2. "NO_EFFECT_CONFIRMED" \in EffectStates /\ "AMBIGUOUS" \in EffectStates
  BY EffectNames
<1> QED BY <1>1, <1>2 DEF Failed, UnknownEffect, Rows

LEMMA FailWriteKeepsInv ==
  ASSUME Inv, NEW p \in Procs, FailWrite(p)
  PROVE  Inv'
<1>0. PICK j : j = procs[p].job
  OBVIOUS
<1> DEFINE failed == Failed(rows[j], procs[p].read, procs[p].terminal)
<1>1. /\ procs[p].at = "failing" /\ procs[p].read # NoRow /\ UNCHANGED <<snapshot, money>>
      /\ procs' = [procs EXCEPT ![p] = Idle]
  BY <1>0 DEF FailWrite, Inv, ProcOK
<1>2. /\ j \in Jobs /\ (Paid(j) => PaidRow(j) /\ Holder(p, j))
      /\ ~Paid(j) => LocalJob(j)
  BY <1>0, <1>1, Alone
<1>3. CASE ~(rows[j].status = "running" /\ TriggersAllow(rows[j], failed))
  <2>1. UNCHANGED rows
    BY <1>0, <1>3 DEF FailWrite
  <2> QED BY <1>1, <2>1, GivesUp
<1>4. CASE rows[j].status = "running" /\ TriggersAllow(rows[j], failed)
  <2>1. rows' = [rows EXCEPT ![j] = Touch(failed)]
    BY <1>0, <1>4 DEF FailWrite
  <2>2. rows[j] \in Rows /\ procs[p].terminal \in BOOLEAN /\ rows[j].effect # "FINALIZED"
    BY <1>2, <1>4 DEF Inv, TypeOK, ProcStates, Ended
  <2>3. CASE Paid(j)
    <3>1. procs[p].read = rows[j]
      BY <1>1, <1>2, <2>3 DEF Holder
    <3>2. failed = Failed(rows[j], rows[j], procs[p].terminal)
      BY <3>1
    <3> HIDE DEF failed
    <3>3. failed \in Rows /\ failed.external = rows[j].external
      BY <2>2, <3>2, FailedFacts
    <3>4. \/ failed = rows[j]
          \/ /\ rows[j].effect \in UnknownEffect /\ ~rows[j].external
             /\ failed.status = rows[j].status
             /\ failed.effect = IF rows[j].effect = "AUTHORIZATION_CONSUMED"
                                  THEN "NO_EFFECT_CONFIRMED" ELSE "AMBIGUOUS"
          \/ failed.status = "failed" /\ failed.effect = "FINALIZED"
      BY <2>2, <3>2, FailedFacts
    <3>5. failed.effect = "FINALIZED" <=> failed.status \in Ended
      BY <1>4, <2>2, <3>4 DEF Ended
    <3>6. failed.status \notin {"absent", "queued"}
      BY <1>4, <3>4
    <3>7. /\ failed.effect \in {"PRE_EFFECT", "AUTHORIZATION_CONSUMED", "NO_EFFECT_CONFIRMED"} =>
               provider[j] = "none"
          /\ failed.effect \in UnknownEffect \cup {"PRE_EFFECT", "NO_EFFECT_CONFIRMED"} =>
               ~failed.external
          /\ failed.effect = "PROVIDER_FAILED" => provider[j] = "failed"
          /\ failed.effect # "EFFECT_CONFIRMED"
      BY <1>2, <2>3, <3>3, <3>4 DEF PaidRow, UnknownEffect
    <3> QED BY <1>0, <1>1, <1>2, <2>1, <2>3, <3>3, <3>5, <3>6, <3>7, LeavesJob
  <2>4. CASE ~Paid(j)
    <3>1. procs[p].read.effect \in {"PRE_EFFECT", "FINALIZED"}
      BY <1>0, <1>1, <2>4 DEF Inv, ProcOK
    <3>2. failed = [rows[j] EXCEPT !.status = "failed", !.effect = "FINALIZED"]
      BY <3>1 DEF Failed, UnknownEffect, KnownEffect
    <3>3. failed \in Rows /\ failed.status = "failed" /\ failed.effect = "FINALIZED"
      BY <2>2, <3>2, EffectNames DEF Rows, JobStatuses, Ended
    <3> HIDE DEF failed
    <3> QED BY <1>0, <1>1, <1>2, <2>1, <2>4, <3>3, LeavesJob DEF Ended
  <2> QED BY <2>3, <2>4
<1> QED BY <1>3, <1>4

-----------------------------------------------------------------------------
(* The provider and the operator.                                            *)
LEMMA ProviderKeepsInv ==
  ASSUME Inv, NEW j \in Jobs, NEW outcome \in {"completed", "failed"}, ProviderEnds(j, outcome)
  PROVE  Inv'
<1>1. /\ provider[j] = "accepted" /\ UNCHANGED <<rows, procs, snapshot, tokens, granted, operations>>
      /\ provider' \in [Jobs -> {"none", "accepted", "completed", "failed"}]
      /\ provider'[j] = outcome /\ \A k \in Jobs \ {j} : provider'[k] = provider[k]
  BY DEF ProviderEnds, Inv, TypeOK
<1>2. TypeOK' /\ \A k \in Jobs : tokens'[k] <= granted'[k]
  BY <1>1 DEF Inv, TypeOK
<1>3. \A p \in Procs : ProcOK(p)'
  BY <1>1 DEF Inv, ProcOK, Paid
<1>4. ASSUME NEW k \in Jobs \ {j} PROVE Jobwise(k)'
  BY <1>1, Untouched DEF Inv
<1>5. Jobwise(j)'
  <2>1. Selected(j)' /\ Absent(j)'
    BY <1>1 DEF Inv, Jobwise, Selected, Absent
  <2>2. Paid(j)
    BY <1>1 DEF Inv, Jobwise, LocalJob
  <2>3. PaidRow(j)'
    <3>1. provider[j] # "none" /\ provider[j] # "failed" /\ provider'[j] # "none" /\ PaidRow(j)
      BY <1>1, <2>2 DEF Inv, Jobwise, PaidJob
    <3> QED BY <1>1, <3>1 DEF PaidRow
  <2>4. ASSUME NEW p \in Procs, Holds(p, j)' PROVE Holder(p, j)'
    <3>1. Holder(p, j)
      BY <1>1, <2>2, <2>4 DEF Holds, Inv, Jobwise, PaidJob
    <3> QED BY <1>1, <3>1 DEF Holder
  <2> QED BY <1>1, <2>1, <2>2, <2>3, <2>4 DEF Inv, Jobwise, PaidJob, Holds, Paid
<1> QED BY <1>2, <1>3, <1>4, <1>5 DEF Inv

(* The operator writes the row of a job that no process holds, if it is paid. *)
LEMMA RowStep ==
  ASSUME Inv, NEW j \in Jobs, UNCHANGED <<procs, snapshot, provider, operations>>,
         NEW row \in Rows, rows' = [rows EXCEPT ![j] = row],
         row.effect = "FINALIZED" <=> row.status \in Ended, row.status # "absent",
         tokens' \in [Jobs -> 0..MaxGrants], granted' \in [Jobs -> 0..MaxGrants],
         \A k \in Jobs : tokens'[k] <= granted'[k],
         ~row.stale \/ snapshot[j] = NoRow,
         Paid(j) => PaidRow(j)' /\ \A q \in Procs : ~Holds(q, j),
         ~Paid(j) => row.effect \in {"PRE_EFFECT", "FINALIZED"}
  PROVE  Inv'
<1>1. /\ rows' \in [Jobs -> Rows] /\ rows'[j] = row
      /\ \A k \in Jobs \ {j} : rows'[k] = rows[k]
  BY DEF Inv, TypeOK
<1>2. TypeOK' /\ \A k \in Jobs : tokens'[k] <= granted'[k]
  BY <1>1 DEF Inv, TypeOK
<1>3. \A p \in Procs : ProcOK(p)'
  BY DEF Inv, ProcOK, Paid
<1>4. ASSUME NEW k \in Jobs \ {j} PROVE Jobwise(k)'
  BY <1>1, Untouched DEF Inv
<1>5. Selected(j)' /\ Absent(j)' /\ (~Paid(j) => LocalJob(j)')
  BY <1>1 DEF Inv, Jobwise, Selected, Absent, LocalJob
<1>6. Paid(j) => PaidJob(j)'
  BY DEF PaidJob, Holds
<1> QED BY <1>2, <1>3, <1>4, <1>5, <1>6 DEF Inv, Jobwise, Paid

LEMMA AgeKeepsInv ==
  ASSUME Attended, Inv, NEW j \in Jobs, Age(j)
  PROVE  Inv'
<1> DEFINE row == [rows[j] EXCEPT !.stale = TRUE]
<1>1. /\ rows' = [rows EXCEPT ![j] = row] /\ rows[j].status \in Live /\ snapshot[j] = NoRow
      /\ UNCHANGED <<procs, snapshot, money>>
  BY DEF Age, Inv, TypeOK
<1>2. /\ row \in Rows /\ row.status = rows[j].status /\ row.effect = rows[j].effect
      /\ row.external = rows[j].external
  BY DEF Inv, TypeOK, Rows
<1> HIDE DEF row
<1>3. rows[j].effect = "FINALIZED" <=> rows[j].status \in Ended
  BY DEF Inv, TypeOK
<1>4. /\ tokens' \in [Jobs -> 0..MaxGrants] /\ granted' \in [Jobs -> 0..MaxGrants]
      /\ \A k \in Jobs : tokens'[k] <= granted'[k]
      /\ provider' = provider /\ operations' = operations
  BY <1>1 DEF money, Inv, TypeOK
<1>5. rows'[j] = row
  BY <1>1 DEF Inv, TypeOK
<1>6. ASSUME Paid(j) PROVE PaidRow(j)' /\ \A q \in Procs : ~Holds(q, j)
  BY <1>2, <1>4, <1>5, <1>6 DEF Attended, Age, Recoverable, Unattended, Inv, Jobwise,
     PaidJob, PaidRow
<1>7. ~Paid(j) => row.effect \in {"PRE_EFFECT", "FINALIZED"}
  BY <1>2 DEF Inv, Jobwise, LocalJob
<1> QED BY <1>1, <1>2, <1>3, <1>4, <1>6, <1>7, RowStep DEF Live

LEMMA ReconcileKeepsInv ==
  ASSUME Attended, Inv, NEW j \in Jobs, NEW c \in CLASSIFICATIONS, Reconcile(j, c)
  PROVE  Inv'
<1> DEFINE effect == CASE c = "EXACT_MATCH" -> "EXTERNAL_ID_KNOWN"
                       [] c = "PROVIDER_PROVED_NO_EFFECT" -> "NO_EFFECT_CONFIRMED"
                       [] OTHER -> "AMBIGUOUS"
           external == rows[j].external \/ c = "EXACT_MATCH"
           row == [Touch(rows[j]) EXCEPT !.effect = effect, !.external = external]
<1>1. /\ rows' = [rows EXCEPT ![j] = row] /\ rows[j].status = "running"
      /\ rows[j].effect \in {"SUBMISSION_STARTED", "AMBIGUOUS"}
      /\ UNCHANGED <<procs, snapshot, money>>
  BY DEF Reconcile
<1>2. Paid(j) /\ \A q \in Procs : ~Holds(q, j)
  BY <1>1 DEF Attended, Reconcile, Recoverable, Unattended, Inv, Jobwise, LocalJob
<1>3. /\ effect \in EffectStates /\ effect \in {"EXTERNAL_ID_KNOWN", "NO_EFFECT_CONFIRMED", "AMBIGUOUS"}
      /\ effect = "NO_EFFECT_CONFIRMED" => provider[j] = "none"
      /\ effect # "EXTERNAL_ID_KNOWN" => c # "EXACT_MATCH"
  BY EffectNames DEF Reconcile
<1>4. PaidRow(j) /\ ~rows[j].external
  BY <1>1, <1>2 DEF Inv, Jobwise, PaidJob, PaidRow, UnknownEffect
<1>5. rows[j] \in Rows /\ external \in BOOLEAN /\ (effect # "EXTERNAL_ID_KNOWN" => ~external)
  BY <1>3, <1>4 DEF Inv, TypeOK, Rows
<1> HIDE DEF effect, external
<1>6. /\ row \in Rows /\ row.status = "running" /\ row.effect = effect /\ row.external = external
      /\ row.stale = FALSE
  <2>1. Touch(rows[j]) \in Rows /\ Touch(rows[j]).status = "running" /\ Touch(rows[j]).stale = FALSE
    BY <1>1, <1>5, TouchFacts
  <2> HIDE DEF Touch
  <2> QED BY <1>3, <1>5, <2>1 DEF Rows
<1> HIDE DEF row
<1>7. /\ tokens' \in [Jobs -> 0..MaxGrants] /\ granted' \in [Jobs -> 0..MaxGrants]
      /\ \A k \in Jobs : tokens'[k] <= granted'[k]
      /\ provider' = provider /\ operations' = operations
  BY <1>1 DEF money, Inv, TypeOK
<1>8. rows'[j] = row
  BY <1>1 DEF Inv, TypeOK
<1>9. PaidRow(j)'
  BY <1>3, <1>4, <1>5, <1>6, <1>7, <1>8 DEF PaidRow, UnknownEffect
<1> QED BY <1>1, <1>2, <1>3, <1>6, <1>7, <1>9, RowStep DEF Ended

LEMMA RetryKeepsInv ==
  ASSUME Inv, NEW j \in Jobs, AuthorizeRetry(j)
  PROVE  Inv'
<1> DEFINE row == [Touch(rows[j]) EXCEPT !.status = "queued", !.effect = "PRE_EFFECT",
                                         !.external = FALSE]
<1>1. /\ rows' = [rows EXCEPT ![j] = row] /\ rows[j].effect = "NO_EFFECT_CONFIRMED"
      /\ UNCHANGED <<procs, snapshot, provider, operations>>
  BY DEF AuthorizeRetry
<1>2. Paid(j) /\ PaidRow(j) /\ \A q \in Procs : ~Holds(q, j)
  BY <1>1 DEF Inv, Jobwise, LocalJob, PaidJob, Holder
<1>3. /\ row \in Rows /\ row.status = "queued" /\ row.effect = "PRE_EFFECT" /\ row.external = FALSE
      /\ row.stale = FALSE
  <2>1. Touch(rows[j]) \in Rows /\ Touch(rows[j]).stale = FALSE
    BY TouchFacts DEF Inv, TypeOK
  <2>2. "queued" \in JobStatuses /\ "PRE_EFFECT" \in EffectStates
    BY EffectNames DEF JobStatuses, Live
  <2> QED BY <2>1, <2>2 DEF Rows
<1> HIDE DEF row
<1>4. /\ tokens' \in [Jobs -> 0..MaxGrants] /\ granted' \in [Jobs -> 0..MaxGrants]
      /\ \A k \in Jobs : tokens'[k] <= granted'[k]
  BY JobsAssumption DEF AuthorizeRetry, Inv, TypeOK
<1>5. rows'[j] = row
  BY <1>1 DEF Inv, TypeOK
<1>6. PaidRow(j)'
  <2>1. provider[j] = "none" /\ operations[j] = 0
    BY <1>1, <1>2 DEF PaidRow
  <2>2. provider'[j] = "none" /\ operations'[j] = 0
    BY <1>1, <2>1
  <2>3. ~rows'[j].external /\ rows'[j].effect = "PRE_EFFECT"
    BY <1>3, <1>5
  <2> QED BY <2>2, <2>3 DEF PaidRow
<1> QED BY <1>1, <1>2, <1>3, <1>4, <1>6, RowStep DEF Ended

-----------------------------------------------------------------------------
(* The reclaim pass writes every row it selected and nobody refreshed.       *)
LEMMA ReclaimReadKeepsInv ==
  ASSUME Inv, ReclaimRead
  PROVE  Inv'
<1>1. /\ UNCHANGED <<rows, procs, money>>
      /\ snapshot' = [j \in Jobs |-> IF rows[j].status \in Live /\ rows[j].stale
                                       THEN rows[j] ELSE NoRow]
  BY DEF ReclaimRead
<1>2. TypeOK' /\ \A k \in Jobs : tokens'[k] <= granted'[k]
  BY <1>1 DEF money, Inv, TypeOK
<1>3. \A p \in Procs : ProcOK(p)'
  BY <1>1 DEF Inv, ProcOK, Paid
<1>4. ASSUME NEW j \in Jobs PROVE Jobwise(j)'
  <2>1. Selected(j)' /\ Absent(j)' /\ (~Paid(j) => LocalJob(j)')
    BY <1>1 DEF money, Inv, Jobwise, Selected, Absent, LocalJob
  <2>2. ASSUME Paid(j) PROVE PaidJob(j)'
    <3>1. PaidRow(j)'
      BY <1>1, <2>2 DEF money, Inv, Jobwise, PaidJob, PaidRow
    <3>2. ASSUME NEW p \in Procs, Holds(p, j)' PROVE Holder(p, j)'
      BY <1>1, <2>2, <3>2 DEF money, Inv, Jobwise, PaidJob, Holds, Holder
    <3> QED BY <1>1, <2>2, <3>1, <3>2 DEF Inv, Jobwise, PaidJob, Holds
  <2> QED BY <2>1, <2>2 DEF Jobwise, Paid
<1> QED BY <1>2, <1>3, <1>4 DEF Inv

LEMMA ReclaimedFacts ==
  ASSUME NEW j \in Jobs, NEW row \in Rows, NEW action
  PROVE  LET new == Reclaimed(j, row, action) IN
         /\ new \in Rows /\ new.external = row.external
         /\ \/ /\ new.status = "queued" /\ new.effect = "PRE_EFFECT"
               /\ Paid(j) => row.effect = "PRE_EFFECT"
            \/ /\ Paid(j) /\ row.effect \in HeldEffect /\ new.status = row.status
               /\ \/ new.effect = row.effect /\ row.effect \in RetainedEffect
                  \/ /\ row.effect \notin RetainedEffect
                     /\ \/ new.effect = "EXTERNAL_ID_KNOWN" /\ row.external
                        \/ new.effect = "AMBIGUOUS" /\ ~row.external
            \/ /\ new.status = "failed" /\ new.effect = "FINALIZED"
               /\ Paid(j) => row.effect \notin HeldEffect
<1>1. /\ [row EXCEPT !.status = "failed", !.effect = "FINALIZED"] \in Rows
      /\ [row EXCEPT !.status = "queued", !.effect = "PRE_EFFECT"] \in Rows
      /\ \A e \in EffectStates : [row EXCEPT !.effect = e] \in Rows
  BY EffectNames DEF Rows, JobStatuses, Live, Ended
<1>2. "EXTERNAL_ID_KNOWN" \in EffectStates /\ "AMBIGUOUS" \in EffectStates /\ row.effect \in EffectStates
  BY EffectNames DEF Rows
<1>3. CASE Requeues(j, row, action)
  <2>1. Paid(j) => row.effect = "PRE_EFFECT"
    BY <1>3 DEF Requeues, Paid
  <2>2. Reclaimed(j, row, action) = [row EXCEPT !.status = "queued", !.effect = "PRE_EFFECT"]
    BY <1>3 DEF Reclaimed
  <2> QED BY <1>1, <2>1, <2>2 DEF Rows
<1>4. CASE ~Requeues(j, row, action) /\ Paid(j) /\ row.effect \in HeldEffect
  <2> DEFINE e == IF row.effect \in RetainedEffect THEN row.effect
                  ELSE IF row.external THEN "EXTERNAL_ID_KNOWN" ELSE "AMBIGUOUS"
  <2>1. Reclaimed(j, row, action) = [row EXCEPT !.effect = e]
    BY <1>4 DEF Reclaimed
  <2>2. e \in EffectStates
    BY <1>2
  <2>3. \/ e = row.effect /\ row.effect \in RetainedEffect
        \/ /\ row.effect \notin RetainedEffect
           /\ \/ e = "EXTERNAL_ID_KNOWN" /\ row.external
              \/ e = "AMBIGUOUS" /\ ~row.external
    OBVIOUS
  <2> HIDE DEF e
  <2> QED BY <1>1, <1>4, <2>1, <2>2, <2>3 DEF Rows
<1>5. CASE ~Requeues(j, row, action) /\ ~(Paid(j) /\ row.effect \in HeldEffect)
  <2>1. Reclaimed(j, row, action) = [row EXCEPT !.status = "failed", !.effect = "FINALIZED"]
    BY <1>5 DEF Reclaimed
  <2> QED BY <1>1, <1>5, <2>1 DEF Rows
<1> QED BY <1>3, <1>4, <1>5

(* One row of the pass.                                                      *)
LEMMA ReclaimedRow ==
  ASSUME Inv, NEW j \in Jobs, NEW action, Unmoved(j), rows[j].status \notin Ended
  PROVE  /\ rows[j] = snapshot[j] /\ rows[j] \in Rows
         /\ Paid(j) => PaidRow(j) /\ \A q \in Procs : ~Holds(q, j)
         /\ LET new == Touch(Reclaimed(j, snapshot[j], action)) IN
            /\ new \in Rows /\ ~new.stale /\ new.status # "absent"
            /\ new.effect = "FINALIZED" <=> new.status \in Ended
            /\ new.external = rows[j].external
<1>1. rows[j] = snapshot[j] /\ rows[j] \in Rows /\ rows[j].stale
  BY DEF Unmoved, Inv, TypeOK, Jobwise, Selected
<1>2. rows[j].status # "absent"
  BY <1>1 DEF Inv, Jobwise, Absent, NoJobRow
<1>3. Paid(j) => PaidRow(j) /\ \A q \in Procs : ~Holds(q, j)
  BY <1>1 DEF Inv, Jobwise, PaidJob, Holder
<1>4. rows[j].effect # "FINALIZED"
  BY DEF Inv, TypeOK
<1> DEFINE new == Reclaimed(j, rows[j], action)
<1>5. /\ new \in Rows /\ new.external = rows[j].external
      /\ \/ new.status = "queued" /\ new.effect = "PRE_EFFECT"
         \/ /\ new.status = rows[j].status
            /\ \/ new.effect = rows[j].effect
               \/ new.effect \in {"EXTERNAL_ID_KNOWN", "AMBIGUOUS"}
         \/ new.status = "failed" /\ new.effect = "FINALIZED"
  BY <1>1, ReclaimedFacts
<1> HIDE DEF new
<1>6. /\ Touch(new) \in Rows /\ Touch(new).stale = FALSE /\ Touch(new).external = new.external
      /\ Touch(new).status = new.status /\ Touch(new).effect = new.effect
  BY <1>5, TouchFacts
<1>7. Touch(Reclaimed(j, snapshot[j], action)) = Touch(new)
  BY <1>1 DEF new
<1> QED BY <1>1, <1>2, <1>3, <1>4, <1>5, <1>6, <1>7 DEF Ended

LEMMA ReclaimWriteKeepsInv ==
  ASSUME Inv, NEW action, ReclaimWrite(action)
  PROVE  Inv'
<1> DEFINE new(j) == Touch(Reclaimed(j, snapshot[j], action))
           moved == {j \in Jobs : Unmoved(j)}
           writes == \A j \in moved : TriggersAllow(rows[j], Reclaimed(j, snapshot[j], action))
<1>1. /\ snapshot' = [j \in Jobs |-> NoRow] /\ UNCHANGED <<procs, money>>
      /\ rows' = IF writes THEN [j \in Jobs |-> IF j \in moved THEN new(j) ELSE rows[j]] ELSE rows
  BY DEF ReclaimWrite
<1>2. ASSUME NEW j \in Jobs
      PROVE  \/ rows'[j] = rows[j]
             \/ Unmoved(j) /\ rows[j].status \notin Ended /\ rows'[j] = new(j)
  BY <1>1 DEF TriggersAllow
<1>3. ASSUME NEW j \in Jobs
      PROVE  rows'[j] \in Rows /\ (rows'[j].effect = "FINALIZED" <=> rows'[j].status \in Ended)
  <2>1. CASE rows'[j] = rows[j]
    BY <2>1 DEF Inv, TypeOK
  <2>2. CASE Unmoved(j) /\ rows[j].status \notin Ended /\ rows'[j] = new(j)
    <3> HIDE DEF new
    <3>1. new(j) \in Rows /\ (new(j).effect = "FINALIZED" <=> new(j).status \in Ended)
      BY <2>2, ReclaimedRow DEF new
    <3> QED BY <2>2, <3>1
  <2> QED BY <1>2, <2>1, <2>2
<1>4. TypeOK' /\ \A k \in Jobs : tokens'[k] <= granted'[k]
  <2>1. rows' \in [Jobs -> Rows]
    <3>1. rows' = [j \in Jobs |-> rows'[j]]
      BY <1>1 DEF Inv, TypeOK
    <3> QED BY <1>3, <3>1
  <2> QED BY <1>1, <1>3, <2>1 DEF money, Inv, TypeOK
<1>5. \A p \in Procs : ProcOK(p)'
  BY <1>1 DEF Inv, ProcOK, Paid
<1>6. ASSUME NEW j \in Jobs PROVE Jobwise(j)'
  <2>1. Selected(j)'
    BY <1>1 DEF Selected
  <2>2. provider' = provider /\ operations' = operations /\ \A p \in Procs : Holds(p, j)' <=> Holds(p, j)
    BY <1>1 DEF money, Holds
  <2>3. CASE rows'[j] = rows[j]
    <3>1. Absent(j)' /\ (~Paid(j) => LocalJob(j)') /\ (Paid(j) => PaidRow(j)')
      BY <2>2, <2>3 DEF Inv, Jobwise, Absent, LocalJob, PaidJob, PaidRow
    <3>2. ASSUME Paid(j), NEW p \in Procs, Holds(p, j)' PROVE Holder(p, j)'
      BY <1>1, <2>2, <2>3, <3>2 DEF Inv, Jobwise, PaidJob, Holder
    <3> QED BY <2>1, <2>2, <3>1, <3>2 DEF Inv, Jobwise, PaidJob, Paid
  <2>4. CASE Unmoved(j) /\ rows[j].status \notin Ended /\ rows'[j] = new(j)
    <3>1. /\ rows[j] = snapshot[j] /\ rows[j] \in Rows
          /\ Paid(j) => PaidRow(j) /\ \A q \in Procs : ~Holds(q, j)
      BY <2>4, ReclaimedRow
    <3>2. rows'[j].status # "absent" /\ rows'[j].external = rows[j].external
      <4> HIDE DEF new
      <4>1. new(j).status # "absent" /\ new(j).external = rows[j].external
        BY <2>4, ReclaimedRow DEF new
      <4> QED BY <2>4, <4>1
    <3> DEFINE plain == Reclaimed(j, rows[j], action)
    <3>3. /\ plain \in Rows
          /\ \/ /\ plain.status = "queued" /\ plain.effect = "PRE_EFFECT"
                /\ Paid(j) => rows[j].effect = "PRE_EFFECT"
             \/ /\ Paid(j) /\ plain.status = rows[j].status
                /\ \/ plain.effect = rows[j].effect
                   \/ plain.effect = "EXTERNAL_ID_KNOWN"
                   \/ plain.effect = "AMBIGUOUS" /\ ~rows[j].external
                /\ rows[j].effect \in HeldEffect
             \/ plain.status = "failed" /\ plain.effect = "FINALIZED"
      BY <3>1, ReclaimedFacts
    <3>4. rows'[j] = Touch(plain)
      BY <2>4, <3>1
    <3> HIDE DEF plain
    <3>5. rows'[j].status = plain.status /\ rows'[j].effect = plain.effect
      BY <3>3, <3>4, TouchFacts
    <3>6. ASSUME Paid(j) PROVE PaidRow(j)'
      <4>1. PaidRow(j)
        BY <3>1, <3>6
      <4>2. CASE plain.status = "queued" /\ plain.effect = "PRE_EFFECT" /\ rows[j].effect = "PRE_EFFECT"
        BY <2>2, <3>2, <3>5, <4>1, <4>2 DEF PaidRow
      <4>3. CASE /\ plain.status = rows[j].status /\ rows[j].effect \in HeldEffect
                 /\ \/ plain.effect = rows[j].effect
                    \/ plain.effect = "EXTERNAL_ID_KNOWN"
                    \/ plain.effect = "AMBIGUOUS" /\ ~rows[j].external
        <5>1. rows[j].status \notin {"absent", "queued"}
          BY <4>1, <4>3 DEF PaidRow, HeldEffect, UnknownEffect, KnownEffect
        <5> QED BY <2>2, <3>2, <3>5, <4>1, <4>3, <5>1 DEF PaidRow, UnknownEffect
      <4>4. CASE plain.status = "failed" /\ plain.effect = "FINALIZED"
        BY <2>2, <3>2, <3>5, <4>1, <4>4 DEF PaidRow, UnknownEffect
      <4> QED BY <3>3, <3>6, <4>2, <4>3, <4>4
    <3>7. ASSUME ~Paid(j) PROVE LocalJob(j)'
      BY <2>2, <3>3, <3>5, <3>7 DEF Inv, Jobwise, LocalJob
    <3>8. Absent(j)' /\ \A p \in Procs : Paid(j) => ~Holds(p, j)'
      BY <2>2, <3>1, <3>2 DEF Absent
    <3> QED BY <2>1, <3>6, <3>7, <3>8 DEF Jobwise, PaidJob, Paid
  <2> QED BY <1>2, <2>3, <2>4
<1> QED BY <1>4, <1>5, <1>6 DEF Inv

-----------------------------------------------------------------------------
LEMMA NextInv == Attended /\ Inv /\ [Next]_vars => Inv'
<1> SUFFICES ASSUME Attended, Inv, [Next]_vars PROVE Inv'
  OBVIOUS
<1>1. CASE UNCHANGED vars
  <2>1. TypeOK' /\ \A j \in Jobs : tokens'[j] <= granted'[j]
    BY <1>1 DEF vars, money, Inv, TypeOK
  <2>2. \A p \in Procs : ProcOK(p)'
    BY <1>1 DEF vars, Inv, ProcOK, Paid
  <2>3. \A j \in Jobs : Jobwise(j)'
    BY <1>1, Untouched DEF vars, money, Inv
  <2> QED BY <2>1, <2>2, <2>3 DEF Inv
<1>2. ASSUME NEW p \in Procs, NEW j \in Jobs, Create(p, j) \/ Start(p, j) PROVE Inv'
  BY <1>2, CreateKeepsInv, StartKeepsInv
<1>3. ASSUME NEW p \in Procs, Consume(p) \/ MarkRead(p) \/ MarkWrite(p) \/ Finish(p) PROVE Inv'
  BY <1>3, MovesKeepInv, MarkWriteKeepsInv, FinishKeepsInv
<1>4. ASSUME NEW p \in Procs, NEW accepted \in BOOLEAN, NEW answered \in BOOLEAN,
             Submit(p, accepted, answered)
      PROVE  Inv'
  BY <1>4, SubmitKeepsInv
<1>5. ASSUME NEW p \in Procs, NEW terminal \in BOOLEAN, Raise(p, terminal) PROVE Inv'
  BY <1>5, MovesKeepInv
<1>6. ASSUME NEW p \in Procs, FailRead(p) \/ FailWrite(p) \/ Crash(p) PROVE Inv'
  BY <1>6, MovesKeepInv, FailWriteKeepsInv, GivesUp DEF Crash
<1>7. ASSUME NEW j \in Jobs, NEW outcome \in {"completed", "failed"}, ProviderEnds(j, outcome)
      PROVE  Inv'
  BY <1>7, ProviderKeepsInv
<1>8. ASSUME NEW j \in Jobs, Age(j) \/ AuthorizeRetry(j) PROVE Inv'
  BY <1>8, AgeKeepsInv, RetryKeepsInv
<1>9. ASSUME NEW j \in Jobs, NEW c \in CLASSIFICATIONS, Reconcile(j, c) PROVE Inv'
  BY <1>9, ReconcileKeepsInv
<1>10. CASE ReclaimRead
  BY <1>10, ReclaimReadKeepsInv
<1>11. ASSUME NEW action \in {"fail", "requeue"}, ReclaimWrite(action) PROVE Inv'
  BY <1>11, ReclaimWriteKeepsInv
<1> QED BY <1>1, <1>2, <1>3, <1>4, <1>5, <1>6, <1>7, <1>8, <1>9, <1>10, <1>11 DEF Next

\* The inductive invariant, for every behaviour.
THEOREM InvHolds == ASSUME Attended PROVE Spec => []Inv
<1>1. Inv /\ [Next]_vars => Inv'
  BY NextInv
<1> QED BY <1>1, InitInv, PTL DEF Spec

\* Rows, processes, selections and counters are well typed, and a job is FINALIZED when
\* and only when it has ended (EventRepository).
THEOREM TypeCorrect == ASSUME Attended PROVE Spec => []TypeOK
<1>1. Inv => TypeOK
  BY DEF Inv
<1> QED BY <1>1, InvHolds, PTL

\* A paid job has one operation at the provider at most, however often it is started,
\* crashes, is reclaimed, reconciled or authorized again, as long as recovery acts on a
\* paid job only when no process holds it (mark_pipeline_effect_state,
\* reclaim_stale_pipeline_jobs, authorize_pipeline_retry).
THEOREM PaidForOnce == ASSUME Attended PROVE Spec => []OneEffectPerJob
<1>1. Inv => OneEffectPerJob
  BY DEF Inv, Jobwise, LocalJob, PaidJob, PaidRow, OneEffectPerJob
<1> QED BY <1>1, InvHolds, PTL

\* A job the ledger calls free of effect has no operation at the provider, under the same
\* assumption (fail_pipeline_job, reconcile_pipeline_external_effect).
THEOREM NoEffectHolds == ASSUME Attended PROVE Spec => []NoEffectIsTrue
<1>1. Inv => NoEffectIsTrue
  BY DEF Inv, Jobwise, LocalJob, PaidJob, PaidRow, NoEffectIsTrue
<1> QED BY <1>1, InvHolds, PTL

(* A write that does not fail the row it writes fails no job.                *)
LEMMA OneRowWritten ==
  ASSUME Inv, NEW j \in Jobs, rows[j].status # "failed", NEW k \in Jobs, NEW row,
         row.status # "failed", rows' = [rows EXCEPT ![k] = row]
  PROVE  rows'[j].status # "failed"
BY DEF Inv, TypeOK

LEMMA StatusKept ==
  ASSUME NEW row \in Rows, NEW e \in EffectStates, NEW x \in BOOLEAN
  PROVE  /\ [row EXCEPT !.effect = e, !.external = x].status = row.status
         /\ Touch([row EXCEPT !.effect = e, !.external = x]).status = row.status
<1>1. [row EXCEPT !.effect = e, !.external = x] \in Rows
  BY DEF Rows
<1>2. [row EXCEPT !.effect = e, !.external = x].status = row.status
  BY DEF Rows
<1> QED BY <1>1, <1>2, TouchFacts

(* Only two steps can fail a job, and each knows that nothing may run.       *)
LEMMA NotWrittenOff ==
  ASSUME Attended, Inv, Next, NEW j \in Jobs, rows[j].status # "failed", rows'[j].status = "failed",
         provider[j] \in {"accepted", "completed"}
  PROVE  rows[j].effect = "COST_RECONCILED"
<1> SUFFICES ASSUME rows[j].effect # "COST_RECONCILED" PROVE FALSE
  OBVIOUS
<1>1. Paid(j) /\ PaidRow(j) /\ rows[j] \in Rows
  BY DEF Inv, Jobwise, LocalJob, PaidJob, TypeOK
<1>2. rows[j].effect \notin {"PRE_EFFECT", "AUTHORIZATION_CONSUMED", "NO_EFFECT_CONFIRMED",
                             "PROVIDER_FAILED", "EFFECT_CONFIRMED"}
  BY <1>1 DEF PaidRow
<1>3. CASE \E p \in Procs : FailWrite(p)
  <2>1. PICK p \in Procs : FailWrite(p)
    BY <1>3
  <2>2. PICK k : k = procs[p].job
    OBVIOUS
  <2>3. procs[p].at = "failing" /\ procs[p].read # NoRow /\ k \in Jobs /\ procs[p].terminal \in BOOLEAN
    BY <2>1, <2>2 DEF FailWrite, Inv, ProcOK, TypeOK, ProcStates
  <2> DEFINE failed == Failed(rows[k], procs[p].read, procs[p].terminal)
  <2>4. /\ rows[k].status = "running" /\ TriggersAllow(rows[k], failed) /\ k = j
        /\ rows' = [rows EXCEPT ![k] = Touch(failed)]
    BY <2>1, <2>2, <2>3 DEF FailWrite, Inv, TypeOK
  <2>5. procs[p].read = rows[j]
    BY <1>1, <2>2, <2>3, <2>4, Alone DEF Holder
  <2>6. failed = Failed(rows[j], rows[j], procs[p].terminal)
    BY <2>4, <2>5
  <2> HIDE DEF failed
  <2>7. failed \in Rows /\ rows'[j] = Touch(failed)
    BY <1>1, <2>3, <2>4, <2>6, FailedFacts DEF Inv, TypeOK
  <2>8. failed.status = "failed"
    BY <2>7, TouchFacts
  <2>9. /\ rows[j].effect \in UnknownEffect => rows[j].external
        /\ rows[j].effect \notin KnownEffect \/ rows[j].effect = "COST_RECONCILED"
    BY <1>1, <2>3, <2>4, <2>6, <2>8, FailedFacts
  <2>10. rows[j].effect = "FINALIZED"
    BY <1>1, <1>2, <2>9, EffectNames DEF PaidRow, UnknownEffect, KnownEffect, Rows
  <2> QED BY <2>4, <2>10 DEF Inv, TypeOK, Ended
<1>4. CASE \E action \in {"fail", "requeue"} : ReclaimWrite(action)
  <2>1. PICK action \in {"fail", "requeue"} : ReclaimWrite(action)
    BY <1>4
  <2>2. /\ Unmoved(j) /\ rows[j].status \notin Ended
        /\ rows'[j] = Touch(Reclaimed(j, snapshot[j], action))
    BY <2>1 DEF ReclaimWrite, TriggersAllow
  <2>3. rows[j] = snapshot[j]
    BY <2>2, ReclaimedRow
  <2> DEFINE plain == Reclaimed(j, rows[j], action)
  <2>4. /\ plain \in Rows
        /\ plain.status = "failed" => rows[j].effect \notin HeldEffect
    <3>1. rows[j].status # "failed"
      OBVIOUS
    <3> QED BY <1>1, <3>1, ReclaimedFacts
  <2>5. rows'[j] = Touch(plain)
    BY <2>2, <2>3
  <2> HIDE DEF plain
  <2>6. plain.status = "failed"
    BY <2>4, <2>5, TouchFacts
  <2>7. rows[j].effect = "FINALIZED"
    BY <1>1, <1>2, <2>4, <2>6, EffectNames DEF HeldEffect, UnknownEffect, KnownEffect, Rows
  <2> QED BY <2>2, <2>7 DEF Inv, TypeOK
<1>9. ASSUME UNCHANGED rows PROVE FALSE
  BY <1>9
<1>5. ASSUME NEW p \in Procs, NEW k \in Jobs, Create(p, k) \/ Start(p, k) PROVE FALSE
  <2>1. CASE Create(p, k)
    <3>1. rows'[j].status = IF j = k THEN "queued" ELSE rows[j].status
      BY <2>1 DEF Create, Inv, TypeOK, Rows
    <3> QED BY <3>1
  <2>2. CASE Start(p, k) /\ rows[k].status = "queued"
    <3> DEFINE row == [Touch(rows[k]) EXCEPT !.status = "running", !.attempts = rows[k].attempts + 1]
    <3>1. rows' = [rows EXCEPT ![k] = row]
      BY <2>2 DEF Start
    <3>2. rows[k] \in Rows /\ rows[k].attempts \in 0..MaxStarts /\ rows[k].attempts < MaxStarts
      BY <2>2 DEF Start, Inv, TypeOK, Rows
    <3>3. rows[k].attempts + 1 \in 0..MaxStarts
      BY <3>2, JobsAssumption
    <3>4. row.status = "running"
      BY <3>2, <3>3, StartsFacts
    <3> HIDE DEF row
    <3> QED BY <3>1, <3>4, OneRowWritten
  <2>3. CASE Start(p, k) /\ rows[k].status # "queued"
    BY <1>9, <2>3 DEF Start
  <2> QED BY <1>5, <2>1, <2>2, <2>3
<1>6. ASSUME NEW p \in Procs, MarkWrite(p) PROVE FALSE
  <2>0. PICK k, target : k = procs[p].job /\ target = procs[p].target
    OBVIOUS
  <2> DEFINE external == rows[k].external \/ target = "EXTERNAL_ID_KNOWN"
             marked == [rows[k] EXCEPT !.effect = target, !.external = external]
  <2>1. k \in Jobs /\ target \in EffectStates
    BY <1>6, <2>0 DEF MarkWrite, Inv, ProcOK, TypeOK, ProcStates
  <2>2. rows[k] \in Rows /\ external \in BOOLEAN
    BY <2>1 DEF Inv, TypeOK, Rows
  <2>3. UNCHANGED rows \/ (rows' = [rows EXCEPT ![k] = Touch(marked)] /\ rows[k].status \notin Ended)
    BY <1>6, <2>0 DEF MarkWrite, TriggersAllow
  <2>4. Touch(marked).status = rows[k].status
    <3> HIDE DEF external
    <3> QED BY <2>1, <2>2, StatusKept
  <2> HIDE DEF marked
  <2> QED BY <1>9, <2>1, <2>3, <2>4, OneRowWritten DEF Ended
<1>7. ASSUME NEW p \in Procs, Finish(p) PROVE FALSE
  <2>0. PICK k : k = procs[p].job
    OBVIOUS
  <2> DEFINE finished == [rows[k] EXCEPT !.status = "succeeded", !.effect = "FINALIZED"]
  <2>1. k \in Jobs
    BY <1>7, <2>0 DEF Finish, Inv, ProcOK
  <2>2. UNCHANGED rows \/ rows' = [rows EXCEPT ![k] = Touch(finished)]
    BY <1>7, <2>0 DEF Finish
  <2>3. finished \in Rows /\ finished.status = "succeeded"
    <3>1. rows[k] \in Rows
      BY <2>1 DEF Inv, TypeOK
    <3>2. "FINALIZED" \in EffectStates /\ "succeeded" \in JobStatuses
      BY EffectNames DEF JobStatuses, Ended
    <3> QED BY <3>1, <3>2 DEF Rows
  <2> HIDE DEF finished
  <2>4. Touch(finished).status = "succeeded"
    BY <2>3, TouchFacts
  <2> QED BY <1>9, <2>1, <2>2, <2>4, OneRowWritten
<1>8. ASSUME NEW k \in Jobs, NEW c \in CLASSIFICATIONS, Age(k) \/ Reconcile(k, c) \/ AuthorizeRetry(k)
      PROVE  FALSE
  <2>0. rows[k] \in Rows /\ Touch(rows[k]) \in Rows /\ Touch(rows[k]).status = rows[k].status
    BY TouchFacts DEF Inv, TypeOK
  <2>1. CASE Age(k)
    <3>1. rows'[j].status = rows[j].status
      BY <2>1 DEF Age, Inv, TypeOK, Rows
    <3> QED BY <3>1
  <2>2. CASE AuthorizeRetry(k)
    <3> DEFINE row == [Touch(rows[k]) EXCEPT !.status = "queued", !.effect = "PRE_EFFECT",
                                             !.external = FALSE]
    <3>1. rows' = [rows EXCEPT ![k] = row]
      BY <2>2 DEF AuthorizeRetry
    <3>2. row.status = "queued"
      BY <2>0 DEF Rows
    <3> HIDE DEF row
    <3> QED BY <3>1, <3>2, OneRowWritten
  <2>3. CASE Reconcile(k, c)
    <3> DEFINE effect == CASE c = "EXACT_MATCH" -> "EXTERNAL_ID_KNOWN"
                           [] c = "PROVIDER_PROVED_NO_EFFECT" -> "NO_EFFECT_CONFIRMED"
                           [] OTHER -> "AMBIGUOUS"
               external == rows[k].external \/ c = "EXACT_MATCH"
               row == [Touch(rows[k]) EXCEPT !.effect = effect, !.external = external]
    <3>1. rows' = [rows EXCEPT ![k] = row] /\ rows[k].status = "running"
      BY <2>3 DEF Reconcile
    <3>2. effect \in EffectStates /\ external \in BOOLEAN
      BY <2>0, EffectNames DEF Rows
    <3> HIDE DEF effect, external
    <3>3. row.status = "running"
      BY <2>0, <3>1, <3>2, StatusKept
    <3> HIDE DEF row
    <3> QED BY <3>1, <3>3, OneRowWritten
  <2> QED BY <1>8, <2>1, <2>2, <2>3
<1> QED
  BY <1>3, <1>4, <1>5, <1>6, <1>7, <1>8, <1>9
     DEF Next, Consume, MarkRead, Submit, Raise, FailRead, Crash, ProviderEnds, ReclaimRead,
         CLASSIFICATIONS

\* A paid job is failed only when the provider failed it, its cost is reconciled, or it
\* never had an operation: no possible effect is written off, by whoever fails the job
\* and however old the row is that was read (fail_pipeline_job,
\* reclaim_stale_pipeline_jobs).
THEOREM NothingWrittenOff == ASSUME Attended PROVE Spec => EffectsAreNotWrittenOff
<1> DEFINE A == \A j \in Jobs :
      rows[j].status # "failed" /\ rows'[j].status = "failed"
        /\ provider[j] \in {"accepted", "completed"}
      => rows[j].effect = "COST_RECONCILED"
<1>1. Inv /\ [Next]_vars => [A]_vars
  BY NotWrittenOff
<1> QED BY <1>1, InvHolds, PTL DEF Spec, EffectsAreNotWrittenOff

-----------------------------------------------------------------------------
(* A pass selects rows whose job has not ended.                              *)
SelectsLive == \A j \in Jobs : snapshot[j] # NoRow => snapshot[j].status \in Live

LEMMA NextSelectsLive == SelectsLive /\ [Next]_vars => SelectsLive'
<1> SUFFICES ASSUME SelectsLive, [Next]_vars PROVE SelectsLive'
  OBVIOUS
<1>1. CASE ReclaimRead
  BY <1>1 DEF ReclaimRead, SelectsLive
<1>2. ASSUME NEW action, ReclaimWrite(action) PROVE SelectsLive'
  BY <1>2 DEF ReclaimWrite, SelectsLive
<1>3. CASE UNCHANGED snapshot
  BY <1>3 DEF SelectsLive
<1> QED
  BY <1>1, <1>2, <1>3
     DEF Next, vars, Create, Start, Consume, MarkRead, MarkWrite, Finish, Submit, Raise, FailRead,
         FailWrite, Crash, ProviderEnds, Age, AuthorizeRetry, Reconcile

(* The trigger refuses one kind of row of a pass: held without a submission. *)
LEMMA WriteAllowed ==
  ASSUME Inv, SelectsLive, NEW j \in Jobs, NEW action, Unmoved(j),
         ~(Paid(j) /\ rows[j].effect = "AUTHORIZATION_CONSUMED")
  PROVE  TriggersAllow(rows[j], Reclaimed(j, snapshot[j], action))
<1>1. rows[j].status \in Live /\ rows[j].status \notin Ended
  BY DEF Unmoved, SelectsLive, Live, Ended
<1>2. /\ rows[j] = snapshot[j] /\ rows[j] \in Rows /\ (Paid(j) => PaidRow(j))
      /\ rows[j].effect \in EffectStates /\ rows[j].effect # "FINALIZED"
  <2>1. rows[j] = snapshot[j] /\ rows[j] \in Rows /\ (Paid(j) => PaidRow(j))
    BY <1>1, ReclaimedRow
  <2> QED BY <1>1, <2>1 DEF Rows, Inv, TypeOK
<1> DEFINE new == Reclaimed(j, rows[j], action)
<1>3. \/ /\ new.status = "queued" /\ new.effect = "PRE_EFFECT"
         /\ Paid(j) => rows[j].effect = "PRE_EFFECT"
      \/ /\ Paid(j) /\ rows[j].effect \in HeldEffect /\ new.status = rows[j].status
         /\ \/ new.effect = rows[j].effect /\ rows[j].effect \in RetainedEffect
            \/ /\ rows[j].effect \notin RetainedEffect
               /\ \/ new.effect = "EXTERNAL_ID_KNOWN" /\ rows[j].external
                  \/ new.effect = "AMBIGUOUS" /\ ~rows[j].external
      \/ /\ new.status = "failed" /\ new.effect = "FINALIZED"
         /\ Paid(j) => rows[j].effect \notin HeldEffect
  BY <1>2, ReclaimedFacts
<1>4. ~Paid(j) => rows[j].effect = "PRE_EFFECT"
  BY <1>2 DEF Inv, Jobwise, LocalJob
<1>5. new = Reclaimed(j, snapshot[j], action)
  BY <1>2
<1> HIDE DEF new
<1>6. CASE new.status = "queued" /\ new.effect = "PRE_EFFECT" /\ rows[j].effect = "PRE_EFFECT"
  BY <1>1, <1>5, <1>6 DEF TriggersAllow, Live
<1>7. CASE /\ Paid(j) /\ rows[j].effect \in HeldEffect /\ new.status = rows[j].status
           /\ \/ new.effect = rows[j].effect /\ rows[j].effect \in RetainedEffect
              \/ /\ rows[j].effect \notin RetainedEffect
                 /\ \/ new.effect = "EXTERNAL_ID_KNOWN" /\ rows[j].external
                    \/ new.effect = "AMBIGUOUS" /\ ~rows[j].external
  <2>1. CASE new.effect = rows[j].effect
    BY <1>1, <1>5, <1>7, <2>1 DEF TriggersAllow
  <2>2. CASE /\ new.effect = "EXTERNAL_ID_KNOWN" /\ rows[j].external
             /\ rows[j].effect \notin RetainedEffect
    <3>1. rows[j].effect = "EXTERNAL_ID_KNOWN"
      BY <1>2, <1>7, <2>2 DEF PaidRow, HeldEffect, KnownEffect, RetainedEffect
    <3> QED BY <1>1, <1>5, <1>7, <2>2, <3>1 DEF TriggersAllow
  <2>3. CASE new.effect = "AMBIGUOUS" /\ rows[j].effect \notin RetainedEffect
    <3>1. rows[j].effect \in {"SUBMISSION_STARTED", "EXTERNAL_ID_KNOWN", "AMBIGUOUS"}
      BY <1>7, <2>3 DEF HeldEffect, UnknownEffect, KnownEffect, RetainedEffect
    <3>2. new.effect = rows[j].effect \/ new.effect \in EffectTransitions[rows[j].effect]
      BY <2>3, <3>1 DEF EffectTransitions
    <3> QED BY <1>1, <1>5, <1>7, <3>2 DEF TriggersAllow
  <2> QED BY <1>7, <2>1, <2>2, <2>3
<1>8. CASE /\ new.status = "failed" /\ new.effect = "FINALIZED"
           /\ Paid(j) => rows[j].effect \notin HeldEffect
  <2>1. rows[j].effect \in {"PRE_EFFECT", "NO_EFFECT_CONFIRMED", "PROVIDER_FAILED"}
    BY <1>2, <1>4, <1>8, EffectNames DEF HeldEffect, UnknownEffect, KnownEffect
  <2>2. "FINALIZED" \in EffectTransitions[rows[j].effect]
    BY <2>1 DEF EffectTransitions
  <2> QED BY <1>1, <1>5, <1>8, <2>2 DEF TriggersAllow, Live
<1> QED BY <1>3, <1>4, <1>6, <1>7, <1>8

\* One row can keep a reclaim pass from all the others, and only one kind does: a paid
\* job whose authorization was consumed and nothing submitted
\* (reclaim_stale_pipeline_jobs, the trigger on effect states).
THEOREM PassFailsForOneReason == ASSUME Attended PROVE Spec => ReclaimFailsForOneReason
<1> DEFINE A == \A j \in Jobs : Unmoved(j) /\ snapshot'[j] = NoRow =>
      \/ ~rows'[j].stale
      \/ \E k \in Jobs : Unmoved(k) /\ Paid(k) /\ rows[k].effect = "AUTHORIZATION_CONSUMED"
<1>1. Inv /\ SelectsLive /\ [Next]_vars => [A]_vars
  <2> SUFFICES ASSUME Inv, SelectsLive, Next, NEW j \in Jobs, Unmoved(j), snapshot'[j] = NoRow,
                      ~\E k \in Jobs : /\ Unmoved(k) /\ Paid(k)
                                       /\ rows[k].effect = "AUTHORIZATION_CONSUMED"
               PROVE  ~rows'[j].stale
    OBVIOUS
  <2>1. PICK action : ReclaimWrite(action)
    <3>1. snapshot' # snapshot /\ PassOpen
      BY DEF Unmoved, PassOpen
    <3> QED BY <3>1
         DEF Next, Create, Start, Consume, MarkRead, MarkWrite, Finish, Submit, Raise, FailRead,
             FailWrite, Crash, ProviderEnds, Age, AuthorizeRetry, Reconcile, ReclaimRead
  <2>2. \A k \in Jobs : Unmoved(k) => TriggersAllow(rows[k], Reclaimed(k, snapshot[k], action))
    BY WriteAllowed
  <2>3. rows'[j] = Touch(Reclaimed(j, snapshot[j], action))
    BY <2>1, <2>2 DEF ReclaimWrite
  <2>4. rows[j].status \notin Ended
    BY DEF Unmoved, SelectsLive, Live, Ended
  <2>5. ~Touch(Reclaimed(j, snapshot[j], action)).stale
    BY <2>4, ReclaimedRow
  <2> QED BY <2>3, <2>5
<1>2. Init => SelectsLive
  BY DEF Init, SelectsLive
<1> QED BY <1>1, <1>2, NextSelectsLive, InvHolds, PTL DEF Spec, ReclaimFailsForOneReason

=============================================================================
