------------------------- MODULE HiggsfieldReceipts -------------------------
(***************************************************************************)
(* Executing a paid generation attempt in Reel Factory                     *)
(* (reel_factory/higgsfield_production.py): the submission receipt that is *)
(* written around the one call that costs money, the recovery of an        *)
(* attempt from its receipt and from the provider's history, and the       *)
(* staged download that ends in a retained, reviewed or quarantined file.  *)
(*                                                                         *)
(* A generation is named by the attempt that submitted it, and a file's    *)
(* bytes by their generation.  The plan, the quote, the balance and the    *)
(* approvals only refuse before the receipt exists, and the effect         *)
(* recorder writes the ledger that PipelineJobs models: an executor that   *)
(* one of them stops is one that crashed.  Time is counted in windows of   *)
(* the history search.                                                     *)
(***************************************************************************)
EXTENDS Naturals, FiniteSets

CONSTANTS
  Attempts,   \* attempt ids, each with one receipt path
  Outputs,    \* output paths
  OutputOf,   \* Attempts -> the output path of its work item
  Alike,      \* pairs of attempts with one model, prompt, duration and seed
  None,
  MaxEpoch,   \* bound on the clock
  MaxFaults   \* bound on crashes and on polls answered without a status or a result

ASSUME ReceiptsAssumption ==
  /\ IsFiniteSet(Attempts) /\ None \notin Attempts
  /\ OutputOf \in [Attempts -> Outputs]
  /\ Alike \subseteq Attempts \X Attempts
  /\ \A a \in Attempts : <<a, a>> \in Alike
  /\ MaxEpoch \in Nat /\ MaxFaults \in Nat

VARIABLES
  receipts,    \* the receipt of each attempt
  pc,          \* where the executor of each attempt is, "off" when there is none
  temporary,   \* the bytes in each attempt's download file
  output,      \* the bytes at each output path
  quarantined, \* bytes quarantined beside each output path
  setAside,    \* bytes quarantined beside each attempt's download file
  inflight,    \* submissions the provider may still accept
  generations, \* what the provider made of each attempt
  epoch, faults

vars == <<receipts, pc, temporary, output, quarantined, setAside, inflight, generations,
          epoch, faults>>
files == <<temporary, output, quarantined, setAside>>
provider == <<inflight, generations>>
time == <<epoch, faults>>

Bytes == Attempts \cup {None}
Terminal == {"completed", "rejected_unexpected_provider_audio"}
Local == {"downloaded_output", "output_retained"}
Words == {"in_progress", "completed", "failed"}  \* the provider's own
Statuses == Terminal \cup Local \cup Words \cup
  {"none", "ready_to_submit", "submission_started", "submission_ambiguous", "created",
   "reconciled", "poll_incomplete", "completed_without_result_url"}
Places == {"off", "ready", "submitting", "submitted", "polling", "retaining", "downloaded",
           "renaming", "vacant", "renamed", "finalizing", "rejecting", "recording"}

\* downloaded and final are the bytes of downloadedOutput and finalOutput.
Receipts == [status : Statuses, generation : Bytes, downloaded : Bytes, final : Bytes,
             submittedAt : 0..MaxEpoch]
NoReceipt == [status |-> "none", generation |-> None, downloaded |-> None, final |-> None,
              submittedAt |-> 0]
Generations == [accepted : Nat, state : {"none"} \cup Words, audio : BOOLEAN,
                createdAt : 0..MaxEpoch]
NoGeneration == [accepted |-> 0, state |-> "none", audio |-> FALSE, createdAt |-> 0]

Init ==
  /\ receipts = [a \in Attempts |-> NoReceipt]
  /\ pc = [a \in Attempts |-> "off"]
  /\ temporary = [a \in Attempts |-> None]
  /\ output = [o \in Outputs |-> None]
  /\ quarantined = [o \in Outputs |-> {}]
  /\ setAside = [a \in Attempts |-> {}]
  /\ inflight = {}
  /\ generations = [a \in Attempts |-> NoGeneration]
  /\ epoch = 0 /\ faults = 0

Go(a, place) == pc' = [pc EXCEPT ![a] = place]
Stop(a) == Go(a, "off")
Write(a, status) == receipts' = [receipts EXCEPT ![a].status = status]

Siblings(a) == {b \in Attempts \ {a} : OutputOf[b] = OutputOf[a]}

\* An operator executes the attempts at one output path one after the other.
Free(a) == \A b \in Siblings(a) \cup {a} : pc[b] = "off"

-----------------------------------------------------------------------------
(* One submission.                                                          *)

\* What the lane recovers instead of a new attempt at the same output: a receipt with
\* one of four statuses that names an output.
Recoverable(b) ==
  /\ receipts[b].status \in Terminal \cup Local
  /\ receipts[b].final # None \/ receipts[b].downloaded # None

Begin(a) ==
  /\ Free(a) /\ receipts[a].status = "none"
  /\ \A b \in Siblings(a) : ~Recoverable(b)
  /\ Write(a, "ready_to_submit")
  /\ Go(a, "ready")
  /\ UNCHANGED <<files, provider, time>>

StartSubmission(a) ==
  /\ pc[a] = "ready"
  /\ receipts' = [receipts EXCEPT ![a].status = "submission_started", ![a].submittedAt = epoch]
  /\ Go(a, "submitting")
  /\ UNCHANGED <<files, provider, time>>

Submit(a) ==
  /\ pc[a] = "submitting"
  /\ inflight' = inflight \cup {a}
  /\ Go(a, "submitted")
  /\ UNCHANGED <<receipts, files, generations, time>>

ProviderAccepts(a) ==
  /\ a \in inflight
  /\ inflight' = inflight \ {a}
  /\ generations' = [generations EXCEPT
       ![a] = [accepted |-> @.accepted + 1, state |-> "in_progress", audio |-> FALSE,
               createdAt |-> epoch]]
  /\ UNCHANGED <<receipts, pc, files, time>>

ProviderDrops(a) ==
  /\ a \in inflight
  /\ inflight' = inflight \ {a}
  /\ UNCHANGED <<receipts, pc, files, generations, time>>

ProviderEnds(a) ==
  /\ generations[a].state = "in_progress"
  /\ \/ generations' = [generations EXCEPT ![a].state = "failed"]
     \/ \E audio \in BOOLEAN :
          generations' = [generations EXCEPT ![a].state = "completed", ![a].audio = audio]
  /\ UNCHANGED <<receipts, pc, files, inflight, time>>

Bound(a, g, status) ==
  receipts' = [receipts EXCEPT ![a].generation = g, ![a].status = status]

\* The command prints the id, or it fails, times out or prints none.  What it says of
\* the generation becomes the status of the receipt.
IdKnown(a) ==
  /\ pc[a] = "submitted" /\ a \notin inflight /\ generations[a].state # "none"
  /\ \E status \in {generations[a].state, "created"} : Bound(a, a, status)
  /\ Go(a, "polling")
  /\ UNCHANGED <<files, provider, time>>

Ambiguous(a) ==
  /\ pc[a] = "submitted"
  /\ Write(a, "submission_ambiguous")
  /\ Stop(a)
  /\ UNCHANGED <<files, provider, time>>

-----------------------------------------------------------------------------
(* Another execution of an attempt that has its receipt.                    *)

\* The provider's recent jobs that look like this submission.
Matches(a) ==
  {b \in Attempts : /\ generations[b].state # "none" /\ <<a, b>> \in Alike
                    /\ generations[b].createdAt = receipts[a].submittedAt}

\* Mutant: a submission the history does not show is taken for one never made.
RecoverByResubmitting(a) ==
  /\ Free(a)
  /\ \/ /\ receipts[a].status \in {"submission_started", "submission_ambiguous"}
        /\ receipts[a].generation = None
        /\ Matches(a) = {} /\ Go(a, "ready") /\ UNCHANGED receipts
     \/ /\ receipts[a].generation # None /\ receipts[a].status \notin Terminal
        /\ Go(a, "polling") /\ UNCHANGED receipts
  /\ UNCHANGED <<files, provider, time>>

\* Any other number of matches, and a receipt that is only ready, raise and are held.
\* So does a receipt with a terminal status and no final output, whoever wrote it: the
\* history's word for the matched generation becomes the status.
Recover(a) ==
  /\ Free(a)
  /\ \/ /\ receipts[a].status \in {"submission_started", "submission_ambiguous"}
        /\ receipts[a].generation = None
        /\ \E g \in Attempts :
             /\ Matches(a) = {g}
             /\ \E status \in {generations[g].state, "reconciled"} : Bound(a, g, status)
     \/ /\ receipts[a].generation # None /\ receipts[a].status \notin Terminal
        /\ UNCHANGED receipts
  /\ Go(a, "polling")
  /\ UNCHANGED <<files, provider, time>>

\* The wait ends with the provider's word, with none, or with a result that has no URL;
\* anything but a result is written down and raised.
Poll(a) ==
  LET state == generations[receipts[a].generation].state IN
  /\ pc[a] = "polling"
  /\ \/ state = "completed" /\ Go(a, "retaining") /\ UNCHANGED <<receipts, faults>>
     \/ state # "completed" /\ Write(a, state) /\ Stop(a) /\ UNCHANGED faults
     \/ /\ faults < MaxFaults /\ faults' = faults + 1
        /\ \/ Write(a, "poll_incomplete")
           \/ state = "completed" /\ Write(a, "completed_without_result_url")
        /\ Stop(a)
  /\ UNCHANGED <<files, provider, epoch>>

-----------------------------------------------------------------------------
(* Retaining the result.                                                    *)

\* Quarantine renames to a name made of the bytes, and raises when it is taken.
QuarantineOutput(a) ==
  LET o == OutputOf[a] IN
  IF output[o] \in quarantined[o] THEN UNCHANGED <<output, quarantined>>
  ELSE /\ quarantined' = [quarantined EXCEPT ![o] = @ \cup {output[o]}]
       /\ output' = [output EXCEPT ![o] = None]

\* Mutant: the quarantined download is named after the bytes the receipt expects.
QuarantineTemporaryAsExpected(a) ==
  /\ setAside' = [setAside EXCEPT ![a] = @ \cup {receipts[a].downloaded}]
  /\ temporary' = [temporary EXCEPT ![a] = None]

QuarantineTemporary(a) ==
  IF temporary[a] \in setAside[a] THEN UNCHANGED <<temporary, setAside>>
  ELSE /\ setAside' = [setAside EXCEPT ![a] = @ \cup {temporary[a]}]
       /\ temporary' = [temporary EXCEPT ![a] = None]

\* The bytes the receipt says were downloaded for its generation.
Expected(a) == receipts[a].downloaded

\* Mutant: an output with other bytes is replaced by the download.
ClashOverwritten(a) ==
  output' = [output EXCEPT ![OutputOf[a]] = None] /\ UNCHANGED quarantined

\* Mutant: a clash is refused and nothing is moved.
ClashRefused(a) == UNCHANGED <<output, quarantined>>

Clash(a) == QuarantineOutput(a)

Retain(a) ==
  LET o == OutputOf[a] IN
  /\ pc[a] = "retaining"
  /\ \/ /\ output[o] # None /\ output[o] = Expected(a)
        /\ Write(a, "output_retained") /\ Go(a, "finalizing")
        /\ UNCHANGED files
     \/ /\ output[o] # None /\ output[o] # Expected(a)
        /\ Clash(a) /\ Stop(a)
        /\ UNCHANGED <<receipts, temporary, setAside>>
     \/ /\ output[o] = None /\ temporary[a] # None /\ temporary[a] = Expected(a)
        /\ Go(a, "renaming")
        /\ UNCHANGED <<receipts, files>>
     \/ /\ output[o] = None /\ temporary[a] # None /\ temporary[a] # Expected(a)
        /\ QuarantineTemporary(a) /\ Stop(a)
        /\ UNCHANGED <<receipts, output, quarantined>>
     \/ /\ output[o] = None /\ temporary[a] = None
        /\ temporary' = [temporary EXCEPT ![a] = receipts[a].generation]
        /\ Go(a, "downloaded")
        /\ UNCHANGED <<receipts, output, quarantined, setAside>>
  /\ UNCHANGED <<provider, time>>

WriteDownloaded(a) ==
  /\ pc[a] = "downloaded"
  /\ receipts' = [receipts EXCEPT ![a].status = "downloaded_output",
                                  ![a].downloaded = temporary[a]]
  /\ Go(a, "renaming")
  /\ UNCHANGED <<files, provider, time>>

\* A second look at the output path, and the rename.
LookAgain(a) ==
  /\ pc[a] = "renaming"
  /\ IF output[OutputOf[a]] # None THEN Clash(a) /\ Stop(a)
     ELSE Go(a, "vacant") /\ UNCHANGED <<output, quarantined>>
  /\ UNCHANGED <<receipts, temporary, setAside, provider, time>>

Rename(a) ==
  /\ pc[a] = "vacant"
  /\ output' = [output EXCEPT ![OutputOf[a]] = temporary[a]]
  /\ temporary' = [temporary EXCEPT ![a] = None]
  /\ Go(a, "renamed")
  /\ UNCHANGED <<receipts, quarantined, setAside, provider, time>>

WriteRetained(a) ==
  /\ pc[a] = "renamed"
  /\ Write(a, "output_retained")
  /\ Go(a, "finalizing")
  /\ UNCHANGED <<files, provider, time>>

HasAudio(a) == generations[receipts[a].generation].audio

\* Mutant: the soundtrack is not looked at.
HasAudioIgnored(a) == FALSE

Rejected(a) == HasAudio(a)

\* The last write: the status with the final output.
End(a, status, bytes) ==
  receipts' = [receipts EXCEPT ![a].status = status, ![a].final = bytes]

\* A recipe without soundtrack quarantines a result that has one; anything else is
\* completed and registered for review.
Finalize(a) ==
  LET o == OutputOf[a] IN
  /\ pc[a] = "finalizing"
  /\ IF Rejected(a)
       THEN /\ Go(a, IF output[o] \in quarantined[o] THEN "off" ELSE "rejecting")
            /\ QuarantineOutput(a)
            /\ UNCHANGED receipts
       ELSE /\ End(a, "completed", output[o]) /\ Stop(a)
            /\ UNCHANGED <<output, quarantined>>
  /\ UNCHANGED <<temporary, setAside, provider, time>>

Reject(a) ==
  /\ pc[a] = "rejecting"
  /\ Write(a, "rejected_unexpected_provider_audio")
  /\ Go(a, "recording")
  /\ UNCHANGED <<files, provider, time>>

RecordRejected(a) ==
  /\ pc[a] = "recording"
  /\ End(a, "rejected_unexpected_provider_audio", Expected(a))
  /\ Stop(a)
  /\ UNCHANGED <<files, provider, time>>

\* resume_higgsfield_local_output: finish from the files, without the provider.
ResumeLocal(a) ==
  LET o == OutputOf[a] IN
  /\ Free(a)
  /\ \/ /\ receipts[a].status = "downloaded_output"
        /\ Expected(a) \in {temporary[a], output[o]}
        /\ Go(a, "retaining")
     \/ /\ receipts[a].status = "output_retained"
        /\ output[o] = Expected(a)
        /\ Go(a, "finalizing")
  /\ UNCHANGED <<receipts, files, provider, time>>

Crash(a) ==
  /\ pc[a] # "off" /\ faults < MaxFaults
  /\ faults' = faults + 1
  /\ Stop(a)
  /\ UNCHANGED <<receipts, files, provider, epoch>>

\* No submission is in flight for as long as the history window, and after the last
\* submission no time is compared with the clock.
Tick ==
  /\ epoch < MaxEpoch /\ inflight = {} /\ \A a \in Attempts : pc[a] # "submitting"
  /\ \E a \in Attempts : receipts[a].status \in {"none", "ready_to_submit"}
  /\ epoch' = epoch + 1
  /\ UNCHANGED <<receipts, pc, files, provider, faults>>

Execute(a) ==
  \/ StartSubmission(a) \/ Submit(a) \/ IdKnown(a) \/ Ambiguous(a) \/ Poll(a) \/ Retain(a)
  \/ WriteDownloaded(a) \/ LookAgain(a) \/ Rename(a) \/ WriteRetained(a)
  \/ Finalize(a) \/ Reject(a) \/ RecordRejected(a)
Rerun(a) == Recover(a) \/ ResumeLocal(a)
Provider(a) == ProviderAccepts(a) \/ ProviderDrops(a) \/ ProviderEnds(a)

Next ==
  \/ \E a \in Attempts : Begin(a) \/ Execute(a) \/ Rerun(a) \/ Provider(a) \/ Crash(a)
  \/ Tick

Spec == Init /\ [][Next]_vars

\* An executor that lives goes on, the provider ends what it accepted, and an attempt
\* with a receipt is executed again until it is settled.
Fairness ==
  \A a \in Attempts :
    WF_vars(Execute(a)) /\ WF_vars(Provider(a)) /\ SF_vars(Recover(a))
FairSpec == Spec /\ Fairness
-----------------------------------------------------------------------------
(* Correctness.                                                             *)

TypeOK ==
  /\ receipts \in [Attempts -> Receipts]
  /\ pc \in [Attempts -> Places]
  /\ temporary \in [Attempts -> Bytes]
  /\ output \in [Outputs -> Bytes]
  /\ quarantined \in [Outputs -> SUBSET Attempts]
  /\ setAside \in [Attempts -> SUBSET Attempts]
  /\ inflight \in SUBSET Attempts
  /\ generations \in [Attempts -> Generations]
  /\ epoch \in 0..MaxEpoch /\ faults \in 0..MaxFaults

\* However often an attempt is executed and wherever it stops, the provider is asked
\* for it once, and only after its receipt says so.
SubmittedOnce ==
  \A a \in Attempts :
    /\ generations[a].accepted + (IF a \in inflight THEN 1 ELSE 0) <= 1
    /\ generations[a].accepted > 0 \/ a \in inflight =>
         receipts[a].status \notin {"none", "ready_to_submit"}

\* Bytes a receipt says were downloaded are still somewhere: staged, at the output
\* path, or in quarantine. Nothing paid for is overwritten.
BytesAreKept ==
  \A a \in Attempts : receipts[a].downloaded # None =>
    LET o == OutputOf[a] IN
    receipts[a].downloaded \in {temporary[a], output[o]} \cup quarantined[o]

\* A final output a receipt records is the download of a generation the provider
\* completed, under a terminal status: without a soundtrack when that is completed, in
\* quarantine when it is rejected for one, which it is from the first write that says so.
EndedReceiptsAreTrue ==
  \A a \in Attempts :
    LET r == receipts[a] IN
    /\ r.final # None => /\ r.status \in Terminal
                         /\ r.final = r.downloaded /\ r.final = r.generation
                         /\ generations[r.generation].state = "completed"
                         /\ r.status = "completed" => ~HasAudio(a)
    /\ r.status = "rejected_unexpected_provider_audio" =>
         HasAudio(a) /\ r.generation \in quarantined[OutputOf[a]]

\* Quarantine renames to a name made of the bytes; a copy there stands in the way.
InTheWay(a) ==
  LET o == OutputOf[a] IN
  \/ output[o] # None /\ output[o] \in quarantined[o]
  \/ temporary[a] # None /\ temporary[a] \in setAside[a]

\* A terminal status without a final output: every later execution raises, and the lane
\* sees an output to recover only when one was downloaded.
Stuck(a) == receipts[a].status \in Terminal /\ receipts[a].final = None /\ pc[a] = "off"

\* An attempt whose generation is known gets its final output or is failed at the
\* provider, unless bytes of the same name already stand in a quarantine, or its
\* executor ended between a terminal status and the final output.
KnownGenerationsSettle ==
  \A a \in Attempts :
    receipts[a].generation # None ~>
      \/ receipts[a].final # None \/ receipts[a].status = "failed"
      \/ InTheWay(a) \/ Stuck(a)
=============================================================================
