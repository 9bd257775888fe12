---------------------- MODULE HiggsfieldReceipts_proofs ----------------------
(***************************************************************************)
(* Proofs about HiggsfieldReceipts for every number of attempts and output *)
(* paths, every bound and every relation of look-alikes.  The invariant    *)
(* says of each attempt what its receipt, its files and its generation owe *)
(* each other at each place of its executor; a step of one attempt keeps   *)
(* that of the others because it moves an output only into quarantine, and *)
(* takes nothing back that the provider has said.                          *)
(***************************************************************************)
EXTENDS HiggsfieldReceipts, TLAPS

Unbound == {"none", "ready_to_submit", "submission_started", "submission_ambiguous"}
Before == {"ready", "submitting", "submitted"}
Staged == {"renaming", "vacant"}
Placed == {"renamed", "finalizing"}
Judged == {"rejecting", "recording"}
Ending == {"retaining", "downloaded"} \cup Judged \cup Staged \cup Placed
Said == {"in_progress", "completed", "failed", "created", "reconciled"}

Asked(a) == generations[a].accepted > 0 \/ a \in inflight

\* The provider is asked once, and a generation exists when it has accepted.
Once(a) ==
  /\ generations[a].accepted + (IF a \in inflight THEN 1 ELSE 0) <= 1
  /\ generations[a].accepted = 0 <=> generations[a].state = "none"
  /\ Asked(a) => receipts[a].status \notin {"none", "ready_to_submit"}
  /\ pc[a] = "ready" => receipts[a].status = "ready_to_submit"
  /\ pc[a] = "submitting" => ~Asked(a) /\ receipts[a].status = "submission_started"

\* What is staged or noted is the attempt's own generation, which is completed.
Own(a) ==
  /\ receipts[a].status \in Unbound => receipts[a].generation = None
  /\ pc[a] \in Before => receipts[a].status \in Unbound
  /\ pc[a] \in Ending => /\ receipts[a].generation # None
                         /\ generations[receipts[a].generation].state = "completed"
  /\ pc[a] = "polling" => receipts[a].generation # None
  /\ receipts[a].generation # None => generations[receipts[a].generation].state # "none"
  /\ temporary[a] \in {None, receipts[a].generation}
  /\ receipts[a].downloaded \in {None, receipts[a].generation}
  /\ receipts[a].downloaded # None =>
       generations[receipts[a].generation].state = "completed"

\* Where the bytes are.
Kept(a) ==
  receipts[a].downloaded # None =>
    receipts[a].downloaded \in {temporary[a], output[OutputOf[a]]} \cup quarantined[OutputOf[a]]

Located(a) ==
  /\ pc[a] = "downloaded" => temporary[a] # None
  /\ pc[a] \in Staged => temporary[a] # None /\ temporary[a] = receipts[a].downloaded
  /\ pc[a] = "vacant" => output[OutputOf[a]] = None
  /\ pc[a] \in Placed => /\ output[OutputOf[a]] # None
                         /\ output[OutputOf[a]] = receipts[a].downloaded
  /\ receipts[a].status \in Local => receipts[a].downloaded # None
  /\ receipts[a].status = "rejected_unexpected_provider_audio" =>
       receipts[a].downloaded # None

\* The final output is written last, and is the download.
Final(a) ==
  /\ pc[a] # "off" => receipts[a].final = None
  /\ receipts[a].final # None => /\ receipts[a].status \in Terminal
                                 /\ receipts[a].final = receipts[a].downloaded

\* What an ended, or ending, receipt says of the soundtrack.
Silent(a) ==
  /\ receipts[a].final # None /\ receipts[a].status = "completed" => ~HasAudio(a)
  /\ receipts[a].status = "rejected_unexpected_provider_audio" =>
       HasAudio(a) /\ receipts[a].generation \in quarantined[OutputOf[a]]
  /\ pc[a] \in Judged =>
       /\ HasAudio(a) /\ receipts[a].generation \in quarantined[OutputOf[a]]
       /\ receipts[a].downloaded = receipts[a].generation

Good(a) == Once(a) /\ Own(a) /\ Kept(a) /\ Located(a) /\ Final(a) /\ Silent(a)

\* Whose soundtrack a receipt speaks of.
Speaks(a) ==
  \/ receipts[a].final # None
  \/ receipts[a].status = "rejected_unexpected_provider_audio"
  \/ pc[a] \in Judged

Alone == \A a \in Attempts : \A b \in Siblings(a) : pc[a] = "off" \/ pc[b] = "off"

Inv == TypeOK /\ Alone /\ \A a \in Attempts : Good(a)

-----------------------------------------------------------------------------
LEMMA InitInv == Init => Inv
<1> SUFFICES ASSUME Init PROVE Inv
  OBVIOUS
<1>1. NoReceipt \in Receipts /\ NoReceipt.status = "none" /\ NoReceipt.generation = None
      /\ NoReceipt.downloaded = None /\ NoReceipt.final = None
  BY ReceiptsAssumption DEF NoReceipt, Receipts, Statuses, Bytes
<1>2. NoGeneration \in Generations /\ NoGeneration.accepted = 0 /\ NoGeneration.state = "none"
  BY ReceiptsAssumption DEF NoGeneration, Generations
<1>3. TypeOK
  BY <1>1, <1>2, ReceiptsAssumption DEF Init, TypeOK, Places, Bytes
<1>4. Alone
  BY DEF Init, Alone, Siblings
<1>5. ASSUME NEW a \in Attempts
      PROVE  Good(a)
  <2>1. receipts[a] = NoReceipt /\ generations[a] = NoGeneration /\ pc[a] = "off"
        /\ temporary[a] = None /\ a \notin inflight
    BY DEF Init
  <2>2. Once(a)
    BY <1>1, <1>2, <2>1 DEF Once, Asked
  <2>3. Own(a) /\ Kept(a) /\ Located(a) /\ Final(a) /\ Silent(a)
    BY <1>1, <2>1 DEF Own, Kept, Located, Final, Silent, Judged, Before, Ending, Staged, Placed, Judged, Terminal,
       Local
  <2> QED BY <2>2, <2>3 DEF Good
<1> QED BY <1>3, <1>4, <1>5 DEF Inv

-----------------------------------------------------------------------------
(* What the provider has said stays said.                                    *)
Monotone ==
  \A g \in Attempts :
    /\ generations[g].state # "none" => generations'[g].state # "none"
    /\ generations[g].state = "completed" =>
         generations'[g].state = "completed" /\ generations'[g].audio = generations[g].audio

(* An output path keeps its bytes, or loses them into its quarantine.        *)
Guarded(o) ==
  /\ quarantined[o] \subseteq quarantined'[o]
  /\ output'[o] = output[o] \/ output[o] \in quarantined'[o] \cup {None}

(* A receipt speaks of the soundtrack of a completed generation only.        *)
LEMMA SpeakOfCompleted ==
  ASSUME NEW a \in Attempts, Good(a), Speaks(a)
  PROVE  /\ receipts[a].generation # None
         /\ generations[receipts[a].generation].state = "completed"
<1>1. receipts[a].downloaded # None \/ pc[a] \in Judged
  BY DEF Good, Speaks, Located, Final
<1> QED BY <1>1 DEF Good, Own, Ending

(* An attempt nobody executes keeps its invariant when another one moves.    *)
LEMMA OthersKeep ==
  ASSUME Inv, TypeOK', NEW b \in Attempts,
         receipts'[b] = receipts[b], pc'[b] = pc[b], temporary'[b] = temporary[b],
         b \in inflight' <=> b \in inflight,
         generations'[b].accepted = generations[b].accepted,
         generations'[b].state = "none" <=> generations[b].state = "none",
         Monotone, Guarded(OutputOf[b]),
         pc[b] = "off" \/ output'[OutputOf[b]] = output[OutputOf[b]]
  PROVE  Good(b)'
<1> DEFINE g == receipts[b].generation  o == OutputOf[b]
<1>1. Good(b) /\ receipts[b] \in Receipts /\ o \in Outputs /\ g \in Attempts \cup {None}
  BY ReceiptsAssumption DEF Inv, TypeOK, Receipts, Bytes
<1>2. Once(b)'
  BY <1>1 DEF Good, Once, Asked
<1>3. Own(b)'
  BY <1>1 DEF Good, Own, Monotone
<1>4. Kept(b)'
  BY <1>1 DEF Good, Kept, Guarded
<1>5. Located(b)'
  BY <1>1 DEF Good, Located, Staged, Placed, Judged
<1>6. Silent(b)'
  <2>1. Speaks(b) => g # None /\ generations[g].state = "completed"
    BY <1>1, SpeakOfCompleted
  <2>2. Speaks(b) => (HasAudio(b)' <=> HasAudio(b))
    BY <1>1, <2>1 DEF HasAudio, Monotone
  <2> QED BY <1>1, <2>2 DEF Good, Speaks, Silent, Guarded
<1>7. Final(b)'
  BY <1>1 DEF Good, Final
<1> QED BY <1>2, <1>3, <1>4, <1>5, <1>6, <1>7 DEF Good

(* A step of one attempt.                                                    *)
Only(a) ==
  /\ \A b \in Attempts \ {a} :
       /\ receipts'[b] = receipts[b] /\ pc'[b] = pc[b] /\ temporary'[b] = temporary[b]
       /\ generations'[b] = generations[b] /\ (b \in inflight' <=> b \in inflight)
  /\ Monotone
  /\ \A o \in Outputs : Guarded(o)
  /\ \A o \in Outputs : output'[o] # output[o] => o = OutputOf[a] /\ pc[a] # "off"
  /\ pc'[a] = "off" \/ pc[a] # "off" \/ Free(a)

LEMMA StepKeepsInv ==
  ASSUME Inv, NEW a \in Attempts, Only(a), TypeOK', Good(a)'
  PROVE  Inv'
<1>1. Alone'
  <2> SUFFICES ASSUME NEW b \in Attempts, NEW c \in Siblings(b)
               PROVE  pc'[b] = "off" \/ pc'[c] = "off"
    BY DEF Alone, Siblings
  <2>1. c \in Attempts /\ c # b /\ b \in Siblings(c)
    BY DEF Siblings
  <2>2. pc[b] = "off" \/ pc[c] = "off"
    BY DEF Inv, Alone
  <2>3. CASE a = b
    BY <2>1, <2>2, <2>3 DEF Only, Free
  <2>4. CASE a = c
    BY <2>1, <2>2, <2>4 DEF Only, Free
  <2>5. CASE a # b /\ a # c
    BY <2>1, <2>2, <2>5 DEF Only
  <2> QED BY <2>3, <2>4, <2>5
<1>2. ASSUME NEW b \in Attempts, b # a
      PROVE  Good(b)'
  <2>1. OutputOf[b] \in Outputs
    BY ReceiptsAssumption
  <2>2. pc[b] = "off" \/ output'[OutputOf[b]] = output[OutputOf[b]]
    BY <1>2, <2>1 DEF Only, Inv, Alone, Siblings
  <2> QED BY <1>2, <2>1, <2>2, OthersKeep DEF Only
<1> QED BY <1>1, <1>2 DEF Inv

-----------------------------------------------------------------------------
(* The provider.                                                             *)
LEMMA ProviderKeepsInv ==
  ASSUME Inv, NEW a \in Attempts, Provider(a)
  PROVE  Inv'
<1> DEFINE gen == receipts[a].generation
<1>0. /\ Good(a) /\ TypeOK /\ generations[a] \in Generations /\ a # None
      /\ receipts[a] \in Receipts /\ gen \in Attempts \cup {None}
  BY ReceiptsAssumption DEF Inv, TypeOK, Receipts, Bytes
<1>1. CASE ProviderAccepts(a)
  <2>1. generations[a].accepted = 0 /\ generations[a].state = "none"
    BY <1>0, <1>1 DEF ProviderAccepts, Good, Once, Generations
  <2>2. generations' = [generations EXCEPT
          ![a] = [accepted |-> @.accepted + 1, state |-> "in_progress", audio |-> FALSE,
                  createdAt |-> epoch]]
    BY <1>1 DEF ProviderAccepts
  <2>3. /\ generations'[a] \in Generations
        /\ generations'[a].accepted = 1 /\ generations'[a].state = "in_progress"
        /\ \A b \in Attempts \ {a} : generations'[b] = generations[b]
    BY <1>0, <2>1, <2>2 DEF TypeOK, Generations, Words
  <2>4. TypeOK'
    BY <1>0, <1>1, <2>2, <2>3 DEF TypeOK, ProviderAccepts, files, time
  <2>5. Monotone
    BY <2>1, <2>3 DEF Monotone
  <2>6. Only(a)
    BY <1>1, <2>3, <2>5 DEF Only, Guarded, ProviderAccepts, files
  <2>7. Once(a)'
    BY <1>0, <1>1, <2>1, <2>3 DEF ProviderAccepts, Good, Once, Asked, files
  <2>8. Own(a)'
    BY <1>0, <1>1, <2>5 DEF ProviderAccepts, Good, Own, Monotone, files
  <2>9. Kept(a)' /\ Located(a)' /\ Final(a)'
    BY <1>0, <1>1 DEF ProviderAccepts, Good, Kept, Located, Final, files
  <2>10. Speaks(a) => gen # None /\ generations[gen].state = "completed"
    BY <1>0, SpeakOfCompleted
  <2>11. Silent(a)'
    BY <1>0, <1>1, <2>5, <2>10 DEF ProviderAccepts, Good, Speaks, Silent, HasAudio, Monotone,
       files
  <2> QED BY <2>4, <2>6, <2>7, <2>8, <2>9, <2>11, StepKeepsInv DEF Good
<1>2. CASE ProviderDrops(a)
  <2>1. TypeOK'
    BY <1>0, <1>2 DEF TypeOK, ProviderDrops, files, time
  <2>2. Only(a)
    BY <1>2 DEF Only, Guarded, Monotone, ProviderDrops, files
  <2>3. Once(a)'
    BY <1>0, <1>2 DEF ProviderDrops, Good, Once, Asked, Generations, files
  <2>4. Own(a)' /\ Kept(a)' /\ Located(a)' /\ Final(a)' /\ Silent(a)'
    BY <1>0, <1>2 DEF ProviderDrops, Good, Own, Kept, Located, Final, Silent, HasAudio, files
  <2> QED BY <2>1, <2>2, <2>3, <2>4, StepKeepsInv DEF Good
<1>3. CASE ProviderEnds(a)
  <2>1. PICK state \in {"completed", "failed"}, audio \in BOOLEAN :
          generations' = [generations EXCEPT ![a].state = state, ![a].audio = audio]
    <3>1. CASE generations' = [generations EXCEPT ![a].state = "failed"]
      <4>1. generations[a].audio \in BOOLEAN
        BY <1>0 DEF Generations
      <4>2. generations' = [generations EXCEPT ![a].state = "failed",
                                               ![a].audio = generations[a].audio]
        BY <1>0, <3>1, <4>1 DEF TypeOK, Generations
      <4> QED BY <4>1, <4>2
    <3>2. CASE \E audio \in BOOLEAN : generations' =
                 [generations EXCEPT ![a].state = "completed", ![a].audio = audio]
      BY <3>2
    <3> QED BY <1>3, <3>1, <3>2 DEF ProviderEnds
  <2>2. /\ generations'[a] \in Generations /\ generations'[a].state = state
        /\ generations'[a].accepted = generations[a].accepted
        /\ \A b \in Attempts \ {a} : generations'[b] = generations[b]
    BY <1>0, <2>1 DEF TypeOK, Generations, Words
  <2>3. TypeOK'
    BY <1>0, <1>3, <2>1, <2>2 DEF TypeOK, ProviderEnds, files, time
  <2>4. Monotone
    BY <1>3, <2>2 DEF Monotone, ProviderEnds
  <2>5. Only(a)
    BY <1>3, <2>2, <2>4 DEF Only, Guarded, ProviderEnds, files
  <2>6. Once(a)'
    BY <1>0, <1>3, <2>2 DEF ProviderEnds, Good, Once, Asked, files
  <2>7. Own(a)'
    BY <1>0, <1>3, <2>4 DEF ProviderEnds, Good, Own, Monotone, files
  <2>8. Kept(a)' /\ Located(a)' /\ Final(a)'
    BY <1>0, <1>3 DEF ProviderEnds, Good, Kept, Located, Final, files
  <2>9. Speaks(a) => gen # None /\ generations[gen].state = "completed"
    BY <1>0, SpeakOfCompleted
  <2>10. Silent(a)'
    BY <1>0, <1>3, <2>4, <2>9 DEF ProviderEnds, Good, Speaks, Silent, HasAudio, Monotone,
       files
  <2> QED BY <2>3, <2>5, <2>6, <2>7, <2>8, <2>10, StepKeepsInv DEF Good
<1> QED BY <1>1, <1>2, <1>3 DEF Provider

-----------------------------------------------------------------------------
LEMMA BoundWrites ==
  ASSUME TypeOK, NEW a \in Attempts, NEW g \in Attempts, NEW said \in Said,
         Bound(a, g, said)
  PROVE  /\ receipts' \in [Attempts -> Receipts]
         /\ receipts'[a].generation = g /\ receipts'[a].status = said
         /\ receipts'[a].downloaded = receipts[a].downloaded
         /\ receipts'[a].final = receipts[a].final
         /\ \A b \in Attempts \ {a} : receipts'[b] = receipts[b]
<1> DEFINE x == [receipts[a] EXCEPT !.generation = g, !.status = said]
<1>1. receipts' = [receipts EXCEPT ![a] = x]
  BY DEF Bound, TypeOK, Receipts
<1>2. said \in Statuses /\ g \in Bytes
  BY DEF Said, Statuses, Words, Bytes
<1>3. /\ x \in Receipts /\ x.generation = g /\ x.status = said
      /\ x.downloaded = receipts[a].downloaded /\ x.final = receipts[a].final
  BY <1>2, ZenonT(30) DEF TypeOK, Receipts
<1> HIDE DEF x
<1> QED BY <1>1, <1>3 DEF TypeOK

-----------------------------------------------------------------------------
(* The submission.                                                           *)
LEMMA SubmissionKeepsInv ==
  ASSUME Inv, NEW a \in Attempts,
         Begin(a) \/ StartSubmission(a) \/ Submit(a) \/ IdKnown(a) \/ Ambiguous(a)
  PROVE  Inv'
<1>0. /\ TypeOK /\ Good(a) /\ generations[a] \in Generations /\ a # None
      /\ receipts[a] \in Receipts
  BY ReceiptsAssumption DEF Inv, TypeOK
<1>1. CASE Begin(a)
  <2>1. TypeOK'
    BY <1>0, <1>1 DEF TypeOK, Begin, Write, Go, Free, Receipts, Statuses, Terminal, Local,
       Bytes, Places, files, provider, time
  <2>2. Only(a)
    BY <1>0, <1>1 DEF Only, Guarded, Monotone, TypeOK, Begin, Write, Go, Free, files,
       provider, time
  <2>3. Once(a)' /\ Own(a)'
    BY <1>0, <1>1 DEF Begin, Write, Go, Free, TypeOK, Receipts, Good, Once, Asked, Own,
       Unbound, Before, Ending,
       Staged, Placed, Judged, Terminal, Local, files, provider, time
  <2>4. Kept(a)' /\ Located(a)' /\ Final(a)' /\ Silent(a)'
    BY <1>0, <1>1 DEF Begin, Write, Go, Free, TypeOK, Receipts, Good, Own, Unbound, Before,
       Ending, Kept, Located, Final, Silent, HasAudio,
       Staged, Placed, Judged, Terminal, Local, files, provider, time
  <2> QED BY <2>1, <2>2, <2>3, <2>4, StepKeepsInv DEF Good
<1>2. CASE StartSubmission(a)
  <2>1. TypeOK'
    BY <1>0, <1>2 DEF TypeOK, StartSubmission, Go, Receipts, Statuses, Terminal, Local,
       Bytes, Places, files, provider, time
  <2>2. Only(a)
    BY <1>0, <1>2 DEF Only, Guarded, Monotone, TypeOK, StartSubmission, Go, files, provider,
       time
  <2>3. Once(a)' /\ Own(a)'
    BY <1>0, <1>2 DEF StartSubmission, Go, TypeOK, Receipts, Good, Once, Asked, Own,
       Unbound, Before, Ending,
       Staged, Placed, Judged, Terminal, Local, files, provider, time
  <2>4. Kept(a)' /\ Located(a)' /\ Final(a)' /\ Silent(a)'
    BY <1>0, <1>2 DEF StartSubmission, Go, TypeOK, Receipts, Good, Own, Unbound, Before,
       Ending, Kept, Located, Final, Silent, HasAudio,
       Staged, Placed, Judged, Terminal, Local, files, provider, time
  <2> QED BY <2>1, <2>2, <2>3, <2>4, StepKeepsInv DEF Good
<1>3. CASE Submit(a)
  <2>1. TypeOK'
    BY <1>0, <1>3 DEF TypeOK, Submit, Go, Generations, Receipts, Statuses, Terminal, Local,
       Bytes, Places, files, time
  <2>2. Only(a)
    BY <1>0, <1>3 DEF Only, Guarded, Monotone, TypeOK, Submit, Go, Generations, files, time
  <2>3. Once(a)' /\ Own(a)'
    BY <1>0, <1>3 DEF Submit, Go, Generations, TypeOK, Receipts, Good, Once, Asked, Own,
       Unbound, Before, Ending,
       Staged, Placed, Judged, Terminal, Local, files, time
  <2>4. Kept(a)' /\ Located(a)' /\ Final(a)' /\ Silent(a)'
    BY <1>0, <1>3 DEF Submit, Go, Generations, TypeOK, Receipts, Good, Own, Unbound, Before,
       Ending, Kept, Located, Final, Silent, HasAudio,
       Staged, Placed, Judged, Terminal, Local, files, time
  <2> QED BY <2>1, <2>2, <2>3, <2>4, StepKeepsInv DEF Good
<1>4. CASE IdKnown(a)
  <2>1. PICK said \in {generations[a].state, "created"} : Bound(a, a, said)
    BY <1>4 DEF IdKnown
  <2>2. said \in Said
    BY <1>0, <1>4 DEF IdKnown, Generations, Words, Said
  <2>3. /\ receipts' \in [Attempts -> Receipts]
        /\ receipts'[a].generation = a /\ receipts'[a].status = said
        /\ receipts'[a].downloaded = None /\ receipts'[a].final = None
        /\ temporary[a] = None
        /\ \A b \in Attempts \ {a} : receipts'[b] = receipts[b]
    BY <1>0, <1>4, <2>1, <2>2, BoundWrites DEF IdKnown, Good, Own, Final, Before
  <2>4. TypeOK' /\ pc' = [pc EXCEPT ![a] = "polling"]
    BY <1>0, <1>4, <2>3 DEF TypeOK, IdKnown, Go, Places, files, provider, time
  <2>5. Only(a)
    BY <1>0, <1>4, <2>3, <2>4 DEF Only, Guarded, Monotone, TypeOK, IdKnown, files, provider
  <2>6. Once(a)' /\ Own(a)'
    BY <1>0, <1>4, <2>2, <2>3, <2>4 DEF IdKnown, TypeOK, Good, Once, Asked, Own, Unbound,
       Before, Ending, Staged, Placed, Judged, Said, files, provider
  <2>7. Kept(a)' /\ Located(a)' /\ Final(a)' /\ Silent(a)'
    BY <1>0, <2>2, <2>3, <2>4 DEF TypeOK, Kept, Located, Final, Silent, Staged, Placed,
       Judged, Said, Local
  <2> QED BY <2>4, <2>5, <2>6, <2>7, StepKeepsInv DEF Good
<1>5. CASE Ambiguous(a)
  <2>1. TypeOK'
    BY <1>0, <1>5 DEF TypeOK, Ambiguous, Write, Stop, Go, Receipts, Statuses, Terminal,
       Local, Bytes, Places, files, provider, time
  <2>2. Only(a)
    BY <1>0, <1>5 DEF Only, Guarded, Monotone, TypeOK, Ambiguous, Write, Stop, Go, files,
       provider, time
  <2>3. Once(a)' /\ Own(a)'
    BY <1>0, <1>5 DEF Ambiguous, Write, Stop, Go, TypeOK, Receipts, Good, Once, Asked, Own,
       Unbound, Before, Ending,
       Staged, Placed, Judged, Terminal, Local, files, provider, time
  <2>4. Kept(a)' /\ Located(a)' /\ Final(a)' /\ Silent(a)'
    BY <1>0, <1>5 DEF Ambiguous, Write, Stop, Go, TypeOK, Receipts, Good, Own, Unbound,
       Before, Ending, Kept, Located, Final, Silent, HasAudio,
       Staged, Placed, Judged, Terminal, Local, files, provider, time
  <2> QED BY <2>1, <2>2, <2>3, <2>4, StepKeepsInv DEF Good
<1> QED BY <1>1, <1>2, <1>3, <1>4, <1>5

LEMMA WriteTypes ==
  ASSUME TypeOK, NEW a \in Attempts, NEW s \in Statuses, Write(a, s)
  PROVE  receipts' \in [Attempts -> Receipts]
BY DEF TypeOK, Write, Receipts

LEMMA GoTypes ==
  ASSUME TypeOK, NEW a \in Attempts, NEW place \in Places, Go(a, place)
  PROVE  pc' \in [Attempts -> Places]
BY DEF TypeOK, Go

(* Another execution, the polls, and the end of a process.                   *)
LEMMA RerunKeepsInv ==
  ASSUME Inv, NEW a \in Attempts, Rerun(a) \/ Poll(a) \/ Crash(a)
  PROVE  Inv'
<1>0. /\ TypeOK /\ Good(a) /\ generations[a] \in Generations /\ a # None
      /\ receipts[a] \in Receipts /\ OutputOf[a] \in Outputs /\ MaxFaults \in Nat
  BY ReceiptsAssumption DEF Inv, TypeOK
<1>1. CASE Recover(a) /\ receipts[a].generation # None
  <2>1. pc' = [pc EXCEPT ![a] = "polling"] /\ Free(a)
    BY <1>1 DEF Recover, Go
  <2>2. TypeOK' /\ UNCHANGED receipts
    BY <1>0, <1>1, <2>1 DEF TypeOK, Recover, Places, files, provider, time
  <2>3. Only(a)
    BY <1>0, <1>1, <2>1, <2>2 DEF Only, Guarded, Monotone, TypeOK, Recover, files, provider
  <2>4. Once(a)' /\ Own(a)'
    BY <1>0, <1>1, <2>1, <2>2 DEF Recover, TypeOK, Good, Once, Asked, Own, Before, Ending,
       Staged, Placed, Judged,
       files, provider
  <2>5. Kept(a)' /\ Located(a)' /\ Final(a)' /\ Silent(a)'
    BY <1>0, <1>1, <2>1, <2>2 DEF Recover, TypeOK, Good, Kept, Located, Final, Silent, HasAudio,
       Staged, Placed, Judged,
       files, provider
  <2> QED BY <2>2, <2>3, <2>4, <2>5, StepKeepsInv DEF Good
<1>2. CASE Recover(a) /\ receipts[a].generation = None
  <2>1. pc' = [pc EXCEPT ![a] = "polling"] /\ Free(a)
    BY <1>2 DEF Recover, Go
  <2>2. PICK g \in Attempts : /\ g \in Matches(a)
                              /\ \E said \in {generations[g].state, "reconciled"} :
                                   Bound(a, g, said)
    BY <1>2 DEF Recover
  <2>3. PICK said \in Said : Bound(a, g, said)
    BY <1>0, <2>2 DEF Matches, TypeOK, Generations, Words, Said
  <2>4. /\ receipts' \in [Attempts -> Receipts]
        /\ receipts'[a].generation = g /\ receipts'[a].status = said
        /\ receipts'[a].downloaded = None /\ receipts'[a].final = None
        /\ temporary[a] = None /\ g # None
        /\ \A b \in Attempts \ {a} : receipts'[b] = receipts[b]
    BY <1>0, <1>2, <2>3, BoundWrites, ReceiptsAssumption DEF Good, Own, Final, Recover,
       Terminal
  <2>5. TypeOK'
    BY <1>0, <1>2, <2>1, <2>4 DEF TypeOK, Recover, Places, files, provider, time
  <2>6. Only(a)
    BY <1>0, <1>2, <2>1, <2>4 DEF Only, Guarded, Monotone, TypeOK, Recover, files, provider
  <2>7. Once(a)'
    BY <1>0, <1>2, <2>1, <2>4 DEF Recover, TypeOK, Good, Once, Asked, Said, files, provider
  <2>9. generations[g].state # "none" /\ UNCHANGED <<generations, temporary>>
    BY <1>2, <2>2 DEF Matches, Recover, files, provider
  <2>10. Own(a)'
    BY <1>0, <2>1, <2>4, <2>9 DEF TypeOK, Own, Unbound, Before, Ending, Said, Staged, Placed,
       Judged
  <2>8. Kept(a)' /\ Located(a)' /\ Final(a)' /\ Silent(a)'
    BY <1>0, <2>1, <2>4 DEF TypeOK, Kept, Located, Final, Silent, Staged, Placed, Judged,
       Said, Local
  <2> QED BY <2>5, <2>6, <2>7, <2>8, <2>10, StepKeepsInv DEF Good
<1>3. CASE ResumeLocal(a)
  <2>1. TypeOK'
    BY <1>0, <1>3 DEF TypeOK, ResumeLocal, Expected, Go, Free, Located, HasAudio, Silent,
       Receipts, Statuses, Terminal, Local, Bytes, Places, files, provider, time
  <2>2. Only(a)
    BY <1>0, <1>3 DEF Only, Guarded, Monotone, TypeOK, ResumeLocal, Expected, Go, Free,
       Located, HasAudio, Silent, files, provider, time
  <2>3. Once(a)' /\ Own(a)'
    BY <1>0, <1>3 DEF ResumeLocal, Expected, Go, Free, Located, HasAudio, Silent, TypeOK,
       Receipts, Good, Once, Asked, Own, Unbound, Before, Ending,
       Staged, Placed, Judged, Terminal, Local, files, provider, time
  <2>4. Kept(a)' /\ Located(a)' /\ Final(a)' /\ Silent(a)'
    BY <1>0, <1>3 DEF ResumeLocal, Expected, Go, Free, Located, HasAudio, Silent, TypeOK,
       Receipts, Good, Own, Unbound, Before, Ending, Kept, Located, Final, Silent, HasAudio,
       Staged, Placed, Judged, Terminal, Local, files, provider, time
  <2> QED BY <2>1, <2>2, <2>3, <2>4, StepKeepsInv DEF Good
<1>4. CASE Poll(a)
  <2>0. receipts[a].final = None /\ receipts[a].generation \in Attempts
        /\ receipts[a].status \notin Unbound
    BY <1>0, <1>4 DEF Poll, Good, Final, Own, Receipts, Bytes
  <2>1. /\ pc' = [pc EXCEPT ![a] = "retaining"]
        /\ generations[receipts[a].generation].state = "completed" /\ UNCHANGED receipts
        \/ /\ pc' = [pc EXCEPT ![a] = "off"]
           /\ \E word \in {"in_progress", "failed", "poll_incomplete",
                            "completed_without_result_url"} :
                Write(a, word)
    <3> DEFINE state == generations[receipts[a].generation].state
    <3>1. state \in Words
      <4>1. generations[receipts[a].generation] \in Generations
        BY <1>0, <2>0 DEF TypeOK
      <4>2. receipts[a].generation # None /\ state # "none"
        BY <1>0, <2>0, ReceiptsAssumption DEF Good, Own
      <4> QED BY <4>1, <4>2 DEF Generations
    <3>2. CASE state = "completed" /\ Go(a, "retaining") /\ UNCHANGED receipts
      BY <3>2 DEF Go
    <3>3. CASE state # "completed" /\ Write(a, state) /\ Stop(a)
      BY <3>1, <3>3 DEF Stop, Go, Words
    <3>4. CASE (Write(a, "poll_incomplete") \/ Write(a, "completed_without_result_url"))
                 /\ Stop(a)
      BY <3>4 DEF Stop, Go
    <3> QED BY <1>4, <3>2, <3>3, <3>4 DEF Poll
  <2>2. TypeOK'
    <3>1. receipts' \in [Attempts -> Receipts]
      BY <1>0, <2>1, WriteTypes DEF TypeOK, Statuses, Words
    <3>2. pc' \in [Attempts -> Places] /\ faults' \in 0..MaxFaults
      BY <1>0, <1>4, <2>1 DEF TypeOK, Poll, Places
    <3> QED BY <1>0, <1>4, <3>1, <3>2 DEF TypeOK, Poll, Write, files, provider
  <2>3. Only(a)
    BY <1>0, <1>4, <2>1 DEF Only, Guarded, Monotone, TypeOK, Poll, Write, files, provider
  <2>4. Once(a)' /\ Own(a)'
    BY <1>0, <1>4, <2>0, <2>1 DEF Poll, Write, TypeOK, Receipts, Good, Once, Asked, Own, Unbound,
       Before, Ending, Staged, Placed, Judged, files, provider
  <2>5. Kept(a)' /\ Located(a)' /\ Final(a)' /\ Silent(a)'
    BY <1>0, <1>4, <2>0, <2>1 DEF Poll, Write, TypeOK, Receipts, Good, Kept, Located, Final, Silent,
       HasAudio, Staged, Placed, Judged, Local, files, provider
  <2> QED BY <2>2, <2>3, <2>4, <2>5, StepKeepsInv DEF Good
<1>5. CASE Crash(a)
  <2>1. TypeOK'
    BY <1>0, <1>5 DEF TypeOK, Crash, Stop, Go, Receipts, Statuses, Terminal, Local, Bytes,
       Places, files, provider
  <2>2. Only(a)
    BY <1>0, <1>5 DEF Only, Guarded, Monotone, TypeOK, Crash, Stop, Go, files, provider
  <2>3. Once(a)' /\ Own(a)'
    BY <1>0, <1>5 DEF Crash, Stop, Go, TypeOK, Receipts, Good, Once, Asked, Own, Unbound,
       Before, Ending,
       Staged, Placed, Judged, Terminal, Local, files, provider
  <2>4. Kept(a)' /\ Located(a)' /\ Final(a)' /\ Silent(a)'
    BY <1>0, <1>5 DEF Crash, Stop, Go, TypeOK, Receipts, Good, Own, Unbound, Before, Ending,
       Kept, Located, Final, Silent, HasAudio,
       Staged, Placed, Judged, Terminal, Local, files, provider
  <2> QED BY <2>1, <2>2, <2>3, <2>4, StepKeepsInv DEF Good
<1> QED BY <1>1, <1>2, <1>3, <1>4, <1>5 DEF Rerun

LEMMA EndTypes ==
  ASSUME TypeOK, NEW a \in Attempts, NEW s \in Statuses, NEW bytes \in Bytes,
         End(a, s, bytes)
  PROVE  receipts' \in [Attempts -> Receipts]
<1>1. [receipts[a] EXCEPT !.status = s, !.final = bytes] \in Receipts
  BY ZenonT(30) DEF TypeOK, Receipts
<1>2. receipts' = [receipts EXCEPT ![a] = [receipts[a] EXCEPT !.status = s, !.final = bytes]]
  BY DEF TypeOK, Receipts, End
<1> QED BY <1>1, <1>2 DEF TypeOK

(* Quarantine moves bytes and invents none.                                  *)
LEMMA OutputQuarantined ==
  ASSUME TypeOK, NEW a \in Attempts, output[OutputOf[a]] # None, QuarantineOutput(a)
  PROVE  /\ output' \in [Outputs -> Bytes]
         /\ quarantined' \in [Outputs -> SUBSET Attempts]
BY ReceiptsAssumption DEF TypeOK, QuarantineOutput, Bytes

LEMMA TemporaryQuarantined ==
  ASSUME TypeOK, NEW a \in Attempts, temporary[a] # None, QuarantineTemporary(a)
  PROVE  /\ temporary' \in [Attempts -> Bytes]
         /\ setAside' \in [Attempts -> SUBSET Attempts]
BY ReceiptsAssumption DEF TypeOK, QuarantineTemporary, Bytes

(* The download, its rename, and the end of the receipt.                     *)
LEMMA RetainKeepsInv ==
  ASSUME Inv, NEW a \in Attempts,
         Retain(a) \/ WriteDownloaded(a) \/ LookAgain(a) \/ Rename(a) \/ WriteRetained(a)
           \/ Finalize(a) \/ Reject(a) \/ RecordRejected(a)
  PROVE  Inv'
<1>0. /\ TypeOK /\ Good(a) /\ generations[a] \in Generations /\ a # None
      /\ receipts[a] \in Receipts /\ OutputOf[a] \in Outputs /\ None \notin Attempts
      /\ receipts[a].generation \in Bytes
  BY ReceiptsAssumption DEF Inv, TypeOK, Receipts
<1>1. CASE Retain(a)
  <2>1. TypeOK'
    <3>1. receipts' \in [Attempts -> Receipts] /\ pc' \in [Attempts -> Places]
      BY <1>0, <1>1, WriteTypes, GoTypes DEF TypeOK, Retain, Stop, Statuses, Local, Places,
         files
    <3>2. output' \in [Outputs -> Bytes] /\ quarantined' \in [Outputs -> SUBSET Attempts]
      BY <1>0, <1>1, OutputQuarantined DEF TypeOK, Retain, Clash, files
    <3>3. temporary' \in [Attempts -> Bytes] /\ setAside' \in [Attempts -> SUBSET Attempts]
      BY <1>0, <1>1, TemporaryQuarantined DEF TypeOK, Retain, files
    <3> QED BY <1>0, <1>1, <3>1, <3>2, <3>3 DEF TypeOK, Retain, provider, time
  <2>2. Only(a)
    BY <1>0, <1>1 DEF Only, Guarded, Monotone, TypeOK, Retain, Expected, Clash,
       QuarantineOutput, QuarantineTemporary, Write, Stop, Go, provider, time, files
  <2>3. Once(a)' /\ Own(a)'
    BY <1>0, <1>1 DEF Retain, Expected, Clash, QuarantineOutput, QuarantineTemporary, Write,
       Stop, Go, TypeOK, Receipts, Good, Once, Asked, Own, Unbound, Before, Ending,
       Staged, Placed, Judged, Terminal, Local, provider, time, files
  <2>4. Kept(a)' /\ Located(a)' /\ Final(a)' /\ Silent(a)'
    BY <1>0, <1>1 DEF Retain, Expected, Clash, QuarantineOutput, QuarantineTemporary, Write,
       Stop, Go, TypeOK, Receipts, Good, Own, Unbound, Before, Ending, Kept, Located, Final,
       Silent, HasAudio,
       Staged, Placed, Judged, Terminal, Local, provider, time, files
  <2> QED BY <2>1, <2>2, <2>3, <2>4, StepKeepsInv DEF Good
<1>2. CASE WriteDownloaded(a)
  <2>1. TypeOK'
    BY <1>0, <1>2 DEF TypeOK, WriteDownloaded, Go, Receipts, Statuses, Terminal, Local,
       Bytes, Places, files, provider, time
  <2>2. Only(a)
    BY <1>0, <1>2 DEF Only, Guarded, Monotone, TypeOK, WriteDownloaded, Go, files, provider,
       time
  <2>3. Once(a)' /\ Own(a)'
    BY <1>0, <1>2 DEF WriteDownloaded, Go, TypeOK, Receipts, Good, Once, Asked, Own,
       Unbound, Before, Ending,
       Staged, Placed, Judged, Terminal, Local, files, provider, time
  <2>4. Kept(a)' /\ Located(a)' /\ Final(a)' /\ Silent(a)'
    BY <1>0, <1>2 DEF WriteDownloaded, Go, TypeOK, Receipts, Good, Own, Unbound, Before,
       Ending, Kept, Located, Final, Silent, HasAudio,
       Staged, Placed, Judged, Terminal, Local, files, provider, time
  <2> QED BY <2>1, <2>2, <2>3, <2>4, StepKeepsInv DEF Good
<1>3. CASE LookAgain(a)
  <2>1. TypeOK'
    <3>1. pc' \in [Attempts -> Places]
      BY <1>0, <1>3, GoTypes DEF TypeOK, LookAgain, Stop, Places
    <3>2. output' \in [Outputs -> Bytes] /\ quarantined' \in [Outputs -> SUBSET Attempts]
      BY <1>0, <1>3, OutputQuarantined DEF TypeOK, LookAgain, Clash
    <3> QED BY <1>0, <1>3, <3>1, <3>2 DEF TypeOK, LookAgain, provider, time
  <2>2. Only(a)
    BY <1>0, <1>3 DEF Only, Guarded, Monotone, TypeOK, LookAgain, Clash, QuarantineOutput,
       Stop, Go, provider, time
  <2>3. Once(a)' /\ Own(a)'
    BY <1>0, <1>3 DEF LookAgain, Clash, QuarantineOutput, Stop, Go, TypeOK, Receipts, Good,
       Once, Asked, Own, Unbound, Before, Ending,
       Staged, Placed, Judged, Terminal, Local, provider, time
  <2>4. Kept(a)' /\ Located(a)' /\ Final(a)' /\ Silent(a)'
    BY <1>0, <1>3 DEF LookAgain, Clash, QuarantineOutput, Stop, Go, TypeOK, Receipts, Good,
       Own, Unbound, Before, Ending, Kept, Located, Final, Silent, HasAudio,
       Staged, Placed, Judged, Terminal, Local, provider, time
  <2> QED BY <2>1, <2>2, <2>3, <2>4, StepKeepsInv DEF Good
<1>4. CASE Rename(a)
  <2>1. TypeOK'
    BY <1>0, <1>4 DEF TypeOK, Rename, Go, Good, Located, Receipts, Statuses, Terminal,
       Local, Bytes, Places, provider, time
  <2>2. Only(a)
    BY <1>0, <1>4 DEF Only, Guarded, Monotone, TypeOK, Rename, Go, Good, Located, provider, time
  <2>3. Once(a)' /\ Own(a)'
    BY <1>0, <1>4 DEF Rename, Go, Good, Located, TypeOK, Receipts, Good, Once, Asked, Own,
       Unbound, Before, Ending,
       Staged, Placed, Judged, Terminal, Local, provider, time
  <2>4. Kept(a)' /\ Located(a)' /\ Final(a)' /\ Silent(a)'
    BY <1>0, <1>4 DEF Rename, Go, Good, Located, TypeOK, Receipts, Good, Own, Unbound,
       Before, Ending, Kept, Located, Final, Silent, HasAudio,
       Staged, Placed, Judged, Terminal, Local, provider, time
  <2> QED BY <2>1, <2>2, <2>3, <2>4, StepKeepsInv DEF Good
<1>5. CASE WriteRetained(a)
  <2>1. TypeOK'
    BY <1>0, <1>5 DEF TypeOK, WriteRetained, Write, Go, Receipts, Statuses, Terminal, Local,
       Bytes, Places, files, provider, time
  <2>2. Only(a)
    BY <1>0, <1>5 DEF Only, Guarded, Monotone, TypeOK, WriteRetained, Write, Go, files,
       provider, time
  <2>3. Once(a)' /\ Own(a)'
    BY <1>0, <1>5 DEF WriteRetained, Write, Go, TypeOK, Receipts, Good, Once, Asked, Own,
       Unbound, Before, Ending,
       Staged, Placed, Judged, Terminal, Local, files, provider, time
  <2>4. Kept(a)' /\ Located(a)' /\ Final(a)' /\ Silent(a)'
    BY <1>0, <1>5 DEF WriteRetained, Write, Go, TypeOK, Receipts, Good, Own, Unbound,
       Before, Ending, Kept, Located, Final, Silent, HasAudio,
       Staged, Placed, Judged, Terminal, Local, files, provider, time
  <2> QED BY <2>1, <2>2, <2>3, <2>4, StepKeepsInv DEF Good
<1>6. CASE Finalize(a)
  <2>0. /\ output[OutputOf[a]] = receipts[a].generation /\ receipts[a].generation # None
        /\ receipts[a].downloaded = receipts[a].generation
    BY <1>0, <1>6 DEF Finalize, Good, Own, Located, Ending, Placed
  <2>1. TypeOK'
    <3>1. output' \in [Outputs -> Bytes] /\ quarantined' \in [Outputs -> SUBSET Attempts]
      BY <1>0, <1>6, <2>0, OutputQuarantined DEF TypeOK, Finalize
    <3>2. receipts' \in [Attempts -> Receipts] /\ pc' \in [Attempts -> Places]
      BY <1>0, <1>6, EndTypes, GoTypes DEF TypeOK, Finalize, Stop, Statuses, Terminal, Places
    <3> QED BY <1>0, <1>6, <3>1, <3>2 DEF TypeOK, Finalize, provider, time
  <2>2. Only(a)
    BY <1>0, <1>6, <2>0 DEF Only, Guarded, Monotone, TypeOK, Finalize, Rejected, HasAudio,
       QuarantineOutput, End, Stop, Go, provider, time
  <2>3. Once(a)' /\ Own(a)'
    BY <1>0, <1>6, <2>0 DEF Finalize, Rejected, HasAudio, QuarantineOutput, End, Stop, Go,
       TypeOK, Receipts, Good, Once, Asked, Own, Unbound, Before, Ending,
       Staged, Placed, Judged, Terminal, Local, provider, time
  <2>4. Kept(a)' /\ Located(a)' /\ Final(a)' /\ Silent(a)'
    BY <1>0, <1>6, <2>0 DEF Finalize, Rejected, HasAudio, QuarantineOutput, End, Stop, Go,
       TypeOK, Receipts, Good, Own, Unbound, Before, Ending, Kept, Located, Final, Silent,
       HasAudio,
       Staged, Placed, Judged, Terminal, Local, provider, time
  <2> QED BY <2>1, <2>2, <2>3, <2>4, StepKeepsInv DEF Good
<1>7. CASE Reject(a)
  <2>1. TypeOK'
    BY <1>0, <1>7 DEF TypeOK, Reject, Write, Stop, Go, Receipts, Statuses, Terminal, Local,
       Bytes, Places, files, provider, time
  <2>2. Only(a)
    BY <1>0, <1>7 DEF Only, Guarded, Monotone, TypeOK, Reject, Write, Stop, Go, files,
       provider, time
  <2>3. Once(a)' /\ Own(a)'
    BY <1>0, <1>7 DEF Reject, Write, Stop, Go, TypeOK, Receipts, Good, Once, Asked, Own,
       Unbound, Before, Ending,
       Staged, Placed, Judged, Terminal, Local, files, provider, time
  <2>4. Kept(a)' /\ Located(a)' /\ Final(a)' /\ Silent(a)'
    BY <1>0, <1>7 DEF Reject, Write, Stop, Go, TypeOK, Receipts, Good, Own, Unbound, Before,
       Ending, Kept, Located, Final, Silent, HasAudio,
       Staged, Placed, Judged, Terminal, Local, files, provider, time
  <2> QED BY <2>1, <2>2, <2>3, <2>4, StepKeepsInv DEF Good
<1>8. CASE RecordRejected(a)
  <2>0. /\ receipts[a].downloaded = receipts[a].generation /\ receipts[a].generation # None
        /\ HasAudio(a) /\ receipts[a].generation \in quarantined[OutputOf[a]]
        /\ End(a, "rejected_unexpected_provider_audio", receipts[a].downloaded)
        /\ Go(a, "off")
    BY <1>0, <1>8 DEF RecordRejected, Expected, Stop, Good, Own, Silent, Ending, Judged
  <2>1. TypeOK'
    <3>1. receipts' \in [Attempts -> Receipts] /\ pc' \in [Attempts -> Places]
      BY <1>0, <2>0, EndTypes, GoTypes DEF Statuses, Terminal, Places
    <3> QED BY <1>0, <1>8, <3>1 DEF TypeOK, RecordRejected, files, provider, time
  <2>2. Only(a)
    BY <1>0, <1>8, <2>0 DEF Only, Guarded, Monotone, TypeOK, RecordRejected, End, Go, files,
       provider, time
  <2>3. Once(a)' /\ Own(a)'
    BY <1>0, <1>8, <2>0 DEF RecordRejected, End, Go, TypeOK, Receipts, Good, Once, Asked, Own,
       Unbound, Before, Ending, Staged, Placed, Judged, files, provider, time
  <2>4. Kept(a)' /\ Located(a)' /\ Final(a)' /\ Silent(a)'
    BY <1>0, <1>8, <2>0 DEF RecordRejected, End, Go, TypeOK, Receipts, Good, Kept, Located,
       Final, Silent, HasAudio, Staged, Placed, Judged, Terminal, Local, files, provider, time
  <2> QED BY <2>1, <2>2, <2>3, <2>4, StepKeepsInv DEF Good
<1> QED BY <1>1, <1>2, <1>3, <1>4, <1>5, <1>6, <1>7, <1>8
-----------------------------------------------------------------------------
LEMMA NextInv == Inv /\ [Next]_vars => Inv'
<1> SUFFICES ASSUME Inv, [Next]_vars PROVE Inv'
  OBVIOUS
<1>1. CASE UNCHANGED vars
  BY <1>1 DEF vars, files, provider, time, Inv, TypeOK, Alone, Good, Once, Asked, Own, Kept,
     Located, Final, Silent, HasAudio
<1>2. CASE Tick
  <2>1. epoch' \in 0..MaxEpoch
    BY <1>2, ReceiptsAssumption DEF Tick, Inv, TypeOK
  <2> QED BY <1>2, <2>1 DEF Tick, files, provider, Inv, TypeOK, Alone, Good, Once, Asked, Own,
          Kept, Located, Final, Silent, HasAudio
<1>3. ASSUME NEW a \in Attempts,
             Begin(a) \/ Execute(a) \/ Rerun(a) \/ Provider(a) \/ Crash(a)
      PROVE  Inv'
  BY <1>3, SubmissionKeepsInv, RerunKeepsInv, RetainKeepsInv, ProviderKeepsInv DEF Execute
<1> QED BY <1>1, <1>2, <1>3 DEF Next

\* The inductive invariant, for every behaviour of the executors and the provider.
THEOREM InvHolds == Spec => []Inv
<1> QED BY InitInv, NextInv, PTL DEF Spec

\* Every state of the receipts, files and generations is well typed
\* (execute_higgsfield_production and what it calls).
THEOREM TypeCorrect == Spec => []TypeOK
<1>1. Inv => TypeOK
  BY DEF Inv
<1> QED BY <1>1, InvHolds, PTL

\* However often an attempt is executed, recovered or resumed and wherever it stops,
\* the provider is asked for it at most once, and only after the receipt says so
\* (execute_higgsfield_production, _recover_higgsfield_generation).
THEOREM NeverPaidTwice == Spec => []SubmittedOnce
<1>1. Inv => SubmittedOnce
  BY DEF Inv, Good, Once, Asked, SubmittedOnce
<1> QED BY <1>1, InvHolds, PTL

\* Bytes that a receipt says were downloaded stay somewhere through every download,
\* rename and quarantine: in the staged file of their attempt, at its output path, or in
\* the quarantine beside it (_retain_downloaded_output, _quarantine_collision).
THEOREM NothingPaidForIsLost == Spec => []BytesAreKept
<1>1. Inv => BytesAreKept
  BY DEF Inv, Good, Kept, BytesAreKept
<1> QED BY <1>1, InvHolds, PTL

\* A final output that a receipt records is the download of a completed generation,
\* under a terminal status: without a soundtrack when completed, in quarantine when
\* rejected (_finalize_retained_output). It says nothing of a terminal status that has no
\* final output, which the provider's own word can be.
THEOREM EndedReceiptsTellTheTruth == Spec => []EndedReceiptsAreTrue
<1>1. Inv => EndedReceiptsAreTrue
  BY DEF Inv, Good, Own, Located, Final, Silent, EndedReceiptsAreTrue
<1> QED BY <1>1, InvHolds, PTL
=============================================================================
