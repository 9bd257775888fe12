----------------------- MODULE RuntimePromotion_proofs -----------------------
(***************************************************************************)
(* Proofs about RuntimePromotion for every number of promotions, commits   *)
(* and faults: what is committed was verified and has its receipt with any *)
(* state roots, and the runtime rests on what was committed last when all  *)
(* promotions use one state root.                                          *)
(***************************************************************************)
EXTENDS RuntimePromotion, TLAPS

Moved == {"moved", "verifying", "verified", "pending", "receipted"}
Checked == {"verified", "pending", "receipted"}
Undoing == {"undoing", "unlinking", "undone"}
Working == {"prepared", "failing", "rolledBack"} \cup Moved \cup Undoing

(* The journal of the promotion whose attempt holds the lock.                *)
Holder ==
  /\ pc \in Working \cup {"backing", "refusing"} =>
       attempt.before \in Commits /\ attempt.source \in Commits /\ attempt.root \in Roots
  /\ pc = "recovering" => attempt.source \in Commits /\ attempt.root \in Roots
  /\ pc \in Working \cup {"refusing"} =>
       /\ attempt.id \in Promotions
       /\ journals[attempt.id].before = attempt.before
       /\ journals[attempt.id].source = attempt.source
  /\ pc \in Working => journals[attempt.id].status \in Open
  /\ pc = "refusing" => journals[attempt.id].status = "rolled_back"
  /\ pc \in Checked => attempt.id \in passed
  /\ pc = "receipted" => receipts[attempt.id] \in Success
  /\ pc \in Moved => runtime = attempt.source

(* What a journal and a receipt say of their promotion.                      *)
Recorded ==
  /\ \A p \in Promotions : journals[p].status # "none" =>
       journals[p].before \in Commits /\ journals[p].source \in Commits
         /\ journals[p].root \in Roots
  /\ \A p \in Promotions : receipts[p] \in Success => p \in passed
  /\ \A p \in Promotions : journals[p].status \in Committed => receipts[p] \in Success
  /\ latest # None => journals[latest].status \in Committed

Inv == TypeOK /\ Holder /\ Recorded

-----------------------------------------------------------------------------
LEMMA InitInv == Init => Inv
<1> SUFFICES ASSUME Init PROVE Inv
  OBVIOUS
<1>1. NoJournal \in Journals /\ NoJournal.status = "none" /\ NoAttempt \in Attempts
  BY DEF NoJournal, Journals, NoAttempt, Attempts
<1>2. TypeOK
  BY <1>1, PromotionAssumption DEF Init, TypeOK, Places
<1>3. Holder /\ Recorded
  BY <1>1 DEF Init, Holder, Recorded, Working, Moved, Checked, Undoing, Committed, Success
<1> QED BY <1>2, <1>3 DEF Inv

(* A journal's status is written and nothing else of it.                     *)
LEMMA WriteFacts ==
  ASSUME TypeOK, NEW p \in Promotions, NEW s \in Open \cup Committed \cup {"rolled_back", "recovered_rollback"},
         Write(p, s)
  PROVE  /\ journals' \in [Promotions -> Journals]
         /\ journals'[p].status = s
         /\ \A q \in Promotions : /\ journals'[q].before = journals[q].before
                                  /\ journals'[q].source = journals[q].source
                                  /\ journals'[q].root = journals[q].root
                                  /\ q # p => journals'[q] = journals[q]
BY DEF TypeOK, Write, Journals

LEMMA ReleaseFacts ==
  ASSUME TypeOK, Release
  PROVE  pc' = "free" /\ attempt' \in Attempts
BY DEF Release, NoAttempt, Attempts

(* Taking the lock, recovering, and giving up.                               *)
LEMMA RecoveryKeepsInv ==
  ASSUME Inv, Try \/ Recovered \/ GiveUp \/ \E p \in Promotions : Recover(p)
  PROVE  Inv'
<1>1. CASE Try
  <2>1. PICK r \in Roots, c \in Commits : Lock(r, c)
    BY <1>1 DEF Try
  <2>2. attempt' \in Attempts /\ attempt'.source = c /\ attempt'.root = r
    BY <2>1 DEF Lock, NoAttempt, Attempts
  <2> QED BY <2>1, <2>2 DEF Lock, history, Inv, TypeOK, Places, Holder, Recorded, Working,
             Moved, Checked,
          Undoing
<1>2. CASE Recovered
  <2>1. /\ attempt' \in Attempts /\ attempt'.before = runtime /\ runtime \in Commits
        /\ attempt'.source = attempt.source /\ attempt'.root = attempt.root
    BY <1>2 DEF Recovered, Inv, TypeOK, Attempts
  <2> QED BY <1>2, <2>1 DEF Recovered, history, Inv, TypeOK, Places, Holder, Recorded,
             Working, Moved, Checked,
          Undoing
<1>3. CASE GiveUp
  BY <1>3, ReleaseFacts DEF GiveUp, history, Inv, TypeOK, Places, Holder, Recorded, Working,
     Moved, Checked,
     Undoing
<1>4. ASSUME NEW p \in Promotions, RecoverCommitted(p)
      PROVE  Inv'
  BY <1>4, WriteFacts DEF RecoverCommitted, Incomplete, Keeps, Open, Committed, Inv, TypeOK,
     Holder, Recorded,
     Working, Moved, Checked, Undoing
<1>5. ASSUME NEW p \in Promotions, RecoverCheckout(p)
      PROVE  Inv'
  BY <1>5 DEF RecoverCheckout, Restorable, Incomplete, Open, Inv, TypeOK, Holder, Recorded,
     history,
     Working, Moved, Checked, Undoing
<1>6. ASSUME NEW p \in Promotions, RecoverRollback(p)
      PROVE  Inv'
  BY <1>6, WriteFacts DEF RecoverRollback, Incomplete, Open, Committed, Inv, TypeOK, Holder,
     Recorded, history,
     Working, Moved, Checked, Undoing
<1> QED BY <1>1, <1>2, <1>3, <1>4, <1>5, <1>6 DEF Recover
(* The steps of a promotion that succeeds.                                   *)
LEMMA ForwardKeepsInv ==
  ASSUME Inv,
         (\E p \in Promotions : Prepare(p)) \/ Move \/ MarkMutated \/ Verify \/ MarkPending
           \/ WriteReceipt \/ Commit
  PROVE  Inv'
<1> USE DEF Working, Moved, Checked, Undoing, Places, Open, Committed
<1>1. ASSUME NEW p \in Promotions, Prepare(p)
      PROVE  Inv'
  <2>1. /\ journals' \in [Promotions -> Journals]
        /\ journals'[p].status = "prepared" /\ journals'[p].root = attempt.root
        /\ journals'[p].source = attempt.source /\ journals'[p].before = attempt.before
        /\ \A q \in Promotions \ {p} : journals'[q] = journals[q]
    BY <1>1 DEF Prepare, Inv, TypeOK, Holder, Journals
  <2>2. /\ attempt' \in Attempts /\ attempt'.id = p /\ attempt'.root = attempt.root
        /\ attempt'.source = attempt.source /\ attempt'.before = attempt.before
    BY <1>1 DEF Prepare, Inv, TypeOK, Attempts
  <2> QED BY <1>1, <2>1, <2>2, PromotionAssumption DEF Prepare, history, Inv, TypeOK,
             Holder, Recorded
<1>2. CASE Move
  BY <1>2, PromotionAssumption DEF Move, Goto, Fault, history, Inv, TypeOK, Holder, Recorded
<1>3. CASE MarkMutated
  BY <1>3, WriteFacts DEF MarkMutated, Goto, history, Inv, TypeOK, Holder, Recorded
<1>4. CASE Verify
  BY <1>4 DEF Verify, Goto, Inv, TypeOK, Holder, Recorded
<1>5. CASE MarkPending
  BY <1>5, WriteFacts DEF MarkPending, Goto, history, Inv, TypeOK, Holder, Recorded
<1>6. CASE WriteReceipt
  <2>1. /\ receipts' \in [Promotions -> {"none", "rolled_back"} \cup Success]
        /\ receipts'[attempt.id] \in Success
        /\ \A q \in Promotions \ {attempt.id} : receipts'[q] = receipts[q]
    BY <1>6 DEF WriteReceipt, Success, Inv, TypeOK, Holder
  <2> QED BY <1>6, <2>1 DEF WriteReceipt, Goto, history, Inv, TypeOK, Holder, Recorded
<1>7. CASE Commit
  BY <1>7, WriteFacts, ReleaseFacts DEF Commit, Inv, TypeOK, Holder, Recorded
<1> QED BY <1>1, <1>2, <1>3, <1>4, <1>5, <1>6, <1>7

(* The steps of one that fails, by itself or by a fault.                     *)
LEMMA BackwardKeepsInv ==
  ASSUME Inv, Rollback \/ MarkRolledBack \/ Refuse \/ Undo \/ Unlink \/ MarkUndone \/ Raise \/ Crash
  PROVE  Inv'
<1> USE DEF Working, Moved, Checked, Undoing, Places, Open, Committed
<1>1. CASE Rollback
  BY <1>1, ReleaseFacts, PromotionAssumption DEF Rollback, Restore, Goto, Fault, history,
     Inv, TypeOK, Holder,
     Recorded
<1>2. CASE MarkRolledBack
  BY <1>2, WriteFacts DEF MarkRolledBack, Goto, history, Inv, TypeOK, Holder, Recorded
<1>3. CASE Refuse
  <2>1. /\ receipts' \in [Promotions -> {"none", "rolled_back"} \cup Success]
        /\ receipts'[attempt.id] = "rolled_back"
        /\ \A q \in Promotions \ {attempt.id} : receipts'[q] = receipts[q]
    BY <1>3 DEF Refuse, Inv, TypeOK, Holder
  <2> QED BY <1>3, <2>1, ReleaseFacts DEF Refuse, history, Inv, TypeOK, Holder, Recorded,
             Success
<1>4. CASE Undo
  <2>1. attempt' \in Attempts /\ (pc' = "free" \/
          /\ pc' = "unlinking" /\ attempt'.id = attempt.id /\ attempt'.root = attempt.root
          /\ attempt'.source = attempt.source /\ attempt'.before = attempt.before)
    BY <1>4, ReleaseFacts DEF Undo, Goto, Inv, TypeOK, Attempts
  <2>2. runtime' \in Commits \cup {Dirty} /\ faults' \in 0..MaxFaults
    BY <1>4, PromotionAssumption DEF Undo, Restore, Fault, Inv, TypeOK, Holder
  <2> QED BY <1>4, <2>1, <2>2 DEF Undo, history, Inv, TypeOK, Holder, Recorded
<1>5. CASE Unlink
  <2>1. /\ receipts' \in [Promotions -> {"none", "rolled_back"} \cup Success]
        /\ receipts'[attempt.id] = "none"
        /\ \A q \in Promotions \ {attempt.id} : receipts'[q] = receipts[q]
    BY <1>5 DEF Unlink, Inv, TypeOK, Holder
  <2> QED BY <1>5, <2>1, ReleaseFacts DEF Unlink, Goto, history, Inv, TypeOK, Holder,
             Recorded, Success
<1>6. CASE MarkUndone
  BY <1>6, WriteFacts, ReleaseFacts DEF MarkUndone, history, Inv, TypeOK, Holder, Recorded
<1>7. CASE Raise
  BY <1>7, ReleaseFacts, PromotionAssumption DEF Raise, Goto, Fault, history, Inv, TypeOK,
     Holder, Recorded
<1>8. CASE Crash
  <2>1. runtime' \in Commits \cup {Dirty} /\ faults' \in 0..MaxFaults
    BY <1>8, PromotionAssumption DEF Crash, Fault, Inv, TypeOK
  <2>2. debris' \subseteq Roots \X Directories
    BY <1>8 DEF Crash, Writes, Directories, Inv, TypeOK, Holder
  <2> QED BY <1>8, <2>1, <2>2, ReleaseFacts DEF Crash, history, Inv, TypeOK, Holder, Recorded
<1> QED BY <1>1, <1>2, <1>3, <1>4, <1>5, <1>6, <1>7, <1>8

LEMMA NextInv == Inv /\ [Next]_vars => Inv'
<1> SUFFICES ASSUME Inv, [Next]_vars PROVE Inv'
  OBVIOUS
<1>1. CASE UNCHANGED vars
  BY <1>1 DEF vars, history, Inv, TypeOK, Holder, Recorded
<1>2. CASE Next
  BY <1>2, RecoveryKeepsInv, ForwardKeepsInv, BackwardKeepsInv DEF Next, Proceed
<1> QED BY <1>1, <1>2

\* The inductive invariant, for every behaviour.
THEOREM InvHolds == Spec => []Inv
<1> QED BY InitInv, NextInv, PTL DEF Spec

\* Every state of the runtime, its lock, journals and receipts is well typed
\* (promote_runtime).
THEOREM TypeCorrect == Spec => []TypeOK
<1>1. Inv => TypeOK
  BY DEF Inv
<1> QED BY <1>1, InvHolds, PTL

\* What is recorded as committed passed its verification and has its success receipt,
\* however many promotions fail, are interrupted or are recovered
\* (_recover_incomplete_transactions, promote_runtime).
THEOREM CommitsAreTrue == Spec => []CommittedIsTrue
<1>1. Inv => CommittedIsTrue
  BY DEF Inv, Recorded, CommittedIsTrue
<1> QED BY <1>1, InvHolds, PTL
-----------------------------------------------------------------------------
(* With one state root, one journal at most is open, and the runtime is      *)
(* where the promotion committed last put it whenever none is.               *)
Target == IF latest = None THEN Installed ELSE journals[latest].source

Rest ==
  /\ \A p, q \in Unfinished : p = q
  /\ pc \in {"backing", "refusing"} => Unfinished = {}
  /\ pc = "backing" => attempt.before = runtime
  /\ Unfinished = {} => runtime = Target
  /\ \A p \in Unfinished : /\ journals[p].before = Target
                           /\ runtime \in {journals[p].before, journals[p].source, Dirty}
  /\ pc \in {"rolledBack", "undone"} => runtime = attempt.before
  /\ pc = "unlinking" /\ attempt.restored => runtime = attempt.before
  /\ pc \notin {"unlinking", "undone"} => attempt.restored = FALSE

OneRoot == \E r : Roots = {r}

(* The open promotion is settled by a write.                                 *)
LEMMA Settled ==
  ASSUME Inv, Rest, NEW p \in Unfinished,
         NEW s \in Committed \cup {"rolled_back", "recovered_rollback"}, Write(p, s)
  PROVE  Unfinished' = {} /\ journals'[p].source = journals[p].source
           /\ \A q \in Promotions : journals'[q].source = journals[q].source
<1>1. p \in Promotions /\ journals'[p].status = s /\ s \notin Open
  BY WriteFacts DEF Unfinished, Inv, Open, Committed
<1>2. \A q \in Promotions \ {p} : journals'[q] = journals[q]
  BY <1>1, WriteFacts DEF Inv
<1>3. \A q \in Promotions : journals'[q].source = journals[q].source
  BY <1>1, WriteFacts DEF Inv
<1> QED BY <1>1, <1>2, <1>3 DEF Unfinished, Rest

(* The open promotion moves on and stays open.                               *)
LEMMA StillOpen ==
  ASSUME Inv, Rest, NEW p \in Unfinished, NEW s \in Open, Write(p, s), latest' = latest
  PROVE  /\ Unfinished' = Unfinished /\ Target' = Target
         /\ \A q \in Promotions : /\ journals'[q].before = journals[q].before
                                  /\ journals'[q].source = journals[q].source
<1>1. p \in Promotions /\ journals'[p].status = s
  BY WriteFacts DEF Unfinished, Inv, Open, Committed
<1>2. \A q \in Promotions : /\ journals'[q].before = journals[q].before
                            /\ journals'[q].source = journals[q].source
                            /\ q # p => journals'[q] = journals[q]
  BY <1>1, WriteFacts DEF Inv
<1>3. Unfinished' = Unfinished
  BY <1>1, <1>2 DEF Unfinished
<1>4. Target' = Target
  BY <1>2 DEF Target, Inv, TypeOK
<1> QED BY <1>2, <1>3, <1>4

LEMMA SameJournals ==
  ASSUME UNCHANGED <<journals, latest>>
  PROVE  Unfinished' = Unfinished /\ Target' = Target
BY DEF Unfinished, Target

LEMMA InitRest == Init => Rest
<1> SUFFICES ASSUME Init PROVE Rest
  OBVIOUS
<1>1. Unfinished = {} /\ Target = runtime
  BY DEF Init, Unfinished, NoJournal, Open, Target
<1>2. attempt.restored = FALSE
  BY DEF Init, NoAttempt
<1> QED BY <1>1, <1>2 DEF Init, Rest

LEMMA RecoveryKeepsRest ==
  ASSUME OneRoot, Inv, Rest, Try \/ Recovered \/ GiveUp \/ \E p \in Promotions : Recover(p)
  PROVE  Rest'
<1>1. CASE Try
  BY <1>1, SameJournals DEF Try, Lock, NoAttempt, history, Rest
<1>2. CASE Recovered
  <2>1. Unfinished = {}
    BY <1>2 DEF OneRoot, Recovered, NothingLeft, Incomplete, Unfinished, Inv, Recorded,
       Open, Holder
  <2>2. attempt'.before = runtime /\ attempt'.restored = attempt.restored
    BY <1>2 DEF Recovered, Inv, TypeOK, Attempts
  <2> QED BY <1>2, <2>1, <2>2, SameJournals DEF Recovered, history, Rest
<1>3. CASE GiveUp
  BY <1>3, SameJournals DEF GiveUp, Release, NoAttempt, history, Rest
<1>4. ASSUME NEW p \in Promotions, RecoverCommitted(p)
      PROVE  Rest'
  <2>1. p \in Unfinished /\ runtime = journals[p].source
    BY <1>4 DEF RecoverCommitted, Incomplete, Unfinished, Keeps
  <2>2. Unfinished' = {} /\ journals'[p].source = journals[p].source
    BY <1>4, <2>1, Settled DEF RecoverCommitted, Committed
  <2>3. Target' = runtime
    BY <1>4, <2>1, <2>2, PromotionAssumption DEF RecoverCommitted, Target
  <2> QED BY <1>4, <2>2, <2>3 DEF RecoverCommitted, Rest
<1>5. ASSUME NEW p \in Promotions, RecoverCheckout(p)
      PROVE  Rest'
  <2>1. p \in Unfinished
    BY <1>5 DEF RecoverCheckout, Restorable, Incomplete, Unfinished
  <2> QED BY <1>5, <2>1, SameJournals DEF RecoverCheckout, Restorable, history, Rest
<1>6. ASSUME NEW p \in Promotions, RecoverRollback(p)
      PROVE  Rest'
  <2>1. p \in Unfinished /\ runtime = journals[p].before
    BY <1>6 DEF RecoverRollback, Incomplete, Unfinished
  <2>2. Unfinished' = {} /\ Target' = Target
    BY <1>6, <2>1, Settled DEF RecoverRollback, history, Target, Inv, TypeOK
  <2> QED BY <1>6, <2>1, <2>2 DEF RecoverRollback, history, Rest
<1> QED BY <1>1, <1>2, <1>3, <1>4, <1>5, <1>6 DEF Recover

LEMMA ForwardKeepsRest ==
  ASSUME Inv, Inv', Rest,
         (\E p \in Promotions : Prepare(p)) \/ Move \/ MarkMutated \/ Verify \/ MarkPending
           \/ WriteReceipt \/ Commit
  PROVE  Rest'
<1> USE DEF Working, Moved, Checked, Undoing
<1>1. ASSUME NEW p \in Promotions, Prepare(p)
      PROVE  Rest'
  <2>1. /\ journals'[p].status = "prepared"
        /\ journals'[p].source = attempt.source /\ journals'[p].before = attempt.before
        /\ \A q \in Promotions \ {p} : journals'[q] = journals[q]
    BY <1>1 DEF Prepare, Inv, TypeOK, Journals
  <2>2. Unfinished = {} /\ attempt.before = runtime /\ runtime = Target
    BY <1>1 DEF Prepare, Rest
  <2>3. Unfinished' = {p}
    BY <2>1, <2>2 DEF Unfinished, Open
  <2>4. Target' = Target
    BY <1>1, <2>1 DEF Prepare, history, Target, Inv, TypeOK, Recorded, Committed
  <2>5. attempt'.restored = attempt.restored
    BY <1>1 DEF Prepare, Inv, TypeOK, Attempts
  <2> QED BY <1>1, <2>1, <2>2, <2>3, <2>4, <2>5 DEF Prepare, Rest
<1>2. pc \in Working => attempt.id \in Unfinished
  BY DEF Inv, Holder, Unfinished
<1>3. CASE Move
  BY <1>2, <1>3, SameJournals DEF Move, Goto, Fault, history, Rest, Inv, Holder
<1>4. CASE MarkMutated
  BY <1>2, <1>4, StillOpen DEF MarkMutated, Goto, history, Rest, Open, Unfinished
<1>5. CASE Verify
  BY <1>5, SameJournals DEF Verify, Goto, Rest
<1>6. CASE MarkPending
  BY <1>2, <1>6, StillOpen DEF MarkPending, Goto, history, Rest, Open, Unfinished
<1>7. CASE WriteReceipt
  BY <1>7, SameJournals DEF WriteReceipt, Goto, history, Rest
<1>8. CASE Commit
  <2>1. attempt.id \in Unfinished /\ Write(attempt.id, "committed")
    BY <1>2, <1>8 DEF Commit
  <2>2. Unfinished' = {} /\ journals'[attempt.id].source = journals[attempt.id].source
    BY <2>1, Settled DEF Committed
  <2>3. journals[attempt.id].source = runtime
    BY <1>8 DEF Commit, Inv, Holder
  <2>4. Target' = runtime
    BY <1>8, <2>1, <2>2, <2>3, PromotionAssumption DEF Commit, Target, Unfinished
  <2> QED BY <1>8, <2>2, <2>4 DEF Commit, Release, NoAttempt, Rest
<1> QED BY <1>1, <1>3, <1>4, <1>5, <1>6, <1>7, <1>8

LEMMA BackwardKeepsRest ==
  ASSUME Inv, Rest, Rollback \/ MarkRolledBack \/ Refuse \/ Undo \/ Unlink \/ MarkUndone \/ Raise \/ Crash
  PROVE  Rest'
<1> USE DEF Working, Moved, Checked, Undoing
<1>1. pc \in Working =>
        /\ attempt.id \in Unfinished
        /\ \A p \in Unfinished : p = attempt.id /\ journals[p].before = attempt.before
    BY DEF Inv, Holder, Unfinished, Rest
<1>2. CASE Rollback
  BY <1>1, <1>2, SameJournals DEF Rollback, Restore, Goto, Release, NoAttempt, Fault,
     history, Rest
<1>3. CASE MarkRolledBack
  <2>1. Unfinished' = {} /\ Target' = Target
    BY <1>1, <1>3, Settled DEF MarkRolledBack, history, Target, Inv, TypeOK
  <2> QED BY <1>1, <1>3, <2>1 DEF MarkRolledBack, Goto, history, Rest
<1>4. CASE Refuse
  BY <1>4, SameJournals DEF Refuse, Release, NoAttempt, history, Rest
<1>5. CASE Undo
  <2>1. /\ runtime' \in {runtime, Dirty, attempt.before}
        /\ \/ pc' = "free" /\ attempt'.restored = FALSE
           \/ /\ pc' = "unlinking" /\ attempt'.before = attempt.before
              /\ attempt'.restored => runtime' = attempt.before
    BY <1>5 DEF Undo, Restore, Goto, Release, NoAttempt, Fault, Inv, TypeOK, Attempts, Rest
  <2> QED BY <1>1, <1>5, <2>1, SameJournals DEF Undo, history, Rest
<1>6. CASE Unlink
  BY <1>6, SameJournals DEF Unlink, Goto, Release, NoAttempt, history, Rest
<1>7. CASE MarkUndone
  <2>1. Unfinished' = {} /\ Target' = Target
    BY <1>1, <1>7, Settled DEF MarkUndone, history, Target, Inv, TypeOK
  <2> QED BY <1>1, <1>7, <2>1 DEF MarkUndone, Release, NoAttempt, history, Rest
<1>8. CASE Raise
  BY <1>8, SameJournals DEF Raise, Goto, Release, NoAttempt, Fault, history, Rest
<1>9. CASE Crash
  <2>1. runtime' = runtime \/ (runtime' = Dirty /\ Unfinished # {})
    BY <1>1, <1>9 DEF Crash, ChecksOut, Restorable, Incomplete, Unfinished
  <2> QED BY <1>9, <2>1, SameJournals DEF Crash, Release, NoAttempt, history, Rest
<1> QED BY <1>2, <1>3, <1>4, <1>5, <1>6, <1>7, <1>8, <1>9

LEMMA NextRest == OneRoot /\ Inv /\ Inv' /\ Rest /\ [Next]_vars => Rest'
<1> SUFFICES ASSUME OneRoot, Inv, Inv', Rest, [Next]_vars PROVE Rest'
  OBVIOUS
<1>1. CASE UNCHANGED vars
  BY <1>1, SameJournals DEF vars, history, Rest
<1>2. CASE Next
  BY <1>2, RecoveryKeepsRest, ForwardKeepsRest, BackwardKeepsRest DEF Next, Proceed
<1> QED BY <1>1, <1>2

\* When every promotion uses the same state root, the runtime rests on the commit of the
\* promotion committed last, across failures, kills and recoveries; with two roots it
\* does not (promote_runtime, _recover_incomplete_transactions).
THEOREM RuntimeRests == ASSUME OneRoot PROVE Spec => []RestsOnCommitted
<1>1. Rest => RestsOnCommitted
  BY DEF Rest, RestsOnCommitted, Target
<1>2. Inv /\ Inv' /\ Rest /\ [Next]_vars => Rest'
  BY NextRest
<1> QED BY <1>1, <1>2, InitRest, InvHolds, PTL DEF Spec
=============================================================================
