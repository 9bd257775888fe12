-------------------------- MODULE RuntimePromotion --------------------------
(***************************************************************************)
(* The guarded promotion of a commit into the runtime checkout             *)
(* (creator_os_core/runtime_promotion.py): under the runtime's lock an     *)
(* earlier promotion that was interrupted is recovered, the checkout is    *)
(* backed up and journaled, moved, verified, and the promotion is          *)
(* committed with a receipt or rolled back.                                *)
(*                                                                         *)
(* The authority checks, the tool identities and the backup refuse before  *)
(* the journal exists and change nothing: an attempt may give up there.    *)
(* Signatures and fingerprints hold, and a backup that was verified stays  *)
(* good.  A file is replaced atomically, but a process killed inside the   *)
(* replacement leaves its temporary file in the directory, and one killed  *)
(* inside a checkout may leave the tree dirty.                             *)
(***************************************************************************)
EXTENDS Naturals, FiniteSets

CONSTANTS
  Promotions,  \* promotion ids
  Commits,     \* commits of the repository
  Installed,   \* the commit the runtime starts with
  Roots,       \* state roots operators pass
  Dirty,       \* a checkout that is not clean and detached
  None,
  MaxFaults    \* bound on crashes and failing calls

ASSUME PromotionAssumption ==
  /\ Installed \in Commits /\ Dirty \notin Commits /\ None \notin Promotions
  /\ MaxFaults \in Nat

VARIABLES
  runtime,   \* what the runtime checkout holds
  pc,        \* where the holder of the lock is, "free" when nobody holds it
  attempt,   \* what the holder works on
  journals,  \* transactions/<promotion id>.json
  receipts,  \* receipts/<promotion id>.json
  debris,    \* directories of the state roots with a temporary file left in them
  passed,    \* promotions whose verification and health passed
  latest,    \* the promotion that was committed last
  faults

vars == <<runtime, pc, attempt, journals, receipts, debris, passed, latest, faults>>
history == <<passed, latest>>

Open == {"prepared", "runtime_mutated", "receipt_pending"}
Committed == {"committed", "recovered_committed"}
Success == {"promoted", "already_current"}

Journals == [status : {"none", "rolled_back", "recovered_rollback"} \cup Open \cup Committed,
             root : Roots \cup {None}, source : Commits \cup {None},
             before : Commits \cup {None}]
NoJournal == [status |-> "none", root |-> None, source |-> None, before |-> None]
Directories == {"transactions", "receipts"}
Attempts == [id : Promotions \cup {None}, root : Roots \cup {None},
             source : Commits \cup {None}, before : Commits \cup {None}, restored : BOOLEAN]
NoAttempt == [id |-> None, root |-> None, source |-> None, before |-> None,
              restored |-> FALSE]
Places == {"free", "recovering", "backing", "prepared", "moved", "verifying", "verified",
           "pending", "receipted", "failing", "rolledBack", "refusing", "undoing",
           "unlinking", "undone"}

Init ==
  /\ runtime = Installed
  /\ pc = "free" /\ attempt = NoAttempt
  /\ journals = [p \in Promotions |-> NoJournal]
  /\ receipts = [p \in Promotions |-> "none"]
  /\ debris = {} /\ passed = {} /\ latest = None /\ faults = 0

Goto(place) == pc' = place /\ UNCHANGED attempt
Release == pc' = "free" /\ attempt' = NoAttempt
Fault == faults < MaxFaults /\ faults' = faults + 1
Write(p, status) == journals' = [journals EXCEPT ![p].status = status]

-----------------------------------------------------------------------------
(* Recovery, under the lock, before anything else.                          *)

\* The authority is verified before the state root is touched.
Lock(r, c) ==
  /\ pc = "free"
  /\ pc' = "recovering"
  /\ attempt' = [NoAttempt EXCEPT !.root = r, !.source = c]
  /\ UNCHANGED <<runtime, journals, receipts, debris, history, faults>>

\* Mutant: a journal that is only prepared has moved nothing yet.
IncompleteMoved(r) ==
  {p \in Promotions : journals[p].root = r /\ journals[p].status \in Open \ {"prepared"}}

Incomplete(r) == {p \in Promotions : journals[p].root = r /\ journals[p].status \in Open}

\* Every file among the journals must be one.
Readable(r) == <<r, "transactions">> \notin debris

\* Mutant: the checkout alone decides, whether or not a receipt was written.
KeepsWithoutReceipt(p) == runtime = journals[p].source

\* A success receipt and its commit in the checkout complete the old transaction.
Keeps(p) == receipts[p] \in Success /\ runtime = journals[p].source

RecoverCommitted(p) ==
  /\ pc = "recovering" /\ p \in Incomplete(attempt.root) /\ Readable(attempt.root)
  /\ Keeps(p)
  /\ Write(p, "recovered_committed") /\ latest' = p
  /\ UNCHANGED <<runtime, pc, attempt, receipts, debris, passed, faults>>

\* The checkout holds what an old transaction moved there.
Restorable(p) ==
  /\ pc = "recovering" /\ p \in Incomplete(attempt.root) /\ Readable(attempt.root)
  /\ ~Keeps(p) /\ runtime = journals[p].source /\ runtime # journals[p].before

RecoverCheckout(p) ==
  /\ Restorable(p)
  /\ runtime' = journals[p].before
  /\ UNCHANGED <<pc, attempt, journals, receipts, debris, history, faults>>

\* A checkout that is neither the old nor the new commit raises.
RecoverRollback(p) ==
  /\ pc = "recovering" /\ p \in Incomplete(attempt.root) /\ Readable(attempt.root)
  /\ ~Keeps(p) /\ runtime = journals[p].before
  /\ Write(p, "recovered_rollback")
  /\ UNCHANGED <<runtime, pc, attempt, receipts, debris, history, faults>>

\* Mutant: open journals are left for later.
NothingCheckedLeft(r) == TRUE

\* No journal is left open, every committed one has its receipt, every receipt reads.
\* No step of this module leaves a committed journal with a rolled_back receipt, so
\* the branch of the code that settles such a journal (:2255-2274) never runs here.
NothingLeft(r) ==
  /\ Incomplete(r) = {}
  /\ \A p \in Promotions :
       journals[p].root = r /\ journals[p].status \in Committed => receipts[p] \in Success
  /\ <<r, "receipts">> \notin debris

\* Mutant: the commit to return to is not noted.
RecoveredUnnoted ==
  /\ pc = "recovering" /\ Readable(attempt.root) /\ NothingLeft(attempt.root)
  /\ runtime # Dirty
  /\ Goto("backing")
  /\ UNCHANGED <<runtime, journals, receipts, debris, history, faults>>

Recovered ==
  /\ pc = "recovering" /\ Readable(attempt.root) /\ NothingLeft(attempt.root)
  /\ runtime # Dirty
  /\ attempt' = [attempt EXCEPT !.before = runtime]
  /\ pc' = "backing"
  /\ UNCHANGED <<runtime, journals, receipts, debris, history, faults>>

\* An authority, a tool, the recovery or the backup refuses.
GiveUp ==
  /\ pc \in {"recovering", "backing"}
  /\ Release
  /\ UNCHANGED <<runtime, journals, receipts, debris, history, faults>>

-----------------------------------------------------------------------------
(* The transaction.                                                         *)

Prepare(p) ==
  /\ pc = "backing" /\ journals[p].status = "none"
  /\ journals' = [journals EXCEPT
       ![p] = [status |-> "prepared", root |-> attempt.root, source |-> attempt.source,
               before |-> attempt.before]]
  /\ attempt' = [attempt EXCEPT !.id = p]
  /\ pc' = "prepared"
  /\ UNCHANGED <<runtime, receipts, debris, history, faults>>

Move ==
  /\ pc = "prepared"
  /\ \/ runtime' = attempt.source /\ Goto("moved") /\ UNCHANGED faults
     \/ Fault /\ runtime' = Dirty /\ Goto("failing")
  /\ UNCHANGED <<journals, receipts, debris, history>>

MarkMutated ==
  /\ pc = "moved"
  /\ Write(attempt.id, "runtime_mutated")
  /\ Goto("verifying")
  /\ UNCHANGED <<runtime, receipts, debris, history, faults>>

Verify ==
  /\ pc = "verifying"
  /\ \/ passed' = passed \cup {attempt.id} /\ Goto("verified")
     \/ UNCHANGED passed /\ Goto("failing")
  /\ UNCHANGED <<runtime, journals, receipts, debris, latest, faults>>

MarkPending ==
  /\ pc = "verified"
  /\ Write(attempt.id, "receipt_pending")
  /\ Goto("pending")
  /\ UNCHANGED <<runtime, receipts, debris, history, faults>>

WriteReceipt ==
  /\ pc = "pending"
  /\ receipts' = [receipts EXCEPT ![attempt.id] =
       IF attempt.before = attempt.source THEN "already_current" ELSE "promoted"]
  /\ Goto("receipted")
  /\ UNCHANGED <<runtime, journals, debris, history, faults>>

Commit ==
  /\ pc = "receipted"
  /\ Write(attempt.id, "committed") /\ latest' = attempt.id
  /\ Release
  /\ UNCHANGED <<runtime, receipts, debris, passed, faults>>

\* Any exception before the receipt rolls back, one after it undoes the receipt too.
Raise ==
  /\ Fault
  /\ \/ pc \in {"prepared", "moved", "verifying", "verified"} /\ Goto("failing")
     \/ pc \in {"pending", "receipted"} /\ Goto("undoing")
     \/ pc \in {"rolledBack", "refusing", "unlinking", "undone"} /\ Release
  /\ UNCHANGED <<runtime, journals, receipts, debris, history>>

Restore == runtime' = attempt.before

Rollback ==
  /\ pc = "failing"
  /\ \/ Restore /\ Goto("rolledBack") /\ UNCHANGED faults
     \/ Fault /\ runtime' \in {runtime, Dirty} /\ Release
     \/ runtime = Dirty /\ Release /\ UNCHANGED <<runtime, faults>>
  /\ UNCHANGED <<journals, receipts, debris, history>>

MarkRolledBack ==
  /\ pc = "rolledBack"
  /\ Write(attempt.id, "rolled_back")
  /\ Goto("refusing")
  /\ UNCHANGED <<runtime, receipts, debris, history, faults>>

\* The receipt of a rollback, and its journal once more.
Refuse ==
  /\ pc = "refusing"
  /\ receipts' = [receipts EXCEPT ![attempt.id] = "rolled_back"]
  /\ Release
  /\ UNCHANGED <<runtime, journals, debris, history, faults>>

Undo ==
  /\ pc = "undoing"
  /\ \/ /\ Restore /\ UNCHANGED faults
        /\ pc' = "unlinking" /\ attempt' = [attempt EXCEPT !.restored = TRUE]
     \/ Fault /\ runtime' \in {runtime, Dirty} /\ (Goto("unlinking") \/ Release)
  /\ UNCHANGED <<journals, receipts, debris, history>>

Unlink ==
  /\ pc = "unlinking"
  /\ receipts' = [receipts EXCEPT ![attempt.id] = "none"]
  /\ IF attempt.restored THEN Goto("undone") ELSE Release
  /\ UNCHANGED <<runtime, journals, debris, history, faults>>

MarkUndone ==
  /\ pc = "undone"
  /\ Write(attempt.id, "rolled_back")
  /\ Release
  /\ UNCHANGED <<runtime, receipts, debris, history, faults>>

\* The process is killed: between two steps, inside a checkout, or inside a write.
Writes(place) ==
  (IF place \in {"recovering", "backing", "moved", "verified", "rolledBack", "refusing",
                 "receipted", "undone"} THEN {"transactions"} ELSE {}) \cup
  (IF place \in {"pending", "refusing"} THEN {"receipts"} ELSE {})

ChecksOut ==
  \/ pc \in {"prepared", "failing", "undoing"}
  \/ \E p \in Promotions : Restorable(p)

Crash ==
  /\ pc # "free" /\ Fault
  /\ Release
  /\ \/ UNCHANGED <<runtime, debris>>
     \/ ChecksOut /\ runtime' = Dirty /\ UNCHANGED debris
     \/ \E d \in Writes(pc) : debris' = debris \cup {<<attempt.root, d>>} /\ UNCHANGED runtime
  /\ UNCHANGED <<journals, receipts, history>>

Recover(p) == RecoverCommitted(p) \/ RecoverCheckout(p) \/ RecoverRollback(p)
Proceed ==
  \/ Move \/ MarkMutated \/ Verify \/ MarkPending \/ WriteReceipt \/ Commit
  \/ Rollback \/ MarkRolledBack \/ Refuse \/ Undo \/ Unlink \/ MarkUndone
Try == \E r \in Roots, c \in Commits : Lock(r, c)

Next ==
  \/ Try \/ Recovered \/ GiveUp \/ Proceed \/ Raise \/ Crash
  \/ \E p \in Promotions : Recover(p) \/ Prepare(p)

Spec == Init /\ [][Next]_vars

\* A holder of the lock that lives goes on, and operators try again until the
\* authority and the tools let the recovery of an interrupted promotion through.
Fairness ==
  /\ WF_vars(Proceed) /\ WF_vars(GiveUp) /\ WF_vars(Try)
  /\ \A p \in Promotions : SF_vars(Recover(p))
FairSpec == Spec /\ Fairness
-----------------------------------------------------------------------------
(* Correctness.                                                             *)

TypeOK ==
  /\ runtime \in Commits \cup {Dirty}
  /\ pc \in Places /\ attempt \in Attempts
  /\ journals \in [Promotions -> Journals]
  /\ receipts \in [Promotions -> {"none", "rolled_back"} \cup Success]
  /\ debris \subseteq Roots \X Directories
  /\ passed \subseteq Promotions /\ latest \in Promotions \cup {None}
  /\ faults \in 0..MaxFaults

Unfinished == {p \in Promotions : journals[p].status \in Open}

\* Once every journal is settled and nobody holds the lock, the runtime is at the commit
\* of the promotion that was committed last, whatever was rolled back, recovered or
\* interrupted since; while one is open, the commit to return to is still that one.
RestsOnCommitted ==
  LET Expected == IF latest = None THEN Installed ELSE journals[latest].source IN
  IF Unfinished = {} THEN runtime = Expected
  ELSE \A p \in Unfinished : /\ journals[p].before = Expected
                             /\ runtime \in {journals[p].before, journals[p].source, Dirty}

\* A promotion is recorded as committed only when its own verification passed and its
\* success receipt is there, also when a recovery completes it.
CommittedIsTrue ==
  \A p \in Promotions : journals[p].status \in Committed =>
    p \in passed /\ receipts[p] \in Success

\* An interrupted promotion is settled by a later one, unless the kill left a dirty tree
\* or a temporary file among the journals.
OpenPromotionsSettle ==
  \A p \in Promotions :
    p \in Unfinished ~>
      p \notin Unfinished \/ runtime = Dirty \/ ~Readable(journals[p].root)

\* docs/architecture/runtime_promotion_runbook.md:91 "An interrupted nonterminal journal
\* is reconciled under the same lock before a new attempt."
InterruptedIsReconciled ==
  \A p \in Promotions : p \in Unfinished ~> p \notin Unfinished \/ runtime = Dirty
=============================================================================
