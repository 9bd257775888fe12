-------------------------- MODULE MCProviderSpend --------------------------
(* Small instances of ProviderSpend for TLC.                                *)
EXTENDS ProviderSpend, TLC

CONSTANTS still, motion, prompt, edit

\* The two credit requests share a day and a cohort, the two dollar ones a month.
Quotes == [r \in Requests |-> IF r \in {motion, edit} THEN 2 ELSE 1]
Actuals == [r \in Requests |-> CASE r = still -> {1, 2} [] r = motion -> {2, 3}
                                 [] r = prompt -> {1} [] r = edit -> {1, 3}]

\* The execution of motion may run two provider jobs.
Jobs == [r \in Requests |-> IF r = motion THEN 2 ELSE 1]
Caps == {[covers |-> Credits, period |-> 2, cap |-> 2],
         [covers |-> Requests \ Credits, period |-> 2, cap |-> 2],
         [covers |-> Requests \ Credits, period |-> 0, cap |-> 2]}

\* The lanes share no row, limit or balance: each alone, and one request of each.
OneLane == SUBSET {still, motion} \cup SUBSET {prompt, edit} \cup {{still, prompt}}

SameProcs == Permutations(Procs)
=============================================================================
