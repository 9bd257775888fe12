----------------------------- MODULE RenderJobs -----------------------------
(***************************************************************************)
(* What the render queue promises about its jobs, whoever works on them: a *)
(* job is accepted once and ends once, every render of it is paid for with *)
(* one of MaxAttempts charges, and it ends with the result of the render   *)
(* its last charge paid for, or interrupted when all charges are spent.    *)
(* There are no workers, leases or clocks here.                            *)
(***************************************************************************)
EXTENDS Naturals

CONSTANTS
  Jobs,
  MaxAttempts

VARIABLES
  state,    \* "absent", "open", or how the job ended
  charged,  \* the attempts it has been charged
  render    \* the render each charge paid for

jobVars == <<state, charged, render>>

Charges == 1..MaxAttempts

JobInit ==
  /\ state = [j \in Jobs |-> "absent"]
  /\ charged = [j \in Jobs |-> 0]
  /\ render = [j \in Jobs |-> [n \in Charges |-> "none"]]

Accept(j) ==
  /\ state[j] = "absent"
  /\ state' = [state EXCEPT ![j] = "open"]
  /\ UNCHANGED <<charged, render>>

Charge(j) ==
  /\ state[j] = "open" /\ charged[j] < MaxAttempts
  /\ charged' = [charged EXCEPT ![j] = charged[j] + 1]
  /\ UNCHANGED <<state, render>>

(* A render may start late, after its job was charged again or has ended.    *)
Begin(j, n) ==
  /\ render[j][n] = "none" /\ n <= charged[j]
  /\ render' = [render EXCEPT ![j][n] = "live"]
  /\ UNCHANGED <<state, charged>>

(* Renders end one by one or, with a process that takes them down, together. *)
RendersEnd ==
  /\ DOMAIN render' = Jobs
  /\ \A j \in Jobs :
       /\ DOMAIN render'[j] = Charges
       /\ \A n \in Charges :
            \/ render'[j][n] = render[j][n]
            \/ render[j][n] = "live" /\ render'[j][n] \in {"ok", "bad"}
  /\ UNCHANGED <<state, charged>>

(* What the last charge paid for decides.                                    *)
Conclude(j) ==
  /\ state[j] = "open" /\ charged[j] \in Charges
  /\ LET result == render[j][charged[j]] IN
     /\ result \in {"ok", "bad"}
     /\ state' = [state EXCEPT ![j] = IF result = "ok" THEN "succeeded" ELSE "failed"]
  /\ UNCHANGED <<charged, render>>

(* A recovery gives up every job it finds without a charge left.             *)
Interrupt(S) ==
  /\ \A j \in S : state[j] = "open" /\ charged[j] = MaxAttempts
  /\ state' = [j \in Jobs |-> IF j \in S THEN "interrupted" ELSE state[j]]
  /\ UNCHANGED <<charged, render>>

JobNext ==
  \/ \E j \in Jobs : Accept(j) \/ Charge(j) \/ Conclude(j)
  \/ \E j \in Jobs, n \in Charges : Begin(j, n)
  \/ RendersEnd
  \/ \E S \in SUBSET Jobs : Interrupt(S)

JobSpec == JobInit /\ [][JobNext]_jobVars
=============================================================================
