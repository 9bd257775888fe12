---------------------------- MODULE DraftHandoffs ----------------------------
(***************************************************************************)
(* What the draft handoff promises whoever reads its table, its jobs and   *)
(* its reservations, whatever happens to processes, requests and answers:  *)
(* an export is accepted only with a draft and stays accepted, it is       *)
(* rejected only once it holds no reservation back, it keeps only what it  *)
(* carries, and its job succeeds when all of that has been dealt with.     *)
(* There are no workers, attempts or bridge passes here.                   *)
(***************************************************************************)
CONSTANTS
  Exports,
  Holds

VARIABLES
  claim,    \* what the table says of an export
  carried,  \* the reservations it was prepared with
  drafted,  \* the exports whose draft the dashboard holds
  hold,     \* the status of each reservation
  done      \* the exports whose job succeeded

handoffVars == <<claim, carried, drafted, hold, done>>

Waiting(e) == \E r \in carried[e] : hold[r] = "pending"

HandoffInit ==
  /\ claim = [e \in Exports |-> "absent"]
  /\ carried = [e \in Exports |-> {}]
  /\ drafted = {} /\ done = {}
  /\ hold = [r \in Holds |-> "absent"]

Take(r) ==
  /\ hold[r] = "absent"
  /\ hold' = [hold EXCEPT ![r] = "pending"]
  /\ UNCHANGED <<claim, carried, drafted, done>>

End(r) ==
  /\ hold[r] \in {"pending", "committed"}
  /\ \E s \in {"released", "expired"} : hold' = [hold EXCEPT ![r] = s]
  /\ UNCHANGED <<claim, carried, drafted, done>>

Prepare(e, R) ==
  /\ claim[e] = "absent"
  /\ \A r \in R : hold[r] # "absent"
  /\ claim' = [claim EXCEPT ![e] = "prepared"]
  /\ carried' = [carried EXCEPT ![e] = R]
  /\ UNCHANGED <<drafted, hold, done>>

Submit(e) ==
  /\ claim[e] = "prepared"
  /\ claim' = [claim EXCEPT ![e] = "open"]
  /\ UNCHANGED <<carried, drafted, hold, done>>

(* A request may arrive long after its export was given up.                  *)
Deliver(e) ==
  /\ claim[e] \in {"open", "accepted", "rejected"}
  /\ drafted' = drafted \cup {e}
  /\ UNCHANGED <<claim, carried, hold, done>>

Accept(e) ==
  /\ claim[e] \in {"open", "rejected"} /\ e \in drafted
  /\ claim' = [claim EXCEPT ![e] = "accepted"]
  /\ UNCHANGED <<carried, drafted, hold, done>>

Reject(e) ==
  /\ claim[e] \in {"prepared", "open"} /\ ~Waiting(e)
  /\ claim' = [claim EXCEPT ![e] = "rejected"]
  /\ UNCHANGED <<carried, drafted, hold, done>>

Keep(e, r) ==
  /\ claim[e] = "accepted" /\ r \in carried[e]
  /\ hold[r] = "pending"
  /\ hold' = [hold EXCEPT ![r] = "committed"]
  /\ UNCHANGED <<claim, carried, drafted, done>>

Complete(e) ==
  /\ claim[e] = "accepted" /\ ~Waiting(e)
  /\ done' = done \cup {e}
  /\ UNCHANGED <<claim, carried, drafted, hold>>

HandoffNext ==
  \/ \E r \in Holds : Take(r) \/ End(r)
  \/ \E e \in Exports : Submit(e) \/ Deliver(e) \/ Accept(e) \/ Reject(e) \/ Complete(e)
  \/ \E e \in Exports, R \in SUBSET Holds : Prepare(e, R)
  \/ \E e \in Exports, r \in Holds : Keep(e, r)

HandoffSpec == HandoffInit /\ [][HandoffNext]_handoffVars
=============================================================================
