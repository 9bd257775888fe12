----------------------------- MODULE AssetLeases -----------------------------
(***************************************************************************)
(* What the reservation table promises: each asset has at most one holder, *)
(* a holder is a row that never held anything before, and an asset passes  *)
(* from one holder to another only by being free in between or by being    *)
(* given up in the step that hands it over.                                *)
(***************************************************************************)
CONSTANTS
  Assets,
  Rows,
  Nobody    \* the holder of an asset nobody holds

VARIABLES
  holder,   \* Assets -> Rows \cup {Nobody}
  spent     \* rows that hold or have held an asset

leaseVars == <<holder, spent>>

LeaseInit == holder = [a \in Assets |-> Nobody] /\ spent = {}

Taken(a) == holder'[a] # holder[a] /\ holder'[a] # Nobody

(* Any number of assets are given up and taken in one transaction.           *)
Transfer ==
  /\ holder' \in [Assets -> Rows \cup {Nobody}]
  /\ \A a \in Assets : Taken(a) => holder'[a] \notin spent
  /\ \A a, b \in Assets : Taken(a) /\ holder'[a] = holder'[b] => a = b
  /\ spent' = spent \cup {holder'[a] : a \in {b \in Assets : Taken(b)}}

LeaseSpec == LeaseInit /\ [][Transfer]_leaseVars
=============================================================================
