------------------------ MODULE MCHiggsfieldReceipts ------------------------
(* Small instances of HiggsfieldReceipts for TLC.                           *)
EXTENDS HiggsfieldReceipts

CONSTANTS clip

OneOutput == [a \in Attempts |-> clip]
AllAlike == Attempts \X Attempts
=============================================================================
