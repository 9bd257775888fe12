---------------------------- MODULE MCExportSaga ----------------------------
(* Small instances of ExportSaga for TLC.                                    *)
EXTENDS ExportSaga, TLC

CONSTANTS as1, as2, rv1, rv2

OneHold == rv1 :> as1
TwoHolds == (rv1 :> as1) @@ (rv2 :> as2)

Alone == {{as1}}
Mixed == {{as1}, {as1, as2}}
SameWorkers == Permutations(Workers)
=============================================================================
