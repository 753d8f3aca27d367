---------------------- MODULE MCRestoreTransactions ----------------------
(* A climate load with a fallback relay.                                   *)
EXTENDS RestoreTransactions

CONSTANT d1

MCDevice == {d1}
===========================================================================
