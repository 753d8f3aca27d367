--------------------------- MODULE MCPolicyEngine ---------------------------
(* A zero-dwell tier above a tier with a dwell; a load below both, one     *)
(* between them and one above them; two loads of different expected power, *)
(* so that the candidate changes with the permissions.                     *)
EXTENDS PolicyEngine, TLC

MCTier == {4, 6}
MCDuration == (4 :> 1) @@ (6 :> 0)
MCLoad == {1, 5, 7}
MCDevice == {1, 2}
MCExpected == (1 :> 1) @@ (2 :> 2)
=============================================================================
