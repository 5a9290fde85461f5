--------------------------- MODULE MCSharedBridge ---------------------------
(* Instances of SharedBridge for TLC.                                      *)
EXTENDS SharedBridge, TLC

CONSTANTS n1, n2, n3

MCThree == {n1, n2, n3}
MCOne == {n1}
MCUsings == {"mirror", "stack"}
MCOnly == {1}

MCSymmetry == Permutations({n2, n3})
=============================================================================
