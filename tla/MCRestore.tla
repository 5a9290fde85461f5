----------------------------- MODULE MCRestore -----------------------------
(* Small instances of Restore for TLC.                                     *)
EXTENDS Restore, TLC

CONSTANTS n1, n2, n3

MCThree == {n1, n2, n3}
MCTwo == {n1, n2}
MCFlat == {n1}

FoundAny == {"addressed", "bare", "down"}
=============================================================================
