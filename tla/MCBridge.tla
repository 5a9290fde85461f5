------------------------------ MODULE MCBridge ------------------------------
(* Small instances of Bridge for TLC.                                      *)
EXTENDS Bridge, TLC

CONSTANTS e1, e2, a1, a2, a3

NoNames == {}
MCOneEndpoint == {e1}
MCTwoEndpoints == {e1, e2}
MCOneExt == {a1}
MCTwoExt == {a1, a2}
MCPollExt == {a1, a3}
MCPatch == {a3}
=============================================================================
