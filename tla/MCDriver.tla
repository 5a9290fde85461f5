------------------------------ MODULE MCDriver ------------------------------
(* Small instances of Driver for TLC.                                      *)
EXTENDS Driver, TLC

CONSTANTS n1, n2, e1, e2

MCNetworks == {n1, n2}
MCEndpoints == {e1, e2}

MCOneEndpoint == {e1}

(* Both endpoints on one network, and a single endpoint.                   *)
SameNet == (e1 :> n1) @@ (e2 :> n1)
OneEndpoint == (e1 :> n1)
=============================================================================
