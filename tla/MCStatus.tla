------------------------------ MODULE MCStatus ------------------------------
(* Instances of Status for TLC.                                            *)
EXTENDS Status

MCContainers == {"c1", "c2"}
MCPool == [c1 |-> {"ip1", "ip2"}, c2 |-> {"ip2"}]
MCClients == {"w1", "w2"}
=============================================================================
