--------------------------- MODULE MCNetworkConfig ---------------------------
(* Instances of NetworkConfig for TLC.                                     *)
EXTENDS NetworkConfig

MCIfs == {"eth0", "eth1"}
MCCopro == {"eth2"}
MCOrder == <<"eth0", "eth1", "eth2">>

Part(for, acl) == [for |-> for, acl |-> acl]
Port(no, acl, vlan) == [given |-> TRUE, no |-> no, acl |-> acl, vlan |-> vlan]
NotGiven == [given |-> FALSE, no |-> 0, acl |-> <<>>, vlan |-> 0]

(* An interface of add_ports, in the forms of the README and some that are *)
(* malformed.                                                              *)
MCPorts == {NotGiven, Port(0, <<>>, 0), Port(1, <<>>, 0), Port(0, <<>>, 20),
            Port(1, <<Part("all", "a")>>, 0), Port(2, <<Part("this", "b")>>, 20),
            Port(2, <<Part("other", "c")>>, 0), Port(-1, <<>>, 0), Port(2, <<>>, 4095)}

MCOtherPorts == {NotGiven, Port(0, <<>>, 0), Port(1, <<>>, 0),
                 Port(2, <<Part("this", "b")>>, 20)}

MCCoproPorts == {NotGiven, Port(0, <<>>, 0), Port(1, <<Part("all", "c")>>, 0)}

(* Gateways as Docker hands them over, and the pools it keeps.             *)
MCIPv4 == {"10.0.0.1"}
Gw4 == [ip |-> "10.0.0.1", mask |-> "24"]
Gw6 == [ip |-> "fd00::1", mask |-> "64"]
NoMask == [ip |-> "10.0.0.1", mask |-> ""]
Pool(ip, mask, gateway) == [subnet |-> [ip |-> ip, mask |-> mask], gateway |-> gateway]
Pool4 == Pool("10.0.0.0", "24", "10.0.0.1")
Pool4NoGw == Pool("10.0.0.0", "24", "")
Pool6 == Pool("fd00::", "64", "fd00::1")
Ipam(v4, v6, kept) == [v4 |-> v4, v6 |-> v6, kept |-> kept]

MCIpam == {Ipam(NoAddr, NoAddr, <<>>), Ipam(NoAddr, NoAddr, <<Pool("0.0.0.0", "0", "")>>),
           Ipam(Gw4, NoAddr, <<Pool4>>), Ipam(Gw4, NoAddr, <<Pool4NoGw>>),
           Ipam(Gw4, NoAddr, <<Pool("", "", "10.0.0.1")>>), Ipam(NoAddr, Gw6, <<Pool6>>),
           Ipam(Gw4, Gw6, <<Pool4, Pool6>>), Ipam(Gw4, Gw6, <<Pool4NoGw, Pool6>>),
           Ipam(NoMask, NoAddr, <<Pool4>>)}

Base == [name |-> "", mode |-> "nat", dhcp |-> "", v4 |-> Gw4, v6 |-> NoAddr,
         kept |-> <<Pool4>>, internal |-> TRUE,
         dpid |-> TRUE, vlan |-> -1, pre |-> -1, natAcl |-> <<>>,
         defaultAcl |-> <<Part("all", "d"), Part("this", "b"), Part("other", "c")>>,
         add |-> [i \in MCIfs |-> NotGiven], copro |-> [i \in MCCopro |-> NotGiven]]

(* Every combination of interfaces ...                                     *)
MCPortRequests ==
    {[Base EXCEPT !.mode = m, !.pre = k, !.add = [eth0 |-> a, eth1 |-> b],
                  !.copro = [eth2 |-> c]] :
        m \in {Absent, "nat"}, k \in {-1, 1, 2},
        a \in MCPorts, b \in MCOtherPorts, c \in MCCoproPorts}

(* ... with a bridge name of its own ...                                   *)
MCNamedRequests ==
    {[Base EXCEPT !.name = "own", !.mode = m, !.add["eth0"] = a] :
        m \in {Absent, "nat"}, a \in MCPorts}

(* ... and of the other options.                                           *)
MCOptionRequests ==
    {[Base EXCEPT !.name = n, !.mode = m, !.dhcp = d, !.v4 = g.v4, !.v6 = g.v6,
                  !.kept = g.kept, !.internal = i, !.dpid = id, !.vlan = v, !.natAcl = <<Part("other", "e")>>] :
        n \in {"", "own"}, m \in {Absent, "", "flat", "routed", "mesh"},
        d \in {"", "true", "maybe"}, g \in MCIpam,
        i \in BOOLEAN, id \in BOOLEAN, v \in {-1, 200}}

MCRequests == MCPortRequests \cup MCNamedRequests \cup MCOptionRequests

=============================================================================
