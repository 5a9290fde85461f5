---------------------------- MODULE NetworkConfig ----------------------------
(***************************************************************************)
(* From the options of "docker network create" to the FAUCET configuration *)
(* of the network (src/ovs/ovs_config.go; ReOrCreateNetwork, the create    *)
(* handler and restoreNetworks in src/ovs/driver.go; parseAddPorts and     *)
(* createBridge in src/ovs/ovs_bridge.go).                                 *)
(*                                                                         *)
(* CreateNetwork reads the options from the request, checks them and makes *)
(* the bridge with the physical interfaces named in add_ports and          *)
(* add_copro_ports; resourceManager's handler configures FAUCET later, and *)
(* CreateNetwork does not wait for it. After a restart the options are     *)
(* read again from what Docker keeps of the network. Commands that fail    *)
(* are in Driver, Restore and SharedBridge; here they succeed.             *)
(***************************************************************************)
EXTENDS Integers, Sequences, FiniteSets, FiniteSetsExt

CONSTANTS
    Ifs,          \* physical interfaces named in add_ports
    CoproIfs,     \* those named in add_copro_ports
    Order,        \* both, in the order the two options name them
    Requests,     \* the option values considered (see Request)
    IPv4,         \* IP addresses of that family
    MaxPort,      \* bound on port numbers
    MaxRestarts   \* bound on restarts

VARIABLES
    pc,           \* where the network is
    req,          \* the options of the request, which Docker keeps
    ns,           \* the NetworkState of the operation under way
    todo,         \* interfaces createBridge has not added yet
    of,           \* the number OVS gave each interface, 0 before
    bridges,      \* the bridges of the network in OVS, by name
    addr,         \* the IPv4 address of the one ns names
    faucet,       \* FAUCET's interfaces of the datapath, by number
    restarts

vars == <<pc, req, ns, todo, of, bridges, addr, faucet, restarts>>

All == Ifs \cup CoproIfs
Ports == 1..MaxPort
Local == MaxPort + 1      \* OFPP_LOCAL
Absent == "absent"        \* an option that was not given
Empty == ""               \* the empty string
NoAddr == [ip |-> Empty, mask |-> Empty]
Unset == [kind |-> "none", vlan |-> 0, acl |-> Absent]

ASSUME ConfigAssumption ==
    /\ Ifs \cap CoproIfs = {}
    /\ Order \in Seq(All)
    /\ \A i \in All : \E k \in DOMAIN Order : Order[k] = i
    /\ {MaxPort, MaxRestarts} \subseteq Nat
    /\ Empty \notin IPv4

-----------------------------------------------------------------------------
(* Options. A numeric option that is absent or no number is -1; one that a *)
(* Go map returns as the zero value is "" or 0.                            *)

(* defaultUint *)
Uint(v, default) == IF v >= 0 THEN v ELSE default

defaultVLAN == 100

(* Variant: a name that is given gets the prefix too.                      *)
bridgeNamePrefixed(r) == IF r.name = Empty THEN "id" ELSE "prefixed"

(* mustGetBridgeName: the name comes from the network's ID or is given.    *)
bridgeName(r) == IF r.name = Empty THEN "id" ELSE r.name

(* getStrForNetwork: the last part that is for this network or for all.    *)
getStrForNetwork(parts) ==
    LET mine == {i \in DOMAIN parts : parts[i].for \in {"all", "this"}}
    IN IF mine = {} THEN Absent ELSE parts[Max(mine)].acl

(* Docker hands over the gateway of the first IPv4 pool and of the first   *)
(* IPv6 pool, each "address/mask" or nothing. IPv4 is preferred; what does *)
(* not split into two parts is refused (Proper).                           *)
mustGetGatewayIP(r) == IF r.v4 # NoAddr THEN r.v4 ELSE r.v6
Splits(a) == a.ip # Empty /\ a.mask # Empty
Proper(a) == a = NoAddr \/ Splits(a)

(* Variant: the mask is the part of the subnet before the slash.           *)
getGatewayFromResourceSwapped(r) ==
    IF r.kept # <<>> /\ Splits(Head(r.kept).subnet)
    THEN [ip |-> Head(r.kept).gateway, mask |-> Head(r.kept).subnet.ip]
    ELSE NoAddr

(* Of the pools Docker keeps only the first counts, whether it has a       *)
(* gateway or not, and the mask is that of its subnet.                     *)
getGatewayFromResource(r) ==
    IF r.kept # <<>> /\ Splits(Head(r.kept).subnet)
    THEN [ip |-> Head(r.kept).gateway, mask |-> Head(r.kept).subnet.mask]
    ELSE NoAddr

(* Of what Docker hands over and keeps: a preallocation is a number (-1    *)
(* when it is absent or malformed); a gateway kept with the first pool is  *)
(* the one that was handed over, and its mask is the subnet's.             *)
ASSUME RequestAssumption ==
    \A r \in Requests :
        /\ r.pre \in Int
        /\ {r.v4, r.v6} \subseteq [ip : STRING, mask : STRING]
        /\ Proper(mustGetGatewayIP(r)) /\ r.kept # <<>> /\ Head(r.kept).gateway # Empty =>
            /\ Head(r.kept).gateway = mustGetGatewayIP(r).ip
            /\ Head(r.kept).subnet.mask \in {Empty, mustGetGatewayIP(r).mask}

(* What ReOrCreateNetwork makes of the request ...                         *)
FromRequest(r) ==
    [bridge |-> bridgeName(r),
     vlan   |-> Uint(r.vlan, defaultVLAN),
     pre    |-> Uint(r.pre, 0),
     mode   |-> IF r.mode \in {Absent, Empty} THEN "flat" ELSE r.mode,
     dhcp   |-> r.dhcp = "true",
     gateway |-> mustGetGatewayIP(r),
     natAcl |-> r.natAcl,
     defaultAcl |-> r.defaultAcl,
     add    |-> r.add,
     copro  |-> r.copro]

(* Variant: the default VLAN is not applied.                               *)
FromResourceNoDefault(r) ==
    [bridge |-> "id",
     vlan   |-> Uint(r.vlan, 0),
     pre    |-> Uint(r.pre, 0),
     mode   |-> IF r.mode = Absent THEN "flat" ELSE r.mode,
     dhcp   |-> r.dhcp = "true",
     gateway |-> getGatewayFromResource(r),
     natAcl |-> r.natAcl,
     defaultAcl |-> r.defaultAcl,
     add    |-> r.add,
     copro  |-> r.copro]

(* ... and getNetworkStateFromResource of Docker's record of it: the name  *)
(* of the bridge comes from the network's ID alone.                        *)
FromResource(r) ==
    [bridge |-> "id",
     vlan   |-> Uint(r.vlan, defaultVLAN),
     pre    |-> Uint(r.pre, 0),
     mode   |-> IF r.mode = Absent THEN "flat" ELSE r.mode,
     dhcp   |-> r.dhcp = "true",
     gateway |-> getGatewayFromResource(r),
     natAcl |-> r.natAcl,
     defaultAcl |-> r.defaultAcl,
     add    |-> r.add,
     copro  |-> r.copro]

HasGateway(s) == s.mode \in {"nat", "routed"}

(* An interface of add_ports: its number (0 not given, -1 no number), its  *)
(* ACL and its VLAN (0 not given).                                         *)
Named(r) == [i \in All |-> IF i \in Ifs THEN r.add[i] ELSE r.copro[i]]
Added(r) == {i \in All : Named(r)[i].given}

(* parseAddPorts panics on these. It looks at VLANs only when it is given  *)
(* a map for them, which the create handler does and CreateNetwork does    *)
(* not.                                                                    *)
BadNumber(r, ifs) == \E i \in ifs : Named(r)[i].no < 0
BadVlan(r) == \E i \in Added(r) \cap Ifs :
                Named(r)[i].vlan # 0 /\ Named(r)[i].vlan \notin 1..4094

DhcpAllowed(r) ==
    FromRequest(r).mode = "flat" /\ mustGetGatewayIP(r) = NoAddr /\ r.internal

(* Variant: the datapath ID is not checked.                                *)
ValidAnyDpid(r) ==
    /\ r.mode \in {Absent, Empty, "flat", "nat", "routed"}
    /\ Proper(mustGetGatewayIP(r))
    /\ r.dhcp = "true" => DhcpAllowed(r)
    /\ ~ BadNumber(r, Added(r))

(* What CreateNetwork checks before it makes the bridge.                   *)
Valid(r) ==
    /\ r.mode \in {Absent, Empty, "flat", "nat", "routed"}
    /\ Proper(mustGetGatewayIP(r))
    /\ r.dpid
    /\ r.dhcp = "true" => DhcpAllowed(r)
    /\ ~ BadNumber(r, Added(r))

-----------------------------------------------------------------------------
NoState == [bridge |-> Empty]
NoReq == [name |-> Empty]

Init ==
    /\ pc = "none"
    /\ req = NoReq
    /\ ns = NoState
    /\ todo = {}
    /\ of = [i \in All |-> 0]
    /\ bridges = {}
    /\ addr = NoAddr
    /\ faucet = [p \in 1..Local |-> Unset]
    /\ restarts = 0

Request(r) ==
    /\ req' = r
    /\ \/ /\ Valid(r)
          /\ pc' = "bridging"
          /\ ns' = FromRequest(r)
          /\ bridges' = {bridgeName(r)}
          /\ todo' = Added(r)
       \/ /\ ~ Valid(r)
          /\ pc' = "refused"
          /\ UNCHANGED <<ns, bridges, todo>>
    /\ UNCHANGED <<of, addr, faucet, restarts>>

Used == {of[i] : i \in All} \ {0}

(* createBridge adds the interfaces in the order of a Go map. OVS gives    *)
(* the number asked for, or another when it is taken or none was asked.    *)
AddPort(i) ==
    /\ pc \in {"bridging", "rebridging"}
    /\ i \in todo
    /\ todo' = todo \ {i}
    /\ LET no == Named(req)[i].no IN
        \E p \in IF no \in Ports \ Used THEN {no} ELSE Ports \ Used :
            of' = [of EXCEPT ![i] = p]
    /\ UNCHANGED <<pc, req, ns, bridges, addr, faucet, restarts>>

(* setInterfaceIP's error is ignored, but getIfaceAddr must then find an   *)
(* IPv4 address on the bridge of a network with a gateway.                 *)
Addressable(s) == HasGateway(s) => s.gateway.ip \in IPv4 /\ s.gateway.mask # Empty

(* InitBridge is done: CreateNetwork queues the operation and returns.     *)
Queue ==
    /\ pc \in {"bridging", "rebridging"}
    /\ todo = {}
    /\ Addressable(ns)
    /\ addr' = IF HasGateway(ns) THEN ns.gateway ELSE addr
    /\ pc' = IF pc = "bridging" THEN "queued" ELSE "restoring"
    /\ UNCHANGED <<req, ns, todo, of, bridges, faucet, restarts>>

(* log.Fatalf: at creation Docker drops the network, in restoreNetworks it *)
(* comes again at every start.                                             *)
InitBridgeFatal ==
    /\ pc \in {"bridging", "rebridging"}
    /\ todo = {}
    /\ ~ Addressable(ns)
    /\ pc' = IF pc = "bridging" THEN "exited" ELSE "crashed"
    /\ UNCHANGED <<req, ns, todo, of, bridges, addr, faucet, restarts>>

-----------------------------------------------------------------------------
(* The create handler.                                                     *)

(* restoreNetworks leaves AddCoproPorts out of its message.                *)
Restored == pc = "restoring"
Handled == IF Restored THEN Added(req) \cap Ifs ELSE Added(req)

(* mustLowestFreePortOnBridge: the preallocated ports follow from there.   *)
LowestFree == CHOOSE p \in 1..(MaxPort + 1) : p \notin Used /\ 1..(p - 1) \subseteq Used
PreRange(s) == LowestFree..(LowestFree + s.pre - 1)
Overlap == \E i \in Handled : of[i] \in PreRange(ns)

Iface(kind, vlan, acl) == [kind |-> kind, vlan |-> vlan, acl |-> getStrForNetwork(acl)]
VlanOf(s, i) == IF Named(req)[i].vlan # 0 THEN Named(req)[i].vlan ELSE s.vlan

(* Variant: the configuration goes by the numbers asked for.               *)
InterfacesAsked(s, ifs) ==
    [p \in 1..Local |->
        IF p = Local /\ HasGateway(s) THEN Iface("local", s.vlan, s.natAcl)
        ELSE IF p \in PreRange(s) THEN Iface("pre", s.vlan, s.defaultAcl)
        ELSE IF \E i \in ifs : Named(req)[i].no = p
             THEN LET i == CHOOSE i \in ifs : Named(req)[i].no = p IN
                  IF i \in Ifs THEN Iface("vlan", VlanOf(s, i), <<>>)
                  ELSE Iface("copro", 0, <<>>)
        ELSE faucet[p]]

(* The interfaces mustSetFaucetConfigFile merges into the datapath, in the *)
(* order the text has them: a later one for the same number wins.          *)
Interfaces(s, ifs) ==
    [p \in 1..Local |->
        IF p = Local /\ HasGateway(s) THEN Iface("local", s.vlan, s.natAcl)
        ELSE IF p \in PreRange(s) THEN Iface("pre", s.vlan, s.defaultAcl)
        ELSE IF \E i \in ifs : of[i] = p
             THEN LET i == CHOOSE i \in ifs : of[i] = p IN
                  IF i \in Ifs THEN Iface("vlan", VlanOf(s, i), <<>>)
                  ELSE Iface("copro", 0, <<>>)
        ELSE faucet[p]]

(* The ACLs parseAddPorts collects go by the number asked for; of two      *)
(* interfaces that ask for the same one, the later one's stays.            *)
Askers(ifs, p) == {i \in ifs : Named(req)[i].no = p /\ Named(req)[i].acl # <<>>}
AclAt(ifs, p) ==
    LET last == Max({k \in DOMAIN Order : Order[k] \in Askers(ifs, p)})
    IN getStrForNetwork(Named(req)[Order[last]].acl)

(* Variant: mustSetPortAcl comes before mustSetFaucetConfigFile, which     *)
(* replaces the ACLs.                                                      *)
WithAclsFirst(ifs, f) == f

(* mustSetPortAcl for each of them, after mustSetFaucetConfigFile.         *)
WithAcls(ifs, f) ==
    [p \in 1..Local |-> IF Askers(ifs, p) # {} /\ AclAt(ifs, p) # Absent
                        THEN [f[p] EXCEPT !.acl = AclAt(ifs, p)]
                        ELSE f[p]]

(* What the handler makes of FAUCET's configuration.                       *)
Configured(s, ifs) == WithAcls(ifs, Interfaces(s, ifs))

(* parseAddPorts panics on a number that is none and on a VLAN out of      *)
(* range. The local port's MAC is looked up under the name that comes from *)
(* Docker's record, which is the network's ID, or nothing when the         *)
(* datapath ID cannot be read.                                             *)
Panics == \/ BadNumber(req, Handled)
          \/ BadVlan(req)
          \/ HasGateway(ns) /\ (~ req.dpid \/ "id" \notin bridges)

HandleCreate ==
    /\ pc \in {"queued", "restoring"}
    /\ ~ Panics
    /\ pc' = "configured"
    /\ faucet' = Configured(ns, Handled)
    /\ UNCHANGED <<req, ns, todo, of, bridges, addr, restarts>>

(* A number that occurs twice may also make faucetconfrpc refuse it all.   *)
HandleCreateFail ==
    /\ pc \in {"queued", "restoring"}
    /\ Panics \/ Overlap
    /\ pc' = "unconfigured"
    /\ UNCHANGED <<req, ns, todo, of, bridges, addr, faucet, restarts>>

-----------------------------------------------------------------------------
(* restoreNetworks. The bridge is looked for under ns.BridgeName. When it  *)
(* is up with an address only the handler runs. A flat network's bridge    *)
(* has none, and any bridge may be found down: those are made anew.        *)

Handling == pc \in {"configured", "unconfigured"}
Known == Handling \/ pc = "queued"

RestartKeepsBridge ==
    /\ Known
    /\ restarts < MaxRestarts
    /\ restarts' = restarts + 1
    /\ ns' = FromResource(req)
    /\ "id" \in bridges
    /\ addr # NoAddr
    /\ pc' = "restoring"
    /\ UNCHANGED <<req, todo, of, bridges, addr, faucet>>

RestartRemakesBridge ==
    /\ Known
    /\ restarts < MaxRestarts
    /\ restarts' = restarts + 1
    /\ ns' = FromResource(req)
    /\ bridges' = bridges \cup {"id"}
    /\ "id" \in bridges \/ Added(req) = {}
    /\ pc' = "rebridging"
    /\ addr' = NoAddr
    /\ todo' = Added(req)
    /\ of' = [i \in All |-> 0]
    /\ UNCHANGED <<req, faucet>>

(* An interface that is on the bridge of another name cannot be added: the *)
(* panic is not recovered, at this restart or any later one.               *)
RestartFails ==
    /\ Known
    /\ restarts < MaxRestarts
    /\ restarts' = restarts + 1
    /\ ns' = FromResource(req)
    /\ "id" \notin bridges /\ Added(req) # {}
    /\ pc' = "crashed"
    /\ UNCHANGED <<req, todo, of, bridges, addr, faucet>>

Next == \/ pc = "none" /\ \E r \in Requests : Request(r)
        \/ \E i \in All : AddPort(i)
        \/ Queue \/ InitBridgeFatal \/ HandleCreate \/ HandleCreateFail
        \/ RestartKeepsBridge \/ RestartRemakesBridge \/ RestartFails

Spec == Init /\ [][Next]_vars

-----------------------------------------------------------------------------
(* Properties.                                                             *)

(* Every variable holds what the code can put there; the bridge's own port *)
(* is never given to an interface.                                         *)
TypeOK ==
    /\ pc \in {"none", "refused", "bridging", "queued", "configured", "unconfigured",
               "restoring", "rebridging", "exited", "crashed"}
    /\ todo \subseteq All
    /\ of \in [All -> 0..MaxPort]
    /\ bridges \subseteq {"id", req.name}
    /\ \A p \in 1..Local : faucet[p].kind \in {"none", "vlan", "copro", "pre", "local"}
    /\ restarts \in 0..MaxRestarts

OwnName == req.name # Empty

(* When CreateNetwork takes the options of a request, the process goes on, *)
(* FAUCET gets the network's configuration, and so it is at every restart, *)
(* unless the request has a VLAN of add_ports out of range, a bridge name  *)
(* of its own where the name matters, interfaces beside two preallocated   *)
(* ports or more (one takes a number that is free), or needs an IPv4       *)
(* gateway and Docker keeps none with the first pool. These ReOrCreate-    *)
(* Network does not check; all else that stops InitBridge, the handler or  *)
(* restoreNetworks it does.                                                *)
AcceptedIsConfigured ==
    pc \in {"unconfigured", "exited", "crashed"} =>
        LET gateway == HasGateway(FromRequest(req)) IN
        \/ BadVlan(req)
        \/ OwnName /\ (gateway \/ Added(req) # {})
        \/ req.pre > 1 /\ Added(req) # {}
        \/ gateway /\ getGatewayFromResource(req).ip \notin IPv4

(* initBridge gives a bridge that restoreNetworks makes again the address  *)
(* it was created with, although the mask then comes from the gateway and  *)
(* now from the subnet.                                                    *)
AddressKept == addr # NoAddr => addr = mustGetGatewayIP(req)

(* FAUCET has every interface of add_ports under the number OVS gave it,   *)
(* with its VLAN, whatever number was asked for and although a restart may *)
(* give it another; coprocessor interfaces too, until a restart. (Not so   *)
(* when the number is also preallocated: the later entry replaces it.)     *)
ExternalPortsConfigured ==
    pc = "configured" =>
        \A i \in Added(req) : of[i] \notin PreRange(ns) =>
            IF i \in Ifs THEN /\ faucet[of[i]].kind = "vlan"
                              /\ faucet[of[i]].vlan = VlanOf(ns, i)
            ELSE restarts = 0 => faucet[of[i]].kind = "copro"

(* The interfaces of add_ports that got the numbers they asked for.        *)
Honoured == \A i \in Added(req) : Named(req)[i].no # 0 => of[i] = Named(req)[i].no

(* When OVS gave every number asked for, each interface has its own ACL in *)
(* FAUCET, and one without an ACL has none (the create handler sets ACLs   *)
(* by the number asked for).                                               *)
AclOnItsPort ==
    pc = "configured" /\ Honoured =>
        \A i \in Added(req) \cap Ifs : of[i] \notin PreRange(ns) =>
            faucet[of[i]].acl = IF Named(req)[i].no = 0 THEN Absent
                                ELSE getStrForNetwork(Named(req)[i].acl)

(* What restoreNetworks would tell FAUCET of a network, read from Docker's *)
(* record and without the coprocessor ports, changes nothing of what the   *)
(* handler told it before, at creation or after an earlier restart: a      *)
(* restart that finds the bridge in place disturbs no port. (An ACL of a   *)
(* coprocessor port may have replaced another's and is not sent again.)    *)
RestoreIsIdempotent ==
    pc = "configured" /\ (\A i \in Added(req) \ Ifs : Named(req)[i].acl = <<>>) =>
        Configured(FromResource(req), Added(req) \cap Ifs) = faucet
=============================================================================
