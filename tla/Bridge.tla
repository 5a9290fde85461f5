------------------------------- MODULE Bridge -------------------------------
(***************************************************************************)
(* One network's OVS bridge as resourceManager manages it                  *)
(* (src/ovs/driver.go): the reserveport, join and leave handlers step by   *)
(* step, reconcileOvs polling the bridge's ports, FAUCET's configuration   *)
(* of the network's DP, and a restart of dovesnap. Concurrently an         *)
(* administrator adds ports to the bridge and removes them with ovs-vsctl. *)
(*                                                                         *)
(* The order of the operations of one endpoint is what Driver establishes  *)
(* (HandlersInOrder); operations of different endpoints mix freely.        *)
(***************************************************************************)
EXTENDS Naturals, FiniteSets

CONSTANTS
    Endpoints,    \* Docker endpoint IDs; also stand for their veth names
    ExtPorts,     \* names of ports that are not dovesnap's
    AddPorts,     \* those that ovs.bridge.add_ports names
    PatchNames,   \* those whose names begin as dovesnap's patch ports do
    LbPort,       \* the number of the mirror port, 99 without the option
    MaxPort,      \* OF port numbers are 1..MaxPort
    HasLocal,     \* nat or routed mode: FAUCET also has the LOCAL port
    None,         \* no port
    MaxFaults,    \* bound on failed external calls
    MaxChanges,   \* bound on the administrator's commands
    MaxRestarts   \* bound on restarts of dovesnap

ASSUME BridgeAssumption ==
    /\ MaxPort \in Nat \ {0}
    /\ AddPorts \subseteq ExtPorts
    /\ PatchNames \subseteq ExtPorts
    /\ LbPort \in Nat
    /\ Endpoints \cap ExtPorts = {}
    /\ None \notin Endpoints \cup ExtPorts
    /\ HasLocal \in BOOLEAN
    /\ {MaxFaults, MaxChanges, MaxRestarts} \subseteq Nat

VARIABLES
    ep,             \* how far an endpoint's operations have been handled
    veths,          \* endpoints whose veth pair exists on the host
    ofport,         \* OVS: the OF port number of a port, 0 when it has none
    OFPorts,        \* resourceManager's OFPorts map
    Containers,     \* DynamicNetworkStates.Containers
    ExternalPorts,  \* DynamicNetworkStates.ExternalPorts: name to OF port
    AllPortDesc,    \* the port-desc of the last poll
    faucet,         \* FAUCET: what the DP's interface on a port is for
    dp,             \* FAUCET: the DP is absent, complete or without dp_id
    portMaps,       \* endpoints with port mapping rules in iptables
    nsLinks,        \* endpoints with a link in /var/run/netns
    pending,        \* a reservation between the scrape and the add-port
    faults, changes, restarts,
    races           \* requested numbers taken between scrape and add-port

vars == <<ep, veths, ofport, OFPorts, Containers, ExternalPorts, AllPortDesc, faucet, dp,
          portMaps, nsLinks, pending, faults, changes, restarts, races>>

memory == <<OFPorts, Containers, ExternalPorts, AllPortDesc>>
counters == <<faults, changes, restarts, races>>

-----------------------------------------------------------------------------
Names == Endpoints \cup ExtPorts
Numbers == 1..MaxPort
NoPorts == [p \in 0..MaxPort |-> None]

(* A missing entry of OFPorts reads as the zero OFPortContainer.           *)
NoEntry == [port |-> 0, container |-> FALSE]
NoReserve == [ep |-> None, port |-> 0]

Used == {ofport[x] : x \in Names} \ {0}
Free == Numbers \ Used

(* dump-ports-desc of the bridge.                                          *)
PortDesc == [p \in 0..MaxPort |->
                IF p \in Used THEN CHOOSE x \in Names : ofport[x] = p ELSE None]

(* Variants: above every port in use; the number of ports instead of the   *)
(* first gap.                                                              *)
LowestFreeAboveAll == 1 + CHOOSE p \in Used \cup {0} : \A q \in Used : q <= p
LowestFreeByCount == Cardinality(Used) + 1

LowestFree == CHOOSE p \in Free : \A q \in Free : p <= q

Fault == /\ faults < MaxFaults
         /\ faults' = faults + 1

Idle == pending = NoReserve

(* FAUCET's configuration. A merge without dp_id creates the DP when it is *)
(* absent; DelDpInterfaces drops the DP when no interface is left.         *)
MergeMinimal(d) == IF d = "absent" THEN "noid" ELSE d
DropIfEmpty(f, d) == IF f = NoPorts /\ ~HasLocal THEN "absent" ELSE d

(* The network has been created: add_ports are on the bridge, in FAUCET    *)
(* and in ExternalPorts.                                                   *)
Numberings == {f \in [Names -> 0..MaxPort] :
                 /\ \A x \in Names : f[x] = 0 <=> x \notin AddPorts
                 /\ \A x, y \in AddPorts : f[x] = f[y] => x = y}

WithAddPorts(f, num) == [p \in 0..MaxPort |->
    IF \E a \in AddPorts : num[a] = p /\ p # 0
    THEN CHOOSE a \in AddPorts : num[a] = p ELSE f[p]]

Init ==
    /\ ofport \in Numberings
    /\ ExternalPorts = [a \in ExtPorts |-> ofport[a]]
    /\ faucet = WithAddPorts(NoPorts, ofport)
    /\ dp = "full"
    /\ AllPortDesc = NoPorts
    /\ ep = [e \in Endpoints |-> "absent"]
    /\ veths = {}
    /\ OFPorts = [e \in Endpoints |-> NoEntry]
    /\ Containers = {}
    /\ portMaps = {}
    /\ nsLinks = {}
    /\ pending = NoReserve
    /\ faults = 0 /\ changes = 0 /\ restarts = 0 /\ races = 0

-----------------------------------------------------------------------------
(* Endpoints.                                                              *)

Move(e, from, to) == /\ ep[e] = from
                     /\ ep' = [ep EXCEPT ![e] = to]

(* The veth pair is made in the call, the reserveport operation queued.    *)
CreateEndpoint(e) ==
    /\ Move(e, "absent", "veth")
    /\ veths' = veths \cup {e}
    /\ UNCHANGED <<ofport, memory, faucet, dp, portMaps, nsLinks, pending, counters>>

(* mustHandleReservePort: addInternalPort scrapes the ports for the lowest *)
(* free number ...                                                         *)
ReserveScrape(e) ==
    /\ Idle
    /\ ep[e] = "veth"
    /\ Free # {}
    /\ pending' = [ep |-> e, port |-> LowestFree]
    /\ UNCHANGED <<ep, veths, ofport, memory, faucet, dp, portMaps, nsLinks, counters>>

(* ... and then requests it; OVS takes another number when it is in use.   *)
(* The handler records the number it requested.                            *)
ReserveAdd(e) ==
    /\ pending.ep = e
    /\ Move(e, "veth", "created")
    /\ \E p \in IF pending.port \in Used THEN Free ELSE {pending.port} :
            ofport' = [ofport EXCEPT ![e] = p]
    /\ OFPorts' = [OFPorts EXCEPT ![e] = [port |-> pending.port, container |-> FALSE]]
    /\ pending' = NoReserve
    /\ UNCHANGED <<veths, Containers, ExternalPorts, AllPortDesc, faucet, dp, portMaps,
                   nsLinks, counters>>

(* The scrape or the add-port failed; Docker is not told.                  *)
ReserveFail(e) ==
    /\ Idle \/ pending.ep = e
    /\ Move(e, "veth", "created")
    /\ Fault
    /\ pending' = NoReserve
    /\ UNCHANGED <<veths, ofport, memory, faucet, dp, portMaps, nsLinks, changes, restarts,
                   races>>

HandleJoin(e) ==
    /\ Idle
    /\ Move(e, "created", "joined")
    /\ nsLinks' = nsLinks \cup {e}
    /\ portMaps' = portMaps \cup {e}
    /\ faucet' = [faucet EXCEPT ![OFPorts[e].port] = e]
    /\ dp' = MergeMinimal(dp)
    /\ OFPorts' = [OFPorts EXCEPT ![e].container = TRUE]
    /\ Containers' = Containers \cup {e}
    /\ UNCHANGED <<veths, ofport, ExternalPorts, AllPortDesc, pending, counters>>

(* The handler panics: inspecting the container, after the netns link,     *)
(* after the port mappings, or after FAUCET was told (mirror, udhcpc).     *)
HandleJoinFail(e) ==
    /\ Idle
    /\ Move(e, "created", "joined")
    /\ Fault
    /\ \E done \in 0..3 :
        /\ nsLinks' = IF done >= 1 THEN nsLinks \cup {e} ELSE nsLinks
        /\ portMaps' = IF done >= 2 THEN portMaps \cup {e} ELSE portMaps
        /\ faucet' = IF done = 3 THEN [faucet EXCEPT ![OFPorts[e].port] = e] ELSE faucet
        /\ dp' = IF done = 3 THEN MergeMinimal(dp) ELSE dp
    /\ UNCHANGED <<veths, ofport, memory, pending, changes, restarts, races>>

(* What a leave does first: the veth pair and with it the OVS port, then   *)
(* FAUCET's interface on the number OVS gives for the port.                *)
Unplug(e) ==
    /\ veths' = veths \ {e}
    /\ ofport' = [ofport EXCEPT ![e] = 0]

Unconfigure(e) ==
    /\ faucet' = [faucet EXCEPT ![ofport[e]] = None]
    /\ dp' = DropIfEmpty(faucet', dp)

CanLeave(e) == OFPorts[e] # NoEntry /\ ofport[e] # 0

(* Variant: the port mappings are kept.                                    *)
HandleLeaveKeepsPortMaps(e) ==
    /\ Idle
    /\ Move(e, "joined", "left")
    /\ CanLeave(e)
    /\ OFPorts[e].container
    /\ Unplug(e)
    /\ Unconfigure(e)
    /\ OFPorts' = [OFPorts EXCEPT ![e] = NoEntry]
    /\ Containers' = Containers \ {e}
    /\ nsLinks' = nsLinks \ {e}
    /\ UNCHANGED <<portMaps, ExternalPorts, AllPortDesc, pending, counters>>

HandleLeave(e) ==
    /\ Idle
    /\ Move(e, "joined", "left")
    /\ CanLeave(e)
    /\ OFPorts[e].container
    /\ Unplug(e)
    /\ Unconfigure(e)
    /\ portMaps' = portMaps \ {e}
    /\ OFPorts' = [OFPorts EXCEPT ![e] = NoEntry]
    /\ Containers' = Containers \ {e}
    /\ nsLinks' = nsLinks \ {e}
    /\ UNCHANGED <<ExternalPorts, AllPortDesc, pending, counters>>

(* Join failed, so no containerInspect was kept: reading its settings      *)
(* panics once the port is gone.                                           *)
HandleLeaveNotJoined(e) ==
    /\ Idle
    /\ Move(e, "joined", "left")
    /\ CanLeave(e)
    /\ ~OFPorts[e].container
    /\ Unplug(e)
    /\ Unconfigure(e)
    /\ UNCHANGED <<memory, portMaps, nsLinks, pending, counters>>

(* "was not Join()d", or OVS has no number for the port: the handler       *)
(* panics before it changes anything, and replies.                         *)
HandleLeaveUnknown(e) ==
    /\ Idle
    /\ Move(e, "joined", "left")
    /\ ~CanLeave(e)
    /\ UNCHANGED <<veths, ofport, memory, faucet, dp, portMaps, nsLinks, pending, counters>>

(* An external call fails: reading the port number or deleting the veth,   *)
(* deleting the port or FAUCET's interface, or a port mapping.             *)
HandleLeaveFail(e) ==
    /\ Idle
    /\ Move(e, "joined", "left")
    /\ CanLeave(e)
    /\ Fault
    /\ \E done \in 0..2 :
        /\ IF done >= 1 THEN Unplug(e) ELSE UNCHANGED <<veths, ofport>>
        /\ IF done = 2 THEN Unconfigure(e) ELSE UNCHANGED <<faucet, dp>>
    /\ UNCHANGED <<memory, portMaps, nsLinks, pending, changes, restarts, races>>

(* Docker drops an endpoint that never joined; the driver does nothing.    *)
DeleteEndpoint(e) ==
    /\ Move(e, "created", "gone")
    /\ UNCHANGED <<veths, ofport, memory, faucet, dp, portMaps, nsLinks, pending, counters>>

-----------------------------------------------------------------------------
(* reconcileOvs, every three idle seconds and for every status request.    *)

(* AllPortDesc without ports also stands for a bridge that was not polled  *)
(* yet: reconcileOvs does the same in both cases.                          *)

(* Variants: a number whose port changed counts as removed; nothing does.  *)
RemovedByName(new) == {p \in Numbers : AllPortDesc[p] \in ExtPorts /\ new[p] # AllPortDesc[p]}
RemovedNever(new) == {}

(* Numbers that are gone since the last poll; container ports are left to  *)
(* the leave handler.                                                      *)
Removed(new) == {p \in Numbers : AllPortDesc[p] \in ExtPorts /\ new[p] = None}

(* Variant: numbers the last poll saw in use are taken to be configured.   *)
AddedFresh(new) ==
    {p \in Numbers \ {LbPort} : /\ new[p] \in ExtPorts \ (AddPorts \cup PatchNames)
                               /\ AllPortDesc[p] = None}

(* The ports that are on the bridge now, but for the mirror port's number, *)
(* patch ports and what the create handler has configured.                 *)
Added(new) == {p \in Numbers \ {LbPort} : new[p] \in ExtPorts \ (AddPorts \cup PatchNames)}

Reconciled(new) ==
    LET gone == [p \in 0..MaxPort |-> IF p \in Removed(new) THEN None ELSE faucet[p]]
        left == IF Removed(new) = {} THEN dp ELSE DropIfEmpty(gone, dp)
        lost == {AllPortDesc[p] : p \in Removed(new)}
    IN  /\ faucet' = [p \in 0..MaxPort |-> IF p \in Added(new) THEN new[p] ELSE gone[p]]
        /\ dp' = IF Added(new) = {} THEN left ELSE MergeMinimal(left)
        /\ ExternalPorts' = [a \in ExtPorts |->
                IF \E p \in Added(new) : new[p] = a THEN ofport[a]
                ELSE IF a \in lost THEN 0 ELSE ExternalPorts[a]]

Poll ==
    /\ Idle
    /\ AllPortDesc # PortDesc
    /\ Reconciled(PortDesc)
    /\ AllPortDesc' = PortDesc
    /\ UNCHANGED <<ep, veths, ofport, OFPorts, Containers, portMaps, nsLinks, pending,
                   counters>>

-----------------------------------------------------------------------------
(* The administrator.                                                      *)

OvsAddPort(a) ==
    /\ changes < MaxChanges
    /\ ofport[a] = 0
    /\ \E p \in Free :
        /\ ofport' = [ofport EXCEPT ![a] = p]
        /\ races' = IF p = pending.port THEN races + 1 ELSE races
    /\ changes' = changes + 1
    /\ UNCHANGED <<ep, veths, memory, faucet, dp, portMaps, nsLinks, pending, faults, restarts>>

OvsDelPort(a) ==
    /\ changes < MaxChanges
    /\ ofport[a] # 0
    /\ ofport' = [ofport EXCEPT ![a] = 0]
    /\ changes' = changes + 1
    /\ UNCHANGED <<ep, veths, memory, faucet, dp, portMaps, nsLinks, pending, faults, restarts,
                   races>>

-----------------------------------------------------------------------------
(* A restart: what is in memory is lost, and so are queued operations,     *)
(* which Docker takes for done. restoreNetworks then finds the bridge up.  *)

(* The process may have died in a poll, whose panics nothing recovers,     *)
(* with some of the removed interfaces gone from FAUCET.                   *)
CutShort ==
    {[p \in 0..MaxPort |-> IF p \in gone THEN None ELSE faucet[p]] :
        gone \in IF Idle THEN SUBSET Removed(PortDesc) ELSE {{}}}

LoseMemory ==
    /\ restarts < MaxRestarts
    /\ restarts' = restarts + 1
    /\ OFPorts' = [e \in Endpoints |-> NoEntry]
    /\ Containers' = {}
    /\ AllPortDesc' = NoPorts
    /\ pending' = NoReserve
    /\ \E lost \in SUBSET {e \in Endpoints : ep[e] = "created"} :
        ep' = [e \in Endpoints |-> IF e \in lost THEN "joined"
                                    ELSE IF ep[e] = "veth" THEN "created" ELSE ep[e]]
    /\ UNCHANGED <<veths, portMaps, nsLinks, faults, changes, races>>

(* The bridge has its address ("create"): the create handler configures    *)
(* the ports of add_ports again, and panics when one is missing.           *)
RestartGateway ==
    /\ HasLocal
    /\ LoseMemory
    /\ UNCHANGED ofport
    /\ IF \A a \in AddPorts : ofport[a] # 0
       THEN /\ ExternalPorts' = [a \in ExtPorts |-> IF a \in AddPorts THEN ofport[a] ELSE 0]
            /\ \E f \in CutShort : faucet' = WithAddPorts(f, ofport)
            /\ dp' = "full"
       ELSE /\ \E seen \in SUBSET {a \in AddPorts : ofport[a] # 0} :
                ExternalPorts' = [a \in ExtPorts |-> IF a \in seen THEN ofport[a] ELSE 0]
            /\ faucet' \in CutShort
            /\ UNCHANGED dp

(* A flat network's bridge never has an address ("recreatebadbridge"): the *)
(* bridge is deleted and made again with the ports of add_ports only.      *)
RestartFlat ==
    /\ ~HasLocal
    /\ LoseMemory
    /\ ofport' \in Numberings
    /\ ExternalPorts' = [a \in ExtPorts |-> ofport'[a]]
    /\ \E f \in CutShort : faucet' = WithAddPorts(f, ofport')
    /\ dp' = "full"

-----------------------------------------------------------------------------
Endpoint(e) ==
    \/ CreateEndpoint(e) \/ DeleteEndpoint(e)
    \/ ReserveScrape(e) \/ ReserveAdd(e) \/ ReserveFail(e)
    \/ HandleJoin(e) \/ HandleJoinFail(e)
    \/ HandleLeave(e) \/ HandleLeaveNotJoined(e) \/ HandleLeaveUnknown(e) \/ HandleLeaveFail(e)

Admin == \E a \in ExtPorts : OvsAddPort(a) \/ OvsDelPort(a)

Next ==
    \/ \E e \in Endpoints : Endpoint(e)
    \/ Poll
    \/ Admin
    \/ RestartGateway
    \/ RestartFlat

Spec == Init /\ [][Next]_vars

(* resourceManager finishes the reservation it is at, and polls again once *)
(* it has been idle for three seconds.                                     *)
FairSpec == Spec /\ WF_vars(Poll) /\ \A e \in Endpoints : WF_vars(ReserveAdd(e))

-----------------------------------------------------------------------------
(* Properties.                                                             *)

EpStates == {"absent", "veth", "created", "joined", "left", "gone"}

(* Every variable holds what the code can put there; port numbers stay in  *)
(* range.                                                                  *)
TypeOK ==
    /\ ep \in [Endpoints -> EpStates]
    /\ veths \subseteq Endpoints
    /\ ofport \in [Names -> 0..MaxPort]
    /\ OFPorts \in [Endpoints -> [port : 0..MaxPort, container : BOOLEAN]]
    /\ Containers \subseteq Endpoints
    /\ ExternalPorts \in [ExtPorts -> 0..MaxPort]
    /\ AllPortDesc \in [0..MaxPort -> Names \cup {None}]
    /\ faucet \in [0..MaxPort -> Names \cup {None}]
    /\ dp \in {"absent", "full", "noid"}
    /\ portMaps \subseteq Endpoints
    /\ nsLinks \subseteq Endpoints
    /\ pending \in [ep : Endpoints \cup {None}, port : 0..MaxPort]
    /\ faults \in 0..MaxFaults /\ changes \in 0..MaxChanges
    /\ restarts \in 0..MaxRestarts /\ races \in Nat

Recorded(e) == OFPorts[e].port # 0 /\ ep[e] # "left"

(* OFPorts holds the number OVS gave the port, although the handler stores *)
(* the one it asked for, as long as nobody took that number between the    *)
(* scrape and the add-port.                                                *)
RecordedPortIsActual ==
    races = 0 => \A e \in Endpoints : Recorded(e) => ofport[e] = OFPorts[e].port

(* FAUCET's interface on a joined container's port is that container's,    *)
(* with its VLAN and ACLs, whatever external ports come and go on the same *)
(* numbers, and whatever polls, failures and other containers' leaves      *)
(* happen in between.                                                      *)
ContainerHasInterface ==
    races = 0 => \A e \in Containers : Recorded(e) => faucet[ofport[e]] = e

Undisturbed == faults = 0 /\ restarts = 0 /\ races = 0

(* A container that left leaves nothing behind: no veth, port, FAUCET      *)
(* interface, port mapping, netns link or entry in a map.                  *)
LeaveIsClean ==
    Undisturbed => \A e \in Endpoints : ep[e] = "left" =>
        /\ e \notin veths \cup portMaps \cup nsLinks \cup Containers
        /\ ofport[e] = 0
        /\ OFPorts[e] = NoEntry
        /\ \A p \in 0..MaxPort : faucet[p] # e

(* Once a poll has seen the bridge as it is, FAUCET has no interface on a  *)
(* number without a port. (A port of add_ports that goes before the first  *)
(* poll is not noticed: reconcileOvs then has nothing to compare with.)    *)
NoOrphanInterface ==
    Undisturbed /\ AllPortDesc = PortDesc =>
        \A p \in Numbers : faucet[p] \in Names \ AddPorts => p \in Used

(* A port that is added with ovs-vsctl, and that the last poll did not see *)
(* under its number, is configured in FAUCET by a later poll if it stays,  *)
(* whoever had the number in between, a container included. It is not for  *)
(* reconcileOvs to configure a port on LbPort or one named like a patch    *)
(* port. (A port that goes and comes back to its number between two polls  *)
(* is not looked at again: the dumps are equal.)                           *)
PollConfigures ==
    \A a \in ExtPorts \ (AddPorts \cup PatchNames), p \in Numbers \ {LbPort} :
        ofport[a] = p /\ AllPortDesc[p] # a ~> ofport[a] # p \/ faucet[p] = a

(* "fix race condition that could lead to multiple containers with same    *)
(* OFPort": no two joined containers have one number in the maps that the  *)
(* status page and FAUCET's configuration are written from.                *)
ContainersApart ==
    \A e, f \in Containers : OFPorts[e].port = OFPorts[f].port => e = f

(* "Ability to restart dovesnap and have it recovering existing networks": *)
(* a restart does not take a joined container's port off the bridge.       *)
RestartKeepsPorts ==
    [][restarts' # restarts =>
        \A e \in Containers : ofport[e] # 0 => ofport'[e] # 0]_vars

(* "restart/shutdown handling improvements, and network deletes now        *)
(* blocking to avoid leaked veths or other resources": the veth of a       *)
(* container that left is not on the bridge any more.                      *)
NoLeakedVeths ==
    faults = 0 => \A e \in Endpoints : ep[e] = "left" => e \notin veths \/ ofport[e] = 0

=============================================================================
