----------------------------- MODULE SharedBridge -----------------------------
(***************************************************************************)
(* The bridge that all networks share: the mirror bridge, or the stacking  *)
(* bridge (src/ovs/driver.go: createMirrorBridge, createStackingBridge,    *)
(* InitBridge, mustDeleteBridgeAndPorts, and the parts of the create and   *)
(* delete handlers about it; src/ovs/ovs_port.go: patch ports).            *)
(*                                                                         *)
(* Every network's bridge is joined to it by a patch port, a veth pair     *)
(* with one end on each bridge. The goroutine of each CreateNetwork adds   *)
(* the pair, while others do the same on the shared bridge and             *)
(* resourceManager removes pairs from it. A mirror bridge has a flow per   *)
(* network that tags what comes in on its end; for a stacking bridge the   *)
(* create handler tells FAUCET which port is linked to which.              *)
(***************************************************************************)
EXTENDS Integers, FiniteSets

CONSTANTS
    Networks,
    NatNets,      \* the networks in NAT mode; the others are flat
    Usings,       \* the shared bridges considered: "mirror", "stack"
    HasIn,        \* the mirror bridge has an input port (MIRROR_BRIDGE_IN)
    MaxPort,      \* bound on port numbers of the shared bridge
    LocalPorts,   \* numbers the local end may get on a network's bridge
    MaxFaults,    \* bound on failed external calls
    MaxDeaths     \* bound on deaths of the process

ASSUME SharedBridgeAssumption ==
    /\ NatNets \subseteq Networks
    /\ Usings \subseteq {"mirror", "stack"}
    /\ HasIn \in BOOLEAN
    /\ MaxPort \in Nat \ {0, 1}    \* the mirror bridge's own ports have room
    /\ {MaxFaults, MaxDeaths} \subseteq Nat
    /\ LocalPorts \subseteq Nat \ {0}

VARIABLES
    using,       \* which shared bridge the process was started with
    proc,        \* "starting", "finishing", "restoring", "serving", "dead"
    shared,      \* the shared bridge: "absent", "bare", "ready"
    net,         \* where each network is
    want,        \* the number asked for on the shared bridge
    lport,       \* the number of the local end, 0 when there is none
    sport,       \* the number of the end on the shared bridge, or 0
    flow,        \* per port of the mirror bridge: whose VLAN its flow sets
    link,        \* FAUCET: what a port of the stacking bridge is linked to
    peer,        \* FAUCET: what the ports of a network's bridge are linked to
    rules,       \* MASQUERADE rules in iptables for each network
    remade,      \* times a network's bridge was recreated (history)
    faults, deaths

bridges == <<using, shared>>
faucet == <<link, peer>>
bounds == <<faults, deaths>>
vars == <<bridges, proc, net, want, lport, sport, flow, faucet, rules, remade, bounds>>

Ports == 1..MaxPort
NoNet == "none"
NoLink == [net |-> NoNet, port |-> 0]
Link(n, p) == [net |-> n, port |-> p]

Fault == faults < MaxFaults /\ faults' = faults + 1

Init ==
    /\ using \in Usings
    /\ proc = "starting"
    /\ shared = "absent"
    /\ net = [n \in Networks |-> "absent"]
    /\ want = [n \in Networks |-> 0]
    /\ lport = [n \in Networks |-> 0]
    /\ sport = [n \in Networks |-> 0]
    /\ flow = [p \in Ports |-> NoNet]
    /\ link = [p \in Ports |-> NoLink]
    /\ peer = [n \in Networks |-> [l \in LocalPorts |-> 0]]
    /\ rules = [n \in Networks |-> 0]
    /\ remade = [n \in Networks |-> 0]
    /\ faults = 0
    /\ deaths = 0

-----------------------------------------------------------------------------
(* NewDriver: createMirrorBridge, createStackingBridge.                    *)

netState == <<net, want, lport, sport, flow, faucet, rules, remade>>

(* A bridge that exists is taken to be complete.                           *)
SharedExists ==
    /\ proc = "starting"
    /\ shared # "absent"
    /\ proc' = "restoring"
    /\ UNCHANGED <<bridges, netState, bounds>>

(* createBridge, for a mirror bridge with its output and input port.       *)
SharedCreate ==
    /\ proc = "starting"
    /\ shared = "absent"
    /\ proc' = "finishing"
    /\ shared' = "bare"
    /\ UNCHANGED <<using, netState, bounds>>

(* The flows of the mirror bridge; the ports and the FAUCET configuration  *)
(* of the stacking bridge.                                                 *)
SharedFinish ==
    /\ proc = "finishing"
    /\ proc' = "restoring"
    /\ shared' = "ready"
    /\ UNCHANGED <<using, netState, bounds>>

(* Nothing recovers a panic here; createBridge removes what it began.      *)
SharedFail ==
    /\ proc \in {"starting", "finishing"}
    /\ proc = "starting" => shared = "absent"
    /\ Fault
    /\ proc' = "dead"
    /\ UNCHANGED <<bridges, netState, deaths>>

-----------------------------------------------------------------------------
(* Patch ports.                                                            *)

(* createBridge adds the mirror bridge's own ports; the stacking interface *)
(* of the stacking bridge comes after it.                                  *)
BasePorts == IF using = "mirror" THEN (IF HasIn THEN {1, 2} ELSE {1})
             ELSE (IF shared = "ready" THEN {1} ELSE {})
Ends == {sport[n] : n \in Networks}
Taken == BasePorts \cup (Ends \ {0})

LowestFree(used) == CHOOSE p \in 1..(MaxPort + 1) :
                        p \notin used /\ \A q \in 1..(p - 1) : q \in used

(* OVS gives the number asked for, or another when it is taken.            *)
Given(p, used) == IF p \in Ports \ used THEN {p} ELSE Ports \ used

Move(n, from, to) == net[n] = from /\ net' = [net EXCEPT ![n] = to]

(* Variant: every rule is inserted and deleted twice.                      *)
CountTwice(f, n, k) == IF n \in NatNets THEN [f EXCEPT ![n] = @ + 2 * k] ELSE f

Count(f, n, k) == IF n \in NatNets THEN [f EXCEPT ![n] = @ + k] ELSE f

-----------------------------------------------------------------------------
(* InitBridge, in the goroutine of a CreateNetwork.                        *)

Serving == proc = "serving"

(* initBridge: the bridge, its address and its MASQUERADE rule.            *)
InitBridge(n) ==
    /\ Serving
    /\ Move(n, "absent", "bridged")
    /\ rules' = Count(rules, n, 1)
    /\ UNCHANGED <<bridges, proc, want, lport, sport, flow, faucet, remade, bounds>>

(* mustAddPatchPort first reads which number is free ...                   *)
ScrapePatch(n) ==
    /\ Serving
    /\ Move(n, "bridged", "scraped")
    /\ want' = [want EXCEPT ![n] = LowestFree(Taken)]
    /\ UNCHANGED <<bridges, proc, lport, sport, flow, faucet, rules, remade, bounds>>

(* ... and then adds the two ends.                                         *)
AddPatch(n) ==
    /\ Serving
    /\ Move(n, "scraped", "patched")
    /\ \E l \in LocalPorts : lport' = [lport EXCEPT ![n] = l]
    /\ \E p \in Given(want[n], Taken) : sport' = [sport EXCEPT ![n] = p]
    /\ UNCHANGED <<bridges, proc, want, flow, faucet, rules, remade, bounds>>

(* Either add-port may fail, and nobody is told.                           *)
AddPatchLosesEnd(n) ==
    /\ Serving
    /\ Move(n, "scraped", "patched")
    /\ Fault
    /\ \/ /\ \E l \in LocalPorts : lport' = [lport EXCEPT ![n] = l]
          /\ UNCHANGED sport
       \/ /\ \E p \in Given(want[n], Taken) : sport' = [sport EXCEPT ![n] = p]
          /\ UNCHANGED lport
    /\ UNCHANGED <<bridges, proc, want, flow, faucet, rules, remade, deaths>>

(* Variant: the flow is for the number that was asked for.                 *)
FinishInitWanted(n) ==
    /\ Serving
    /\ Move(n, "patched", "queued")
    /\ using = "mirror" => sport[n] # 0
    /\ flow' = IF using = "mirror" THEN [flow EXCEPT ![want[n]] = n] ELSE flow
    /\ UNCHANGED <<bridges, proc, want, lport, sport, faucet, rules, remade, bounds>>

(* The flow is for the number OVS gave. The "create" operation is queued.  *)
FinishInit(n) ==
    /\ Serving
    /\ Move(n, "patched", "queued")
    /\ using = "mirror" => sport[n] # 0
    /\ flow' = IF using = "mirror" THEN [flow EXCEPT ![sport[n]] = n] ELSE flow
    /\ UNCHANGED <<bridges, proc, want, lport, sport, faucet, rules, remade, bounds>>

(* A failure of InitBridge after initBridge, or of the MTU set after it,   *)
(* refuses the network and removes nothing.                                *)
InitBridgeFail(n) ==
    /\ Serving
    /\ Move(n, net[n], "orphan")
    /\ \/ net[n] \in {"bridged", "patched"} /\ Fault
       \/ net[n] = "patched" /\ using = "mirror" /\ sport[n] = 0 /\ UNCHANGED faults
    /\ UNCHANGED <<bridges, proc, want, lport, sport, flow, faucet, rules, remade, deaths>>

-----------------------------------------------------------------------------
(* The handlers of resourceManager.                                        *)

(* What mustSetFaucetConfigFile merges for a network with these ends.      *)
Stacked(n, l, p) ==
    IF using = "stack"
    THEN /\ peer' = [peer EXCEPT ![n][l] = p]
         /\ link' = [link EXCEPT ![p] = Link(n, l)]
    ELSE UNCHANGED faucet

Known(n) == sport[n] # 0 /\ (using = "stack" => lport[n] # 0)

(* Variant: FAUCET is told the number that was asked for.                  *)
HandleCreateWanted(n) ==
    /\ Serving
    /\ Move(n, "queued", "live")
    /\ Known(n)
    /\ Stacked(n, lport[n], want[n])
    /\ UNCHANGED <<bridges, proc, want, lport, sport, flow, rules, remade, bounds>>

HandleCreate(n) ==
    /\ Serving
    /\ Move(n, "queued", "live")
    /\ Known(n)
    /\ Stacked(n, lport[n], sport[n])
    /\ UNCHANGED <<bridges, proc, want, lport, sport, flow, rules, remade, bounds>>

(* An external call fails, or an end is missing; FAUCET may have been told *)
(* or not.                                                                 *)
HandleCreateFail(n) ==
    /\ Serving
    /\ Move(n, "queued", "broken")
    /\ \/ Fault /\ Known(n) /\ Stacked(n, lport[n], sport[n])
       \/ Fault /\ UNCHANGED faucet
       \/ ~ Known(n) /\ UNCHANGED <<faucet, faults>>
    /\ UNCHANGED <<bridges, proc, want, lport, sport, flow, rules, remade, deaths>>

(* mustDeleteDp removes the network's datapath. The code does not ask for  *)
(* the stacking bridge's side of the link to go: faucetconfrpc may drop it *)
(* or not.                                                                 *)
Unstacked(n) ==
    /\ peer' = [peer EXCEPT ![n] = [l \in LocalPorts |-> 0]]
    /\ \/ UNCHANGED link
       \/ link' = [p \in Ports |-> IF link[p].net = n THEN NoLink ELSE link[p]]

(* Variant: the end on the shared bridge stays.                            *)
HandleDeleteKeepsPeer(n) ==
    /\ Serving
    /\ net[n] \in {"live", "broken"}
    /\ Move(n, net[n], "gone")
    /\ sport[n] # 0 /\ lport[n] # 0
    /\ n \in NatNets => rules[n] > 0
    /\ Unstacked(n)
    /\ rules' = Count(rules, n, -1)
    /\ lport' = [lport EXCEPT ![n] = 0]
    /\ UNCHANGED <<bridges, proc, want, sport, flow, remade, bounds>>

(* The datapath, one MASQUERADE rule, the two ends, the bridge. The flow   *)
(* of the mirror bridge stays.                                             *)
HandleDelete(n) ==
    /\ Serving
    /\ net[n] \in {"live", "broken"}
    /\ Move(n, net[n], "gone")
    /\ sport[n] # 0 /\ lport[n] # 0
    /\ n \in NatNets => rules[n] > 0
    /\ Unstacked(n)
    /\ rules' = Count(rules, n, -1)
    /\ lport' = [lport EXCEPT ![n] = 0]
    /\ sport' = [sport EXCEPT ![n] = 0]
    /\ UNCHANGED <<bridges, proc, want, flow, remade, bounds>>

(* The handler panics, and Docker gets no answer: the network never got    *)
(* into d.networks, or an external call fails, or del-port does not find   *)
(* an end. What was removed before that stays removed.                     *)
HandleDeleteFail(n) ==
    /\ Serving
    /\ net[n] \in {"live", "broken"}
    /\ Move(n, net[n], "stuck")
    /\ \/ /\ Fault \/ (net[n] = "broken" /\ UNCHANGED faults)
          /\ UNCHANGED <<faucet, rules, lport, sport>>
       \/ /\ Fault \/ (0 \in {sport[n], lport[n]} /\ UNCHANGED faults)
          /\ n \in NatNets => rules[n] > 0
          /\ Unstacked(n)
          /\ rules' = Count(rules, n, -1)
          /\ lport' \in {lport, [lport EXCEPT ![n] = 0]}
          /\ sport' \in {sport, [sport EXCEPT ![n] = 0]}
          /\ sport' # sport => lport'[n] = 0
    /\ UNCHANGED <<bridges, proc, want, flow, remade, deaths>>

-----------------------------------------------------------------------------
(* The death of the process, and restoreNetworks after it.                 *)

Begun == {"bridged", "scraped", "patched"}

(* Docker does not know a network whose CreateNetwork has not returned.    *)
Die ==
    /\ proc # "dead"
    /\ deaths < MaxDeaths
    /\ deaths' = deaths + 1
    /\ proc' = "dead"
    /\ \E unanswered \in SUBSET {n \in Networks : net[n] = "queued"} :
        net' = [n \in Networks |->
                    CASE net[n] \in Begun \/ n \in unanswered -> "orphan"
                      [] net[n] \in {"queued", "live", "broken", "stuck"}
                         /\ n \notin unanswered -> "known"
                      [] OTHER -> net[n]]
    /\ UNCHANGED <<bridges, want, lport, sport, flow, faucet, rules, remade, faults>>

Restart ==
    /\ proc = "dead"
    /\ proc' = "starting"
    /\ UNCHANGED <<bridges, netState, bounds>>

(* The bridge is up and has its address: only the handler runs.            *)
RestoreNetwork(n) ==
    /\ proc = "restoring"
    /\ n \in NatNets
    /\ net[n] = "known"
    /\ \/ Known(n) /\ Move(n, "known", "live") /\ Stacked(n, lport[n], sport[n])
       \/ ~ Known(n) /\ Move(n, "known", "broken") /\ UNCHANGED faucet
    /\ UNCHANGED <<bridges, proc, want, lport, sport, flow, rules, remade, bounds>>

(* InitBridge and the handler, one after the other in resourceManager.     *)
Remake(n, used) ==
    /\ proc = "restoring"
    /\ Move(n, "known", "live")
    /\ \E l \in LocalPorts, p \in Given(LowestFree(used), used) :
        /\ lport' = [lport EXCEPT ![n] = l]
        /\ sport' = [sport EXCEPT ![n] = p]
        /\ flow' = IF using = "mirror" THEN [flow EXCEPT ![p] = n] ELSE flow
        /\ Stacked(n, l, p)
    /\ rules' = Count(rules, n, 1)
    /\ remade' = [remade EXCEPT ![n] = @ + 1]
    /\ UNCHANGED <<bridges, proc, want, bounds>>

(* The bridge has lost its address: the pair and the bridge are removed.   *)
RecreateBadBridge(n) ==
    /\ sport[n] # 0 /\ lport[n] # 0
    /\ Remake(n, Taken \ {sport[n]})

(* The bridge is down: an end on the shared bridge keeps its number.       *)
RecreateDownBridge(n) ==
    \/ sport[n] = 0 /\ Remake(n, Taken)
    \/ sport[n] # 0 /\ Remake(n, Ports \ {sport[n]})

Serve ==
    /\ proc = "restoring"
    /\ \A n \in Networks : net[n] # "known"
    /\ proc' = "serving"
    /\ UNCHANGED <<bridges, netState, bounds>>

-----------------------------------------------------------------------------
Start == SharedExists \/ SharedCreate \/ SharedFinish \/ SharedFail \/ Serve

Create(n) == \/ InitBridge(n) \/ ScrapePatch(n) \/ AddPatch(n) \/ AddPatchLosesEnd(n)
             \/ FinishInit(n) \/ InitBridgeFail(n)

Handle(n) == \/ HandleCreate(n) \/ HandleCreateFail(n)
             \/ HandleDelete(n) \/ HandleDeleteFail(n)

Restore(n) == RestoreNetwork(n) \/ RecreateBadBridge(n) \/ RecreateDownBridge(n)

Next == \/ Start \/ Die \/ Restart
        \/ \E n \in Networks : Create(n) \/ Handle(n) \/ Restore(n)

Spec == Init /\ [][Next]_vars

-----------------------------------------------------------------------------
(* Properties.                                                             *)

States == {"absent", "bridged", "scraped", "patched", "queued", "live", "broken",
           "stuck", "orphan", "known", "gone"}

(* Every variable holds what the code can put there, and no rule is        *)
(* deleted that was not inserted.                                          *)
TypeOK ==
    /\ using \in Usings
    /\ proc \in {"starting", "finishing", "restoring", "serving", "dead"}
    /\ shared \in {"absent", "bare", "ready"}
    /\ net \in [Networks -> States]
    /\ want \in [Networks -> 0..(MaxPort + 1)]
    /\ lport \in [Networks -> LocalPorts \cup {0}]
    /\ sport \in [Networks -> 0..MaxPort]
    /\ flow \in [Ports -> Networks \cup {NoNet}]
    /\ link \in [Ports -> [net : Networks, port : LocalPorts] \cup {NoLink}]
    /\ peer \in [Networks -> [LocalPorts -> 0..MaxPort]]
    /\ rules \in [Networks -> 0..(MaxDeaths + 1)]
    /\ remade \in [Networks -> 0..MaxDeaths]
    /\ faults \in 0..MaxFaults
    /\ deaths \in 0..MaxDeaths

(* With stacking, whatever else is created, deleted or restored at the     *)
(* same time, FAUCET's two ends of a network's link are the two ends of    *)
(* the network's own patch port (the stack interfaces the create handler   *)
(* writes).                                                                *)
LinksAgree ==
    using = "stack" =>
        \A n \in Networks : net[n] = "live" =>
            /\ lport[n] # 0 /\ sport[n] # 0
            /\ peer[n][lport[n]] = sport[n]
            /\ link[sport[n]] = Link(n, lport[n])

(* With a mirror bridge, what a network mirrors is tagged with that        *)
(* network's VLAN and no other's, although numbers on the mirror bridge    *)
(* are reused and the flows of deleted networks stay there.                *)
MirrorTagged ==
    using = "mirror" =>
        \A n \in Networks : net[n] = "live" => sport[n] # 0 /\ flow[sport[n]] = n

(* When Docker is told that a network is deleted, its patch port is gone,  *)
(* FAUCET has no datapath for it, and at most one MASQUERADE rule is left  *)
(* for every time its bridge was recreated (InitBridge inserts a rule      *)
(* again, the delete handler deletes one).                                 *)
DeleteIsClean ==
    \A n \in Networks : net[n] = "gone" =>
        /\ sport[n] = 0 /\ lport[n] = 0
        /\ \A l \in LocalPorts : peer[n][l] = 0
        /\ rules[n] <= remade[n]
=============================================================================
