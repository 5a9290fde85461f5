------------------------------- MODULE Driver -------------------------------
(***************************************************************************)
(* The concurrency core of dovesnap (src/ovs/driver.go): the plugin calls  *)
(* Docker makes, each served by its own goroutine; the bounded channel     *)
(* dovesnapOpChan; the single resourceManager goroutine that consumes it;  *)
(* the WaitGroup createDeleteNetworkWG that holds Join back; the reply     *)
(* channels on which Leave and DeleteNetwork block; and Quit.              *)
(*                                                                         *)
(* What a handler does to OVS, FAUCET and the kernel is abstracted to the  *)
(* facts the ordering properties need: which bridges and FAUCET DPs exist, *)
(* which networks d.networks holds and how far an endpoint got in OFPorts. *)
(***************************************************************************)
EXTENDS Naturals, Sequences, FiniteSets

CONSTANTS
    Networks,   \* Docker network IDs
    Endpoints,  \* Docker endpoint IDs
    NetOf,      \* the network an endpoint belongs to
    ChanSize,   \* capacity of dovesnapOpChan (chanSize, 64 in the code)
    MaxFaults   \* bound on failed external calls (OVS, FAUCET, Docker)

ASSUME DriverAssumption ==
    /\ IsFiniteSet(Networks)
    /\ NetOf \in [Endpoints -> Networks]
    /\ ChanSize \in Nat \ {0}
    /\ MaxFaults \in Nat

VARIABLES
    opChan,     \* d.dovesnapOpChan
    cur,        \* the operation resourceManager is executing
    wg,         \* the counter of d.createDeleteNetworkWG
    networks,   \* the keys of d.networks
    OFPorts,    \* resourceManager's OFPorts map
    replied,    \* operations whose Reply channel holds a reply
    netCall,    \* where Docker's calls for a network are
    epCall,     \* where Docker's calls for an endpoint are
    joinNs,     \* did Join find its network in d.networks
    bridges,    \* networks whose OVS bridge exists
    dps,        \* networks with a DP in FAUCET's configuration
    failed,     \* networks and endpoints a handler failed for (history)
    faults,     \* external failures so far
    quitting,   \* Quit has been called
    proc        \* the dovesnap process

vars == <<opChan, cur, wg, networks, OFPorts, replied, netCall, epCall, joinNs,
          bridges, dps, failed, faults, quitting, proc>>

world == <<bridges, dps>>

-----------------------------------------------------------------------------
(* DovesnapOp messages. id is the NetworkID or the EndpointID.             *)

Msg(op, id) == [op |-> op, id |-> id]

NetMsgs == [op : {"create", "delete"}, id : Networks]
EpMsgs == [op : {"reserveport", "join", "leave"}, id : Endpoints]
Quitted == Msg("quit", "none")
NoOp == Msg("none", "none")

NetStates == {"absent", "refused", "bridged", "createAdded", "createSent",
              "live", "deleteAdded", "deleteSent", "gone"}

EpStates == {"absent", "veth", "created", "joinWait", "joinWoken", "joinRead",
             "joinSend", "joinFailed", "joined", "leaveSend", "leaveWait",
             "left", "gone"}

(* Docker can inspect a network once CreateNetwork has returned.           *)
Registered(n) == netCall[n] \in {"live", "deleteAdded", "deleteSent"}

(* Docker does not delete a network that has endpoints.                    *)
Unused(n) == \A e \in Endpoints : NetOf[e] = n => epCall[e] \in {"absent", "gone"}

Up == proc = "up"

Send(m) == /\ Len(opChan) < ChanSize
           /\ opChan' = Append(opChan, m)

CanFail == faults < MaxFaults

Fault == /\ CanFail
         /\ faults' = faults + 1

Init ==
    /\ opChan = <<>>
    /\ cur = NoOp
    /\ wg = 0
    /\ networks = {}
    /\ OFPorts = [e \in Endpoints |-> "none"]
    /\ replied = {}
    /\ netCall = [n \in Networks |-> "absent"]
    /\ epCall = [e \in Endpoints |-> "absent"]
    /\ joinNs = [e \in Endpoints |-> FALSE]
    /\ bridges = {}
    /\ dps = {}
    /\ failed = {}
    /\ faults = 0
    /\ quitting = FALSE
    /\ proc = "up"

-----------------------------------------------------------------------------
(* Plugin calls on networks: ReOrCreateNetwork(r, "create"), DeleteNetwork. *)

rm == <<cur, networks, OFPorts, replied, dps, failed>>

NetStep(n, from, to) == /\ Up
                        /\ netCall[n] = from
                        /\ netCall' = [netCall EXCEPT ![n] = to]

(* Options are valid and InitBridge succeeded.                             *)
CreateNetwork(n) ==
    /\ NetStep(n, "absent", "bridged")
    /\ bridges' = bridges \cup {n}
    /\ UNCHANGED <<rm, opChan, wg, epCall, joinNs, faults, quitting, proc>>

(* An option is refused or InitBridge panics; createBridge removes the     *)
(* bridge when it fails itself, a later step of InitBridge does not.       *)
CreateNetworkRefused(n) ==
    /\ NetStep(n, "absent", "refused")
    /\ Fault
    /\ bridges' \in {bridges, bridges \cup {n}}
    /\ UNCHANGED <<rm, opChan, wg, epCall, joinNs, quitting, proc>>

(* initBridge finds no address on the bridge, or natOut("-I") fails:       *)
(* log.Fatalf ends the process.                                            *)
CreateNetworkFatal(n) ==
    /\ NetStep(n, "absent", "refused")
    /\ Fault
    /\ bridges' = bridges \cup {n}
    /\ proc' = "crashed"
    /\ UNCHANGED <<rm, opChan, wg, epCall, joinNs, quitting>>

CreateNetworkAdd(n) ==
    /\ NetStep(n, "bridged", "createAdded")
    /\ wg' = wg + 1
    /\ UNCHANGED <<rm, opChan, epCall, joinNs, bridges, faults, quitting, proc>>

CreateNetworkSend(n) ==
    /\ NetStep(n, "createAdded", "createSent")
    /\ Send(Msg("create", n))
    /\ UNCHANGED <<rm, wg, epCall, joinNs, bridges, faults, quitting, proc>>

(* The call returns and Docker registers the network.                      *)
CreateNetworkReturn(n) ==
    /\ NetStep(n, "createSent", "live")
    /\ UNCHANGED <<rm, opChan, wg, epCall, joinNs, bridges, faults, quitting, proc>>

DeleteNetwork(n) ==
    /\ NetStep(n, "live", "deleteAdded")
    /\ Unused(n)
    /\ wg' = wg + 1
    /\ UNCHANGED <<rm, opChan, epCall, joinNs, bridges, faults, quitting, proc>>

(* Variant: Wait is called before the send.                                *)
DeleteNetworkSendWaits(n) ==
    /\ NetStep(n, "deleteAdded", "deleteSent")
    /\ wg = 0
    /\ Send(Msg("delete", n))
    /\ UNCHANGED <<rm, wg, epCall, joinNs, bridges, faults, quitting, proc>>

DeleteNetworkSend(n) ==
    /\ NetStep(n, "deleteAdded", "deleteSent")
    /\ Send(Msg("delete", n))
    /\ UNCHANGED <<rm, wg, epCall, joinNs, bridges, faults, quitting, proc>>

DeleteNetworkReturn(n) ==
    /\ NetStep(n, "deleteSent", "gone")
    /\ Msg("delete", n) \in replied
    /\ UNCHANGED <<rm, opChan, wg, epCall, joinNs, bridges, faults, quitting, proc>>

-----------------------------------------------------------------------------
(* Plugin calls on endpoints: CreateEndpoint, Join, Leave, DeleteEndpoint. *)

EpStep(e, from, to) == /\ Up
                       /\ epCall[e] = from
                       /\ epCall' = [epCall EXCEPT ![e] = to]

CreateEndpoint(e) ==
    /\ EpStep(e, "absent", "veth")
    /\ netCall[NetOf[e]] = "live"
    /\ UNCHANGED <<rm, opChan, wg, netCall, joinNs, bridges, faults, quitting, proc>>

(* Variant: the send gives up when the channel is full.                    *)
CreateEndpointSendOrDrop(e) ==
    /\ EpStep(e, "veth", "created")
    /\ IF Len(opChan) < ChanSize THEN Send(Msg("reserveport", e)) ELSE UNCHANGED opChan
    /\ UNCHANGED <<rm, wg, netCall, joinNs, bridges, faults, quitting, proc>>

CreateEndpointSend(e) ==
    /\ EpStep(e, "veth", "created")
    /\ Send(Msg("reserveport", e))
    /\ UNCHANGED <<rm, wg, netCall, joinNs, bridges, faults, quitting, proc>>

(* Variant: Join does not wait.                                            *)
JoinNoWait(e) ==
    /\ EpStep(e, "created", "joinRead")
    /\ UNCHANGED <<rm, opChan, wg, netCall, joinNs, bridges, faults, quitting, proc>>

(* createDeleteNetworkWG.Wait(): passes at zero, otherwise the goroutine   *)
(* becomes a waiter that the Done reaching zero wakes.                     *)
Join(e) ==
    /\ EpStep(e, "created", IF wg = 0 THEN "joinRead" ELSE "joinWait")
    /\ UNCHANGED <<rm, opChan, wg, netCall, joinNs, bridges, faults, quitting, proc>>

(* A woken waiter panics when the WaitGroup is in use again ("WaitGroup is *)
(* reused before previous Wait has returned"); the HTTP server recovers    *)
(* the panic and Docker sees the Join call fail.                           *)
JoinWake(e) ==
    /\ EpStep(e, "joinWoken", IF wg = 0 THEN "joinRead" ELSE "joinFailed")
    /\ UNCHANGED <<rm, opChan, wg, netCall, joinNs, bridges, faults, quitting, proc>>

(* Variant: Join looks again until the network is there.                   *)
JoinReadSpins(e) ==
    /\ EpStep(e, "joinRead", "joinSend")
    /\ NetOf[e] \in networks
    /\ joinNs' = [joinNs EXCEPT ![e] = TRUE]
    /\ UNCHANGED <<rm, opChan, wg, netCall, bridges, faults, quitting, proc>>

(* ns := d.networks[r.NetworkID], without synchronisation.                 *)
JoinRead(e) ==
    /\ EpStep(e, "joinRead", "joinSend")
    /\ joinNs' = [joinNs EXCEPT ![e] = NetOf[e] \in networks]
    /\ UNCHANGED <<rm, opChan, wg, netCall, bridges, faults, quitting, proc>>

(* The read overlaps a handler that writes d.networks: the Go runtime may  *)
(* stop the process ("concurrent map read and map write").                 *)
WritesNetworks(m) == m.op \in {"create", "delete"}

JoinReadRace(e) ==
    /\ EpStep(e, "joinRead", "joinRead")
    /\ WritesNetworks(cur)
    /\ proc' = "crashed"
    /\ UNCHANGED <<rm, opChan, wg, netCall, joinNs, bridges, faults, quitting>>

JoinSend(e) ==
    /\ EpStep(e, "joinSend", "joined")
    /\ Send(Msg("join", e))
    /\ UNCHANGED <<rm, wg, netCall, joinNs, bridges, faults, quitting, proc>>

Leave(e) ==
    /\ EpStep(e, "joined", "leaveSend")
    /\ UNCHANGED <<rm, opChan, wg, netCall, joinNs, bridges, faults, quitting, proc>>

LeaveSend(e) ==
    /\ EpStep(e, "leaveSend", "leaveWait")
    /\ Send(Msg("leave", e))
    /\ UNCHANGED <<rm, wg, netCall, joinNs, bridges, faults, quitting, proc>>

LeaveReturn(e) ==
    /\ EpStep(e, "leaveWait", "left")
    /\ Msg("leave", e) \in replied
    /\ UNCHANGED <<rm, opChan, wg, netCall, joinNs, bridges, faults, quitting, proc>>

(* The driver does nothing here. Docker also calls it for an endpoint      *)
(* whose container never joined.                                           *)
DeleteEndpoint(e) ==
    /\ \E from \in {"created", "joinFailed", "left"} : EpStep(e, from, "gone")
    /\ UNCHANGED <<rm, opChan, wg, netCall, joinNs, bridges, faults, quitting, proc>>

-----------------------------------------------------------------------------
(* resourceManager: one operation at a time, in channel order.             *)

RmReceive ==
    /\ Up
    /\ cur = NoOp
    /\ opChan # <<>>
    /\ cur' = Head(opChan)
    /\ opChan' = Tail(opChan)
    /\ UNCHANGED <<wg, networks, OFPorts, replied, netCall, epCall, joinNs, world,
                   failed, faults, quitting, proc>>

Handling(op, id) == /\ Up
                    /\ cur = Msg(op, id)
                    /\ cur' = NoOp

(* Variant: Done is called twice for one Add.                              *)
DoneTwice ==
    /\ wg' = wg - 2
    /\ epCall' = [e \in Endpoints |-> IF wg = 2 /\ epCall[e] = "joinWait"
                                       THEN "joinWoken" ELSE epCall[e]]

(* createDeleteNetworkWG.Done(), deferred: it also runs after a panic.      *)
Done ==
    /\ wg' = wg - 1
    /\ epCall' = [e \in Endpoints |-> IF wg = 1 /\ epCall[e] = "joinWait"
                                       THEN "joinWoken" ELSE epCall[e]]

HandleCreate(n) ==
    /\ Handling("create", n)
    /\ Registered(n)
    /\ networks' = networks \cup {n}
    /\ dps' = dps \cup {n}
    /\ Done
    /\ UNCHANGED <<opChan, OFPorts, replied, netCall, joinNs, bridges, failed, faults,
                   quitting, proc>>

(* Variant: Done is not deferred, a panic skips it.                        *)
HandleCreateFailNoDone(n) ==
    /\ Handling("create", n)
    /\ Fault
    /\ failed' = failed \cup {n}
    /\ UNCHANGED <<opChan, wg, networks, OFPorts, replied, netCall, epCall, joinNs, world,
                   quitting, proc>>

(* A panic: while inspecting the network (nothing is recorded), before the *)
(* FAUCET configuration is set, or after it (an ACL or mirror call).       *)
HandleCreateFail(n) ==
    /\ Handling("create", n)
    /\ Fault
    /\ \/ UNCHANGED <<networks, dps>>
       \/ /\ Registered(n)
          /\ networks' = networks \cup {n}
          /\ dps' \in {dps, dps \cup {n}}
    /\ failed' = failed \cup {n}
    /\ Done
    /\ UNCHANGED <<opChan, OFPorts, replied, netCall, joinNs, bridges, quitting, proc>>

(* Variant: the network stays in d.networks.                               *)
HandleDeleteKeepsNetwork(n) ==
    /\ Handling("delete", n)
    /\ n \in networks
    /\ dps' = dps \ {n}
    /\ bridges' = bridges \ {n}
    /\ replied' = replied \cup {cur}
    /\ Done
    /\ UNCHANGED <<opChan, networks, OFPorts, netCall, joinNs, failed, faults, quitting, proc>>

HandleDelete(n) ==
    /\ Handling("delete", n)
    /\ n \in networks
    /\ dps' = dps \ {n}
    /\ bridges' = bridges \ {n}
    /\ networks' = networks \ {n}
    /\ replied' = replied \cup {cur}
    /\ Done
    /\ UNCHANGED <<opChan, OFPorts, netCall, joinNs, failed, faults, quitting, proc>>

(* Variant: the reply is sent from the deferred function, as in Leave.     *)
HandleDeleteFailReplies(n) ==
    /\ Handling("delete", n)
    /\ n \in networks
    /\ Fault
    /\ dps' \in {dps, dps \ {n}}
    /\ failed' = failed \cup {n}
    /\ replied' = replied \cup {cur}
    /\ Done
    /\ UNCHANGED <<opChan, networks, OFPorts, netCall, joinNs, bridges, quitting, proc>>

(* A panic on the way, in mustDeleteDp or in mustDeleteBridgeAndPorts: no   *)
(* reply is sent.                                                          *)
HandleDeleteFail(n) ==
    /\ Handling("delete", n)
    /\ n \in networks
    /\ Fault
    /\ dps' \in {dps, dps \ {n}}
    /\ failed' = failed \cup {n}
    /\ Done
    /\ UNCHANGED <<opChan, networks, OFPorts, replied, netCall, joinNs, bridges, quitting,
                   proc>>

(* natOut("-D") fails: log.Fatalf ends the process.                        *)
HandleDeleteFatal(n) ==
    /\ Handling("delete", n)
    /\ n \in networks
    /\ Fault
    /\ dps' = dps \ {n}
    /\ proc' = "crashed"
    /\ UNCHANGED <<opChan, wg, networks, OFPorts, replied, netCall, epCall, joinNs, bridges,
                   failed, quitting>>

(* The network is not in d.networks: the zero NetworkState names no bridge, *)
(* ovs-vsctl del-br fails and the handler panics before the reply.         *)
HandleDeleteUnknown(n) ==
    /\ Handling("delete", n)
    /\ n \notin networks
    /\ failed' = failed \cup {n}
    /\ Done
    /\ UNCHANGED <<opChan, networks, OFPorts, replied, netCall, joinNs, world, faults,
                   quitting, proc>>

EpHandlerFrame ==
    UNCHANGED <<opChan, wg, networks, netCall, epCall, joinNs, bridges, quitting, proc>>

(* Values of OFPorts: no entry, an entry without a container, a container  *)
(* on its port, a container for which no port had been reserved.           *)
PortStates == {"none", "reserved", "joined", "portless"}

Attached(e) == OFPorts[e] \in {"joined", "portless"}

(* FAUCET's configuration after an interface of e's network is merged in,   *)
(* and after one is deleted: DeleteEmptyDp drops a DP without interfaces.  *)
DpsWithInterface(e) == dps \cup {NetOf[e]}
DpsWithoutInterface(e) ==
    IF \E f \in Endpoints \ {e} : NetOf[f] = NetOf[e] /\ Attached(f)
    THEN {dps} ELSE {dps, dps \ {NetOf[e]}}

HandleReservePort(e) ==
    /\ Handling("reserveport", e)
    /\ NetOf[e] \in networks
    /\ OFPorts' = [OFPorts EXCEPT ![e] = "reserved"]
    /\ UNCHANGED <<replied, dps, failed, faults>>
    /\ EpHandlerFrame

(* OVS fails, or the network is unknown.                                   *)
HandleReservePortFail(e) ==
    /\ Handling("reserveport", e)
    /\ IF NetOf[e] \in networks THEN Fault ELSE UNCHANGED faults
    /\ failed' = failed \cup {e}
    /\ UNCHANGED <<OFPorts, replied, dps>>
    /\ EpHandlerFrame

(* The handler does not look whether the port was reserved: a missing      *)
(* entry reads as OFPort 0.                                                *)
HandleJoin(e) ==
    /\ Handling("join", e)
    /\ NetOf[e] \in networks
    /\ OFPorts' = [OFPorts EXCEPT ![e] = IF @ = "none" THEN "portless" ELSE "joined"]
    /\ dps' = DpsWithInterface(e)
    /\ UNCHANGED <<replied, failed, faults>>
    /\ EpHandlerFrame

(* An external call fails; the network is unknown; or Docker is already    *)
(* tearing the container down and the bounded inspect retries run out.     *)
HandleJoinFail(e) ==
    /\ Handling("join", e)
    /\ IF NetOf[e] \in networks /\ epCall[e] = "joined" THEN Fault ELSE UNCHANGED faults
    /\ dps' \in {dps} \cup (IF NetOf[e] \in networks THEN {DpsWithInterface(e)} ELSE {})
    /\ failed' = failed \cup {e}
    /\ UNCHANGED <<OFPorts, replied>>
    /\ EpHandlerFrame

(* Variant: the entry of OFPorts stays, without its container.             *)
HandleLeaveKeepsEntry(e) ==
    /\ Handling("leave", e)
    /\ OFPorts[e] = "joined"
    /\ NetOf[e] \in networks
    /\ OFPorts' = [OFPorts EXCEPT ![e] = "reserved"]
    /\ dps' \in DpsWithoutInterface(e)
    /\ replied' = replied \cup {cur}
    /\ UNCHANGED <<failed, faults>>
    /\ EpHandlerFrame

HandleLeave(e) ==
    /\ Handling("leave", e)
    /\ OFPorts[e] = "joined"
    /\ NetOf[e] \in networks
    /\ OFPorts' = [OFPorts EXCEPT ![e] = "none"]
    /\ dps' \in DpsWithoutInterface(e)
    /\ replied' = replied \cup {cur}
    /\ UNCHANGED <<failed, faults>>
    /\ EpHandlerFrame

(* Variant: the reply is sent at the end of the handler only.              *)
HandleLeaveFailNoReply(e) ==
    /\ Handling("leave", e)
    /\ IF OFPorts[e] = "joined" /\ NetOf[e] \in networks THEN Fault ELSE UNCHANGED faults
    /\ failed' = failed \cup {e}
    /\ UNCHANGED <<OFPorts, replied, dps>>
    /\ EpHandlerFrame

(* Nothing was reserved ("was not Join()d"), or no port existed; Join       *)
(* failed, so the saved containerInspect is empty and reading it panics,   *)
(* after the port is gone; or an external call fails. The deferred         *)
(* function replies all the same.                                          *)
HandleLeaveFail(e) ==
    /\ Handling("leave", e)
    /\ IF OFPorts[e] = "joined" /\ NetOf[e] \in networks THEN Fault ELSE UNCHANGED faults
    /\ dps' \in {dps} \cup (IF OFPorts[e] # "none" THEN DpsWithoutInterface(e) ELSE {})
    /\ failed' = failed \cup {e}
    /\ replied' = replied \cup {cur}
    /\ UNCHANGED OFPorts
    /\ EpHandlerFrame

(* main on SIGTERM: Quit queues "quit" and waits for resourceManager.       *)
Quit ==
    /\ Up
    /\ ~quitting
    /\ quitting' = TRUE
    /\ Send(Quitted)
    /\ UNCHANGED <<rm, wg, netCall, epCall, joinNs, bridges, faults, proc>>

(* resourceManager returns, Quit returns, main calls os.Exit(0).           *)
HandleQuit ==
    /\ Handling("quit", "none")
    /\ proc' = "exited"
    /\ UNCHANGED <<opChan, wg, networks, OFPorts, replied, netCall, epCall, joinNs, world,
                   failed, faults, quitting>>

-----------------------------------------------------------------------------
NetworkCalls(n) ==
    \/ CreateNetwork(n) \/ CreateNetworkRefused(n) \/ CreateNetworkFatal(n)
    \/ DeleteNetwork(n)

NetworkCallSteps(n) ==
    \/ CreateNetworkAdd(n) \/ CreateNetworkSend(n) \/ CreateNetworkReturn(n)
    \/ DeleteNetworkSend(n) \/ DeleteNetworkReturn(n)

EndpointCalls(e) ==
    \/ CreateEndpoint(e) \/ Join(e) \/ Leave(e) \/ DeleteEndpoint(e)

EndpointCallSteps(e) ==
    \/ CreateEndpointSend(e) \/ JoinWake(e) \/ JoinRead(e) \/ JoinReadRace(e)
    \/ JoinSend(e) \/ LeaveSend(e) \/ LeaveReturn(e)

HandleNetworkOp(n) ==
    \/ HandleCreate(n) \/ HandleCreateFail(n)
    \/ HandleDelete(n) \/ HandleDeleteFail(n) \/ HandleDeleteFatal(n) \/ HandleDeleteUnknown(n)

HandleEndpointOp(e) ==
    \/ HandleReservePort(e) \/ HandleReservePortFail(e)
    \/ HandleJoin(e) \/ HandleJoinFail(e)
    \/ HandleLeave(e) \/ HandleLeaveFail(e)

ResourceManager ==
    \/ RmReceive
    \/ \E n \in Networks : HandleNetworkOp(n)
    \/ \E e \in Endpoints : HandleEndpointOp(e)
    \/ HandleQuit

Next ==
    \/ \E n \in Networks : NetworkCalls(n) \/ NetworkCallSteps(n)
    \/ \E e \in Endpoints : EndpointCalls(e) \/ EndpointCallSteps(e)
    \/ ResourceManager
    \/ Quit

Spec == Init /\ [][Next]_vars

(* Go schedules every runnable goroutine, and a plugin call that has begun  *)
(* runs on; Docker alone decides whether to make another call.             *)
Fairness ==
    /\ WF_vars(ResourceManager)
    /\ \A n \in Networks : WF_vars(NetworkCallSteps(n))
    /\ \A e \in Endpoints : WF_vars(EndpointCallSteps(e))

FairSpec == Spec /\ Fairness

-----------------------------------------------------------------------------
(* Properties.                                                             *)

Messages == NetMsgs \cup EpMsgs \cup {Quitted}

(* Every variable holds what the code can put there; in particular the     *)
(* WaitGroup counter is never negative, which would panic in Done.         *)
TypeOK ==
    /\ opChan \in Seq(Messages)
    /\ cur \in Messages \cup {NoOp}
    /\ wg \in Nat
    /\ networks \subseteq Networks
    /\ OFPorts \in [Endpoints -> PortStates]
    /\ replied \subseteq NetMsgs \cup EpMsgs
    /\ netCall \in [Networks -> NetStates]
    /\ epCall \in [Endpoints -> EpStates]
    /\ joinNs \in [Endpoints -> BOOLEAN]
    /\ bridges \subseteq Networks
    /\ dps \subseteq Networks
    /\ failed \subseteq Networks \cup Endpoints
    /\ faults \in 0..MaxFaults
    /\ quitting \in BOOLEAN
    /\ proc \in {"up", "exited", "crashed"}

Outstanding(m) == cur = m \/ \E i \in 1..Len(opChan) : opChan[i] = m

AddedNotSent(m) ==
    \/ m.op = "create" /\ netCall[m.id] = "createAdded"
    \/ m.op = "delete" /\ netCall[m.id] = "deleteAdded"

Tickets == {m \in NetMsgs : Outstanding(m) \/ AddedNotSent(m)}

(* createDeleteNetworkWG counts exactly the create and delete operations   *)
(* that were announced with Add and are not finished: every path through   *)
(* the two handlers, panics included, calls Done once.                     *)
WaitGroupExact == Up => wg = Cardinality(Tickets)

(* What createDeleteNetworkWG is for: a Join that got past Wait finds its   *)
(* network in d.networks, so that Docker is given the network's gateway,    *)
(* unless resourceManager failed to create the network.                    *)
JoinSeesNetwork ==
    \A e \in Endpoints :
        epCall[e] \in {"joinSend", "joined", "leaveSend", "leaveWait"} =>
            joinNs[e] \/ NetOf[e] \in failed

(* The channel keeps each endpoint's operations in an order the handlers    *)
(* can work with, whatever the goroutines that send them do: a port is      *)
(* reserved on a network that exists, a container joins on a reserved       *)
(* port, leaves after it joined, and a network is deleted after its         *)
(* containers left, unless an earlier handler failed.                      *)
HandlersInOrder ==
    LET e == cur.id IN
    /\ cur.op = "reserveport" => NetOf[e] \in networks \cup failed
    /\ cur.op = "join" => OFPorts[e] = "reserved" \/ e \in failed
    /\ cur.op = "leave" => OFPorts[e] = "joined" \/ e \in failed
    /\ cur.op = "delete" =>
            /\ e \in networks \cup failed
            /\ \A f \in Endpoints : NetOf[f] = e /\ Attached(f) => f \in failed

(* "network deletes now blocking to avoid leaked veths or other resources": *)
(* once DeleteNetwork is answered the network has no bridge, no DP and no   *)
(* entry in d.networks, and nothing still queued can bring them back.      *)
DeleteReplyIsClean ==
    \A n \in Networks : Msg("delete", n) \in replied =>
        /\ n \notin networks \cup bridges \cup dps
        /\ \A m \in EpMsgs : NetOf[m.id] = n => ~Outstanding(m)

(* Nobody waits for nothing: a Join is held back only while a create or a   *)
(* delete is unfinished, so that a Done is still to come, and a Leave or    *)
(* DeleteNetwork waits for an operation that resourceManager still has to   *)
(* handle or has replied to, unless it failed to delete the network.       *)
WaitersHaveWork ==
    Up => /\ \A e \in Endpoints :
                /\ epCall[e] = "joinWait" => Tickets # {}
                /\ epCall[e] = "leaveWait" =>
                        Outstanding(Msg("leave", e)) \/ Msg("leave", e) \in replied
          /\ \A n \in Networks : netCall[n] = "deleteSent" =>
                Outstanding(Msg("delete", n)) \/ Msg("delete", n) \in replied \/ n \in failed

(* A Leave call returns, whatever fails while it is handled: the reply is   *)
(* sent from the deferred function.                                        *)
LeaveReturns ==
    \A e \in Endpoints : epCall[e] = "leaveSend" ~> epCall[e] = "left" \/ ~Up

(* A DeleteNetwork call returns, whatever fails for other networks and for  *)
(* endpoints; a panic while the network itself is created or deleted        *)
(* leaves the call without a reply.                                        *)
DeleteReturns ==
    \A n \in Networks :
        netCall[n] = "deleteAdded" ~> netCall[n] = "gone" \/ n \in failed \/ ~Up

(* A Join call held back by createDeleteNetworkWG is let go.               *)
JoinReturns ==
    \A e \in Endpoints :
        epCall[e] = "joinWait" ~> epCall[e] \in {"joined", "joinFailed"} \/ ~Up

(* "Use waitgroups to synchronize create/delete operations, including on    *)
(* exit": no create or delete is unfinished when the process exits.        *)
QuitDrains == proc = "exited" => wg = 0

-----------------------------------------------------------------------------
(* The service Driver provides, read off the state resourceManager owns.   *)

AnsweredDeletes == {n \in Networks : Msg("delete", n) \in replied}

EndpointProgress ==
    [e \in Endpoints |-> IF OFPorts[e] = "none" /\ Msg("leave", e) \in replied
                         THEN "gone" ELSE OFPorts[e]]

Service == INSTANCE NetworkService
    WITH up <- networks, removed <- AnsweredDeletes, att <- EndpointProgress,
         broken <- failed

(* resourceManager's bookkeeping goes through exactly the steps of          *)
(* NetworkService, although Docker's calls reach it from many goroutines    *)
(* and are answered before they are carried out; a handler that panics      *)
(* disturbs no network and no endpoint but its own.                        *)
ImplementsService == Service!SSpec

(* So a container whose join was handled has its network in d.networks,    *)
(* where the leave handler looks it up, until its leave was handled, and a *)
(* network that Docker was told is deleted is not put back, whatever fails *)
(* for other networks and endpoints.                                       *)
ServiceKept == Service!Promise

=============================================================================
