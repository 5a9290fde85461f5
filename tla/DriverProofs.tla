---------------------------- MODULE DriverProofs ----------------------------
(***************************************************************************)
(* Proofs about Driver, for any number of networks, endpoints and failures *)
(* and any channel capacity: type correctness, the accounting of           *)
(* createDeleteNetworkWG, and that a Join that got past it finds its       *)
(* network.                                                                *)
(***************************************************************************)
EXTENDS Driver, FiniteSetTheorems, TLAPS

CreateMsg(n) == Msg("create", n)
DeleteMsg(n) == Msg("delete", n)

(* A network's operations are outstanding only once its call got to the     *)
(* send; a network that resourceManager neither recorded, failed on nor     *)
(* deleted still has its create outstanding.                               *)
CreateSent(n) == netCall[n] \notin {"absent", "refused", "bridged", "createAdded"}

NetPhase ==
    \A n \in Networks :
        /\ Outstanding(CreateMsg(n)) => CreateSent(n)
        /\ Outstanding(DeleteMsg(n)) => netCall[n] \in {"deleteSent", "gone"}
        /\ DeleteMsg(n) \in replied => netCall[n] \in {"deleteSent", "gone"}
        /\ /\ CreateSent(n)
           /\ n \notin networks \cup failed
           /\ DeleteMsg(n) \notin replied
           => Outstanding(CreateMsg(n))

(* No create or delete is outstanding twice.                               *)
UniqueNetMsgs ==
    \A i \in 1..Len(opChan) : opChan[i] \in NetMsgs =>
        /\ opChan[i] # cur
        /\ \A j \in 1..Len(opChan) : opChan[j] = opChan[i] => j = i

(* An endpoint in use keeps its network registered, and a Join about to     *)
(* read d.networks will find it there.                                     *)
EndpointPhase ==
    \A e \in Endpoints :
        /\ epCall[e] \notin {"absent", "gone"} => netCall[NetOf[e]] = "live"
        /\ epCall[e] = "joinRead" => NetOf[e] \in networks \cup failed

IInv ==
    /\ TypeOK
    /\ WaitGroupExact
    /\ NetPhase
    /\ UniqueNetMsgs
    /\ EndpointPhase
    /\ JoinSeesNetwork

-----------------------------------------------------------------------------
(* A message tells its operation and what it is about.                     *)
LEMMA MsgInjective ==
    \A a, b, x, y : Msg(a, x) = Msg(b, y) => a = b /\ x = y
BY DEF Msg

(* There are finitely many create and delete messages, so the tickets can   *)
(* be counted.                                                             *)
LEMMA NetMsgsFinite == IsFiniteSet(NetMsgs)
<1> DEFINE D == {"create", "delete"} \X Networks
           f == [p \in D |-> Msg(p[1], p[2])]
<1>1. IsFiniteSet({"create", "delete"})
  <2>1. IsFiniteSet({"create"} \cup {"delete"})
    BY FS_Singleton, FS_AddElement, Zenon
  <2>2. {"create", "delete"} = {"create"} \cup {"delete"}
    OBVIOUS
  <2> QED BY <2>1, <2>2
<1>2. IsFiniteSet(D)
  BY <1>1, FS_Product, DriverAssumption
<1>3. f \in Surjection(D, NetMsgs)
  <2>1. f \in [D -> NetMsgs]
    BY DEF NetMsgs, Msg
  <2>2. ASSUME NEW m \in NetMsgs
        PROVE  \E p \in D : f[p] = m
    <3>1. <<m.op, m.id>> \in D
      BY DEF NetMsgs
    <3>2. f[<<m.op, m.id>>] = m
      BY <3>1 DEF NetMsgs, Msg
    <3> QED BY <3>1, <3>2
  <2> QED BY <2>1, <2>2, Zenon DEF Surjection
<1> QED BY <1>2, <1>3, FS_Surjection

(* Only finitely many creates and deletes are announced at any time.       *)
LEMMA TicketsFinite == IsFiniteSet(Tickets)
<1>1. Tickets \in SUBSET NetMsgs
  BY DEF Tickets
<1> QED BY <1>1, NetMsgsFinite, FS_Subset

(* What a send does to the channel: the message is outstanding, everything  *)
(* else is as before.                                                      *)
LEMMA AfterSend ==
    ASSUME TypeOK, NEW m \in Messages, Send(m), cur' = cur
    PROVE  /\ opChan' \in Seq(Messages)
           /\ \A x : Outstanding(x)' <=> Outstanding(x) \/ x = m
           /\ UniqueNetMsgs /\ ~Outstanding(m) => UniqueNetMsgs'
           /\ UniqueNetMsgs /\ m \notin NetMsgs => UniqueNetMsgs'
<1>1. opChan \in Seq(Messages) /\ opChan' = Append(opChan, m)
  BY DEF TypeOK, Send
<1>2. /\ opChan' \in Seq(Messages)
      /\ Len(opChan) \in Nat
      /\ Len(opChan') = Len(opChan) + 1
      /\ \A i \in 1..Len(opChan) : opChan'[i] = opChan[i]
      /\ opChan'[Len(opChan) + 1] = m
  BY <1>1
<1>3. \A x : Outstanding(x)' <=> Outstanding(x) \/ x = m
  <2> TAKE x
  <2>1. ASSUME Outstanding(x) PROVE Outstanding(x)'
    BY <1>2, <2>1 DEF Outstanding
  <2>2. ASSUME x = m PROVE Outstanding(x)'
    BY <1>2, <2>2 DEF Outstanding
  <2>3. ASSUME Outstanding(x)' PROVE Outstanding(x) \/ x = m
    BY <1>2, <2>3 DEF Outstanding
  <2> QED BY <2>1, <2>2, <2>3
<1>4. ASSUME UniqueNetMsgs, ~Outstanding(m) \/ m \notin NetMsgs
      PROVE  UniqueNetMsgs'
  <2> SUFFICES ASSUME NEW i \in 1..Len(opChan'), opChan'[i] \in NetMsgs
               PROVE  /\ opChan'[i] # cur
                      /\ \A j \in 1..Len(opChan') : opChan'[j] = opChan'[i] => j = i
    BY DEF UniqueNetMsgs, NetMsgs
  <2>1. CASE i \in 1..Len(opChan)
    BY <1>2, <1>4, <2>1 DEF UniqueNetMsgs, Outstanding
  <2>2. CASE i = Len(opChan) + 1
    BY <1>2, <1>4, <2>2 DEF UniqueNetMsgs, Outstanding
  <2> QED BY <1>2, <2>1, <2>2
<1> QED BY <1>2, <1>3, <1>4

(* Receiving a message keeps it outstanding: it moves from the channel to   *)
(* resourceManager.                                                        *)
LEMMA AfterReceive ==
    ASSUME TypeOK, RmReceive
    PROVE  /\ opChan' \in Seq(Messages)
           /\ cur' \in Messages
           /\ \A x : x # NoOp => (Outstanding(x)' <=> Outstanding(x))
           /\ UniqueNetMsgs => UniqueNetMsgs'
<1>1. /\ opChan \in Seq(Messages) /\ opChan # <<>> /\ cur = NoOp
      /\ opChan' = Tail(opChan) /\ cur' = Head(opChan)
  BY DEF TypeOK, RmReceive
<1>2. /\ opChan' \in Seq(Messages)
      /\ Len(opChan) \in Nat \ {0}
      /\ Len(opChan') = Len(opChan) - 1
      /\ \A i \in 1..Len(opChan') : opChan'[i] = opChan[i + 1]
      /\ cur' = opChan[1]
      /\ cur' \in Messages
  BY <1>1
<1>3. ASSUME NEW x, x # NoOp PROVE Outstanding(x)' <=> Outstanding(x)
  <2>1. ASSUME Outstanding(x) PROVE Outstanding(x)'
    <3>1. PICK i \in 1..Len(opChan) : opChan[i] = x
      BY <1>1, <1>3, <2>1 DEF Outstanding
    <3>2. CASE i = 1
      BY <1>2, <3>1, <3>2 DEF Outstanding
    <3>3. CASE i # 1
      <4>1. i - 1 \in 1..Len(opChan') /\ opChan'[i - 1] = x
        BY <1>2, <3>1, <3>3
      <4> QED BY <4>1 DEF Outstanding
    <3> QED BY <3>2, <3>3
  <2>2. ASSUME Outstanding(x)' PROVE Outstanding(x)
    BY <1>2, <2>2 DEF Outstanding
  <2> QED BY <2>1, <2>2
<1>4. ASSUME UniqueNetMsgs PROVE UniqueNetMsgs'
  BY <1>2, <1>4 DEF UniqueNetMsgs, NetMsgs
<1> QED BY <1>2, <1>3, <1>4

(* A handled create or delete is no longer outstanding, and nothing else    *)
(* changes.                                                                *)
LEMMA AfterNetworkOp ==
    ASSUME TypeOK, UniqueNetMsgs, cur \in NetMsgs, cur' = NoOp, opChan' = opChan
    PROVE  /\ \A x \in NetMsgs : Outstanding(x)' <=> Outstanding(x) /\ x # cur
           /\ UniqueNetMsgs'
<1>1. \A x \in NetMsgs : x # NoOp
  BY DEF NetMsgs, NoOp, Msg
<1> QED BY <1>1 DEF Outstanding, UniqueNetMsgs, NetMsgs

(* Steps that leave the channel and resourceManager alone, or finish an     *)
(* operation that is neither create nor delete.                            *)
LEMMA AfterOther ==
    ASSUME UniqueNetMsgs, opChan' = opChan, cur' = cur \/ (cur \notin NetMsgs /\ cur' = NoOp)
    PROVE  /\ \A x \in NetMsgs : Outstanding(x)' <=> Outstanding(x)
           /\ UniqueNetMsgs'
<1>1. \A x \in NetMsgs : x # NoOp
  BY DEF NetMsgs, NoOp, Msg
<1> QED BY <1>1 DEF Outstanding, UniqueNetMsgs, NetMsgs

-----------------------------------------------------------------------------
(* A step that keeps the outstanding creates and deletes, their counter and *)
(* the recorded networks keeps the accounting.                             *)
LEMMA Frame ==
    ASSUME IInv,
           \A x \in NetMsgs : Outstanding(x)' <=> Outstanding(x),
           UNCHANGED <<wg, netCall, networks>>,
           failed \subseteq failed',
           Up' => Up,
           \A n \in Networks : DeleteMsg(n) \in replied' <=> DeleteMsg(n) \in replied
    PROVE  WaitGroupExact' /\ NetPhase'
<1>1. Tickets' = Tickets
  BY DEF Tickets, AddedNotSent
<1>2. WaitGroupExact'
  BY <1>1 DEF IInv, WaitGroupExact
<1>3. \A n \in Networks : CreateMsg(n) \in NetMsgs /\ DeleteMsg(n) \in NetMsgs
  BY DEF NetMsgs, CreateMsg, DeleteMsg, Msg
<1>4. NetPhase'
  BY <1>3 DEF IInv, NetPhase, CreateSent
<1> QED BY <1>2, <1>4

(* Past Wait with the counter at zero, a live network has been created, or  *)
(* its creation failed: no create is outstanding.                          *)
LEMMA WaitPassed ==
    ASSUME IInv, Up, wg = 0, NEW n \in Networks, netCall[n] = "live"
    PROVE  n \in networks \cup failed
<1>1. Tickets = {}
  BY TicketsFinite, FS_EmptySet DEF IInv, WaitGroupExact
<1>2. CreateMsg(n) \in NetMsgs
  BY DEF NetMsgs, CreateMsg, Msg
<1>3. ~Outstanding(CreateMsg(n))
  BY <1>1, <1>2 DEF Tickets
<1>4. DeleteMsg(n) \notin replied
  BY Zenon DEF IInv, NetPhase
<1> QED BY <1>3, <1>4 DEF IInv, NetPhase, CreateSent

(* Docker's calls on endpoints, in the goroutines that serve them.         *)
LEMMA EndpointCallStep ==
    ASSUME IInv, NEW e \in Endpoints, EndpointCalls(e) \/ EndpointCallSteps(e)
    PROVE  IInv'
<1> USE DEF EndpointCalls, EndpointCallSteps, CreateEndpoint, Join, Leave, DeleteEndpoint,
            CreateEndpointSend, JoinWake, JoinRead, JoinReadRace, JoinSend, LeaveSend,
            LeaveReturn, EpStep, rm
<1> DEFINE ToSend == \E op \in {"reserveport", "join", "leave"} : Send(Msg(op, e))
<1>1. /\ Up
      /\ ToSend \/ opChan' = opChan
      /\ UNCHANGED <<cur, wg, netCall, networks, failed, replied, OFPorts, dps, bridges,
                     faults, quitting>>
  BY Zenon
<1>2. /\ \A x \in NetMsgs : Outstanding(x)' <=> Outstanding(x)
      /\ UniqueNetMsgs'
      /\ opChan' \in Seq(Messages)
  <2>1. CASE ToSend
    <3>1. PICK op \in {"reserveport", "join", "leave"} : Send(Msg(op, e))
      BY <2>1, Zenon
    <3>2. Msg(op, e) \in Messages /\ Msg(op, e) \notin NetMsgs
      BY DEF Messages, NetMsgs, EpMsgs, Msg
    <3> HIDE DEF EndpointCalls, EndpointCallSteps
    <3> QED BY <1>1, <3>1, <3>2, AfterSend, Zenon DEF IInv
  <2>2. CASE opChan' = opChan
    <3> HIDE DEF EndpointCalls, EndpointCallSteps
    <3> QED BY <1>1, <2>2, AfterOther DEF IInv, TypeOK
  <2> QED BY <1>1, <2>1, <2>2, Zenon
<1>3. WaitGroupExact' /\ NetPhase'
  <2> HIDE DEF EndpointCalls, EndpointCallSteps
  <2> QED BY <1>1, <1>2, Frame
<1>4. TypeOK'
  <2>1. epCall' \in [Endpoints -> EpStates]
    BY ZenonT(40) DEF IInv, TypeOK, EpStates
  <2>3. joinNs' \in [Endpoints -> BOOLEAN]
    <3>1. joinNs' = joinNs \/ joinNs' = [joinNs EXCEPT ![e] = NetOf[e] \in networks]
      BY Zenon
    <3>2. (NetOf[e] \in networks) \in BOOLEAN
      OBVIOUS
    <3> HIDE DEF EndpointCalls, EndpointCallSteps
    <3> QED BY <3>1, <3>2, Zenon DEF IInv, TypeOK
  <2>2. proc' \in {"up", "exited", "crashed"}
    BY Zenon DEF IInv, TypeOK
  <2> HIDE DEF EndpointCalls, EndpointCallSteps
  <2> QED BY <1>1, <1>2, <2>1, <2>2, <2>3 DEF IInv, TypeOK
<1>5. NetOf[e] \in Networks
  BY DriverAssumption, Zenon
<1>6. EndpointPhase'
  <2>1. epCall'[e] \notin {"absent", "gone"} => netCall[NetOf[e]] = "live"
    BY Zenon DEF IInv, TypeOK, EndpointPhase
  <2>2. epCall'[e] = "joinRead" => NetOf[e] \in networks \cup failed
    <3>1. CASE wg = 0 /\ (Join(e) \/ JoinWake(e))
      <4>1. netCall[NetOf[e]] = "live"
        BY <3>1, Zenon DEF IInv, EndpointPhase
      <4> QED BY <1>1, <1>5, <3>1, <4>1, WaitPassed, ZenonT(40)
    <3>2. CASE ~(wg = 0 /\ (Join(e) \/ JoinWake(e)))
      BY <3>2, ZenonT(40) DEF IInv, TypeOK, EndpointPhase
    <3> QED BY <3>1, <3>2, Zenon
  <2>3. \A f \in Endpoints \ {e} : epCall'[f] = epCall[f]
    BY Zenon DEF IInv, TypeOK
  <2> HIDE DEF EndpointCalls, EndpointCallSteps
  <2> QED BY <1>1, <2>1, <2>2, <2>3, Zenon DEF IInv, EndpointPhase
<1>7. JoinSeesNetwork'
  <2>1. epCall'[e] \in {"joinSend", "joined", "leaveSend", "leaveWait"} =>
            joinNs'[e] \/ NetOf[e] \in failed
    BY ZenonT(40) DEF IInv, TypeOK, EndpointPhase, JoinSeesNetwork
  <2>2. \A f \in Endpoints \ {e} : epCall'[f] = epCall[f] /\ joinNs'[f] = joinNs[f]
    BY ZenonT(40) DEF IInv, TypeOK
  <2> HIDE DEF EndpointCalls, EndpointCallSteps
  <2> QED BY <1>1, <2>1, <2>2, ZenonT(40) DEF IInv, JoinSeesNetwork
<1> QED BY <1>2, <1>3, <1>4, <1>6, <1>7, ZenonT(40) DEF IInv

(* Docker's calls on networks.                                             *)
LEMMA NetworkCallStep ==
    ASSUME IInv, NEW n \in Networks, NetworkCalls(n) \/ NetworkCallSteps(n)
    PROVE  IInv'
<1> USE DEF NetworkCalls, NetworkCallSteps, CreateNetwork, CreateNetworkRefused,
            CreateNetworkFatal, CreateNetworkAdd, CreateNetworkSend, CreateNetworkReturn, DeleteNetwork,
            DeleteNetworkSend, DeleteNetworkReturn, NetStep, rm
<1> DEFINE Sent(op) == Send(Msg(op, n))
           Added(op) == wg' = wg + 1 /\ opChan' = opChan
<1>1. /\ Up
      /\ UNCHANGED <<cur, networks, failed, replied, OFPorts, dps, epCall, joinNs, quitting>>
      /\ proc' \in {proc, "crashed"}
      /\ netCall' = [netCall EXCEPT ![n] = netCall'[n]]
      /\ netCall'[n] \in NetStates
      /\ bridges' \subseteq Networks
      /\ faults' \in 0..MaxFaults
  <2>1. /\ Up
        /\ UNCHANGED <<cur, networks, failed, replied, OFPorts, dps, epCall, joinNs, quitting>>
        /\ proc' \in {proc, "crashed"}
    BY Zenon
  <2>2. /\ \E s \in NetStates : netCall' = [netCall EXCEPT ![n] = s]
        /\ bridges' = bridges \/ bridges' = bridges \cup {n}
        /\ faults' = faults \/ Fault
    BY DEF NetStates
  <2> HIDE DEF NetworkCalls, NetworkCallSteps
  <2>3. bridges' \subseteq Networks
    BY <2>2 DEF IInv, TypeOK
  <2>4. faults' \in 0..MaxFaults
    BY <2>2, DriverAssumption DEF IInv, TypeOK, Fault, CanFail
  <2>5. netCall' = [netCall EXCEPT ![n] = netCall'[n]] /\ netCall'[n] \in NetStates
    BY <2>2, Zenon DEF IInv, TypeOK
  <2> QED BY <2>1, <2>3, <2>4, <2>5, Zenon
<1>2. /\ CreateMsg(n) \in NetMsgs /\ DeleteMsg(n) \in NetMsgs
      /\ CreateMsg(n) \in Messages /\ DeleteMsg(n) \in Messages
      /\ \A x \in NetMsgs : /\ x.id \in Networks
                            /\ x.id = n /\ x.op = "create" => x = CreateMsg(n)
                            /\ x.id = n /\ x.op = "delete" => x = DeleteMsg(n)
      /\ \A k \in Networks : CreateMsg(k) \in NetMsgs /\ DeleteMsg(k) \in NetMsgs
      /\ \A k \in Networks : CreateMsg(k) # DeleteMsg(n) /\ DeleteMsg(k) # CreateMsg(n)
      /\ \A k \in Networks : k # n => CreateMsg(k) # CreateMsg(n) /\ DeleteMsg(k) # DeleteMsg(n)
      /\ CreateMsg(n).op = "create" /\ DeleteMsg(n).op = "delete"
      /\ CreateMsg(n).id = n /\ DeleteMsg(n).id = n
  BY DEF NetMsgs, Messages, CreateMsg, DeleteMsg, Msg
<1>3. /\ netCall \in [Networks -> NetStates]
      /\ netCall' \in [Networks -> NetStates]
      /\ \A k \in Networks : k # n => netCall'[k] = netCall[k]
  BY <1>1 DEF IInv, TypeOK
<1>4. CASE Sent("create") /\ netCall[n] = "createAdded" /\ netCall'[n] = "createSent" /\ wg' = wg
  <2> HIDE DEF NetworkCalls, NetworkCallSteps
  <2>1. ~Outstanding(CreateMsg(n))
    BY <1>4, Zenon DEF IInv, NetPhase, CreateSent
  <2>2. /\ \A x : Outstanding(x)' <=> Outstanding(x) \/ x = CreateMsg(n)
        /\ UniqueNetMsgs' /\ opChan' \in Seq(Messages)
    BY <1>1, <1>2, <1>4, <2>1, AfterSend DEF IInv, CreateMsg
  <2>3. Tickets' = Tickets
    BY <1>2, <1>3, <1>4, <2>2, ZenonT(40) DEF Tickets, AddedNotSent
  <2>4. NetPhase'
    BY <1>1, <1>2, <1>3, <1>4, <2>2 DEF IInv, NetPhase, CreateSent
  <2>5. EndpointPhase' /\ JoinSeesNetwork'
    BY <1>1, <1>3, <1>4, DriverAssumption DEF IInv, EndpointPhase, JoinSeesNetwork
  <2>6. TypeOK'
    BY <1>1, <1>3, <1>4, <2>2, Zenon DEF IInv, TypeOK
  <2> QED BY <1>1, <1>4, <2>2, <2>3, <2>4, <2>5, <2>6 DEF IInv, WaitGroupExact
<1>5. CASE Sent("delete") /\ netCall[n] = "deleteAdded" /\ netCall'[n] = "deleteSent" /\ wg' = wg
  <2> HIDE DEF NetworkCalls, NetworkCallSteps
  <2>1. ~Outstanding(DeleteMsg(n))
    BY <1>5, Zenon DEF IInv, NetPhase
  <2>2. /\ \A x : Outstanding(x)' <=> Outstanding(x) \/ x = DeleteMsg(n)
        /\ UniqueNetMsgs' /\ opChan' \in Seq(Messages)
    BY <1>1, <1>2, <1>5, <2>1, AfterSend, ZenonT(40) DEF IInv, DeleteMsg
  <2>3. Tickets' = Tickets
    BY <1>2, <1>3, <1>5, <2>2, Zenon DEF Tickets, AddedNotSent
  <2>4. NetPhase'
    BY <1>1, <1>2, <1>3, <1>5, <2>2 DEF IInv, NetPhase, CreateSent
  <2>5. EndpointPhase' /\ JoinSeesNetwork'
    BY <1>1, <1>3, <1>5, DriverAssumption DEF IInv, EndpointPhase, JoinSeesNetwork
  <2>6. TypeOK'
    BY <1>1, <1>3, <1>5, <2>2, Zenon DEF IInv, TypeOK
  <2> QED BY <1>1, <1>5, <2>2, <2>3, <2>4, <2>5, <2>6 DEF IInv, WaitGroupExact
<1>6. CASE Added("create") /\ netCall[n] = "bridged" /\ netCall'[n] = "createAdded"
  <2> HIDE DEF NetworkCalls, NetworkCallSteps
  <2>1. (\A x \in NetMsgs : Outstanding(x)' <=> Outstanding(x)) /\ UniqueNetMsgs'
    BY <1>1, <1>6, AfterOther, Zenon DEF IInv
  <2>2. CreateMsg(n) \notin Tickets
    BY <1>2, <1>6, Zenon DEF IInv, NetPhase, CreateSent, Tickets, AddedNotSent
  <2>3. Tickets' = Tickets \cup {CreateMsg(n)}
    BY <1>2, <1>3, <1>6, <2>1, ZenonT(40) DEF Tickets, AddedNotSent
  <2>4. WaitGroupExact'
    <3>1. Cardinality(Tickets') = Cardinality(Tickets) + 1
      BY <2>2, <2>3, TicketsFinite, FS_AddElement, ZenonT(40)
    <3> QED BY <1>1, <1>6, <3>1, Zenon DEF IInv, WaitGroupExact
  <2>5. NetPhase'
    BY <1>1, <1>2, <1>3, <1>6, <2>1, ZenonT(40) DEF IInv, NetPhase, CreateSent
  <2>6. EndpointPhase' /\ JoinSeesNetwork'
    BY <1>1, <1>3, <1>6, DriverAssumption DEF IInv, EndpointPhase, JoinSeesNetwork
  <2>7. TypeOK'
    BY <1>1, <1>3, <1>6 DEF IInv, TypeOK
  <2> QED BY <2>1, <2>4, <2>5, <2>6, <2>7, ZenonT(40) DEF IInv
<1>7. CASE Added("delete") /\ netCall[n] = "live" /\ netCall'[n] = "deleteAdded" /\ Unused(n)
  <2> HIDE DEF NetworkCalls, NetworkCallSteps
  <2>1. (\A x \in NetMsgs : Outstanding(x)' <=> Outstanding(x)) /\ UniqueNetMsgs'
    BY <1>1, <1>7, AfterOther, Zenon DEF IInv
  <2>2. DeleteMsg(n) \notin Tickets
    BY <1>2, <1>7 DEF IInv, NetPhase, Tickets, AddedNotSent
  <2>3. Tickets' = Tickets \cup {DeleteMsg(n)}
    BY <1>2, <1>3, <1>7, <2>1, Zenon DEF Tickets, AddedNotSent
  <2>4. WaitGroupExact'
    <3>1. Cardinality(Tickets') = Cardinality(Tickets) + 1
      BY <2>2, <2>3, TicketsFinite, FS_AddElement
    <3> QED BY <1>1, <1>7, <3>1 DEF IInv, WaitGroupExact
  <2>5. NetPhase'
    BY <1>1, <1>2, <1>3, <1>7, <2>1 DEF IInv, NetPhase, CreateSent
  <2>6. EndpointPhase' /\ JoinSeesNetwork'
    BY <1>1, <1>3, <1>7, DriverAssumption DEF IInv, EndpointPhase, JoinSeesNetwork, Unused
  <2>7. TypeOK'
    BY <1>1, <1>3, <1>7 DEF IInv, TypeOK
  <2> QED BY <2>1, <2>4, <2>5, <2>6, <2>7 DEF IInv
<1>8. CASE /\ UNCHANGED <<opChan, wg>>
           /\ \/ netCall[n] = "absent" /\ netCall'[n] \in {"bridged", "refused"}
              \/ netCall[n] = "createSent" /\ netCall'[n] = "live"
              \/ netCall[n] = "deleteSent" /\ netCall'[n] = "gone"
  <2> HIDE DEF NetworkCalls, NetworkCallSteps
  <2>1. (\A x \in NetMsgs : Outstanding(x)' <=> Outstanding(x)) /\ UniqueNetMsgs'
    BY <1>1, <1>8, AfterOther, Zenon DEF IInv
  <2>2. Tickets' = Tickets
    BY <1>2, <1>3, <1>8, <2>1 DEF Tickets, AddedNotSent, NetMsgs
  <2>3. NetPhase'
    BY <1>1, <1>2, <1>3, <1>8, <2>1 DEF IInv, NetPhase, CreateSent
  <2>4. EndpointPhase' /\ JoinSeesNetwork'
    BY <1>1, <1>3, <1>8, DriverAssumption DEF IInv, EndpointPhase, JoinSeesNetwork
  <2>5. TypeOK'
    BY <1>1, <1>3, <1>8 DEF IInv, TypeOK
  <2> QED BY <1>1, <1>8, <2>1, <2>2, <2>3, <2>4, <2>5 DEF IInv, WaitGroupExact
<1> QED BY <1>3, <1>4, <1>5, <1>6, <1>7, <1>8, Zenon

(* mustHandleCreateNetwork and mustHandleDeleteNetwork, every way they end. *)
LEMMA NetworkOpStep ==
    ASSUME IInv, NEW n \in Networks, HandleNetworkOp(n)
    PROVE  IInv'
<1> USE DEF HandleNetworkOp, HandleCreate, HandleCreateFail, HandleDelete, HandleDeleteFail,
            HandleDeleteFatal, HandleDeleteUnknown, Handling, world
<1> DEFINE Fatal == proc' = "crashed" /\ UNCHANGED <<wg, epCall>>
           Creating == cur = CreateMsg(n)
           Deleting == cur = DeleteMsg(n)
<1>1. /\ Up /\ cur' = NoOp
      /\ Creating \/ Deleting
      /\ UNCHANGED <<opChan, OFPorts, netCall, joinNs, quitting>>
      /\ Fatal \/ (Done /\ UNCHANGED proc)
      /\ failed \subseteq failed' /\ failed' \subseteq failed \cup {n}
      /\ replied \subseteq replied' /\ replied' \subseteq replied \cup {cur}
      /\ networks \ {n} \subseteq networks' /\ networks' \subseteq networks \cup {n}
      /\ Creating => networks \subseteq networks' /\ n \in networks' \cup failed' /\ replied' = replied
      /\ Deleting => n \in networks' \/ networks' = networks \/ DeleteMsg(n) \in replied'
      /\ bridges' \subseteq bridges /\ dps' \subseteq dps \cup {n}
  BY DEF CreateMsg, DeleteMsg, Msg
<1>2. faults' \in 0..MaxFaults
  BY DriverAssumption, SMTT(30) DEF IInv, TypeOK, Fault, CanFail
<1> HIDE DEF HandleNetworkOp
<1>3. /\ CreateMsg(n) \in NetMsgs /\ DeleteMsg(n) \in NetMsgs
      /\ cur \in NetMsgs
      /\ cur.id = n
      /\ Creating => cur.op = "create"
      /\ Deleting => cur.op = "delete"
      /\ \A k \in Networks : CreateMsg(k) \in NetMsgs /\ DeleteMsg(k) \in NetMsgs
      /\ \A k \in Networks : CreateMsg(k) # DeleteMsg(n) /\ DeleteMsg(k) # CreateMsg(n)
      /\ \A k \in Networks : k # n => CreateMsg(k) # CreateMsg(n) /\ DeleteMsg(k) # DeleteMsg(n)
  BY <1>1 DEF NetMsgs, CreateMsg, DeleteMsg, Msg
<1>4. /\ \A x \in NetMsgs : Outstanding(x)' <=> Outstanding(x) /\ x # cur
      /\ UniqueNetMsgs'
  BY <1>1, <1>3, AfterNetworkOp DEF IInv
<1>5. Outstanding(cur)
  BY Zenon DEF Outstanding
<1>6. ~AddedNotSent(cur)
  BY <1>1, <1>3, <1>5, ZenonT(40) DEF IInv, NetPhase, CreateSent, AddedNotSent
<1>7. cur \in Tickets /\ Tickets' = Tickets \ {cur}
  BY <1>1, <1>3, <1>4, <1>5, <1>6, ZenonT(40) DEF Tickets, AddedNotSent
<1>8. /\ Cardinality(Tickets') = Cardinality(Tickets) - 1
      /\ Cardinality(Tickets') \in Nat
  <2>1. Cardinality(Tickets \ {cur}) = Cardinality(Tickets) - 1
    BY <1>7, TicketsFinite, FS_RemoveElement, Zenon
  <2>2. IsFiniteSet(Tickets \ {cur})
    BY TicketsFinite, FS_RemoveElement
  <2> QED BY <1>7, <2>1, <2>2, FS_CardinalityType, Zenon
<1>9. WaitGroupExact' /\ wg' \in Nat
  <2>1. CASE Fatal
    BY <2>1 DEF IInv, TypeOK, WaitGroupExact, Up
  <2>2. CASE Done /\ UNCHANGED proc
    BY <1>1, <1>8, <2>2, Zenon DEF IInv, TypeOK, WaitGroupExact, Done
  <2> QED BY <1>1, <2>1, <2>2
<1>10. NetPhase'
  BY <1>1, <1>3, <1>4, <1>5, ZenonT(40) DEF IInv, NetPhase, CreateSent
<1>11. /\ epCall' \in [Endpoints -> EpStates]
       /\ \A e \in Endpoints : \/ epCall'[e] = epCall[e]
                               \/ epCall[e] = "joinWait" /\ epCall'[e] = "joinWoken"
  BY <1>1, ZenonT(40) DEF IInv, TypeOK, Done, EpStates
<1>12. TypeOK'
  <2>1. /\ replied' \subseteq NetMsgs \cup EpMsgs /\ networks' \subseteq Networks
        /\ failed' \subseteq Networks \cup Endpoints
        /\ bridges' \subseteq Networks /\ dps' \subseteq Networks
    BY <1>1, <1>3, Zenon DEF IInv, TypeOK
  <2>2. proc' \in {"up", "exited", "crashed"}
    BY <1>1, Zenon DEF IInv, TypeOK
  <2> QED BY <1>1, <1>2, <1>9, <1>11, <2>1, <2>2, ZenonT(40) DEF IInv, TypeOK
<1>13. EndpointPhase'
  <2>1. Deleting => netCall[n] # "live"
    BY <1>5, Zenon DEF IInv, NetPhase
  <2> QED BY <1>1, <1>11, <2>1, DriverAssumption, ZenonT(40) DEF IInv, EndpointPhase
<1>14. JoinSeesNetwork'
  BY <1>1, <1>11 DEF IInv, JoinSeesNetwork
<1> QED BY <1>4, <1>9, <1>10, <1>12, <1>13, <1>14 DEF IInv

(* The reserveport, join and leave handlers.                               *)
LEMMA EndpointOpStep ==
    ASSUME IInv, NEW e \in Endpoints, HandleEndpointOp(e)
    PROVE  IInv'
<1> USE DEF HandleEndpointOp, HandleReservePort, HandleReservePortFail, HandleJoin,
            HandleJoinFail, HandleLeave, HandleLeaveFail, Handling, EpHandlerFrame
<1>1. /\ Up /\ cur' = NoOp /\ cur \in EpMsgs
      /\ UNCHANGED <<opChan, wg, networks, netCall, epCall, joinNs, bridges, quitting, proc>>
      /\ failed \subseteq failed' /\ failed' \subseteq failed \cup {e}
      /\ replied \subseteq replied' /\ replied' \subseteq replied \cup {cur}
  <2>1. \E op \in {"reserveport", "join", "leave"} : Handling(op, e)
    OBVIOUS
  <2>2. Up /\ cur' = NoOp /\ cur \in EpMsgs
    <3> HIDE DEF HandleEndpointOp
    <3> QED BY <2>1 DEF EpMsgs, Msg
  <2>3. EpHandlerFrame
    BY Zenon
  <2>4. failed' = failed \/ failed' = failed \cup {e}
    BY Zenon
  <2>5. replied' = replied \/ replied' = replied \cup {cur}
    BY Zenon
  <2> HIDE DEF HandleEndpointOp
  <2> QED BY <2>2, <2>3, <2>4, <2>5, Zenon
<1>2. OFPorts' \in [Endpoints -> PortStates]
  BY Zenon DEF IInv, TypeOK, PortStates
<1>3. dps' \subseteq Networks
  <2>1. dps' \subseteq dps \cup {NetOf[e]}
    BY Zenon DEF DpsWithInterface, DpsWithoutInterface
  <2> HIDE DEF HandleEndpointOp
  <2> QED BY <2>1, DriverAssumption DEF IInv, TypeOK
<1>4. faults' \in 0..MaxFaults
  <2>1. faults' = faults \/ Fault
    BY Zenon
  <2> HIDE DEF HandleEndpointOp
  <2> QED BY <2>1, DriverAssumption DEF IInv, TypeOK, Fault, CanFail
<1> HIDE DEF HandleEndpointOp
<1>5. EpMsgs \cap NetMsgs = {}
  BY DEF EpMsgs, NetMsgs
<1>6. (\A x \in NetMsgs : Outstanding(x)' <=> Outstanding(x)) /\ UniqueNetMsgs'
  BY <1>1, <1>5, AfterOther DEF IInv
<1>7. \A n \in Networks : DeleteMsg(n) \in replied' <=> DeleteMsg(n) \in replied
  <2>1. \A n \in Networks : DeleteMsg(n) \in NetMsgs
    BY DEF DeleteMsg, Msg, NetMsgs
  <2> QED BY <1>1, <1>5, <2>1
<1>8. WaitGroupExact' /\ NetPhase'
  BY <1>1, <1>6, <1>7, Frame, Zenon DEF Up
<1>9. TypeOK'
  BY <1>1, <1>2, <1>3, <1>4, Zenon DEF IInv, TypeOK
<1>10. EndpointPhase' /\ JoinSeesNetwork'
  BY <1>1 DEF IInv, EndpointPhase, JoinSeesNetwork
<1> QED BY <1>6, <1>8, <1>9, <1>10 DEF IInv

(* resourceManager taking the next operation, and the two halves of Quit.   *)
LEMMA ReceiveOrQuitStep ==
    ASSUME IInv, RmReceive \/ Quit \/ HandleQuit
    PROVE  IInv'
<1>1. /\ UNCHANGED <<wg, networks, OFPorts, replied, netCall, epCall, joinNs, bridges, dps,
                     failed, faults>>
      /\ Up /\ quitting' \in BOOLEAN /\ proc' \in {"up", "exited", "crashed"}
  BY Zenon DEF IInv, TypeOK, RmReceive, Quit, HandleQuit, Handling, rm, world
<1>2. /\ \A x \in NetMsgs : Outstanding(x)' <=> Outstanding(x)
      /\ UniqueNetMsgs'
      /\ opChan' \in Seq(Messages)
      /\ cur' \in Messages \cup {NoOp}
  <2>1. \A x \in NetMsgs : x # NoOp
    BY DEF NetMsgs, NoOp, Msg
  <2>2. CASE RmReceive
    BY <2>1, <2>2, AfterReceive DEF IInv
  <2>3. CASE Quit
    <3>1. Quitted \in Messages /\ Quitted \notin NetMsgs
      BY DEF Messages, Quitted, NetMsgs, Msg
    <3>2. Send(Quitted) /\ cur' = cur
      BY <2>3 DEF Quit, rm
    <3> QED BY <3>1, <3>2, AfterSend DEF IInv, TypeOK
  <2>4. CASE HandleQuit
    <3>1. cur \notin NetMsgs /\ cur' = NoOp /\ opChan' = opChan
      BY <2>4 DEF HandleQuit, Handling, NetMsgs, Msg
    <3> QED BY <3>1, AfterOther, Zenon DEF IInv, TypeOK
  <2> QED BY <2>2, <2>3, <2>4
<1>3. WaitGroupExact' /\ NetPhase'
  BY <1>1, <1>2, Frame, Zenon
<1>4. TypeOK'
  BY <1>1, <1>2, Zenon DEF IInv, TypeOK
<1>5. EndpointPhase' /\ JoinSeesNetwork'
  BY <1>1 DEF IInv, EndpointPhase, JoinSeesNetwork
<1> QED BY <1>2, <1>3, <1>4, <1>5, Zenon DEF IInv

(* IInv is an invariant of Driver: it holds initially, when nothing has     *)
(* been called, and every step of a plugin call or of resourceManager       *)
(* keeps it.                                                               *)
THEOREM Inductive == Spec => []IInv
<1>1. Init => IInv
  <2> SUFFICES ASSUME Init PROVE IInv
    OBVIOUS
  <2> USE DEF Init
  <2>1. \A x \in NetMsgs : ~Outstanding(x)
    <3>1. opChan = <<>> /\ cur = NoOp
      BY Zenon
    <3>2. \A x \in NetMsgs : x # NoOp
      BY DEF NetMsgs, NoOp, Msg
    <3>3. Len(opChan) = 0
      BY <3>1
    <3> HIDE DEF Init
    <3> QED BY <3>1, <3>2, <3>3 DEF Outstanding
  <2>2. Tickets = {}
    BY <2>1 DEF Tickets, AddedNotSent, NetMsgs
  <2>3. WaitGroupExact
    BY <2>2, FS_EmptySet, Zenon DEF WaitGroupExact
  <2>4. TypeOK
    <3>1. opChan \in Seq(Messages) /\ cur \in Messages \cup {NoOp} /\ faults \in 0..MaxFaults
      BY DriverAssumption
    <3>2. /\ OFPorts \in [Endpoints -> PortStates]
          /\ netCall \in [Networks -> NetStates]
          /\ epCall \in [Endpoints -> EpStates]
      BY DEF PortStates, NetStates, EpStates
    <3>3. joinNs \in [Endpoints -> BOOLEAN] /\ quitting \in BOOLEAN
      BY Zenon
    <3> QED BY <3>1, <3>2, <3>3, Zenon DEF TypeOK
  <2>5. NetPhase
    <3>1. \A n \in Networks : CreateMsg(n) \in NetMsgs /\ DeleteMsg(n) \in NetMsgs
      BY DEF NetMsgs, CreateMsg, DeleteMsg, Msg
    <3> QED BY <2>1, <3>1 DEF NetPhase, CreateSent
  <2>6. UniqueNetMsgs /\ EndpointPhase /\ JoinSeesNetwork
    BY DEF UniqueNetMsgs, EndpointPhase, JoinSeesNetwork
  <2> QED BY <2>3, <2>4, <2>5, <2>6 DEF IInv
<1>2. IInv /\ [Next]_vars => IInv'
  <2> SUFFICES ASSUME IInv, [Next]_vars PROVE IInv'
    OBVIOUS
  <2>1. CASE \E n \in Networks : NetworkCalls(n) \/ NetworkCallSteps(n)
    BY <2>1, NetworkCallStep
  <2>2. CASE \E e \in Endpoints : EndpointCalls(e) \/ EndpointCallSteps(e)
    BY <2>2, EndpointCallStep
  <2>3. CASE \E n \in Networks : HandleNetworkOp(n)
    BY <2>3, NetworkOpStep
  <2>4. CASE \E e \in Endpoints : HandleEndpointOp(e)
    BY <2>4, EndpointOpStep
  <2>5. CASE RmReceive \/ Quit \/ HandleQuit
    BY <2>5, ReceiveOrQuitStep
  <2>6. CASE UNCHANGED vars
    <3>1. UNCHANGED <<opChan, cur, wg, networks, replied, netCall, epCall, joinNs, failed, proc>>
      BY <2>6 DEF vars
    <3>2. (\A x \in NetMsgs : Outstanding(x)' <=> Outstanding(x)) /\ UniqueNetMsgs'
      BY <3>1, AfterOther, Zenon DEF IInv
    <3>3. WaitGroupExact' /\ NetPhase'
      BY <3>1, <3>2, Frame, Zenon DEF Up
    <3>4. TypeOK' /\ EndpointPhase' /\ JoinSeesNetwork'
      BY <2>6 DEF vars, IInv, TypeOK, EndpointPhase, JoinSeesNetwork
    <3> QED BY <3>2, <3>3, <3>4, Zenon DEF IInv
  <2> QED BY <2>1, <2>2, <2>3, <2>4, <2>5, <2>6 DEF Next, ResourceManager
<1> QED BY <1>1, <1>2, PTL DEF Spec

(* Every variable of the driver keeps its type; the WaitGroup counter, in   *)
(* particular, never goes negative, so that Done never panics.             *)
THEOREM TypeCorrect == Spec => []TypeOK
<1>1. IInv => TypeOK
  BY DEF IInv
<1> QED BY <1>1, Inductive, PTL

(* createDeleteNetworkWG counts exactly the creates and deletes announced   *)
(* and not finished, however handlers fail.                                *)
THEOREM WaitGroupCorrect == Spec => []WaitGroupExact
<1>1. IInv => WaitGroupExact
  BY DEF IInv
<1> QED BY <1>1, Inductive, PTL

(* A Join that got past Wait gives Docker the gateway of its network,       *)
(* unless resourceManager failed to create that network.                   *)
THEOREM JoinCorrect == Spec => []JoinSeesNetwork
<1>1. IInv => JoinSeesNetwork
  BY DEF IInv
<1> QED BY <1>1, Inductive, PTL

-----------------------------------------------------------------------------
(* No wake-up and no reply is lost.                                        *)

(* What a Leave and a DeleteNetwork that wait may count on, and a Join.    *)
LeaveAwaits(e) == Outstanding(Msg("leave", e)) \/ Msg("leave", e) \in replied
DeleteAwaits(n) == Outstanding(DeleteMsg(n)) \/ DeleteMsg(n) \in replied \/ n \in failed

Awaited ==
    Up => /\ \A e \in Endpoints : epCall[e] = "joinWait" => wg > 0
          /\ \A e \in Endpoints : epCall[e] = "leaveWait" => LeaveAwaits(e)
          /\ \A n \in Networks : netCall[n] = "deleteSent" => DeleteAwaits(n)

(* A step keeps it that begins no wait and takes nothing away that is      *)
(* waited for.                                                             *)
LEMMA AwaitedFrame ==
    ASSUME Awaited, Up' => Up,
           wg \in Nat, wg' \in Nat, wg' >= wg,
           \A e \in Endpoints : epCall'[e] = "joinWait" => epCall[e] = "joinWait",
           \A e \in Endpoints : epCall'[e] = "leaveWait" => epCall[e] = "leaveWait",
           \A n \in Networks : netCall'[n] = "deleteSent" => netCall[n] = "deleteSent",
           \A e \in Endpoints : LeaveAwaits(e) => LeaveAwaits(e)',
           \A n \in Networks : DeleteAwaits(n) => DeleteAwaits(n)'
    PROVE  Awaited'
<1>1. wg > 0 => wg' > 0
  OBVIOUS
<1> QED  BY <1>1, ZenonT(40) DEF Awaited

(* Docker's calls: a Join that has to wait finds the counter above zero,   *)
(* and the other two wait for what they have just sent.                    *)
LEMMA CallAwaited ==
    ASSUME IInv, IInv', Awaited,
           \/ \E n \in Networks : NetworkCalls(n) \/ NetworkCallSteps(n)
           \/ \E e \in Endpoints : EndpointCalls(e) \/ EndpointCallSteps(e)
    PROVE  Awaited'
<1>1. /\ TypeOK /\ wg \in Nat /\ wg' \in Nat
      /\ epCall \in [Endpoints -> EpStates] /\ netCall \in [Networks -> NetStates]
  BY DEF IInv, TypeOK
<1>2. ASSUME NEW m \in Messages, Send(m), cur' = cur, UNCHANGED <<replied, failed>>
      PROVE  /\ \A e \in Endpoints : LeaveAwaits(e)' <=> LeaveAwaits(e) \/ m = Msg("leave", e)
             /\ \A n \in Networks : DeleteAwaits(n)' <=> DeleteAwaits(n) \/ m = DeleteMsg(n)
  <2>1. \A x : Outstanding(x)' <=> Outstanding(x) \/ x = m
    BY <1>1, <1>2, AfterSend, Zenon
  <2> QED  BY <1>2, <2>1, Zenon DEF LeaveAwaits, DeleteAwaits
<1>3. ASSUME UNCHANGED <<opChan, cur, replied, failed>>
      PROVE  /\ \A e \in Endpoints : LeaveAwaits(e)' <=> LeaveAwaits(e)
             /\ \A n \in Networks : DeleteAwaits(n)' <=> DeleteAwaits(n)
  BY <1>3, Zenon DEF LeaveAwaits, DeleteAwaits, Outstanding
<1>4. ASSUME NEW n \in Networks,
             \/ CreateNetwork(n) \/ CreateNetworkRefused(n) \/ CreateNetworkFatal(n)
             \/ CreateNetworkAdd(n) \/ CreateNetworkReturn(n) \/ DeleteNetwork(n)
             \/ DeleteNetworkReturn(n)
      PROVE  Awaited'
  <2>1. /\ UNCHANGED <<opChan, cur, replied, failed, epCall>> /\ Up /\ wg' >= wg
        /\ \E to \in NetStates \ {"deleteSent"} : netCall' = [netCall EXCEPT ![n] = to]
    BY <1>1, <1>4 DEF CreateNetwork, CreateNetworkRefused, CreateNetworkFatal, CreateNetworkAdd,
         CreateNetworkReturn, DeleteNetwork, DeleteNetworkReturn, NetStep, rm, NetStates
  <2>2. \A k \in Networks : netCall'[k] = "deleteSent" => netCall[k] = "deleteSent"
    BY <1>1, <2>1, Zenon
  <2> QED  BY <1>1, <1>3, <2>1, <2>2, AwaitedFrame, Zenon
<1>5. ASSUME NEW n \in Networks, CreateNetworkSend(n) PROVE Awaited'
  <2>1. /\ Send(CreateMsg(n)) /\ UNCHANGED <<cur, replied, failed, epCall, wg>> /\ Up
        /\ netCall' = [netCall EXCEPT ![n] = "createSent"]
        /\ CreateMsg(n) \in Messages
    BY <1>5 DEF CreateNetworkSend, NetStep, rm, CreateMsg, Messages, NetMsgs, Msg
  <2>2. \A k \in Networks : netCall'[k] = "deleteSent" => netCall[k] = "deleteSent"
    BY <1>1, <2>1, Zenon
  <2> QED  BY <1>1, <1>2, <2>1, <2>2, AwaitedFrame
<1>6. ASSUME NEW n \in Networks, DeleteNetworkSend(n) PROVE Awaited'
  <2>1. /\ Send(DeleteMsg(n)) /\ UNCHANGED <<cur, replied, failed, epCall, wg, proc>> /\ Up
        /\ netCall' = [netCall EXCEPT ![n] = "deleteSent"]
        /\ DeleteMsg(n) \in Messages
    BY <1>6, Zenon DEF DeleteNetworkSend, NetStep, rm, DeleteMsg, Messages, NetMsgs, Msg
  <2>2. \A k \in Networks : netCall'[k] = "deleteSent" => netCall[k] = "deleteSent" \/ k = n
    BY <1>1, <2>1, Zenon
  <2> QED  BY <1>1, <1>2, <2>1, <2>2, Zenon DEF Awaited
<1>7. ASSUME NEW e \in Endpoints,
             \/ CreateEndpoint(e) \/ Leave(e) \/ DeleteEndpoint(e) \/ JoinWake(e) \/ JoinRead(e)
             \/ JoinReadRace(e) \/ LeaveReturn(e)
      PROVE  Awaited'
  <2>1. /\ UNCHANGED <<opChan, cur, replied, failed, netCall, wg>> /\ Up
        /\ \E to \in EpStates \ {"joinWait", "leaveWait"} : epCall' = [epCall EXCEPT ![e] = to]
    BY <1>7, ZenonT(40) DEF CreateEndpoint, Leave, DeleteEndpoint, JoinWake, JoinRead,
         JoinReadRace, LeaveReturn, EpStep, rm, EpStates
  <2>2. \A f \in Endpoints : epCall'[f] \in {"joinWait", "leaveWait"} => epCall'[f] = epCall[f]
    BY <1>1, <2>1, Zenon
  <2> QED  BY <1>1, <1>3, <2>1, <2>2, AwaitedFrame
<1>8. ASSUME NEW e \in Endpoints, Join(e) PROVE Awaited'
  <2>1. /\ UNCHANGED <<opChan, cur, replied, failed, netCall, wg, proc>> /\ Up
        /\ epCall' = [epCall EXCEPT ![e] = IF wg = 0 THEN "joinRead" ELSE "joinWait"]
    BY <1>8, Zenon DEF Join, EpStep, rm
  <2>2. \A f \in Endpoints : /\ epCall'[f] = "joinWait" => epCall[f] = "joinWait" \/ wg # 0
                             /\ epCall'[f] = "leaveWait" => epCall[f] = "leaveWait"
    BY <1>1, <2>1, Zenon
  <2> QED  BY <1>1, <1>3, <2>1, <2>2 DEF Awaited
<1>9. ASSUME NEW e \in Endpoints, CreateEndpointSend(e) \/ JoinSend(e) PROVE Awaited'
  <2>1. PICK m \in EpMsgs : /\ Send(m) /\ UNCHANGED <<cur, replied, failed, netCall, wg>> /\ Up
                            /\ \E to \in {"created", "joined"} : epCall' = [epCall EXCEPT ![e] = to]
    BY <1>9 DEF CreateEndpointSend, JoinSend, EpStep, rm, EpMsgs, Msg
  <2>2. \A f \in Endpoints : epCall'[f] \in {"joinWait", "leaveWait"} => epCall'[f] = epCall[f]
    BY <1>1, <2>1, Zenon
  <2>3. m \in Messages
    BY Zenon DEF Messages
  <2> QED  BY <1>1, <1>2, <2>1, <2>2, <2>3, AwaitedFrame
<1>10. ASSUME NEW e \in Endpoints, LeaveSend(e) PROVE Awaited'
  <2>1. /\ Send(Msg("leave", e)) /\ UNCHANGED <<cur, replied, failed, netCall, wg, proc>> /\ Up
        /\ epCall' = [epCall EXCEPT ![e] = "leaveWait"]
        /\ Msg("leave", e) \in Messages
    BY <1>10, Zenon DEF LeaveSend, EpStep, rm, Messages, EpMsgs, Msg
  <2>2. \A f \in Endpoints : /\ epCall'[f] = "leaveWait" => epCall[f] = "leaveWait" \/ f = e
                             /\ epCall'[f] = "joinWait" => epCall[f] = "joinWait"
    BY <1>1, <2>1
  <2> QED  BY <1>1, <1>2, <2>1, <2>2, Zenon DEF Awaited
<1> QED
  BY <1>4, <1>5, <1>6, <1>7, <1>8, <1>9, <1>10, ZenonT(40) DEF NetworkCalls, NetworkCallSteps,
     EndpointCalls, EndpointCallSteps

(* resourceManager: the Done that brings the counter to zero wakes every   *)
(* Join that waits, and a handler that ends an operation replies to it or, *)
(* for a delete, has failed.                                               *)
LEMMA HandlerAwaited ==
    ASSUME IInv, IInv', Awaited,
           \/ \E n \in Networks : HandleNetworkOp(n)
           \/ \E e \in Endpoints : HandleEndpointOp(e)
    PROVE  Awaited'
<1>1. wg \in Nat /\ wg' \in Nat /\ epCall \in [Endpoints -> EpStates]
  BY DEF IInv, TypeOK
<1>2. ASSUME opChan' = opChan, NEW x, x # cur PROVE Outstanding(x) => Outstanding(x)'
  BY <1>2, Zenon DEF Outstanding
<1>3. ASSUME NEW n \in Networks, HandleNetworkOp(n) PROVE Awaited'
  <2>1. /\ Up /\ UNCHANGED <<opChan, netCall>>
        /\ replied \subseteq replied' /\ failed \subseteq failed'
        /\ cur \in {CreateMsg(n), DeleteMsg(n)}
        /\ cur = DeleteMsg(n) /\ Up' => cur \in replied' \/ n \in failed'
        /\ Done \/ (UNCHANGED <<wg, epCall>>)
    <3>1. CASE HandleCreate(n) \/ HandleCreateFail(n)
      <4>1. cur = CreateMsg(n) /\ cur # DeleteMsg(n)
        BY <3>1, MsgInjective, ZenonT(40) DEF HandleCreate, HandleCreateFail, Handling,
           CreateMsg, DeleteMsg
      <4> QED  BY <3>1, <4>1, ZenonT(40) DEF HandleCreate, HandleCreateFail, Handling, world
    <3>2. CASE HandleDelete(n) \/ HandleDeleteFail(n)
      BY <3>2, ZenonT(40) DEF HandleDelete, HandleDeleteFail, Handling, DeleteMsg, world
    <3>3. CASE HandleDeleteFatal(n) \/ HandleDeleteUnknown(n)
      BY <3>3, ZenonT(40) DEF HandleDeleteFatal, HandleDeleteUnknown, Handling, DeleteMsg, Up, world
    <3> QED  BY <1>3, <3>1, <3>2, <3>3, Zenon DEF HandleNetworkOp
  <2>2. \A e \in Endpoints : Msg("leave", e) # cur
    BY <2>1, MsgInjective, Zenon DEF CreateMsg, DeleteMsg
  <2>3. \A e \in Endpoints : LeaveAwaits(e) => LeaveAwaits(e)'
    BY <1>2, <2>1, <2>2 DEF LeaveAwaits
  <2>4. ASSUME Up', NEW k \in Networks, DeleteAwaits(k) PROVE DeleteAwaits(k)'
    <3>1. CASE DeleteMsg(k) = cur
      <4>1. k = n /\ cur = DeleteMsg(n)
        BY <2>1, <3>1, MsgInjective DEF CreateMsg, DeleteMsg
      <4> QED  BY <2>1, <2>4, <4>1, Zenon DEF DeleteAwaits
    <3>2. CASE DeleteMsg(k) # cur
      BY <1>2, <2>1, <2>4, <3>2, Zenon DEF DeleteAwaits
    <3> QED  BY <3>1, <3>2, Zenon
  <2>5. \A e \in Endpoints : epCall'[e] = "leaveWait" => epCall[e] = "leaveWait"
    <3>1. CASE Done
      BY <3>1 DEF Done
    <3>2. CASE UNCHANGED epCall
      BY <3>2
    <3> QED  BY <2>1, <3>1, <3>2
  <2>6. ASSUME Up', NEW e \in Endpoints, epCall'[e] = "joinWait" PROVE wg' > 0
    <3>1. CASE Done
      <4>1. epCall[e] = "joinWait" /\ wg # 1 /\ wg' = wg - 1
        BY <2>6, <3>1, Zenon DEF Done
      <4>2. wg > 0
        BY <2>1, <4>1, Zenon DEF Awaited
      <4> QED  BY <1>1, <4>1, <4>2
    <3>2. CASE UNCHANGED <<wg, epCall>>
      BY <2>1, <2>6, <3>2, Zenon DEF Awaited
    <3> QED  BY <2>1, <3>1, <3>2, Zenon
  <2> QED  BY <2>1, <2>3, <2>4, <2>5, <2>6 DEF Awaited
<1>4. ASSUME NEW e \in Endpoints, HandleEndpointOp(e) PROVE Awaited'
  <2>1. /\ Up /\ UNCHANGED <<opChan, netCall, epCall, wg>>
        /\ replied \subseteq replied' /\ failed \subseteq failed'
        /\ \E op \in {"reserveport", "join", "leave"} : cur = Msg(op, e)
        /\ cur = Msg("leave", e) => cur \in replied'
    <3>1. CASE HandleReservePort(e) \/ HandleReservePortFail(e)
      <4>1. cur = Msg("reserveport", e) /\ cur # Msg("leave", e)
        BY <3>1, MsgInjective, ZenonT(40) DEF HandleReservePort, HandleReservePortFail, Handling
      <4> QED  BY <3>1, <4>1 DEF HandleReservePort, HandleReservePortFail, Handling, EpHandlerFrame
    <3>2. CASE HandleJoin(e) \/ HandleJoinFail(e)
      <4>1. cur = Msg("join", e) /\ cur # Msg("leave", e)
        BY <3>2, MsgInjective, ZenonT(40) DEF HandleJoin, HandleJoinFail, Handling
      <4> QED  BY <3>2, <4>1 DEF HandleJoin, HandleJoinFail, Handling, EpHandlerFrame
    <3>3. CASE HandleLeave(e) \/ HandleLeaveFail(e)
      BY <3>3 DEF HandleLeave, HandleLeaveFail, Handling, EpHandlerFrame
    <3> QED  BY <1>4, <3>1, <3>2, <3>3, Zenon DEF HandleEndpointOp
  <2>2. \A k \in Networks : DeleteMsg(k) # cur
    BY <2>1, MsgInjective, Zenon DEF DeleteMsg
  <2>3. \A k \in Networks : DeleteAwaits(k) => DeleteAwaits(k)'
    BY <1>2, <2>1, <2>2 DEF DeleteAwaits
  <2>4. ASSUME NEW f \in Endpoints, LeaveAwaits(f) PROVE LeaveAwaits(f)'
    <3>1. CASE Msg("leave", f) = cur
      <4>1. f = e
        BY <2>1, <3>1, MsgInjective
      <4> QED  BY <2>1, <3>1, <4>1, Zenon DEF LeaveAwaits
    <3>2. CASE Msg("leave", f) # cur
      BY <1>2, <2>1, <2>4, <3>2 DEF LeaveAwaits
    <3> QED  BY <3>1, <3>2
  <2> QED  BY <1>1, <2>1, <2>3, <2>4, AwaitedFrame
<1> QED  BY <1>3, <1>4, Zenon

(* Everyone who waits for createDeleteNetworkWG or for a reply is still    *)
(* to get it from an operation on its way: the safety half of JoinReturns, *)
(* LeaveReturns and DeleteReturns.                                         *)
THEOREM WaitersCorrect == Spec => []WaitersHaveWork
<1>1. Init => Awaited
  BY DEF Init, Awaited
<1>2. IInv /\ IInv' /\ Awaited /\ [Next]_vars => Awaited'
  <2> SUFFICES ASSUME IInv, IInv', Awaited, [Next]_vars PROVE Awaited'
    OBVIOUS
  <2>1. CASE RmReceive \/ Quit \/ HandleQuit \/ UNCHANGED vars
    <3>1. UNCHANGED <<wg, replied, failed, netCall, epCall>> /\ (Up' => Up)
      BY <2>1 DEF RmReceive, Quit, HandleQuit, Handling, rm, vars, Up
    <3>2. \A x \in NetMsgs \cup EpMsgs : Outstanding(x) => Outstanding(x)'
      <4>1. NoOp \notin NetMsgs \cup EpMsgs /\ Quitted \notin NetMsgs \cup EpMsgs /\ Quitted \in Messages
        BY DEF NoOp, Quitted, NetMsgs, EpMsgs, Messages, Msg
      <4>2. CASE RmReceive
        BY <4>1, <4>2, AfterReceive, Zenon DEF IInv
      <4>3. CASE Quit
        BY <4>1, <4>3, AfterSend, Zenon DEF IInv, Quit, rm
      <4>4. CASE HandleQuit
        <5>1. opChan' = opChan /\ cur = Quitted
          BY <4>4, Zenon DEF HandleQuit, Handling, Quitted
        <5> QED  BY <4>1, <5>1 DEF Outstanding
      <4>5. CASE UNCHANGED vars
        BY <4>5 DEF vars, Outstanding
      <4> QED  BY <2>1, <4>2, <4>3, <4>4, <4>5, Zenon
    <3>3. /\ \A e \in Endpoints : Msg("leave", e) \in EpMsgs
          /\ \A n \in Networks : DeleteMsg(n) \in NetMsgs
      BY DEF EpMsgs, NetMsgs, DeleteMsg, Msg
    <3>4. /\ \A e \in Endpoints : LeaveAwaits(e) => LeaveAwaits(e)'
          /\ \A n \in Networks : DeleteAwaits(n) => DeleteAwaits(n)'
      BY <3>1, <3>2, <3>3, Zenon DEF LeaveAwaits, DeleteAwaits
    <3>5. wg \in Nat
      BY Zenon DEF IInv, TypeOK
    <3> QED  BY <3>1, <3>4, <3>5, AwaitedFrame
  <2> QED  BY <2>1, CallAwaited, HandlerAwaited DEF Next, ResourceManager
<1>3. IInv /\ Awaited => WaitersHaveWork
  <2> SUFFICES ASSUME IInv, Awaited PROVE WaitersHaveWork
    OBVIOUS
  <2>1. Up /\ wg > 0 => Tickets # {}
    BY TicketsFinite, FS_EmptySet DEF IInv, WaitGroupExact
  <2> QED  BY <2>1 DEF Awaited, WaitersHaveWork, LeaveAwaits, DeleteAwaits, DeleteMsg
<1> QED  BY <1>1, <1>2, <1>3, Inductive, PTL DEF Spec

=============================================================================
