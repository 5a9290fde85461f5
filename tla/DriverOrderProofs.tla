-------------------------- MODULE DriverOrderProofs --------------------------
(***************************************************************************)
(* Proofs about Driver, continued, for any number of networks, endpoints   *)
(* and failures and any channel capacity: the operations reach             *)
(* resourceManager in an order its handlers can work with, an answered     *)
(* DeleteNetwork leaves nothing, and Driver implements NetworkService.     *)
(***************************************************************************)
EXTENDS DriverProofs

ReserveMsg(e) == Msg("reserveport", e)
JoinMsg(e) == Msg("join", e)
LeaveMsg(e) == Msg("leave", e)

Ops == NetMsgs \cup EpMsgs

(* The order in which operations must be sent: those of one endpoint as    *)
(* Docker calls them, all of them between their network's create and       *)
(* delete; and none twice.                                                 *)
Precedes(m, x) ==
    /\ m \in Ops
    /\ \/ m = x
       \/ m.op = "create" /\ x = DeleteMsg(m.id)
       \/ m.op = "create" /\ x \in EpMsgs /\ NetOf[x.id] = m.id
       \/ m.op = "reserveport" /\ x \in {JoinMsg(m.id), LeaveMsg(m.id)}
       \/ m.op = "join" /\ x = LeaveMsg(m.id)
       \/ m \in EpMsgs /\ x = DeleteMsg(NetOf[m.id])

(* The channel holds nothing that had to come before an operation ahead of *)
(* it.                                                                     *)
Order ==
    /\ \A j \in 1..Len(opChan) : ~ Precedes(opChan[j], cur)
    /\ \A i, j \in 1..Len(opChan) : i < j => ~ Precedes(opChan[j], opChan[i])

(* An endpoint's operation is outstanding, or answered, only once its call *)
(* got to the send.                                                        *)
Gone == {"leaveWait", "left", "gone"}
Returned(n) == netCall[n] \in {"live", "deleteAdded", "deleteSent", "gone"}

EpSent(e) ==
    /\ Outstanding(ReserveMsg(e)) => epCall[e] \notin {"absent", "veth"}
    /\ Outstanding(JoinMsg(e)) => epCall[e] \in Gone \cup {"joined", "leaveSend"}
    /\ Outstanding(LeaveMsg(e)) => epCall[e] \in Gone
    /\ LeaveMsg(e) \in replied => epCall[e] \in Gone
    /\ epCall[e] # "absent" => Returned(NetOf[e])

(* How far resourceManager is with an endpoint, from how far Docker's      *)
(* calls are and what is still outstanding.                                *)
PreJoin == {"created", "joinWait", "joinWoken", "joinRead", "joinSend", "joinFailed"}

EpStage(e) ==
    /\ Outstanding(ReserveMsg(e)) \/ epCall[e] \in {"absent", "veth"} =>
            OFPorts[e] = "none" /\ LeaveMsg(e) \notin replied
    /\ epCall[e] \in PreJoin \/ Outstanding(JoinMsg(e)) =>
            OFPorts[e] = "reserved" \/ e \in failed \/ Outstanding(ReserveMsg(e))
    /\ epCall[e] \in {"joined", "leaveSend"} \/ Outstanding(LeaveMsg(e)) =>
            OFPorts[e] = "joined" \/ e \in failed \/ Outstanding(JoinMsg(e))
    /\ Attached(e) \/ Outstanding(JoinMsg(e)) =>
            e \in failed \/ epCall[e] \in {"joined", "leaveSend"} \/ Outstanding(LeaveMsg(e))

(* How far resourceManager is with a network.                              *)
NetStage(n) ==
    /\ ~ CreateSent(n) \/ Outstanding(CreateMsg(n)) => n \notin networks
    /\ DeleteMsg(n) \in replied =>
            /\ n \notin networks \cup bridges \cup dps
            /\ ~ Outstanding(CreateMsg(n)) /\ ~ Outstanding(DeleteMsg(n))
            /\ \A m \in EpMsgs : NetOf[m.id] = n => ~ Outstanding(m)

OInv ==
    /\ Order
    /\ \A e \in Endpoints : EpSent(e) /\ EpStage(e)
    /\ \A n \in Networks : NetStage(n)

-----------------------------------------------------------------------------
(* Messages are told apart by their operation and their identifier.        *)
LEMMA MsgFacts ==
    /\ \A o, i : Msg(o, i).op = o /\ Msg(o, i).id = i
    /\ \A o, i, p, j : Msg(o, i) = Msg(p, j) <=> o = p /\ i = j
    /\ \A o, i : Msg(o, i) \in NetMsgs <=> o \in {"create", "delete"} /\ i \in Networks
    /\ \A o, i : Msg(o, i) \in EpMsgs <=> o \in {"reserveport", "join", "leave"} /\ i \in Endpoints
    /\ \A m \in NetMsgs : m = CreateMsg(m.id) \/ m = DeleteMsg(m.id)
    /\ \A m \in EpMsgs : m \in {ReserveMsg(m.id), JoinMsg(m.id), LeaveMsg(m.id)}
    /\ \A m \in EpMsgs : m.id \in Endpoints /\ m \notin NetMsgs
    /\ \A m \in NetMsgs : m.id \in Networks
    /\ NoOp \notin Ops /\ Quitted \notin Ops
<1>1. \A o, i : Msg(o, i).op = o /\ Msg(o, i).id = i
  BY DEF Msg
<1>2. \A o, i, p, j : Msg(o, i) = Msg(p, j) <=> o = p /\ i = j
  BY <1>1
<1>3. \A o, i : Msg(o, i) \in NetMsgs <=> o \in {"create", "delete"} /\ i \in Networks
  BY DEF Msg, NetMsgs
<1>4. \A o, i : Msg(o, i) \in EpMsgs <=> o \in {"reserveport", "join", "leave"} /\ i \in Endpoints
  BY DEF Msg, EpMsgs
<1>5. \A m \in NetMsgs : m = Msg(m.op, m.id) /\ m.op \in {"create", "delete"} /\ m.id \in Networks
  BY DEF Msg, NetMsgs
<1>6. \A m \in EpMsgs : /\ m = Msg(m.op, m.id) /\ m.op \in {"reserveport", "join", "leave"}
                        /\ m.id \in Endpoints
  BY DEF Msg, EpMsgs
<1>7. \A m \in NetMsgs : m = CreateMsg(m.id) \/ m = DeleteMsg(m.id)
  BY <1>5 DEF CreateMsg, DeleteMsg
<1>8. \A m \in EpMsgs : m \in {ReserveMsg(m.id), JoinMsg(m.id), LeaveMsg(m.id)}
  BY <1>6 DEF ReserveMsg, JoinMsg, LeaveMsg
<1>9. \A m \in EpMsgs : m \notin NetMsgs
  BY <1>5, <1>6
<1>10. NoOp \notin Ops /\ Quitted \notin Ops
  BY <1>3, <1>4 DEF NoOp, Quitted, Ops
<1> QED  BY <1>1, <1>2, <1>3, <1>4, <1>5, <1>6, <1>7, <1>8, <1>9, <1>10

(* What must be handled before the operation resourceManager is executing. *)
LEMMA PrecedesFacts ==
    /\ \A m : ~ Precedes(m, NoOp) /\ ~ Precedes(m, Quitted) /\ ~ Precedes(Quitted, m)
    /\ \A n \in Networks : Precedes(CreateMsg(n), DeleteMsg(n))
    /\ \A e \in Endpoints :
        /\ Precedes(CreateMsg(NetOf[e]), ReserveMsg(e))
        /\ Precedes(ReserveMsg(e), JoinMsg(e))
        /\ Precedes(ReserveMsg(e), LeaveMsg(e))
        /\ Precedes(JoinMsg(e), LeaveMsg(e))
    /\ \A e \in Endpoints :
        /\ ~ Precedes(JoinMsg(e), ReserveMsg(e))
        /\ ~ Precedes(LeaveMsg(e), ReserveMsg(e))
        /\ ~ Precedes(LeaveMsg(e), JoinMsg(e))
    /\ \A m \in EpMsgs : Precedes(m, DeleteMsg(NetOf[m.id]))
<1>1. \A e \in Endpoints : NetOf[e] \in Networks
  BY DriverAssumption
<1>2. \A m : ~ Precedes(m, NoOp) /\ ~ Precedes(m, Quitted) /\ ~ Precedes(Quitted, m)
  BY MsgFacts DEF Precedes, NoOp, Quitted, Ops, JoinMsg, LeaveMsg, DeleteMsg
<1>3. \A n \in Networks : Precedes(CreateMsg(n), DeleteMsg(n))
  BY MsgFacts DEF Precedes, Ops, CreateMsg
<1>4. \A e \in Endpoints :
        /\ Precedes(CreateMsg(NetOf[e]), ReserveMsg(e))
        /\ Precedes(ReserveMsg(e), JoinMsg(e))
        /\ Precedes(ReserveMsg(e), LeaveMsg(e))
        /\ Precedes(JoinMsg(e), LeaveMsg(e))
  BY <1>1, MsgFacts DEF Precedes, Ops, CreateMsg, ReserveMsg, JoinMsg, LeaveMsg
<1>5. \A m \in EpMsgs : Precedes(m, DeleteMsg(NetOf[m.id]))
  BY DEF Precedes, Ops
<1>6. ASSUME NEW e \in Endpoints
      PROVE  /\ ~ Precedes(JoinMsg(e), ReserveMsg(e))
             /\ ~ Precedes(LeaveMsg(e), ReserveMsg(e))
             /\ ~ Precedes(LeaveMsg(e), JoinMsg(e))
  <2>1. /\ ReserveMsg(e).op = "reserveport" /\ JoinMsg(e).op = "join" /\ LeaveMsg(e).op = "leave"
        /\ \A k : DeleteMsg(k).op = "delete" /\ LeaveMsg(k).op = "leave"
    BY MsgFacts DEF ReserveMsg, JoinMsg, LeaveMsg, DeleteMsg
  <2>2. ~ Precedes(JoinMsg(e), ReserveMsg(e))
    BY <2>1 DEF Precedes
  <2>3. ~ Precedes(LeaveMsg(e), ReserveMsg(e))
    BY <2>1 DEF Precedes
  <2>4. ~ Precedes(LeaveMsg(e), JoinMsg(e))
    BY <2>1 DEF Precedes
  <2> QED  BY <2>2, <2>3, <2>4
<1> QED  BY <1>2, <1>3, <1>4, <1>5, <1>6

(* A send keeps the order when nothing that must come later is             *)
(* outstanding.                                                            *)
LEMMA OrderSend ==
    ASSUME TypeOK, Order, NEW m \in Messages, Send(m), cur' = cur,
           \A x : Outstanding(x) => ~ Precedes(m, x)
    PROVE  Order'
<1>1. /\ Len(opChan) \in Nat
      /\ Len(opChan') = Len(opChan) + 1
      /\ \A i \in 1..Len(opChan) : opChan'[i] = opChan[i]
      /\ opChan'[Len(opChan) + 1] = m
  BY DEF TypeOK, Send
<1>2. ~ Precedes(m, cur) /\ \A i \in 1..Len(opChan) : ~ Precedes(m, opChan[i])
  BY DEF Outstanding
<1>3. ASSUME NEW j \in 1..Len(opChan') PROVE ~ Precedes(opChan'[j], cur')
  <2>1. CASE j \in 1..Len(opChan)
    BY <1>1, <2>1 DEF Order
  <2>2. CASE j = Len(opChan) + 1
    BY <1>1, <1>2, <2>2
  <2> QED  BY <1>1, <2>1, <2>2
<1>4. ASSUME NEW i \in 1..Len(opChan'), NEW j \in 1..Len(opChan'), i < j
      PROVE  ~ Precedes(opChan'[j], opChan'[i])
  <2>1. i \in 1..Len(opChan) /\ opChan'[i] = opChan[i]
    BY <1>1, <1>4
  <2>2. CASE j \in 1..Len(opChan)
    BY <1>1, <1>4, <2>1, <2>2 DEF Order
  <2>3. CASE j = Len(opChan) + 1
    BY <1>1, <1>2, <2>1, <2>3, Zenon
  <2> QED  BY <1>1, <2>2, <2>3
<1> QED  BY <1>3, <1>4 DEF Order

(* Receiving keeps the order.                                              *)
LEMMA OrderReceive ==
    ASSUME TypeOK, Order, RmReceive
    PROVE  Order'
<1>1. /\ Len(opChan) \in Nat \ {0}
      /\ Len(opChan') = Len(opChan) - 1
      /\ \A i \in 1..Len(opChan') : opChan'[i] = opChan[i + 1]
      /\ cur' = opChan[1]
  BY DEF TypeOK, RmReceive
<1>2. ASSUME NEW j \in 1..Len(opChan') PROVE ~ Precedes(opChan'[j], cur')
  <2>1. 1 \in 1..Len(opChan) /\ j + 1 \in 1..Len(opChan) /\ 1 < j + 1
    BY <1>1
  <2> QED  BY <1>1, <2>1 DEF Order
<1>3. ASSUME NEW i \in 1..Len(opChan'), NEW j \in 1..Len(opChan'), i < j
      PROVE  ~ Precedes(opChan'[j], opChan'[i])
  <2>1. i + 1 \in 1..Len(opChan) /\ j + 1 \in 1..Len(opChan) /\ i + 1 < j + 1
    BY <1>1, <1>3
  <2> QED  BY <1>1, <2>1, Zenon DEF Order
<1> QED  BY <1>2, <1>3 DEF Order

(* A handled operation is outstanding no more; what had to be handled      *)
(* before it was.                                                          *)
LEMMA OrderHandled ==
    ASSUME TypeOK, Order, cur' = NoOp, opChan' = opChan
    PROVE  /\ Order'
           /\ \A x \in Ops : Outstanding(x)' <=> Outstanding(x) /\ x # cur
           /\ \A x \in Ops : x # cur /\ Precedes(x, cur) => ~ Outstanding(x)
<1>1. Order'
  BY PrecedesFacts DEF Order
<1>2. ASSUME NEW x \in Ops PROVE Outstanding(x)' <=> Outstanding(x) /\ x # cur
  <2>1. x # NoOp
    BY MsgFacts
  <2>2. ASSUME Outstanding(x)' PROVE Outstanding(x) /\ x # cur
    <3>1. PICK i \in 1..Len(opChan) : opChan[i] = x
      BY <2>1, <2>2, Zenon DEF Outstanding
    <3>2. x # cur
      BY <3>1 DEF Order, Precedes
    <3> QED  BY <3>1, <3>2 DEF Outstanding
  <2>3. ASSUME Outstanding(x), x # cur PROVE Outstanding(x)'
    BY <2>3 DEF Outstanding
  <2> QED  BY <2>2, <2>3
<1>3. \A x \in Ops : x # cur /\ Precedes(x, cur) => ~ Outstanding(x)
  BY DEF Order, Outstanding
<1> QED  BY <1>1, <1>2, <1>3, Zenon

(* The operations of different endpoints and networks are different.       *)
LEMMA OpFacts ==
    /\ Ops \subseteq Messages
    /\ \A e \in Endpoints :
        /\ ReserveMsg(e) \in EpMsgs /\ JoinMsg(e) \in EpMsgs /\ LeaveMsg(e) \in EpMsgs
        /\ ReserveMsg(e).id = e /\ JoinMsg(e).id = e /\ LeaveMsg(e).id = e
    /\ \A n \in Networks : CreateMsg(n) \in NetMsgs /\ DeleteMsg(n) \in NetMsgs
    /\ \A e, f : /\ ReserveMsg(e) # JoinMsg(f)
                 /\ ReserveMsg(e) # LeaveMsg(f)
                 /\ JoinMsg(e) # LeaveMsg(f)
                 /\ ReserveMsg(e) = ReserveMsg(f) => e = f
                 /\ JoinMsg(e) = JoinMsg(f) => e = f
                 /\ LeaveMsg(e) = LeaveMsg(f) => e = f
    /\ \A n, k : /\ CreateMsg(n) # DeleteMsg(k)
                 /\ CreateMsg(n) = CreateMsg(k) => n = k
                 /\ DeleteMsg(n) = DeleteMsg(k) => n = k
    /\ \A n, e : /\ CreateMsg(n) \notin {ReserveMsg(e), JoinMsg(e), LeaveMsg(e)}
                 /\ DeleteMsg(n) \notin {ReserveMsg(e), JoinMsg(e), LeaveMsg(e)}
<1> USE MsgFacts
<1>1. Ops \subseteq Messages
  BY DEF Ops, Messages
<1>2. \A e \in Endpoints :
        /\ ReserveMsg(e) \in EpMsgs /\ JoinMsg(e) \in EpMsgs /\ LeaveMsg(e) \in EpMsgs
        /\ ReserveMsg(e).id = e /\ JoinMsg(e).id = e /\ LeaveMsg(e).id = e
  BY DEF ReserveMsg, JoinMsg, LeaveMsg
<1>3. \A n \in Networks : CreateMsg(n) \in NetMsgs /\ DeleteMsg(n) \in NetMsgs
  BY DEF CreateMsg, DeleteMsg
<1>4. \A e, f : /\ ReserveMsg(e) # JoinMsg(f)
                /\ ReserveMsg(e) # LeaveMsg(f)
                /\ JoinMsg(e) # LeaveMsg(f)
                /\ ReserveMsg(e) = ReserveMsg(f) => e = f
                /\ JoinMsg(e) = JoinMsg(f) => e = f
                /\ LeaveMsg(e) = LeaveMsg(f) => e = f
  BY DEF ReserveMsg, JoinMsg, LeaveMsg
<1>5. \A n, k : /\ CreateMsg(n) # DeleteMsg(k)
                /\ CreateMsg(n) = CreateMsg(k) => n = k
                /\ DeleteMsg(n) = DeleteMsg(k) => n = k
  BY DEF CreateMsg, DeleteMsg
<1>6. \A n, e : /\ CreateMsg(n) \notin {ReserveMsg(e), JoinMsg(e), LeaveMsg(e)}
                /\ DeleteMsg(n) \notin {ReserveMsg(e), JoinMsg(e), LeaveMsg(e)}
  BY DEF CreateMsg, DeleteMsg, ReserveMsg, JoinMsg, LeaveMsg
<1> QED  BY <1>1, <1>2, <1>3, <1>4, <1>5, <1>6, Zenon

(* A step that keeps the outstanding endpoint operations, and of Docker's  *)
(* calls and the recorded state only what OInv reads.                      *)
LEMMA EpFrame ==
    ASSUME OInv, NEW e \in Endpoints,
           \A m \in {ReserveMsg(e), JoinMsg(e), LeaveMsg(e)} : Outstanding(m)' <=> Outstanding(m),
           OFPorts'[e] = OFPorts[e],
           failed \subseteq failed',
           LeaveMsg(e) \in replied' <=> LeaveMsg(e) \in replied,
           \/ epCall'[e] = epCall[e]
           \/ epCall[e] = "joinWait" /\ epCall'[e] = "joinWoken",
           Returned(NetOf[e]) => Returned(NetOf[e])'
    PROVE  EpSent(e)' /\ EpStage(e)'
<1>1. EpSent(e) /\ EpStage(e)
  BY DEF OInv
<1>2. EpSent(e)'
  BY <1>1, Zenon DEF EpSent, Gone
<1>3. EpStage(e)'
  BY <1>1 DEF EpStage, PreJoin, Attached
<1> QED  BY <1>2, <1>3

(* Docker's calls on networks keep the order.                              *)
LEMMA NetworkCallOrder ==
    ASSUME IInv, OInv, NEW n \in Networks, NetworkCalls(n) \/ NetworkCallSteps(n)
    PROVE  OInv'
<1> USE DEF NetworkCalls, NetworkCallSteps, CreateNetwork, CreateNetworkRefused,
            CreateNetworkFatal, CreateNetworkAdd, CreateNetworkSend, CreateNetworkReturn,
            DeleteNetwork, DeleteNetworkSend, DeleteNetworkReturn, NetStep, rm
<1> DEFINE Sends(op, from) == Send(Msg(op, n)) /\ netCall[n] = from
<1>1. /\ UNCHANGED <<cur, networks, failed, replied, OFPorts, dps, epCall>>
      /\ \/ Sends("create", "createAdded") \/ Sends("delete", "deleteAdded")
         \/ opChan' = opChan
  BY Zenon
<1>2. /\ \A k \in Networks : CreateSent(k) => CreateSent(k)'
      /\ \A k \in Networks : Returned(k) => Returned(k)'
  BY Zenon DEF IInv, TypeOK, CreateSent, Returned
<1>3. \A k \in Networks : netCall[k] \in {"deleteSent", "gone"} => k \notin bridges' \/ k \in bridges
  BY DEF IInv, TypeOK
<1> HIDE DEF NetworkCalls, NetworkCallSteps
<1>4. /\ Order'
      /\ \A m \in EpMsgs : Outstanding(m)' <=> Outstanding(m)
      /\ \A k \in Networks : Outstanding(CreateMsg(k))' =>
                Outstanding(CreateMsg(k)) \/ ~ CreateSent(k)
      /\ \A k \in Networks : DeleteMsg(k) \in replied =>
                ~ Outstanding(CreateMsg(k))' /\ ~ Outstanding(DeleteMsg(k))'
  <2>1. CASE Sends("create", "createAdded")
    <3>1. /\ CreateMsg(n) \in Messages /\ Send(CreateMsg(n)) /\ netCall[n] = "createAdded"
      BY <2>1, OpFacts DEF CreateMsg, Ops
    <3>2. \A x : Outstanding(x)' <=> Outstanding(x) \/ x = CreateMsg(n)
      BY <1>1, <3>1, AfterSend, Zenon DEF IInv
    <3>3. ASSUME NEW x, Outstanding(x) PROVE ~ Precedes(CreateMsg(n), x)
      <4>1. x # CreateMsg(n) /\ x # DeleteMsg(n)
        BY <3>1, <3>3, Zenon DEF IInv, NetPhase, CreateSent
      <4>2. ASSUME x \in EpMsgs PROVE NetOf[x.id] # n
        <5>1. x.id \in Endpoints /\ x \in {ReserveMsg(x.id), JoinMsg(x.id), LeaveMsg(x.id)}
          BY <4>2, MsgFacts, Zenon
        <5>2. epCall[x.id] # "absent"
          BY <3>3, <5>1, Zenon DEF OInv, EpSent, Gone
        <5> QED  BY <3>1, <5>1, <5>2, Zenon DEF OInv, EpSent, Returned
      <4> QED  BY <4>1, <4>2, MsgFacts DEF Precedes, CreateMsg
    <3>4. Order'
      BY <1>1, <3>1, <3>3, OrderSend, ZenonT(40) DEF IInv, OInv
    <3>5. DeleteMsg(n) \notin replied /\ ~ CreateSent(n)
      BY <3>1 DEF IInv, NetPhase, CreateSent
    <3> QED  BY <3>2, <3>4, <3>5, OpFacts, MsgFacts DEF OInv, NetStage
  <2>2. CASE Sends("delete", "deleteAdded")
    <3>1. /\ DeleteMsg(n) \in Messages /\ Send(DeleteMsg(n)) /\ netCall[n] = "deleteAdded"
      BY <2>2, OpFacts DEF DeleteMsg, Ops
    <3>2. \A x : Outstanding(x)' <=> Outstanding(x) \/ x = DeleteMsg(n)
      BY <1>1, <3>1, AfterSend DEF IInv
    <3>3. ASSUME NEW x, Outstanding(x) PROVE ~ Precedes(DeleteMsg(n), x)
      <4>1. x # DeleteMsg(n)
        BY <3>1, <3>3 DEF IInv, NetPhase
      <4> QED  BY <4>1, MsgFacts, OpFacts DEF Precedes, DeleteMsg
    <3>4. Order'
      BY <1>1, <3>1, <3>3, OrderSend DEF IInv, OInv
    <3>5. DeleteMsg(n) \notin replied
      BY <3>1 DEF IInv, NetPhase
    <3> QED  BY <3>2, <3>4, <3>5, OpFacts, MsgFacts, ZenonT(60) DEF OInv, NetStage
  <2>3. CASE opChan' = opChan
    <3>1. \A x : Outstanding(x)' <=> Outstanding(x)
      BY <1>1, <2>3 DEF Outstanding
    <3>2. Order'
      BY <1>1, <2>3 DEF OInv, Order
    <3> QED  BY <3>1, <3>2 DEF OInv, NetStage
  <2> QED  BY <1>1, <2>1, <2>2, <2>3, Zenon
<1>5. ASSUME NEW e \in Endpoints PROVE EpSent(e)' /\ EpStage(e)'
  BY <1>1, <1>2, <1>4, EpFrame, OpFacts, DriverAssumption, ZenonT(60)
<1>6. ASSUME NEW k \in Networks PROVE NetStage(k)'
  BY <1>1, <1>2, <1>3, <1>4, Zenon DEF OInv, NetStage, IInv, NetPhase
<1> QED  BY <1>4, <1>5, <1>6, Zenon DEF OInv

(* A send for an endpoint in use keeps the order.                          *)
LEMMA EndpointSend ==
    ASSUME IInv, OInv, NEW e \in Endpoints, NEW m \in {ReserveMsg(e), JoinMsg(e), LeaveMsg(e)},
           Send(m), cur' = cur,
           epCall[e] \notin {"absent", "gone"},
           \A x \in {ReserveMsg(e), JoinMsg(e), LeaveMsg(e)} : Precedes(m, x) => ~ Outstanding(x)
    PROVE  /\ Order'
           /\ \A x : Outstanding(x)' <=> Outstanding(x) \/ x = m
<1>1. m \in EpMsgs /\ m \in Messages /\ m.id = e /\ NetOf[e] \in Networks
  BY OpFacts, DriverAssumption, Zenon DEF Ops
<1>2. \A x : Outstanding(x)' <=> Outstanding(x) \/ x = m
  BY <1>1, AfterSend, Zenon DEF IInv
<1>3. ~ Outstanding(DeleteMsg(NetOf[e]))
  BY <1>1 DEF IInv, NetPhase, EndpointPhase
<1>4. ASSUME NEW x, Outstanding(x) PROVE ~ Precedes(m, x)
  <2>1. x # DeleteMsg(NetOf[e])
    BY <1>3, <1>4, Zenon
  <2>2. m.op # "create"
    BY MsgFacts DEF ReserveMsg, JoinMsg, LeaveMsg
  <2>3. Precedes(m, x) => x \in {ReserveMsg(e), JoinMsg(e), LeaveMsg(e)}
    BY <1>1, <2>1, <2>2, Zenon DEF Precedes
  <2> QED  BY <1>4, <2>3, Zenon
<1>5. Order'
  BY <1>1, <1>4, OrderSend, Zenon DEF IInv, OInv
<1> QED  BY <1>2, <1>5, Zenon

(* Docker's calls on endpoints keep the order.                             *)
LEMMA EndpointCallOrder ==
    ASSUME IInv, OInv, NEW e \in Endpoints, EndpointCalls(e) \/ EndpointCallSteps(e)
    PROVE  OInv'
<1> DEFINE Mine == {ReserveMsg(e), JoinMsg(e), LeaveMsg(e)}
           Sends(m, from, to) == Send(m) /\ epCall[e] = from /\ epCall'[e] = to
           Moves(from, to) == opChan' = opChan /\ epCall[e] = from /\ epCall'[e] = to
<1>1. /\ UNCHANGED <<cur, networks, failed, replied, OFPorts, dps, bridges, netCall>>
      /\ \A f \in Endpoints : f # e => epCall'[f] = epCall[f]
      /\ \/ Sends(ReserveMsg(e), "veth", "created")
         \/ Sends(JoinMsg(e), "joinSend", "joined")
         \/ Sends(LeaveMsg(e), "leaveSend", "leaveWait")
         \/ Moves("absent", "veth") /\ netCall[NetOf[e]] = "live"
         \/ opChan' = opChan /\ epCall[e] \in PreJoin /\ epCall'[e] \in PreJoin \cup {"gone"}
         \/ Moves("joined", "leaveSend")
         \/ Moves("leaveWait", "left")
         \/ Moves("left", "gone")
  BY ZenonT(40) DEF IInv, TypeOK, PreJoin, ReserveMsg, JoinMsg, LeaveMsg,
         EndpointCalls, EndpointCallSteps, CreateEndpoint, Join, Leave, DeleteEndpoint,
         CreateEndpointSend, JoinWake, JoinRead, JoinReadRace, JoinSend, LeaveSend,
         LeaveReturn, EpStep, rm
<1>2. EpSent(e) /\ EpStage(e) /\ e \in Endpoints /\ NetOf[e] \in Networks
  BY DriverAssumption DEF OInv
<1>3. /\ Order'
      /\ \A x : x \notin Mine => (Outstanding(x)' <=> Outstanding(x))
      /\ EpSent(e)' /\ EpStage(e)'
      /\ epCall[e] \notin {"absent", "gone"} \/ \A x : Outstanding(x)' <=> Outstanding(x)
  <2>1. CASE Sends(ReserveMsg(e), "veth", "created")
    <3>1. \A x \in Mine : ~ Outstanding(x)
      BY <1>2, <2>1, Zenon DEF EpSent, Gone
    <3>2. /\ Order' /\ \A x : Outstanding(x)' <=> Outstanding(x) \/ x = ReserveMsg(e)
      BY <1>1, <2>1, <3>1, EndpointSend, Zenon
    <3>3. EpSent(e)'
      BY <1>1, <1>2, <2>1, <3>2, OpFacts, Zenon DEF EpSent, Gone, Returned
    <3>4. EpStage(e)'
      BY <1>1, <1>2, <2>1, <3>1, <3>2, OpFacts, ZenonT(40) DEF EpStage, PreJoin, Attached
    <3> QED  BY <2>1, <3>2, <3>3, <3>4, Zenon
  <2>2. CASE Sends(JoinMsg(e), "joinSend", "joined")
    <3>1. ~ Outstanding(JoinMsg(e)) /\ ~ Outstanding(LeaveMsg(e))
      BY <1>2, <2>2, ZenonT(40) DEF EpSent, Gone
    <3>2. ~ Precedes(JoinMsg(e), ReserveMsg(e))
      BY PrecedesFacts, Zenon
    <3>3. /\ Order' /\ \A x : Outstanding(x)' <=> Outstanding(x) \/ x = JoinMsg(e)
      BY <1>1, <2>2, <3>1, <3>2, EndpointSend, Zenon
    <3>4. EpSent(e)'
      BY <1>1, <1>2, <2>2, <3>3, OpFacts, ZenonT(40) DEF EpSent, Gone, Returned
    <3>5. EpStage(e)'
      BY <1>1, <1>2, <2>2, <3>1, <3>3, OpFacts, ZenonT(40) DEF EpStage, PreJoin, Attached
    <3> QED  BY <2>2, <3>3, <3>4, <3>5, Zenon
  <2>3. CASE Sends(LeaveMsg(e), "leaveSend", "leaveWait")
    <3>1. ~ Outstanding(LeaveMsg(e))
      BY <1>2, <2>3, Zenon DEF EpSent, Gone
    <3>2. ~ Precedes(LeaveMsg(e), ReserveMsg(e)) /\ ~ Precedes(LeaveMsg(e), JoinMsg(e))
      BY PrecedesFacts, Zenon
    <3>3. /\ Order' /\ \A x : Outstanding(x)' <=> Outstanding(x) \/ x = LeaveMsg(e)
      BY <1>1, <2>3, <3>1, <3>2, EndpointSend, Zenon
    <3>4. EpSent(e)'
      BY <1>1, <1>2, <2>3, <3>3, OpFacts, ZenonT(40) DEF EpSent, Gone, Returned
    <3>5. EpStage(e)'
      BY <1>1, <1>2, <2>3, <3>1, <3>3, OpFacts, ZenonT(40) DEF EpStage, PreJoin, Attached
    <3> QED  BY <2>3, <3>3, <3>4, <3>5, ZenonT(40)
  <2>4. CASE /\ opChan' = opChan
             /\ \/ Moves("absent", "veth") /\ netCall[NetOf[e]] = "live"
                \/ epCall[e] \in PreJoin /\ epCall'[e] \in PreJoin \cup {"gone"}
                \/ Moves("joined", "leaveSend")
                \/ Moves("leaveWait", "left")
                \/ Moves("left", "gone")
    <3>1. \A x : Outstanding(x)' <=> Outstanding(x)
      BY <1>1, <2>4, ZenonT(40) DEF Outstanding
    <3>2. Order'
      BY <1>1, <2>4, ZenonT(40) DEF OInv, Order
    <3>3. EpSent(e)'
      BY <1>1, <1>2, <2>4, <3>1, ZenonT(40) DEF EpSent, Gone, Returned, PreJoin
    <3>4. EpStage(e)'
      BY <1>1, <1>2, <2>4, <3>1, Zenon DEF EpStage, EpSent, Gone, PreJoin, Attached
    <3> QED  BY <3>1, <3>2, <3>3, <3>4, Zenon
  <2> QED  BY <1>1, <2>1, <2>2, <2>3, <2>4, ZenonT(40)
<1>4. ASSUME NEW f \in Endpoints PROVE EpSent(f)' /\ EpStage(f)'
  <2>1. CASE f = e
    BY <1>3, <2>1
  <2>2. CASE f # e
    <3>1. \A x \in {ReserveMsg(f), JoinMsg(f), LeaveMsg(f)} : x \notin Mine
      BY <2>2, OpFacts, Zenon
    <3>2. Returned(NetOf[f]) => Returned(NetOf[f])'
      BY <1>1, Zenon DEF Returned
    <3> QED  BY <1>1, <1>3, <2>2, <3>1, <3>2, EpFrame, ZenonT(40)
  <2> QED  BY <2>1, <2>2
<1>5. ASSUME NEW k \in Networks PROVE NetStage(k)'
  <2>1. /\ Outstanding(CreateMsg(k))' <=> Outstanding(CreateMsg(k))
        /\ Outstanding(DeleteMsg(k))' <=> Outstanding(DeleteMsg(k))
    BY <1>3, OpFacts, Zenon
  <2>2. ASSUME DeleteMsg(k) \in replied, NEW m \in EpMsgs, NetOf[m.id] = k
        PROVE  ~ Outstanding(m)'
    <3>1. ~ Outstanding(m) /\ netCall[k] # "live"
      BY <2>2 DEF OInv, NetStage, IInv, NetPhase
    <3>2. CASE m \in Mine
      <4>1. m.id = e
        BY <3>2, OpFacts, Zenon
      <4>2. epCall[e] \in {"absent", "gone"}
        BY <2>2, <3>1, <4>1, Zenon DEF IInv, EndpointPhase
      <4> QED  BY <1>3, <3>1, <4>2, Zenon
    <3>3. CASE m \notin Mine
      BY <1>3, <3>1, <3>3, Zenon
    <3> QED  BY <3>2, <3>3, Zenon
  <2> QED  BY <1>1, <2>1, <2>2, Zenon DEF OInv, NetStage, CreateSent
<1> QED  BY <1>3, <1>4, <1>5 DEF OInv

(* A step on which no operation is sent or finished, and resourceManager   *)
(* records nothing, keeps the order.                                       *)
LEMMA QuietStep ==
    ASSUME OInv, Order', \A x \in Ops : Outstanding(x)' <=> Outstanding(x),
           UNCHANGED <<networks, failed, replied, OFPorts, dps, bridges, netCall, epCall>>
    PROVE  OInv'
<1>1. ASSUME NEW e \in Endpoints PROVE EpSent(e)' /\ EpStage(e)'
  <2>1. Returned(NetOf[e]) => Returned(NetOf[e])'
    BY DEF Returned
  <2> QED  BY <2>1, EpFrame, OpFacts, ZenonT(60) DEF Ops
<1>2. ASSUME NEW k \in Networks PROVE NetStage(k)'
  BY OpFacts DEF OInv, NetStage, CreateSent, Ops
<1> QED  BY <1>1, <1>2 DEF OInv

(* resourceManager's create and delete handlers keep the order.            *)
LEMMA NetworkOpOrder ==
    ASSUME IInv, OInv, NEW n \in Networks, HandleNetworkOp(n)
    PROVE  OInv'
<1>1. /\ cur \in {CreateMsg(n), DeleteMsg(n)}
      /\ cur' = NoOp
      /\ UNCHANGED <<opChan, OFPorts, netCall>>
      /\ failed \subseteq failed'
      /\ bridges' \subseteq bridges
      /\ Done \/ epCall' = epCall
      /\ \/ /\ cur = CreateMsg(n)
            /\ replied' = replied
            /\ networks' \subseteq networks \cup {n}
            /\ dps' \subseteq dps \cup {n}
         \/ /\ cur = DeleteMsg(n)
            /\ replied' = replied
            /\ networks' = networks
            /\ dps' \subseteq dps
         \/ /\ cur = DeleteMsg(n)
            /\ replied' = replied \cup {DeleteMsg(n)}
            /\ n \in networks
            /\ networks' = networks \ {n} /\ bridges' = bridges \ {n} /\ dps' = dps \ {n}
  BY DEF HandleNetworkOp, HandleCreate, HandleCreateFail, HandleDelete, HandleDeleteFail,
         HandleDeleteFatal, HandleDeleteUnknown, Handling, world, CreateMsg, DeleteMsg
<1>2. /\ Order'
      /\ \A x \in Ops : Outstanding(x)' <=> Outstanding(x) /\ x # cur
      /\ \A x \in Ops : x # cur /\ Precedes(x, cur) => ~ Outstanding(x)
  BY <1>1, OrderHandled DEF IInv, OInv
<1>3. /\ \A m \in EpMsgs : Outstanding(m)' <=> Outstanding(m)
      /\ Outstanding(cur)
  <2>1. cur \in NetMsgs
    BY <1>1, OpFacts
  <2>2. ASSUME NEW m \in EpMsgs PROVE Outstanding(m)' <=> Outstanding(m)
    <3>1. m \in Ops /\ m # cur
      BY <2>1, MsgFacts DEF Ops
    <3> QED  BY <1>2, <3>1, Zenon
  <2> QED  BY <2>2 DEF Outstanding
<1>4. ASSUME NEW e \in Endpoints
      PROVE  \/ epCall'[e] = epCall[e]
             \/ epCall[e] = "joinWait" /\ epCall'[e] = "joinWoken"
  BY <1>1 DEF Done
<1>5. ASSUME NEW e \in Endpoints PROVE EpSent(e)' /\ EpStage(e)'
  <2>1. Returned(NetOf[e]) => Returned(NetOf[e])'
    BY <1>1 DEF Returned
  <2>2. LeaveMsg(e) \in replied' <=> LeaveMsg(e) \in replied
    BY <1>1, OpFacts
  <2> QED  BY <1>1, <1>3, <1>4, <2>1, <2>2, EpFrame, OpFacts, ZenonT(60)
<1>6. /\ \A k \in Networks : Outstanding(CreateMsg(k))' => Outstanding(CreateMsg(k))
      /\ \A k \in Networks : Outstanding(DeleteMsg(k))' => Outstanding(DeleteMsg(k))
      /\ \A x \in Ops : x = cur => ~ Outstanding(x)'
      /\ \A k : CreateSent(k)' <=> CreateSent(k)
  BY <1>1, <1>2, OpFacts, Zenon DEF Ops, CreateSent
<1>7. ASSUME NEW k \in Networks PROVE NetStage(k)'
  <2>0. NetStage(k)
    BY DEF OInv
  <2>1. CASE k # n
    BY <1>1, <1>3, <1>6, <2>0, <2>1, OpFacts, ZenonT(40) DEF NetStage
  <2>2. CASE k = n /\ cur = CreateMsg(n)
    <3>1. CreateSent(n) /\ DeleteMsg(n) \notin replied'
      BY <1>1, <1>3, <2>0, <2>2, OpFacts, ZenonT(40) DEF IInv, NetPhase, NetStage
    <3>2. ~ Outstanding(CreateMsg(n))'
      BY <1>6, <2>2, OpFacts, Zenon DEF Ops
    <3> QED  BY <1>6, <2>2, <3>1, <3>2, Zenon DEF NetStage
  <2>3. CASE k = n /\ cur = DeleteMsg(n)
    <3>1. CreateSent(n) /\ DeleteMsg(n) \notin replied
      BY <1>3, <2>0, <2>3, Zenon DEF IInv, NetPhase, NetStage, CreateSent
    <3>2. ~ Outstanding(CreateMsg(n))
      BY <1>2, <2>3, OpFacts, PrecedesFacts, Zenon DEF Ops
    <3>3. ASSUME NEW m \in EpMsgs, NetOf[m.id] = n PROVE ~ Outstanding(m)
      <4>1. m \in Ops /\ m # cur
        BY <2>3, MsgFacts, OpFacts, ZenonT(40) DEF Ops
      <4>2. Precedes(m, cur)
        BY <2>3, <3>3, PrecedesFacts, Zenon
      <4> QED  BY <1>2, <4>1, <4>2, Zenon
    <3>4. /\ ~ Outstanding(CreateMsg(n))' /\ ~ Outstanding(DeleteMsg(n))'
          /\ \A m \in EpMsgs : NetOf[m.id] = n => ~ Outstanding(m)'
      BY <1>3, <1>6, <2>3, <3>2, <3>3, OpFacts, ZenonT(40) DEF Ops
    <3> QED  BY <1>1, <1>6, <2>3, <3>1, <3>4, OpFacts, ZenonT(40) DEF NetStage
  <2> QED  BY <1>1, <2>1, <2>2, <2>3, Zenon
<1> QED  BY <1>2, <1>5, <1>7 DEF OInv

(* resourceManager's endpoint handlers keep the order.                     *)
LEMMA EndpointOpOrder ==
    ASSUME IInv, OInv, NEW e \in Endpoints, HandleEndpointOp(e)
    PROVE  OInv'
<1> DEFINE Mine == {ReserveMsg(e), JoinMsg(e), LeaveMsg(e)}
           Fails == e \in failed' /\ OFPorts' = OFPorts
<1>1. /\ cur \in Mine
      /\ cur' = NoOp
      /\ UNCHANGED <<opChan, epCall, netCall, networks, bridges>>
      /\ failed \subseteq failed'
      /\ dps' \subseteq dps \cup {NetOf[e]}
      /\ \A f \in Endpoints : f # e => OFPorts'[f] = OFPorts[f]
      /\ replied' \subseteq replied \cup {cur}
      /\ replied \subseteq replied'
      /\ cur # LeaveMsg(e) => replied' = replied
      /\ \/ cur = ReserveMsg(e) /\ OFPorts'[e] = "reserved"
         \/ cur = JoinMsg(e) /\ OFPorts'[e] = IF OFPorts[e] = "none" THEN "portless" ELSE "joined"
         \/ cur = LeaveMsg(e) /\ OFPorts'[e] = "none"
         \/ Fails
  BY ZenonT(40) DEF HandleEndpointOp, HandleReservePort, HandleReservePortFail, HandleJoin, HandleJoinFail,
         HandleLeave, HandleLeaveFail, Handling, EpHandlerFrame, DpsWithInterface,
         DpsWithoutInterface, ReserveMsg, JoinMsg, LeaveMsg, IInv, TypeOK, Msg
<1>2. /\ Order'
      /\ \A x \in Ops : Outstanding(x)' <=> Outstanding(x) /\ x # cur
      /\ \A x \in Ops : x # cur /\ Precedes(x, cur) => ~ Outstanding(x)
  BY <1>1, OrderHandled, ZenonT(40) DEF IInv, OInv
<1>3. /\ NetOf[e] \in Networks /\ Mine \subseteq EpMsgs /\ Mine \subseteq Ops
      /\ Outstanding(cur) /\ EpSent(e) /\ EpStage(e)
  BY <1>1, OpFacts, DriverAssumption, ZenonT(40) DEF OInv, Ops, Outstanding
<1>4. ASSUME NEW f \in Endpoints, f # e PROVE EpSent(f)' /\ EpStage(f)'
  <2>1. \A x \in {ReserveMsg(f), JoinMsg(f), LeaveMsg(f)} : x \in Ops /\ x \notin Mine
    BY <1>4, OpFacts DEF Ops
  <2>2. \A x \in {ReserveMsg(f), JoinMsg(f), LeaveMsg(f)} : Outstanding(x)' <=> Outstanding(x)
    BY <1>1, <1>2, <2>1, Zenon
  <2>3. LeaveMsg(f) \in replied' <=> LeaveMsg(f) \in replied
    BY <1>1, <2>1, Zenon
  <2>4. Returned(NetOf[f]) => Returned(NetOf[f])'
    BY <1>1 DEF Returned
  <2> QED  BY <1>1, <1>4, <2>2, <2>3, <2>4, EpFrame, ZenonT(40)
<1>5. EpSent(e)'
  BY <1>1, <1>2, <1>3, OpFacts, ZenonT(40) DEF EpSent, Returned
<1>6. EpStage(e)'
  <2>1. \A x \in Mine : Outstanding(x)' <=> Outstanding(x) /\ x # cur
    BY <1>2, <1>3
  <2>2. CASE cur = ReserveMsg(e)
    BY <1>1, <1>3, <2>1, <2>2, OpFacts, ZenonT(40) DEF EpSent, EpStage, Attached
  <2>3. CASE cur = JoinMsg(e)
    <3>1. ~ Outstanding(ReserveMsg(e))
      BY <1>2, <1>3, <2>3, OpFacts, PrecedesFacts, ZenonT(40)
    <3>2. epCall[e] \in Gone \cup {"joined", "leaveSend"}
      BY <1>3, <2>3, Zenon DEF EpSent
    <3>3. OFPorts[e] = "reserved" \/ e \in failed
      BY <1>3, <2>3, <3>1, Zenon DEF EpStage
    <3> QED  BY <1>1, <1>3, <2>1, <2>3, <3>1, <3>2, <3>3, OpFacts, ZenonT(40) DEF EpStage, PreJoin, Gone, Attached
  <2>4. CASE cur = LeaveMsg(e)
    <3>1. ~ Outstanding(ReserveMsg(e)) /\ ~ Outstanding(JoinMsg(e))
      BY <1>2, <1>3, <2>4, OpFacts, PrecedesFacts, ZenonT(40)
    <3>2. epCall[e] \in Gone
      BY <1>3, <2>4, ZenonT(40) DEF EpSent
    <3> QED  BY <1>1, <1>3, <2>1, <2>4, <3>1, <3>2, OpFacts, ZenonT(40) DEF EpStage, PreJoin, Gone, Attached
  <2> QED  BY <1>1, <2>2, <2>3, <2>4, Zenon
<1>7. ASSUME NEW k \in Networks PROVE NetStage(k)'
  <2>1. /\ NetStage(k)
        /\ Outstanding(CreateMsg(k))' <=> Outstanding(CreateMsg(k))
        /\ Outstanding(DeleteMsg(k))' <=> Outstanding(DeleteMsg(k))
        /\ DeleteMsg(k) \in replied' <=> DeleteMsg(k) \in replied
        /\ \A m \in EpMsgs : Outstanding(m)' => Outstanding(m)
    BY <1>1, <1>2, OpFacts, ZenonT(40) DEF OInv, Ops
  <2>2. DeleteMsg(NetOf[e]) \notin replied
    BY <1>1, <1>3, OpFacts, ZenonT(40) DEF OInv, NetStage
  <2> QED  BY <1>1, <2>1, <2>2, Zenon DEF NetStage, CreateSent
<1> QED  BY <1>2, <1>4, <1>5, <1>6, <1>7, Zenon DEF OInv

(* Before any call nothing is outstanding.                                 *)
LEMMA InitOrder == Init => OInv
<1> SUFFICES ASSUME Init PROVE OInv
  OBVIOUS
<1>1. Len(opChan) = 0 /\ 1..Len(opChan) = {}
  BY DEF Init
<1>2. Order
  BY <1>1, Zenon DEF Order
<1>3. \A x \in Ops : ~ Outstanding(x)
  BY <1>1, MsgFacts, Zenon DEF Init, Outstanding
<1>4. ASSUME NEW e \in Endpoints PROVE EpSent(e) /\ EpStage(e)
  BY <1>3, OpFacts, Zenon DEF Init, EpSent, EpStage, Ops, Gone, PreJoin, Attached
<1>5. ASSUME NEW k \in Networks PROVE NetStage(k)
  BY Zenon DEF Init, NetStage
<1> QED  BY <1>2, <1>4, <1>5 DEF OInv

(* Every step of Driver keeps the order of the operations and what it      *)
(* means for the endpoints and the networks.                               *)
THEOREM OrderInductive == IInv /\ OInv /\ [Next]_vars => OInv'
<1> SUFFICES ASSUME IInv, OInv, [Next]_vars PROVE OInv'
  OBVIOUS
<1>1. ASSUME NEW n \in Networks, NetworkCalls(n) \/ NetworkCallSteps(n) PROVE OInv'
  BY <1>1, NetworkCallOrder
<1>2. ASSUME NEW e \in Endpoints, EndpointCalls(e) \/ EndpointCallSteps(e) PROVE OInv'
  BY <1>2, EndpointCallOrder
<1>3. ASSUME NEW n \in Networks, HandleNetworkOp(n) PROVE OInv'
  BY <1>3, NetworkOpOrder
<1>4. ASSUME NEW e \in Endpoints, HandleEndpointOp(e) PROVE OInv'
  BY <1>4, EndpointOpOrder, Zenon
<1>5. CASE RmReceive
  <2>1. \A x \in Ops : Outstanding(x)' <=> Outstanding(x)
    BY <1>5, AfterReceive, MsgFacts DEF IInv
  <2>2. Order'
    BY <1>5, OrderReceive, Zenon DEF IInv, OInv
  <2> QED  BY <1>5, <2>1, <2>2, QuietStep, Zenon DEF RmReceive, world
<1>6. CASE HandleQuit
  <2>1. /\ Order'
        /\ \A x \in Ops : Outstanding(x)' <=> Outstanding(x) /\ x # cur
    BY <1>6, OrderHandled, Zenon DEF IInv, OInv, HandleQuit, Handling
  <2>2. cur \notin Ops
    BY <1>6, MsgFacts, Zenon DEF HandleQuit, Handling, Quitted
  <2> QED  BY <1>6, <2>1, <2>2, QuietStep, Zenon DEF HandleQuit, world
<1>7. CASE Quit
  <2>1. Quitted \in Messages /\ Send(Quitted) /\ cur' = cur
    BY <1>7, Zenon DEF Quit, Messages, rm
  <2>2. \A x \in Ops : Outstanding(x)' <=> Outstanding(x)
    BY <2>1, AfterSend, MsgFacts, Zenon DEF IInv
  <2>3. Order'
    BY <2>1, OrderSend, PrecedesFacts DEF IInv, OInv
  <2> QED  BY <1>7, <2>2, <2>3, QuietStep, Zenon DEF Quit, rm
<1>8. CASE UNCHANGED vars
  <2>1. Order' /\ \A x \in Ops : Outstanding(x)' <=> Outstanding(x)
    BY <1>8 DEF vars, OInv, Order, Outstanding
  <2> QED  BY <1>8, <2>1, QuietStep, Zenon DEF vars
<1> QED  BY <1>1, <1>2, <1>3, <1>4, <1>5, <1>6, <1>7, <1>8 DEF Next, ResourceManager

(* The order of the operations holds in every reachable state.             *)
LEMMA OrderInvariance == Spec => [](IInv /\ OInv)
<1>1. Init => OInv
  BY InitOrder
<1>2. IInv /\ OInv /\ [Next]_vars => OInv'
  BY OrderInductive
<1> QED  BY <1>1, <1>2, Inductive, PTL DEF Spec

-----------------------------------------------------------------------------
(* The order in the channel is one the handlers can work with.             *)
LEMMA OrderSuffices == IInv /\ OInv => HandlersInOrder
<1> SUFFICES ASSUME IInv, OInv PROVE HandlersInOrder
  OBVIOUS
<1>1. \A x \in Ops : x # cur /\ Precedes(x, cur) => ~ Outstanding(x)
  BY DEF OInv, Order, Outstanding
<1>2. cur \in NetMsgs \/ cur \in EpMsgs \/ cur = Quitted \/ cur = NoOp
  BY DEF IInv, TypeOK, Messages
<1>3. CASE cur \in EpMsgs
  <2> DEFINE e == cur.id
  <2>1. /\ e \in Endpoints /\ NetOf[e] \in Networks
        /\ cur \in {ReserveMsg(e), JoinMsg(e), LeaveMsg(e)}
        /\ Outstanding(cur) /\ EpSent(e) /\ EpStage(e) /\ NetStage(NetOf[e])
    BY <1>3, MsgFacts, DriverAssumption, ZenonT(40) DEF OInv, Outstanding
  <2> HIDE DEF e
  <2>2. CASE cur = ReserveMsg(e)
    <3>1. ~ Outstanding(CreateMsg(NetOf[e]))
      BY <1>1, <2>1, <2>2, OpFacts, PrecedesFacts, ZenonT(40) DEF Ops
    <3>2. CreateSent(NetOf[e]) /\ DeleteMsg(NetOf[e]) \notin replied
      BY <2>1, <2>2, OpFacts, ZenonT(40) DEF EpSent, Returned, CreateSent, NetStage
    <3>3. NetOf[e] \in networks \cup failed
      BY <2>1, <3>1, <3>2, ZenonT(40) DEF IInv, NetPhase
    <3>4. cur.op = "reserveport"
      BY <2>2, MsgFacts, ZenonT(40) DEF ReserveMsg
    <3> QED  BY <3>3, <3>4 DEF HandlersInOrder, e
  <2>3. CASE cur = JoinMsg(e)
    <3>1. ~ Outstanding(ReserveMsg(e))
      BY <1>1, <2>1, <2>3, OpFacts, PrecedesFacts, ZenonT(40) DEF Ops
    <3>2. OFPorts[e] = "reserved" \/ e \in failed
      BY <2>1, <2>3, <3>1, Zenon DEF EpStage
    <3>3. cur.op = "join"
      BY <2>3, MsgFacts, Zenon DEF JoinMsg
    <3> QED  BY <3>2, <3>3 DEF HandlersInOrder, e
  <2>4. CASE cur = LeaveMsg(e)
    <3>1. ~ Outstanding(JoinMsg(e))
      BY <1>1, <2>1, <2>4, OpFacts, PrecedesFacts, ZenonT(40) DEF Ops
    <3>2. OFPorts[e] = "joined" \/ e \in failed
      BY <2>1, <2>4, <3>1, ZenonT(40) DEF EpStage
    <3>3. cur.op = "leave"
      BY <2>4, MsgFacts DEF LeaveMsg
    <3> QED  BY <3>2, <3>3 DEF HandlersInOrder, e
  <2> QED  BY <2>1, <2>2, <2>3, <2>4
<1>4. CASE cur \in NetMsgs
  <2> DEFINE n == cur.id
  <2>1. n \in Networks /\ (cur = CreateMsg(n) \/ cur = DeleteMsg(n)) /\ Outstanding(cur) /\ NetStage(n)
    BY <1>4, MsgFacts, Zenon DEF OInv, Outstanding
  <2> HIDE DEF n
  <2>2. CASE cur = CreateMsg(n)
    BY <2>2, MsgFacts DEF HandlersInOrder, CreateMsg
  <2>3. CASE cur = DeleteMsg(n)
    <3>1. ~ Outstanding(CreateMsg(n))
      BY <1>1, <2>1, <2>3, OpFacts, PrecedesFacts, ZenonT(40) DEF Ops
    <3>2. /\ netCall[n] \in {"deleteSent", "gone"}
          /\ CreateSent(n) /\ DeleteMsg(n) \notin replied
      BY <2>1, <2>3, ZenonT(40) DEF IInv, NetPhase, NetStage, CreateSent
    <3>3. n \in networks \cup failed
      BY <2>1, <3>1, <3>2, ZenonT(40) DEF IInv, NetPhase
    <3>4. ASSUME NEW f \in Endpoints, NetOf[f] = n, Attached(f) PROVE f \in failed
      <4>1. epCall[f] \in {"absent", "gone"}
        BY <3>2, <3>4 DEF IInv, EndpointPhase
      <4>2. LeaveMsg(f) \in Ops /\ LeaveMsg(f) # cur /\ Precedes(LeaveMsg(f), cur)
        BY <2>3, <3>4, OpFacts, PrecedesFacts, ZenonT(40) DEF Ops
      <4>3. ~ Outstanding(LeaveMsg(f))
        BY <1>1, <4>2, Zenon
      <4> QED  BY <3>4, <4>1, <4>3, ZenonT(40) DEF OInv, EpStage
    <3>5. cur.op = "delete"
      BY <2>3, MsgFacts, Zenon DEF DeleteMsg
    <3> QED  BY <3>3, <3>4, <3>5 DEF HandlersInOrder, n
  <2> QED  BY <2>1, <2>2, <2>3, Zenon
<1>5. CASE cur = Quitted \/ cur = NoOp
  BY <1>5, MsgFacts DEF HandlersInOrder, Quitted, NoOp
<1> QED  BY <1>2, <1>3, <1>4, <1>5

(* Whatever the goroutines that serve Docker's calls do, resourceManager    *)
(* meets a port's reservation after its network, a join after the          *)
(* reservation, a leave after the join and a delete after all of them,     *)
(* unless an earlier handler failed.                                       *)
THEOREM HandlersCorrect == Spec => []HandlersInOrder
<1>1. IInv /\ OInv => HandlersInOrder
  BY OrderSuffices, Zenon
<1> QED  BY <1>1, OrderInvariance, PTL

(* An answered DeleteNetwork leaves no bridge, no DP and no entry in       *)
(* d.networks behind, and nothing queued that could bring them back.       *)
THEOREM DeleteReplyCorrect == Spec => []DeleteReplyIsClean
<1>1. IInv /\ OInv => DeleteReplyIsClean
  BY Zenon DEF OInv, NetStage, DeleteReplyIsClean, DeleteMsg
<1> QED  BY <1>1, OrderInvariance, PTL

-----------------------------------------------------------------------------
(* Driver implements NetworkService.                                       *)

(* An endpoint's progress depends on its own entry and reply only.         *)
LEMMA ProgressFacts ==
    ASSUME TypeOK, TypeOK', NEW e \in Endpoints,
           \A f \in Endpoints : f # e => OFPorts'[f] = OFPorts[f],
           \A f \in Endpoints : f # e => (LeaveMsg(f) \in replied' <=> LeaveMsg(f) \in replied)
    PROVE  /\ EndpointProgress' = [EndpointProgress EXCEPT ![e] = EndpointProgress'[e]]
           /\ EndpointProgress'[e] \in Service!Progress
           /\ EndpointProgress'[e] = IF OFPorts'[e] = "none" /\ LeaveMsg(e) \in replied'
                                     THEN "gone" ELSE OFPorts'[e]
           /\ EndpointProgress[e] = IF OFPorts[e] = "none" /\ LeaveMsg(e) \in replied
                                    THEN "gone" ELSE OFPorts[e]
<1> DEFINE P(f) == IF OFPorts[f] = "none" /\ LeaveMsg(f) \in replied THEN "gone" ELSE OFPorts[f]
           Q(f) == IF OFPorts'[f] = "none" /\ LeaveMsg(f) \in replied' THEN "gone" ELSE OFPorts'[f]
<1>1. EndpointProgress = [f \in Endpoints |-> P(f)] /\ EndpointProgress' = [f \in Endpoints |-> Q(f)]
  BY DEF EndpointProgress, LeaveMsg
<1>2. \A f \in Endpoints : f # e => Q(f) = P(f)
  BY Zenon
<1>3. OFPorts'[e] \in PortStates
  BY DEF TypeOK
<1>4. Q(e) \in Service!Progress
  BY <1>3, Zenon DEF PortStates, Service!Progress
<1> HIDE DEF P, Q
<1>5. /\ EndpointProgress'[e] = Q(e) /\ EndpointProgress[e] = P(e)
      /\ EndpointProgress' = [EndpointProgress EXCEPT ![e] = Q(e)]
  BY <1>1, <1>2
<1> QED  BY <1>4, <1>5, Zenon DEF P, Q

(* A step that keeps OFPorts and the answered Leaves keeps every           *)
(* endpoint's progress.                                                    *)
LEMMA ProgressKept ==
    ASSUME OFPorts' = OFPorts,
           \A f \in Endpoints : LeaveMsg(f) \in replied' <=> LeaveMsg(f) \in replied
    PROVE  EndpointProgress' = EndpointProgress
BY DEF EndpointProgress, LeaveMsg

(* The answered deletes, told by the messages.                             *)
LEMMA AnsweredFacts == \A n \in Networks : n \in AnsweredDeletes <=> DeleteMsg(n) \in replied
BY Zenon DEF AnsweredDeletes, DeleteMsg

(* A step of the create or the delete handler provisions or removes its    *)
(* network, breaks it, or ends the process.                                *)
LEMMA NetworkOpRefines ==
    ASSUME IInv, OInv, NEW n \in Networks, HandleNetworkOp(n)
    PROVE  \/ Service!Provision(n) \/ Service!Remove(n) \/ Service!BreakNetwork(n)
           \/ UNCHANGED <<networks, AnsweredDeletes, EndpointProgress, failed>>
<1>1. /\ OFPorts' = OFPorts
      /\ replied' \subseteq replied \cup {cur} /\ replied \subseteq replied'
      /\ cur \in {CreateMsg(n), DeleteMsg(n)}
  BY Zenon DEF HandleNetworkOp, HandleCreate, HandleCreateFail, HandleDelete, HandleDeleteFail,
         HandleDeleteFatal, HandleDeleteUnknown, Handling, world, CreateMsg, DeleteMsg
<1>2. EndpointProgress' = EndpointProgress
  BY <1>1, OpFacts, ProgressKept
<1>3. replied' = replied => AnsweredDeletes' = AnsweredDeletes
  BY DEF AnsweredDeletes
<1>4. CASE HandleCreate(n)
  <2>1. cur = CreateMsg(n) /\ Outstanding(CreateMsg(n))
    BY <1>4, Zenon DEF HandleCreate, Handling, CreateMsg, Outstanding
  <2>2. n \notin networks \cup AnsweredDeletes
    BY <2>1, AnsweredFacts, Zenon DEF OInv, NetStage
  <2> QED  BY <1>2, <1>3, <1>4, <2>2, Zenon DEF HandleCreate, Service!Provision
<1>5. CASE HandleCreateFail(n)
  BY <1>2, <1>3, <1>5, Zenon DEF HandleCreateFail, Service!BreakNetwork
<1>6. CASE HandleDelete(n)
  <2>1. /\ cur = DeleteMsg(n) /\ n \in networks
        /\ networks' = networks \ {n} /\ failed' = failed
        /\ replied' = replied \cup {DeleteMsg(n)}
    BY <1>6, Zenon DEF HandleDelete, Handling, DeleteMsg
  <2>2. HandlersInOrder /\ cur.op = "delete" /\ cur.id = n
    BY <2>1, OrderSuffices, MsgFacts, Zenon DEF DeleteMsg
  <2>3. ASSUME NEW e \in Endpoints \ failed, NetOf[e] = n PROVE EndpointProgress[e] # "joined"
    <3>1. OFPorts[e] # "joined"
      BY <2>2, <2>3, Zenon DEF HandlersInOrder, Attached
    <3> QED  BY <3>1, Zenon DEF EndpointProgress
  <2>4. AnsweredDeletes' = AnsweredDeletes \cup {n}
    <3>1. \A k \in Networks : DeleteMsg(k) \in replied' <=> DeleteMsg(k) \in replied \/ k = n
      BY <2>1, OpFacts, Zenon
    <3> QED  BY <3>1, Zenon DEF AnsweredDeletes, DeleteMsg
  <2> QED  BY <1>2, <2>1, <2>3, <2>4, ZenonT(40) DEF Service!Remove
<1>7. CASE HandleDeleteFail(n) \/ HandleDeleteUnknown(n)
  BY <1>2, <1>3, <1>7, Zenon DEF HandleDeleteFail, HandleDeleteUnknown, Service!BreakNetwork
<1>8. CASE HandleDeleteFatal(n)
  BY <1>2, <1>3, <1>8, Zenon DEF HandleDeleteFatal
<1> QED  BY <1>4, <1>5, <1>6, <1>7, <1>8, ZenonT(40) DEF HandleNetworkOp

(* A step of an endpoint handler advances its endpoint or breaks it.       *)
LEMMA EndpointOpRefines ==
    ASSUME IInv, OInv, IInv', NEW e \in Endpoints, HandleEndpointOp(e)
    PROVE  Service!Reserve(e) \/ Service!Attach(e) \/ Service!Detach(e) \/ Service!BreakEndpoint(e)
<1>1. /\ cur \in {ReserveMsg(e), JoinMsg(e), LeaveMsg(e)}
      /\ networks' = networks
      /\ replied' \subseteq replied \cup {cur} /\ replied \subseteq replied'
      /\ \A f \in Endpoints : f # e => OFPorts'[f] = OFPorts[f]
  BY ZenonT(40) DEF HandleEndpointOp, HandleReservePort, HandleReservePortFail, HandleJoin, HandleJoinFail,
         HandleLeave, HandleLeaveFail, Handling, EpHandlerFrame, ReserveMsg, JoinMsg, LeaveMsg,
         IInv, TypeOK
<1>2. AnsweredDeletes' = AnsweredDeletes
  <2>1. \A k \in Networks : DeleteMsg(k) \in replied' <=> DeleteMsg(k) \in replied
    BY <1>1, OpFacts, Zenon
  <2> QED  BY <2>1, Zenon DEF AnsweredDeletes, DeleteMsg
<1>3. /\ EndpointProgress' = [EndpointProgress EXCEPT ![e] = EndpointProgress'[e]]
      /\ EndpointProgress'[e] \in Service!Progress
      /\ EndpointProgress'[e] = IF OFPorts'[e] = "none" /\ LeaveMsg(e) \in replied'
                                THEN "gone" ELSE OFPorts'[e]
      /\ EndpointProgress[e] = IF OFPorts[e] = "none" /\ LeaveMsg(e) \in replied
                               THEN "gone" ELSE OFPorts[e]
  <2>1. \A f \in Endpoints : f # e => (LeaveMsg(f) \in replied' <=> LeaveMsg(f) \in replied)
    BY <1>1, OpFacts, Zenon
  <2>2. TypeOK /\ TypeOK'
    BY DEF IInv
  <2> QED  BY <1>1, <2>1, <2>2, ProgressFacts, ZenonT(40)
<1>4. Outstanding(cur) /\ EpStage(e) /\ HandlersInOrder
  BY OrderSuffices, Zenon DEF OInv, Outstanding
<1>5. OFPorts \in [Endpoints -> PortStates]
  BY Zenon DEF IInv, TypeOK
<1>6. ASSUME failed' = failed \cup {e} PROVE Service!BreakEndpoint(e)
  BY <1>1, <1>2, <1>3, <1>6, Zenon DEF Service!BreakEndpoint
<1>7. CASE HandleReservePort(e)
  <2>1. /\ cur = ReserveMsg(e) /\ NetOf[e] \in networks /\ failed' = failed
        /\ OFPorts'[e] = "reserved"
    BY <1>5, <1>7, Zenon DEF HandleReservePort, Handling, ReserveMsg
  <2>2. OFPorts[e] = "none" /\ LeaveMsg(e) \notin replied
    BY <1>4, <2>1, Zenon DEF EpStage
  <2> QED  BY <1>1, <1>2, <1>3, <2>1, <2>2, ZenonT(40) DEF Service!Reserve, Service!Advance
<1>8. CASE HandleJoin(e)
  <2>1. /\ cur = JoinMsg(e) /\ NetOf[e] \in networks /\ failed' = failed
        /\ OFPorts'[e] = IF OFPorts[e] = "none" THEN "portless" ELSE "joined"
    BY <1>5, <1>8, Zenon DEF HandleJoin, Handling, JoinMsg
  <2>2. OFPorts[e] = "reserved" \/ e \in failed
    <3>1. cur.op = "join" /\ cur.id = e
      BY <2>1, MsgFacts DEF JoinMsg
    <3> QED  BY <1>4, <3>1, Zenon DEF HandlersInOrder
  <2>3. CASE OFPorts[e] = "reserved"
    BY <1>1, <1>2, <1>3, <2>1, <2>3, Zenon DEF Service!Attach, Service!Advance
  <2>4. CASE e \in failed
    <3>1. failed' = failed \cup {e}
      BY <2>1, <2>4, Zenon
    <3> QED  BY <1>6, <3>1, Zenon
  <2> QED  BY <2>2, <2>3, <2>4, Zenon
<1>9. CASE HandleLeave(e)
  <2>1. /\ cur = LeaveMsg(e) /\ NetOf[e] \in networks /\ failed' = failed
        /\ OFPorts[e] = "joined" /\ OFPorts'[e] = "none"
        /\ LeaveMsg(e) \in replied'
    BY <1>5, <1>9, Zenon DEF HandleLeave, Handling, LeaveMsg
  <2> QED  BY <1>1, <1>2, <1>3, <2>1, ZenonT(40) DEF Service!Detach, Service!Advance
<1>10. CASE HandleReservePortFail(e) \/ HandleJoinFail(e) \/ HandleLeaveFail(e)
  BY <1>6, <1>10 DEF HandleReservePortFail, HandleJoinFail, HandleLeaveFail
<1> QED  BY <1>7, <1>8, <1>9, <1>10, Zenon DEF HandleEndpointOp

(* The steps that concern NetworkService are resourceManager's; all others *)
(* leave the service as it is.                                             *)
LEMMA StepRefines ==
    ASSUME IInv, OInv, IInv', [Next]_vars
    PROVE  [Service!SNext]_(<<networks, AnsweredDeletes, EndpointProgress, failed>>)
<1> DEFINE Same == UNCHANGED <<networks, AnsweredDeletes, EndpointProgress, failed>>
<1>1. ASSUME UNCHANGED <<networks, replied, OFPorts, failed>> PROVE Same
  <2>1. AnsweredDeletes' = AnsweredDeletes /\ EndpointProgress' = EndpointProgress
    BY <1>1 DEF AnsweredDeletes, EndpointProgress
  <2> QED  BY <1>1, <2>1, Zenon
<1>2. ASSUME NEW n \in Networks, NetworkCalls(n) \/ NetworkCallSteps(n) PROVE Same
  <2>1. UNCHANGED <<networks, replied, OFPorts, failed>>
    BY <1>2, Zenon DEF NetworkCalls, NetworkCallSteps, CreateNetwork, CreateNetworkRefused,
                CreateNetworkFatal, CreateNetworkAdd, CreateNetworkSend, CreateNetworkReturn,
                DeleteNetwork, DeleteNetworkSend, DeleteNetworkReturn, rm
  <2> QED  BY <1>1, <2>1, Zenon
<1>3. ASSUME NEW e \in Endpoints, EndpointCalls(e) \/ EndpointCallSteps(e) PROVE Same
  <2>1. UNCHANGED <<networks, replied, OFPorts, failed>>
    BY <1>3, ZenonT(40) DEF EndpointCalls, EndpointCallSteps, CreateEndpoint, Join, Leave, DeleteEndpoint,
                CreateEndpointSend, JoinWake, JoinRead, JoinReadRace, JoinSend, LeaveSend,
                LeaveReturn, rm
  <2> QED  BY <1>1, <2>1
<1>4. CASE RmReceive \/ HandleQuit \/ Quit \/ UNCHANGED vars
  <2>1. UNCHANGED <<networks, replied, OFPorts, failed>>
    BY <1>4, Zenon DEF RmReceive, HandleQuit, Quit, rm, vars
  <2> QED  BY <1>1, <2>1, Zenon
<1>5. ASSUME NEW n \in Networks, HandleNetworkOp(n) PROVE Service!SNext \/ Same
  BY <1>5, NetworkOpRefines, Zenon DEF Service!SNext
<1>6. ASSUME NEW e \in Endpoints, HandleEndpointOp(e) PROVE Service!SNext
  BY <1>6, EndpointOpRefines, Zenon DEF Service!SNext
<1>7. Service!SNext \/ Same
  BY <1>2, <1>3, <1>4, <1>5, <1>6, ZenonT(40) DEF Next, ResourceManager
<1> QED  BY <1>7

(* resourceManager's bookkeeping goes through the steps of NetworkService: *)
(* every step of Driver is one of them or leaves the service as it is.     *)
THEOREM Refinement == Spec => ImplementsService
<1>1. Init => Service!SInit
  <2> SUFFICES ASSUME Init PROVE Service!SInit
    OBVIOUS
  <2>1. AnsweredDeletes = {} /\ EndpointProgress = [e \in Endpoints |-> "none"]
    BY DEF Init, AnsweredDeletes, EndpointProgress
  <2> QED  BY <2>1, Zenon DEF Init, Service!SInit
<1>2. IInv /\ OInv /\ IInv' /\ [Next]_vars => [Service!SNext]_(Service!svars)
  BY StepRefines, Zenon DEF Service!svars
<1> QED  BY <1>1, <1>2, OrderInvariance, PTL DEF Spec, ImplementsService, Service!SSpec

(* Every step of NetworkService keeps the promise.                         *)
LEMMA PromiseStep ==
    ASSUME Service!Promise, [Service!SNext]_(Service!svars)
    PROVE  Service!Promise'
<1> USE DEF Service!Promise
<1>1. DOMAIN EndpointProgress = Endpoints
  BY Zenon DEF EndpointProgress
<1>2. ASSUME NEW n \in Networks, Service!Provision(n) PROVE Service!Promise'
  BY <1>2, Zenon DEF Service!Provision
<1>3. ASSUME NEW n \in Networks, Service!Remove(n) PROVE Service!Promise'
  BY <1>3, Zenon DEF Service!Remove
<1>4. ASSUME NEW n \in Networks, Service!BreakNetwork(n) PROVE Service!Promise'
  BY <1>4, Zenon DEF Service!BreakNetwork
<1>5. ASSUME NEW e \in Endpoints, Service!Reserve(e) \/ Service!Attach(e) \/ Service!Detach(e)
      PROVE  Service!Promise'
  BY <1>1, <1>5, Zenon DEF Service!Reserve, Service!Attach, Service!Detach, Service!Advance
<1>6. ASSUME NEW e \in Endpoints, Service!BreakEndpoint(e) PROVE Service!Promise'
  BY <1>1, <1>6, Zenon DEF Service!BreakEndpoint
<1>7. CASE UNCHANGED Service!svars
  BY <1>7 DEF Service!svars
<1> QED  BY <1>2, <1>3, <1>4, <1>5, <1>6, <1>7, ZenonT(40) DEF Service!SNext

(* What NetworkService promises of its own state Driver keeps in           *)
(* d.networks and OFPorts: shown of the abstract steps alone and carried   *)
(* over by the refinement.                                                 *)
THEOREM ServiceCorrect == Spec => []ServiceKept
<1>1. Service!SInit => Service!Promise
  BY DEF Service!SInit, Service!Promise
<1>2. Service!Promise /\ [Service!SNext]_(Service!svars) => Service!Promise'
  BY PromiseStep
<1>3. Service!SSpec => []Service!Promise
  BY <1>1, <1>2, PTL DEF Service!SSpec
<1> QED  BY <1>3, Refinement, PTL DEF ImplementsService, ServiceKept

=============================================================================
