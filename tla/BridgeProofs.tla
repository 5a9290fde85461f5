---------------------------- MODULE BridgeProofs ----------------------------
(***************************************************************************)
(* Proofs about Bridge for every set of endpoints and external ports and   *)
(* every number of OF ports: FAUCET's interface on a joined container's    *)
(* port is the container's own; a leave and a poll clean up; and what it   *)
(* takes for two containers to share a number or a veth to be leaked.      *)
(***************************************************************************)
EXTENDS Bridge, LeastNumberProofs, TLAPS

(* No two ports of the bridge have the same number.                        *)
Distinct ==
    \A x, y \in Names : ofport[x] = ofport[y] /\ ofport[x] # 0 => x = y

(* An endpoint whose reservation has not been handled has no port yet.     *)
Unreserved ==
    \A e \in Endpoints : ep[e] \in {"absent", "veth"} =>
        ofport[e] = 0 /\ OFPorts[e] = NoEntry

(* A reservation under way is for such an endpoint, and the number it is   *)
(* going to request is still free, if no race happened.                    *)
ReserveOk ==
    pending # NoReserve =>
        /\ pending.ep \in Endpoints
        /\ ep[pending.ep] = "veth"
        /\ pending.port \in Numbers
        /\ races = 0 => pending.port \in Free

(* Containers lists endpoints whose join was handled.                      *)
Unjoined ==
    \A e \in Containers : ep[e] \in {"joined", "left"}

IInv ==
    /\ TypeOK
    /\ Distinct
    /\ Unreserved
    /\ ReserveOk
    /\ Unjoined
    /\ RecordedPortIsActual
    /\ ContainerHasInterface

-----------------------------------------------------------------------------
(* A port may have no number.                                              *)
LEMMA ZeroInRange == 0 \in 0..MaxPort
BY BridgeAssumption

(* The administrator's commands stay within their bound.                   *)
LEMMA OneMoreChange == \A n \in 0..MaxChanges : n < MaxChanges => n + 1 \in 0..MaxChanges
BY BridgeAssumption

(* What a restart leaves in the maps has its type.                         *)
LEMMA EmptyTypes ==
    /\ NoEntry \in [port : 0..MaxPort, container : BOOLEAN]
    /\ NoReserve \in [ep : Endpoints \cup {None}, port : 0..MaxPort]
BY ZeroInRange DEF NoEntry, NoReserve

(* The number addInternalPort picks is free.                               *)
LEMMA LowestFreeIsFree ==
    ASSUME Free # {}
    PROVE  LowestFree \in Free
<1>1. MaxPort \in Nat
  BY BridgeAssumption
<1>2. Free \subseteq Nat
  BY <1>1 DEF Free, Numbers
<1>3. \E p \in Free : \A q \in Free : p <= q
  BY <1>2, LeastNumber, Zenon
<1> QED  BY <1>3 DEF LowestFree

(* dump-ports-desc names the port that has the number, and no other.       *)
LEMMA DescOfPort ==
    ASSUME TypeOK, Distinct, NEW x \in Names, ofport[x] # 0
    PROVE  PortDesc[ofport[x]] = x
<1>1. ofport[x] \in Used /\ ofport[x] \in 0..MaxPort
  BY DEF Used, TypeOK
<1>2. PortDesc[ofport[x]] = CHOOSE y \in Names : ofport[y] = ofport[x]
  BY <1>1 DEF PortDesc
<1>3. \A y \in Names : ofport[y] = ofport[x] => y = x
  BY DEF Distinct
<1> QED  BY <1>2, <1>3

(* dump-ports-desc gives every number a port name or none.                 *)
LEMMA DescType ==
    ASSUME TypeOK
    PROVE  PortDesc \in [0..MaxPort -> Names \cup {None}]
BY DEF PortDesc, Used

(* Configuring the ports of add_ports keeps FAUCET's interfaces a map from *)
(* numbers to ports.                                                       *)
LEMMA WithAddPortsType ==
    ASSUME NEW f \in [0..MaxPort -> Names \cup {None}], NEW num
    PROVE  WithAddPorts(f, num) \in [0..MaxPort -> Names \cup {None}]
BY BridgeAssumption DEF WithAddPorts, Names

-----------------------------------------------------------------------------
(* The invariant holds once the network has been created: nothing has been *)
(* reserved and every add_ports port has a number of its own.              *)
THEOREM InitIInv == Init => IInv
<1> SUFFICES ASSUME Init PROVE IInv
  OBVIOUS
<1> USE BridgeAssumption
<1>1. NoPorts \in [0..MaxPort -> Names \cup {None}]
  BY DEF NoPorts
<1>2. ofport \in [Names -> 0..MaxPort]
  BY DEF Init, Numberings
<1>3. TypeOK
  <2>1. faucet \in [0..MaxPort -> Names \cup {None}]
    BY <1>1, WithAddPortsType DEF Init
  <2>2. ExternalPorts \in [ExtPorts -> 0..MaxPort]
    BY <1>2 DEF Init, Names
  <2>3. OFPorts \in [Endpoints -> [port : 0..MaxPort, container : BOOLEAN]]
    BY DEF Init, NoEntry
  <2>4. pending \in [ep : Endpoints \cup {None}, port : 0..MaxPort]
    BY DEF Init, NoReserve
  <2>5. faults \in 0..MaxFaults /\ changes \in 0..MaxChanges
        /\ restarts \in 0..MaxRestarts /\ races \in Nat
    BY DEF Init
  <2> QED  BY <1>1, <1>2, <2>1, <2>2, <2>3, <2>4, <2>5 DEF Init, TypeOK, EpStates
<1>4. Distinct
  BY DEF Init, Numberings, Distinct
<1>5. Unreserved
  BY DEF Init, Numberings, Unreserved, Names
<1>6. ReserveOk /\ Unjoined /\ RecordedPortIsActual /\ ContainerHasInterface
  BY DEF Init, ReserveOk, Unjoined, RecordedPortIsActual, ContainerHasInterface, Recorded, NoEntry
<1> QED  BY <1>3, <1>4, <1>5, <1>6 DEF IInv

-----------------------------------------------------------------------------
(* Steps that leave the bridge, the reservations and the OFPorts map alone *)
(* keep the facts about port numbers.                                      *)
LEMMA NumbersKept ==
    ASSUME IInv, UNCHANGED <<ofport, OFPorts, pending, races>>,
           ep' \in [Endpoints -> EpStates],
           \A f \in Endpoints : ep[f] \in {"joined", "left"} => ep'[f] \in {"joined", "left"},
           \A f \in Endpoints : ep[f] = "left" => ep'[f] = "left",
           \A f \in Endpoints : ep'[f] \in {"absent", "veth"} => ep[f] \in {"absent", "veth"},
           pending # NoReserve => ep'[pending.ep] = ep[pending.ep]
    PROVE  Distinct' /\ Unreserved' /\ ReserveOk' /\ RecordedPortIsActual'
<1>1. Distinct'
  BY DEF IInv, Distinct
<1>2. Unreserved'
  BY DEF IInv, Unreserved
<1>3. Used' = Used /\ Free' = Free
  BY DEF Used, Free
<1>4. ReserveOk'
  BY <1>3 DEF IInv, ReserveOk
<1>5. RecordedPortIsActual'
  BY DEF IInv, RecordedPortIsActual, Recorded
<1> QED  BY <1>1, <1>2, <1>4, <1>5

(* Where a container has its interface: on the recorded number, which no   *)
(* other port has.                                                         *)
LEMMA OwnNumber ==
    ASSUME IInv, races = 0, NEW f \in Endpoints, Recorded(f)
    PROVE  /\ ofport[f] = OFPorts[f].port
           /\ ofport[f] \in Numbers
           /\ \A x \in Names : x # f => ofport[x] # ofport[f]
<1>1. ofport[f] = OFPorts[f].port /\ ofport[f] # 0
  BY DEF IInv, RecordedPortIsActual, Recorded
<1>2. f \in Names
  BY DEF Names
<1>3. ofport[f] \in 0..MaxPort /\ MaxPort \in Nat
  BY <1>2, BridgeAssumption DEF IInv, TypeOK
<1>4. \A x \in Names : x # f => ofport[x] # ofport[f]
  BY <1>1, <1>2 DEF IInv, Distinct
<1> QED  BY <1>1, <1>3, <1>4 DEF Numbers

(* CreateEndpoint and DeleteEndpoint do not touch the bridge.              *)
LEMMA CreateStep ==
    ASSUME IInv, NEW e \in Endpoints, CreateEndpoint(e) \/ DeleteEndpoint(e)
    PROVE  IInv'
<1>1. TypeOK'
  BY ZenonT(40) DEF IInv, TypeOK, CreateEndpoint, DeleteEndpoint, Move, EpStates, memory, counters
<1>2. pending # NoReserve => ep'[pending.ep] = ep[pending.ep]
  BY DEF IInv, TypeOK, ReserveOk, CreateEndpoint, DeleteEndpoint, Move
<1>3. Distinct' /\ Unreserved' /\ ReserveOk' /\ RecordedPortIsActual'
  <2>1. UNCHANGED <<ofport, OFPorts, pending, races>>
    BY DEF CreateEndpoint, DeleteEndpoint, memory, counters
  <2>2. ep' \in [Endpoints -> EpStates]
    BY <1>1 DEF TypeOK
  <2>3. \A f \in Endpoints : f # e => ep'[f] = ep[f]
    BY DEF IInv, TypeOK, CreateEndpoint, DeleteEndpoint, Move
  <2>4. \/ ep[e] = "absent" /\ ep'[e] = "veth"
        \/ ep[e] = "created" /\ ep'[e] = "gone"
    BY DEF IInv, TypeOK, CreateEndpoint, DeleteEndpoint, Move
  <2> QED  BY <1>2, <2>1, <2>2, <2>3, <2>4, NumbersKept
<1>4. ContainerHasInterface' /\ Unjoined'
  BY Zenon DEF IInv, TypeOK, ContainerHasInterface, Unjoined, Recorded, CreateEndpoint,
         DeleteEndpoint, Move, memory, counters
<1> QED  BY <1>1, <1>3, <1>4 DEF IInv

(* The scrape of addInternalPort picks a number that is free.              *)
LEMMA ScrapeStep ==
    ASSUME IInv, NEW e \in Endpoints, ReserveScrape(e)
    PROVE  IInv'
<1>1. LowestFree \in Free /\ LowestFree \in 1..MaxPort /\ MaxPort \in Nat
  BY LowestFreeIsFree, BridgeAssumption DEF ReserveScrape, Free, Numbers
<1>2. TypeOK'
  <2>1. pending' \in [ep : Endpoints \cup {None}, port : 0..MaxPort]
    BY <1>1 DEF ReserveScrape
  <2> QED  BY <2>1 DEF IInv, TypeOK, ReserveScrape, memory, counters
<1>3. Free' = Free
  BY DEF ReserveScrape, Free, Used
<1>4. ReserveOk'
  BY <1>1, <1>3 DEF ReserveScrape, ReserveOk, Numbers
<1>5. Distinct' /\ Unreserved' /\ Unjoined' /\ RecordedPortIsActual' /\ ContainerHasInterface'
  BY DEF IInv, Distinct, Unreserved, Unjoined, RecordedPortIsActual, ContainerHasInterface, Recorded,
         ReserveScrape, memory, counters
<1> QED  BY <1>2, <1>4, <1>5 DEF IInv

(* The add-port of addInternalPort: the number requested is the number     *)
(* given, and the one recorded, unless it was taken since the scrape.      *)
LEMMA AddStep ==
    ASSUME IInv, NEW e \in Endpoints, ReserveAdd(e)
    PROVE  IInv'
<1> USE BridgeAssumption
<1>0. e \in Names /\ None \notin Endpoints
  BY DEF Names
<1>1. PICK p \in IF pending.port \in Used THEN Free ELSE {pending.port} :
            ofport' = [ofport EXCEPT ![e] = p]
  BY Zenon DEF ReserveAdd
<1>2. pending # NoReserve /\ pending.ep = e
  BY <1>0 DEF ReserveAdd, NoReserve
<1>3. pending.port \in Numbers /\ (races = 0 => pending.port \in Free)
  BY <1>2 DEF IInv, ReserveOk
<1>4. p \in Free /\ p \in Numbers /\ p # 0 /\ p \in 0..MaxPort
  BY <1>1, <1>3 DEF Free, Numbers
<1>5. races = 0 => p = pending.port
  BY <1>1, <1>3 DEF Free
<1>6. ofport'[e] = p /\ (\A x \in Names : x # e => ofport'[x] = ofport[x] /\ ofport[x] # p)
  BY <1>0, <1>1, <1>4 DEF IInv, TypeOK, Free, Used
<1>7. TypeOK'
  <2>1. OFPorts' \in [Endpoints -> [port : 0..MaxPort, container : BOOLEAN]]
    BY <1>3 DEF IInv, TypeOK, ReserveAdd, Numbers
  <2>2. ofport' \in [Names -> 0..MaxPort]
    BY <1>1, <1>4, Zenon DEF IInv, TypeOK
  <2>3. pending' \in [ep : Endpoints \cup {None}, port : 0..MaxPort]
    BY DEF ReserveAdd, NoReserve
  <2> QED  BY <2>1, <2>2, <2>3, Zenon DEF IInv, TypeOK, ReserveAdd, Move, EpStates, counters
<1>8. Distinct'
  BY <1>6, Zenon DEF IInv, Distinct
<1>9. ep[e] = "veth" /\ ep'[e] = "created" /\ \A f \in Endpoints : f # e => ep'[f] = ep[f]
  BY DEF IInv, TypeOK, ReserveAdd, Move
<1>10. /\ OFPorts'[e] = [port |-> pending.port, container |-> FALSE]
       /\ \A f \in Endpoints : f # e => OFPorts'[f] = OFPorts[f]
  BY DEF IInv, TypeOK, ReserveAdd
<1>11. Unreserved'
  BY <1>6, <1>9, <1>10, Zenon DEF IInv, Unreserved, Names
<1>12. ReserveOk' /\ Unjoined'
  BY <1>9, Zenon DEF IInv, TypeOK, ReserveAdd, ReserveOk, Unjoined
<1>13. RecordedPortIsActual'
  <2> SUFFICES ASSUME races' = 0, NEW f \in Endpoints, Recorded(f)'
               PROVE  ofport'[f] = OFPorts'[f].port
    BY DEF RecordedPortIsActual
  <2>1. races = 0
    BY DEF ReserveAdd, counters
  <2>2. CASE f = e
    BY <1>5, <1>6, <1>10, <2>1, <2>2
  <2>3. CASE f # e
    <3>1. Recorded(f) /\ ofport'[f] = ofport[f] /\ OFPorts'[f] = OFPorts[f]
      BY <1>6, <1>9, <1>10, <2>3 DEF Recorded, Names
    <3> QED  BY <2>1, <3>1 DEF IInv, RecordedPortIsActual
  <2> QED  BY <2>2, <2>3
<1>14. ContainerHasInterface'
  <2> SUFFICES ASSUME races' = 0, NEW f \in Containers', Recorded(f)'
               PROVE  faucet'[ofport'[f]] = f
    BY Zenon DEF ContainerHasInterface
  <2>1. CASE f # e
    BY <2>1, <1>6, <1>9, <1>10 DEF IInv, TypeOK, ContainerHasInterface, Recorded, Names,
       ReserveAdd, counters
  <2>2. CASE f = e
    BY <2>2, <1>9 DEF IInv, Unjoined, ReserveAdd
  <2> QED  BY <2>1, <2>2
<1> QED  BY <1>7, <1>8, <1>11, <1>12, <1>13, <1>14 DEF IInv

(* A reservation that panics records nothing.                              *)
LEMMA ReserveFailStep ==
    ASSUME IInv, NEW e \in Endpoints, ReserveFail(e)
    PROVE  IInv'
<1>1. TypeOK'
  <2>1. pending' \in [ep : Endpoints \cup {None}, port : 0..MaxPort]
    BY BridgeAssumption DEF ReserveFail, NoReserve
  <2>2. faults' \in 0..MaxFaults
    BY BridgeAssumption DEF IInv, TypeOK, ReserveFail, Fault
  <2> QED  BY <2>1, <2>2, Zenon DEF IInv, TypeOK, ReserveFail, Move, EpStates, memory
<1>2. ep[e] = "veth" /\ ep'[e] = "created" /\ \A f \in Endpoints : f # e => ep'[f] = ep[f]
  BY DEF IInv, TypeOK, ReserveFail, Move
<1>3. OFPorts[e] = NoEntry
  BY <1>2 DEF IInv, Unreserved
<1>4. Distinct' /\ Unreserved' /\ ReserveOk' /\ Unjoined'
  BY <1>2 DEF IInv, TypeOK, Distinct, Unreserved, ReserveOk, Unjoined, ReserveFail, memory
<1>5. RecordedPortIsActual' /\ ContainerHasInterface'
  BY <1>2, <1>3 DEF IInv, TypeOK, RecordedPortIsActual, ContainerHasInterface, Recorded,
         NoEntry, ReserveFail, memory
<1> QED  BY <1>1, <1>4, <1>5 DEF IInv

(* mustHandleJoinContainer, complete or cut short by a panic, writes       *)
(* FAUCET's interface on the recorded number, which is the container's.    *)
LEMMA JoinStep ==
    ASSUME IInv, NEW e \in Endpoints, HandleJoin(e) \/ HandleJoinFail(e)
    PROVE  IInv'
<1>1. OFPorts[e].port \in 0..MaxPort /\ e \in Names
  BY DEF IInv, TypeOK, Names
<1>2. TypeOK'
  <2>1. CASE HandleJoin(e)
    <3>1. faucet' \in [0..MaxPort -> Names \cup {None}]
      BY <1>1, <2>1 DEF IInv, TypeOK, HandleJoin
    <3>2. OFPorts' \in [Endpoints -> [port : 0..MaxPort, container : BOOLEAN]]
      BY <2>1, ZenonT(40) DEF IInv, TypeOK, HandleJoin
    <3>3. dp' \in {"absent", "full", "noid"}
      BY <2>1 DEF IInv, TypeOK, HandleJoin, MergeMinimal
    <3> QED  BY <2>1, <3>1, <3>2, <3>3, Zenon DEF IInv, TypeOK, HandleJoin, Move, EpStates, counters
  <2>2. CASE HandleJoinFail(e)
    <3>1. faucet' \in [0..MaxPort -> Names \cup {None}]
      BY <1>1, <2>2 DEF IInv, TypeOK, HandleJoinFail
    <3>2. faults' \in 0..MaxFaults
      BY <2>2, BridgeAssumption DEF IInv, TypeOK, HandleJoinFail, Fault
    <3>3. dp' \in {"absent", "full", "noid"}
      BY <2>2 DEF IInv, TypeOK, HandleJoinFail, MergeMinimal
    <3>4. nsLinks' \subseteq Endpoints /\ portMaps' \subseteq Endpoints
      BY <2>2 DEF IInv, TypeOK, HandleJoinFail
    <3> QED  BY <2>2, <3>1, <3>2, <3>3, <3>4 DEF IInv, TypeOK, HandleJoinFail, Move,
             EpStates, memory
  <2> QED  BY <2>1, <2>2
<1>3. /\ ep[e] = "created" /\ ep'[e] = "joined"
      /\ \A f \in Endpoints : f # e => ep'[f] = ep[f]
      /\ UNCHANGED <<ofport, pending, races>>
      /\ pending = NoReserve
  BY DEF IInv, TypeOK, HandleJoin, HandleJoinFail, Move, Idle, memory, counters
<1>4. /\ \A f \in Endpoints : OFPorts'[f].port = OFPorts[f].port
      /\ \A f \in Endpoints : f # e => OFPorts'[f] = OFPorts[f]
      /\ \A f \in Containers' : f = e \/ f \in Containers
  <2>1. CASE HandleJoin(e)
    <3>1. OFPorts' = [OFPorts EXCEPT ![e] = [OFPorts[e] EXCEPT !.container = TRUE]]
      BY <2>1 DEF HandleJoin
    <3>2. OFPorts[e] \in [port : 0..MaxPort, container : BOOLEAN]
      BY DEF IInv, TypeOK
    <3>3. [OFPorts[e] EXCEPT !.container = TRUE].port = OFPorts[e].port
      BY <3>2
    <3>4. \A f \in Endpoints :
            OFPorts'[f] = IF f = e THEN [OFPorts[e] EXCEPT !.container = TRUE] ELSE OFPorts[f]
      BY <3>1 DEF IInv, TypeOK
    <3>5. \A f \in Containers' : f = e \/ f \in Containers
      BY <2>1 DEF HandleJoin
    <3> QED  BY <3>3, <3>4, <3>5, Zenon
  <2>2. CASE HandleJoinFail(e)
    BY <2>2 DEF HandleJoinFail, memory
  <2> QED  BY <2>1, <2>2
<1>5. faucet' = faucet \/ faucet' = [faucet EXCEPT ![OFPorts[e].port] = e]
  BY DEF HandleJoin, HandleJoinFail
<1>6. e \in Containers' => faucet' = [faucet EXCEPT ![OFPorts[e].port] = e]
  BY <1>3 DEF IInv, Unjoined, HandleJoin, HandleJoinFail, memory
<1>7. Distinct' /\ Unreserved' /\ ReserveOk' /\ Unjoined'
  BY <1>3, <1>4 DEF IInv, Distinct, Unreserved, ReserveOk, Unjoined, TypeOK
<1>8. RecordedPortIsActual'
  BY <1>3, <1>4 DEF IInv, RecordedPortIsActual, Recorded
<1>9. ContainerHasInterface'
  <2> SUFFICES ASSUME races' = 0, NEW f \in Containers', Recorded(f)'
               PROVE  faucet'[ofport'[f]] = f
    BY DEF ContainerHasInterface
  <2>1. f \in Endpoints /\ races = 0 /\ Recorded(f)
    BY <1>2, <1>3, <1>4, Zenon DEF TypeOK, Recorded
  <2>2. /\ ofport[f] = OFPorts[f].port /\ ofport[f] \in Numbers /\ ofport'[f] = ofport[f]
        /\ \A x \in Names : x # f => ofport[x] # ofport[f]
    BY <1>3, <2>1, OwnNumber
  <2>3. ofport[f] \in 0..MaxPort /\ ofport[f] # 0
    BY <2>2, BridgeAssumption DEF Numbers
  <2>4. CASE f = e
    BY <1>6, <2>2, <2>3, <2>4, ZenonT(40) DEF IInv, TypeOK
  <2>5. CASE f # e
    <3>1. faucet[ofport[f]] = f
      BY <1>4, <2>1, <2>5 DEF IInv, ContainerHasInterface
    <3>2. OFPorts[e].port # ofport[f]
      <4>1. CASE OFPorts[e].port = 0
        BY <4>1, <2>3
      <4>2. CASE OFPorts[e].port # 0
        <5>1. ofport[e] = OFPorts[e].port
          BY <1>3, <2>1, <4>2 DEF IInv, RecordedPortIsActual, Recorded
        <5> QED  BY <1>1, <2>2, <2>5, <5>1
      <4> QED  BY <4>1, <4>2
    <3> QED  BY <1>5, <2>2, <2>3, <3>1, <3>2, ZenonT(40) DEF IInv, TypeOK
  <2> QED  BY <2>4, <2>5
<1> QED  BY <1>2, <1>7, <1>8, <1>9 DEF IInv

(* A handler that panics before it changes anything.                       *)
LEMMA LeaveUnknownStep ==
    ASSUME IInv, NEW e \in Endpoints, HandleLeaveUnknown(e)
    PROVE  IInv'
<1>1. TypeOK'
  BY DEF IInv, TypeOK, HandleLeaveUnknown, Move, EpStates, memory, counters
<1>2. /\ ep[e] = "joined" /\ ep'[e] = "left"
      /\ \A f \in Endpoints : f # e => ep'[f] = ep[f]
      /\ UNCHANGED <<ofport, OFPorts, Containers, faucet, pending, races>>
      /\ pending = NoReserve
  BY DEF IInv, TypeOK, HandleLeaveUnknown, Move, Idle, memory, counters
<1>3. Distinct' /\ Unreserved' /\ ReserveOk' /\ RecordedPortIsActual'
  BY <1>1, <1>2, NumbersKept DEF TypeOK
<1>4. Unjoined' /\ ContainerHasInterface'
  BY <1>2 DEF IInv, TypeOK, Unjoined, ContainerHasInterface, Recorded
<1> QED  BY <1>1, <1>3, <1>4 DEF IInv

(* The handlers that take the port off the bridge, to different extents.   *)
LEMMA LeaveStep ==
    ASSUME IInv, NEW e \in Endpoints,
           HandleLeave(e) \/ HandleLeaveNotJoined(e) \/ HandleLeaveFail(e)
    PROVE  IInv'
<1> USE BridgeAssumption
<1>0. e \in Names /\ ofport[e] \in 0..MaxPort /\ ofport[e] # 0
  BY DEF IInv, TypeOK, Names, HandleLeave, HandleLeaveNotJoined, HandleLeaveFail, CanLeave
<1>1. /\ ep[e] = "joined" /\ ep' = [ep EXCEPT ![e] = "left"]
      /\ UNCHANGED <<pending, races, changes, restarts, ExternalPorts, AllPortDesc>>
      /\ pending = NoReserve
  BY DEF HandleLeave, HandleLeaveNotJoined, HandleLeaveFail, Move, Idle, memory, counters
<1>2. \/ ofport' = ofport /\ veths' = veths
      \/ ofport' = [ofport EXCEPT ![e] = 0] /\ veths' = veths \ {e}
  BY Zenon DEF HandleLeave, HandleLeaveNotJoined, HandleLeaveFail, Unplug
<1>3. \/ faucet' = faucet /\ dp' = dp
      \/ faucet' = [faucet EXCEPT ![ofport[e]] = None] /\ dp' \in {dp, "absent"}
  BY DEF HandleLeave, HandleLeaveNotJoined, HandleLeaveFail, Unconfigure, DropIfEmpty
<1>4. \/ OFPorts' = OFPorts /\ Containers' = Containers
      \/ OFPorts' = [OFPorts EXCEPT ![e] = NoEntry] /\ Containers' = Containers \ {e}
  BY Zenon DEF HandleLeave, HandleLeaveNotJoined, HandleLeaveFail, memory
<1>5. TypeOK'
  <2>1. ofport' \in [Names -> 0..MaxPort]
    BY <1>2, ZeroInRange, Zenon DEF IInv, TypeOK
  <2>2. faucet' \in [0..MaxPort -> Names \cup {None}] /\ dp' \in {"absent", "full", "noid"}
    BY <1>3, Zenon DEF IInv, TypeOK
  <2>3. OFPorts' \in [Endpoints -> [port : 0..MaxPort, container : BOOLEAN]]
    <3> DEFINE Entries == [port : 0..MaxPort, container : BOOLEAN]
    <3>1. NoEntry \in Entries
      BY DEF NoEntry
    <3>2. OFPorts \in [Endpoints -> Entries]
      BY DEF IInv, TypeOK
    <3>3. OFPorts' \in [Endpoints -> Entries]
      <4> HIDE DEF Entries
      <4> QED  BY <1>4, <3>1, <3>2
    <3> QED  BY <3>3
  <2>4. ep' \in [Endpoints -> EpStates] /\ veths' \subseteq Endpoints /\ Containers' \subseteq Endpoints
    BY <1>1, <1>2, <1>4 DEF IInv, TypeOK, EpStates
  <2>5. faults' \in 0..MaxFaults
    BY DEF IInv, TypeOK, HandleLeave, HandleLeaveNotJoined, HandleLeaveFail, Fault, counters
  <2>6. portMaps' \subseteq Endpoints /\ nsLinks' \subseteq Endpoints
    BY Zenon DEF IInv, TypeOK, HandleLeave, HandleLeaveNotJoined, HandleLeaveFail
  <2> QED  BY <1>1, <2>1, <2>2, <2>3, <2>4, <2>5, <2>6, Zenon DEF IInv, TypeOK
<1>6. \A f \in Endpoints : f # e => ep'[f] = ep[f] /\ OFPorts'[f] = OFPorts[f]
  BY <1>1, <1>4 DEF IInv, TypeOK
<1>7. ep'[e] = "left"
  BY <1>1 DEF IInv, TypeOK
<1>8. \A x \in Names : x # e => ofport'[x] = ofport[x]
  BY <1>2 DEF IInv, TypeOK
<1>9. Distinct'
  BY <1>0, <1>2 DEF IInv, TypeOK, Distinct
<1>10. Unreserved'
  BY <1>6, <1>7, <1>8 DEF IInv, Unreserved, Names
<1>11. ReserveOk'
  BY <1>1, Zenon DEF ReserveOk
<1>12. Unjoined'
  BY <1>4, <1>6, <1>7, ZenonT(40) DEF IInv, TypeOK, Unjoined
<1>13. RecordedPortIsActual'
  BY <1>1, <1>6, <1>7, <1>8 DEF IInv, RecordedPortIsActual, Recorded, Names
<1>14. ContainerHasInterface'
  <2> SUFFICES ASSUME races' = 0, NEW f \in Containers', Recorded(f)'
               PROVE  faucet'[ofport'[f]] = f
    BY DEF ContainerHasInterface
  <2>1. f \in Endpoints /\ f # e /\ f \in Containers
    BY <1>4, <1>5, <1>7, Zenon DEF TypeOK, Recorded
  <2>2. races = 0 /\ Recorded(f) /\ ofport'[f] = ofport[f]
    BY <1>1, <1>6, <1>8, <2>1, Zenon DEF Recorded, Names
  <2>3. faucet[ofport[f]] = f
    BY <2>1, <2>2, Zenon DEF IInv, ContainerHasInterface
  <2>4. ofport[e] # ofport[f] /\ ofport[f] \in 0..MaxPort
    BY <1>0, <2>1, <2>2, OwnNumber DEF Numbers
  <2>5. faucet'[ofport[f]] = faucet[ofport[f]]
    <3>1. faucet \in [0..MaxPort -> Names \cup {None}]
      BY DEF IInv, TypeOK
    <3> QED  BY <1>3, <2>4, <3>1, Zenon
  <2> QED  BY <2>2, <2>3, <2>5
<1> QED  BY <1>5, <1>9, <1>10, <1>11, <1>12, <1>13, <1>14, Zenon DEF IInv

(* A poll removes interfaces from numbers without a port and writes those  *)
(* of external ports.                                                      *)
LEMMA PollStep ==
    ASSUME IInv, Poll
    PROVE  IInv'
<1> DEFINE new == PortDesc
           gone == [p \in 0..MaxPort |-> IF p \in Removed(new) THEN None ELSE faucet[p]]
<1>1. new \in [0..MaxPort -> Names \cup {None}]
  BY DescType, Zenon DEF IInv
<1>2. faucet' = [p \in 0..MaxPort |-> IF p \in Added(new) THEN new[p] ELSE gone[p]]
  BY DEF Poll, Reconciled
<1>3. UNCHANGED <<ep, veths, ofport, OFPorts, Containers, portMaps, nsLinks, pending, faults,
                  changes, restarts, races>>
  BY Zenon DEF Poll, counters
<1>4. TypeOK'
  <2>1. faucet' \in [0..MaxPort -> Names \cup {None}]
    BY <1>1, <1>2, Zenon DEF IInv, TypeOK
  <2>2. dp' \in {"absent", "full", "noid"}
    BY Zenon DEF IInv, TypeOK, Poll, Reconciled, MergeMinimal, DropIfEmpty
  <2>3. ExternalPorts' \in [ExtPorts -> 0..MaxPort]
    <3>1. 0 \in 0..MaxPort
      BY BridgeAssumption
    <3>2. \A a \in ExtPorts : ofport[a] \in 0..MaxPort /\ ExternalPorts[a] \in 0..MaxPort
      BY DEF IInv, TypeOK, Names
    <3> QED  BY <3>1, <3>2 DEF Poll, Reconciled
  <2>4. AllPortDesc' \in [0..MaxPort -> Names \cup {None}]
    BY <1>1 DEF Poll
  <2> QED  BY <1>3, <2>1, <2>2, <2>3, <2>4, Zenon DEF IInv, TypeOK
<1>5. Distinct' /\ Unreserved' /\ ReserveOk' /\ RecordedPortIsActual'
  <2>1. ep' \in [Endpoints -> EpStates]
    BY <1>4 DEF TypeOK
  <2> QED  BY <1>3, <2>1, NumbersKept
<1>6. Unjoined'
  BY <1>3, Zenon DEF IInv, Unjoined
<1>7. ContainerHasInterface'
  <2> SUFFICES ASSUME races' = 0, NEW f \in Containers', Recorded(f)'
               PROVE  faucet'[ofport'[f]] = f
    BY DEF ContainerHasInterface
  <2>1. f \in Endpoints /\ f \in Names /\ races = 0 /\ Recorded(f) /\ ofport'[f] = ofport[f]
    BY <1>3, <1>4, Zenon DEF TypeOK, Recorded, Names
  <2>2. faucet[ofport[f]] = f
    BY <1>3, <2>1 DEF IInv, ContainerHasInterface
  <2>3. ofport[f] \in Numbers /\ ofport[f] # 0 /\ ofport[f] \in 0..MaxPort
    BY <2>1, OwnNumber, BridgeAssumption DEF Numbers
  <2>4. new[ofport[f]] = f
    BY <2>1, <2>3, DescOfPort DEF IInv
  <2>5. ofport[f] \notin Added(new) /\ ofport[f] \notin Removed(new)
    BY <2>1, <2>4, BridgeAssumption DEF Added, Removed
  <2> QED  BY <1>2, <2>1, <2>2, <2>3, <2>5
<1> QED  BY <1>4, <1>5, <1>6, <1>7 DEF IInv

(* A port that ovs-vsctl adds gets a number no other port has; one it      *)
(* removes frees its own.                                                  *)
LEMMA AdminStep ==
    ASSUME IInv, NEW a \in ExtPorts, OvsAddPort(a) \/ OvsDelPort(a)
    PROVE  IInv'
<1> USE BridgeAssumption
<1>0. a \in Names /\ \A f \in Endpoints : f \in Names /\ f # a
  BY DEF Names
<1>1. PICK p \in 0..MaxPort :
        /\ ofport' = [ofport EXCEPT ![a] = p]
        /\ p # 0 => p \in Free
        /\ p # 0 /\ p = pending.port => races' = races + 1
        /\ races' \in {races, races + 1}
  <2>1. CASE OvsAddPort(a)
    <3>1. PICK q \in Free :
            /\ ofport' = [ofport EXCEPT ![a] = q]
            /\ races' = IF q = pending.port THEN races + 1 ELSE races
      BY <2>1, Zenon DEF OvsAddPort
    <3>2. q \in 0..MaxPort
      BY DEF Free, Numbers
    <3>3. WITNESS q \in 0..MaxPort
    <3> QED  BY <3>1
  <2>2. CASE OvsDelPort(a)
    <3>1. ofport' = [ofport EXCEPT ![a] = 0] /\ races' = races
      BY <2>2 DEF OvsDelPort
    <3>2. 0 \in 0..MaxPort
      BY ZeroInRange
    <3>3. WITNESS 0 \in 0..MaxPort
    <3> QED  BY <3>1
  <2> QED  BY <2>1, <2>2
<1>2. UNCHANGED <<ep, veths, OFPorts, Containers, ExternalPorts, AllPortDesc, faucet, dp,
                  portMaps, nsLinks, pending, faults, restarts>>
  BY DEF OvsAddPort, OvsDelPort, memory
<1>3. races \in Nat /\ races' \in Nat /\ (races' = 0 => races = 0)
  BY <1>1 DEF IInv, TypeOK
<1>4. TypeOK'
  <2>1. changes' \in 0..MaxChanges
    <3>1. changes \in 0..MaxChanges /\ changes < MaxChanges /\ changes' = changes + 1
      BY Zenon DEF IInv, TypeOK, OvsAddPort, OvsDelPort
    <3> QED  BY <3>1, OneMoreChange, Zenon
  <2>2. ofport' \in [Names -> 0..MaxPort]
    BY <1>1, Zenon DEF IInv, TypeOK
  <2> QED  BY <1>2, <1>3, <2>1, <2>2, Zenon DEF IInv, TypeOK
<1>5. ofport'[a] = p /\ \A x \in Names : x # a => ofport'[x] = ofport[x]
  BY <1>0, <1>1 DEF IInv, TypeOK
<1>6. Distinct'
  BY <1>1, <1>5 DEF IInv, Distinct, Free, Used
<1>7. Unreserved' /\ Unjoined'
  BY <1>0, <1>2, <1>5 DEF IInv, Unreserved, Unjoined
<1>8. ReserveOk'
  <2> SUFFICES ASSUME pending' # NoReserve, races' = 0
               PROVE  pending'.port \in Free'
    BY <1>2, Zenon DEF IInv, ReserveOk
  <2>1. pending.port \in Free /\ pending.port \in Numbers
    BY <1>2, <1>3 DEF IInv, ReserveOk
  <2>2. p # pending.port
    BY <1>1, <1>3, <2>1 DEF Numbers
  <2>3. \A x \in Names : ofport[x] # pending.port
    BY <2>1 DEF Free, Used, Numbers
  <2>4. \A x \in Names : ofport'[x] # pending.port
    BY <1>5, <2>2, <2>3, Zenon
  <2> QED  BY <1>2, <2>1, <2>4, Zenon DEF Free, Used
<1>9. \A f \in Endpoints : ofport'[f] = ofport[f] /\ (Recorded(f)' <=> Recorded(f))
  BY <1>0, <1>2, <1>5, Zenon DEF Recorded
<1>10. RecordedPortIsActual'
  BY <1>2, <1>3, <1>9, Zenon DEF IInv, RecordedPortIsActual
<1>11. ContainerHasInterface'
  <2>1. Containers \subseteq Endpoints
    BY DEF IInv, TypeOK
  <2> QED  BY <1>2, <1>3, <1>9, <2>1, Zenon DEF IInv, ContainerHasInterface
<1> QED  BY <1>4, <1>6, <1>7, <1>8, <1>10, <1>11 DEF IInv

(* After a restart nothing is recorded any more; the bridge is kept, or    *)
(* made again with the ports of add_ports only.                            *)
LEMMA RestartStep ==
    ASSUME IInv, RestartGateway \/ RestartFlat
    PROVE  IInv'
<1> USE BridgeAssumption
<1>1. /\ OFPorts' = [e \in Endpoints |-> NoEntry]
      /\ Containers' = {}
      /\ AllPortDesc' = NoPorts
      /\ pending' = NoReserve
      /\ restarts < MaxRestarts /\ restarts' = restarts + 1
      /\ UNCHANGED <<veths, portMaps, nsLinks, faults, changes, races>>
  BY Zenon DEF RestartGateway, RestartFlat, LoseMemory
<1>2. PICK lost \in SUBSET {e \in Endpoints : ep[e] = "created"} :
        ep' = [e \in Endpoints |-> IF e \in lost THEN "joined"
                                    ELSE IF ep[e] = "veth" THEN "created" ELSE ep[e]]
  BY Zenon DEF RestartGateway, RestartFlat, LoseMemory
<1>3. ofport' = ofport \/ ofport' \in Numberings
  BY DEF RestartGateway, RestartFlat
<1>4. ofport' \in [Names -> 0..MaxPort]
  BY <1>3 DEF IInv, TypeOK, Numberings
<1>5. TypeOK'
  <2>1. faucet' \in [0..MaxPort -> Names \cup {None}]
    <3>1. \A f \in CutShort : f \in [0..MaxPort -> Names \cup {None}]
      BY DEF IInv, TypeOK, CutShort
    <3>2. faucet' \in CutShort \/ \E f \in CutShort : faucet' = WithAddPorts(f, ofport')
      BY Zenon DEF RestartGateway, RestartFlat
    <3> QED  BY <3>1, <3>2, WithAddPortsType
  <2>2. dp' \in {"absent", "full", "noid"}
    BY DEF IInv, TypeOK, RestartGateway, RestartFlat
  <2>3. ExternalPorts' \in [ExtPorts -> 0..MaxPort]
    <3>1. \A a \in ExtPorts : a \in Names
      BY Zenon DEF Names
    <3>2. CASE RestartGateway
      BY <1>4, <3>1, <3>2 DEF RestartGateway
    <3>3. CASE RestartFlat
      BY <1>4, <3>1, <3>3, Zenon DEF RestartFlat
    <3> QED  BY <3>2, <3>3
  <2>4. ep' \in [Endpoints -> EpStates]
    BY <1>2, Zenon DEF IInv, TypeOK, EpStates
  <2>5. AllPortDesc' \in [0..MaxPort -> Names \cup {None}]
    BY <1>1, Zenon DEF NoPorts
  <2>6. OFPorts' \in [Endpoints -> [port : 0..MaxPort, container : BOOLEAN]]
    BY <1>1, EmptyTypes, Zenon
  <2>7. pending' \in [ep : Endpoints \cup {None}, port : 0..MaxPort]
    BY <1>1, EmptyTypes, Zenon
  <2>8. restarts' \in 0..MaxRestarts
    BY <1>1 DEF IInv, TypeOK
  <2> QED  BY <1>1, <1>4, <2>1, <2>2, <2>3, <2>4, <2>5, <2>6, <2>7, <2>8, Zenon DEF IInv, TypeOK
<1>6. Distinct'
  BY <1>3, Zenon DEF IInv, Distinct, Numberings
<1>7. Unreserved'
  <2>1. \A e \in Endpoints : ep'[e] \in {"absent", "veth"} => ep[e] = "absent"
    BY <1>2 DEF IInv, TypeOK
  <2>2. \A e \in Endpoints : e \in Names /\ e \notin AddPorts
    BY Zenon DEF Names
  <2>3. \A e \in Endpoints : ep[e] = "absent" => ofport'[e] = 0
    BY <1>3, <2>2, Zenon DEF IInv, Unreserved, Numberings
  <2> QED  BY <1>1, <2>1, <2>3, Zenon DEF Unreserved
<1>8. ReserveOk' /\ Unjoined' /\ ContainerHasInterface'
  BY <1>1, Zenon DEF ReserveOk, Unjoined, ContainerHasInterface
<1>9. RecordedPortIsActual'
  BY <1>1 DEF RecordedPortIsActual, Recorded, NoEntry
<1> QED  BY <1>5, <1>6, <1>7, <1>8, <1>9, Zenon DEF IInv

-----------------------------------------------------------------------------
(* The invariant is inductive: every operation of every endpoint, every    *)
(* poll, every command of the administrator and every restart keeps it.    *)
THEOREM Inductive == Spec => []IInv
<1>1. IInv /\ [Next]_vars => IInv'
  <2> SUFFICES ASSUME IInv, [Next]_vars PROVE IInv'
    OBVIOUS
  <2>1. CASE \E e \in Endpoints : Endpoint(e)
    <3>1. PICK e \in Endpoints : Endpoint(e)
      BY <2>1
    <3> QED  BY <3>1, CreateStep, ScrapeStep, AddStep, ReserveFailStep, JoinStep, LeaveStep,
             LeaveUnknownStep DEF Endpoint
  <2>2. CASE Poll
    BY <2>2, PollStep
  <2>3. CASE Admin
    BY <2>3, AdminStep DEF Admin
  <2>4. CASE RestartGateway \/ RestartFlat
    BY <2>4, RestartStep, Zenon
  <2>5. CASE UNCHANGED vars
    <3>1. Used' = Used /\ Free' = Free
      BY <2>5, Zenon DEF vars, Used, Free
    <3> QED  BY <2>5, <3>1, ZenonT(40) DEF vars, IInv, TypeOK, Distinct, Unreserved, ReserveOk, Unjoined,
             RecordedPortIsActual, ContainerHasInterface, Recorded
  <2> QED  BY <2>1, <2>2, <2>3, <2>4, <2>5 DEF Next
<1> QED  BY <1>1, InitIInv, PTL DEF Spec

(* Every variable of Bridge keeps its type; the port numbers dovesnap      *)
(* requests and records are in range.                                      *)
THEOREM TypeCorrect == Spec => []TypeOK
<1>1. IInv => TypeOK
  BY DEF IInv
<1> QED  BY <1>1, Inductive, PTL

(* The number mustHandleReservePort records is the number OVS gave the     *)
(* port, unless an administrator's port took it in the meantime.           *)
THEOREM RecordedCorrect == Spec => []RecordedPortIsActual
<1>1. IInv => RecordedPortIsActual
  BY DEF IInv
<1> QED  BY <1>1, Inductive, PTL

(* FAUCET's interface on a joined container's port is the container's own: *)
(* neither a poll, nor another container's join or leave, nor a failure in *)
(* the middle of one, takes it away or overwrites it.                      *)
THEOREM InterfaceCorrect == Spec => []ContainerHasInterface
<1>1. IInv => ContainerHasInterface
  BY DEF IInv
<1> QED  BY <1>1, Inductive, PTL

-----------------------------------------------------------------------------
(* What a leave and a poll leave behind when no external call failed, the  *)
(* process was not restarted and no administrator's port took a number     *)
(* that was being requested.                                               *)

(* What the handlers have built for an endpoint at each stage, and         *)
(* nothing of it before or after.                                          *)
Staged(e) ==
    /\ e \in veths => ep[e] \notin {"absent", "left"}
    /\ e \in portMaps \cup nsLinks \cup Containers => ep[e] = "joined"
    /\ ep[e] \in {"created", "joined"} => OFPorts[e].port # 0
    /\ ep[e] = "joined" => OFPorts[e].container
    /\ ep[e] = "left" => ofport[e] = 0 /\ OFPorts[e] = NoEntry
    /\ \A p \in 0..MaxPort : faucet[p] = e => ep[e] = "joined" /\ p = ofport[e]

(* FAUCET's interface of a port added with ovs-vsctl is on a number where  *)
(* the last poll saw an external port, or where a container's port is now. *)
Seen(p) ==
    faucet[p] \in ExtPorts \ AddPorts =>
        AllPortDesc[p] \in ExtPorts \/ \E e \in Endpoints : ofport[e] = p

CInv ==
    Undisturbed => /\ \A e \in Endpoints : Staged(e)
                   /\ \A p \in Numbers : Seen(p)

-----------------------------------------------------------------------------
(* A port number is one of the bridge, and never 0.                        *)
LEMMA NumbersRange == \A p \in Numbers : p \in 0..MaxPort /\ p # 0
BY BridgeAssumption DEF Numbers

(* An entry with a port number is not the empty one.                       *)
LEMMA EntryNotEmpty == \A r : r.port # 0 => r # NoEntry
BY DEF NoEntry

(* The invariant gives the two properties.                                 *)
LEMMA CInvSuffices ==
    ASSUME IInv, CInv
    PROVE  LeaveIsClean /\ NoOrphanInterface
<1> USE BridgeAssumption
<1>1. LeaveIsClean
  BY Zenon DEF CInv, Staged, LeaveIsClean
<1>2. NoOrphanInterface
  <2> SUFFICES ASSUME Undisturbed, AllPortDesc = PortDesc, NEW p \in Numbers,
                      faucet[p] \in Names \ AddPorts
               PROVE  p \in Used
    BY DEF NoOrphanInterface
  <2>1. p \in 0..MaxPort /\ p # 0
    BY DEF Numbers
  <2>2. CASE faucet[p] \in Endpoints
    <3>1. p = ofport[faucet[p]] /\ faucet[p] \in Names
      BY <2>1, <2>2, Zenon DEF CInv, Staged, Names
    <3> QED  BY <2>1, <3>1, Zenon DEF Used
  <2>3. CASE faucet[p] \in ExtPorts \ AddPorts
    <3>1. CASE AllPortDesc[p] \in ExtPorts
      <4>1. PortDesc[p] # None
        BY <3>1
      <4> QED  BY <2>1, <4>1 DEF PortDesc
    <3>2. CASE \E e \in Endpoints : ofport[e] = p
      BY <2>1, <3>2 DEF Used, Names
    <3> QED  BY <2>3, <3>1, <3>2 DEF CInv, Seen
  <2> QED  BY <2>2, <2>3 DEF Names
<1> QED  BY <1>1, <1>2, Zenon

(* A fresh network has no endpoints, and FAUCET knows add_ports only.      *)
LEMMA InitCInv == Init => CInv
<1> SUFFICES ASSUME Init PROVE CInv
  OBVIOUS
<1> USE BridgeAssumption
<1>1. \A p \in 0..MaxPort : faucet[p] \in AddPorts \cup {None}
  BY DEF Init, WithAddPorts, NoPorts
<1>2. \A p \in Numbers : p \in 0..MaxPort
  BY DEF Numbers
<1>3. \A e \in Endpoints : Staged(e)
  BY <1>1 DEF Init, Staged
<1>4. \A p \in Numbers : Seen(p)
  BY <1>1, <1>2, Zenon DEF Seen
<1> QED  BY <1>3, <1>4 DEF CInv

-----------------------------------------------------------------------------
(* Failures, races and restarts are counted and never forgotten.           *)
LEMMA CountersGrow ==
    ASSUME IInv, [Next]_vars
    PROVE  /\ faults' = 0 => faults = 0
           /\ restarts' = 0 => restarts = 0
           /\ races' = 0 => races = 0
<1>1. faults \in Nat /\ restarts \in Nat /\ races \in Nat
  BY BridgeAssumption DEF IInv, TypeOK
<1>2. faults' \in {faults, faults + 1} /\ restarts' \in {restarts, restarts + 1}
      /\ races' \in {races, races + 1}
  BY DEF Next, Endpoint, CreateEndpoint, DeleteEndpoint, ReserveScrape, ReserveAdd, ReserveFail,
         HandleJoin, HandleJoinFail, HandleLeave, HandleLeaveNotJoined, HandleLeaveUnknown,
         HandleLeaveFail, Poll, Admin, OvsAddPort, OvsDelPort, RestartGateway, RestartFlat,
         LoseMemory, Fault, counters, vars
<1> QED  BY <1>1, <1>2

(* A failure, a race and a restart are never undone.                       *)
LEMMA Disturbed ==
    ASSUME IInv, [Next]_vars, Undisturbed'
    PROVE  /\ Undisturbed
           /\ UNCHANGED <<faults, restarts, races>>
BY CountersGrow DEF Undisturbed

(* CreateEndpoint, DeleteEndpoint and the scrape change nothing FAUCET or  *)
(* the bridge has.                                                         *)
LEMMA CreateClean ==
    ASSUME IInv, CInv, Undisturbed, NEW e \in Endpoints,
           CreateEndpoint(e) \/ DeleteEndpoint(e) \/ ReserveScrape(e)
    PROVE  (\A f \in Endpoints : Staged(f)') /\ (\A p \in Numbers : Seen(p)')
<1>1. UNCHANGED <<ofport, OFPorts, Containers, AllPortDesc, faucet, portMaps, nsLinks>>
  BY Zenon DEF CreateEndpoint, DeleteEndpoint, ReserveScrape, memory
<1>2. \A p \in Numbers : Seen(p)'
  BY <1>1 DEF CInv, Seen
<1>3. \A f \in Endpoints : Staged(f)'
  <2> SUFFICES ASSUME NEW f \in Endpoints
               PROVE  Staged(f)'
    BY Zenon
  <2>1. Staged(f) /\ ep \in [Endpoints -> EpStates]
    BY Zenon DEF CInv, IInv, TypeOK
  <2>2. CASE f # e
    <3>1. ep'[f] = ep[f] /\ (f \in veths' => f \in veths)
      BY <2>1, <2>2, Zenon DEF CreateEndpoint, DeleteEndpoint, ReserveScrape, Move
    <3> QED  BY <1>1, <2>1, <3>1, Zenon DEF Staged
  <2>3. CASE f = e
    <3>1. \/ ep[e] = "absent" /\ ep'[e] = "veth"
          \/ ep[e] = "created" /\ ep'[e] = "gone"
          \/ ep[e] = "veth" /\ ep'[e] = "veth"
      BY <2>1 DEF CreateEndpoint, DeleteEndpoint, ReserveScrape, Move
    <3> QED  BY <1>1, <2>1, <2>3, <3>1, Zenon DEF Staged
  <2> QED  BY <2>2, <2>3
<1> QED  BY <1>2, <1>3, Zenon

(* The reservation records a number.                                       *)
LEMMA AddClean ==
    ASSUME IInv, CInv, Undisturbed, NEW e \in Endpoints, ReserveAdd(e)
    PROVE  (\A f \in Endpoints : Staged(f)') /\ (\A p \in Numbers : Seen(p)')
<1> USE BridgeAssumption
<1>1. UNCHANGED <<veths, Containers, AllPortDesc, faucet, portMaps, nsLinks>>
  BY Zenon DEF ReserveAdd
<1>2. pending # NoReserve /\ pending.ep = e
  BY DEF ReserveAdd, NoReserve
<1>3. pending.port \in Numbers /\ pending.port # 0
  BY <1>2 DEF IInv, ReserveOk, Numbers
<1>4. /\ ofport[e] = 0
      /\ ep[e] = "veth" /\ ep'[e] = "created"
      /\ \A f \in Endpoints \ {e} : ep'[f] = ep[f]
  BY Zenon DEF IInv, TypeOK, Unreserved, ReserveAdd, Move
<1>5. /\ OFPorts'[e].port = pending.port
      /\ \A f \in Endpoints \ {e} : OFPorts'[f] = OFPorts[f]
  BY DEF IInv, TypeOK, ReserveAdd
<1>6. \A x \in Names \ {e} : ofport'[x] = ofport[x]
  BY DEF IInv, TypeOK, ReserveAdd
<1>7. \A f \in Endpoints : Staged(f)'
  <2> SUFFICES ASSUME NEW f \in Endpoints
               PROVE  Staged(f)'
    OBVIOUS
  <2>1. Staged(f) /\ f \in Names
    BY Zenon DEF CInv, Names
  <2>2. CASE f # e
    BY <1>1, <1>4, <1>5, <1>6, <2>1, <2>2 DEF Staged
  <2>3. CASE f = e
    BY <1>1, <1>3, <1>4, <1>5, <2>1, <2>3, Zenon DEF Staged
  <2> QED  BY <2>2, <2>3
<1>8. \A p \in Numbers : Seen(p)'
  <2> SUFFICES ASSUME NEW p \in Numbers, Seen(p)
               PROVE  Seen(p)'
    BY Zenon DEF CInv
  <2>1. \A f \in Endpoints : ofport[f] = p => ofport'[f] = p
    <3>1. p # 0
      BY NumbersRange, Zenon
    <3> QED  BY <1>4, <1>6, <3>1, Zenon DEF Names
  <2> QED  BY <1>1, <2>1, Zenon DEF Seen
<1> QED  BY <1>7, <1>8, Zenon

(* The join writes FAUCET's interface on the number the port has.          *)
LEMMA JoinClean ==
    ASSUME IInv, CInv, Undisturbed, NEW e \in Endpoints, HandleJoin(e)
    PROVE  (\A f \in Endpoints : Staged(f)') /\ (\A p \in Numbers : Seen(p)')
<1> USE BridgeAssumption
<1>1. /\ UNCHANGED <<veths, ofport, AllPortDesc>>
      /\ portMaps' = portMaps \cup {e} /\ nsLinks' = nsLinks \cup {e}
      /\ Containers' = Containers \cup {e}
      /\ ep[e] = "created" /\ ep'[e] = "joined"
      /\ \A f \in Endpoints \ {e} : ep'[f] = ep[f]
  BY Zenon DEF IInv, TypeOK, HandleJoin, Move
<1>2. Staged(e) /\ OFPorts[e].port # 0
  BY <1>1, Zenon DEF CInv, Staged
<1>3. ofport[e] = OFPorts[e].port /\ ofport[e] \in 0..MaxPort
  <2>1. Recorded(e) /\ races = 0
    BY <1>1, <1>2, Zenon DEF Recorded, Undisturbed
  <2>2. ofport[e] = OFPorts[e].port /\ ofport[e] \in Numbers
    BY <2>1, OwnNumber, Zenon
  <2> QED  BY <2>2, NumbersRange, Zenon
<1>4. /\ faucet'[ofport[e]] = e
      /\ \A p \in 0..MaxPort : p # ofport[e] => faucet'[p] = faucet[p]
  BY <1>3 DEF IInv, TypeOK, HandleJoin
<1>5. /\ OFPorts'[e].container /\ OFPorts'[e].port = OFPorts[e].port
      /\ \A f \in Endpoints \ {e} : OFPorts'[f] = OFPorts[f]
  <2>1. OFPorts' = [OFPorts EXCEPT ![e] = [OFPorts[e] EXCEPT !.container = TRUE]]
    BY Zenon DEF HandleJoin
  <2>2. OFPorts[e] \in [port : 0..MaxPort, container : BOOLEAN]
    BY DEF IInv, TypeOK
  <2>3. /\ [OFPorts[e] EXCEPT !.container = TRUE].port = OFPorts[e].port
        /\ [OFPorts[e] EXCEPT !.container = TRUE].container = TRUE
    BY <2>2
  <2>4. \A f \in Endpoints :
            OFPorts'[f] = IF f = e THEN [OFPorts[e] EXCEPT !.container = TRUE] ELSE OFPorts[f]
    BY <2>1 DEF IInv, TypeOK
  <2> QED  BY <2>3, <2>4, ZenonT(40)
<1>6. \A f \in Endpoints : Staged(f)'
  <2> SUFFICES ASSUME NEW f \in Endpoints
               PROVE  Staged(f)'
    OBVIOUS
  <2>1. Staged(f)
    BY Zenon DEF CInv
  <2>2. CASE f # e
    BY <1>1, <1>4, <1>5, <2>1, <2>2, ZenonT(40) DEF Staged
  <2>3. CASE f = e
    BY <1>1, <1>2, <1>4, <1>5, <2>3 DEF Staged
  <2> QED  BY <2>2, <2>3
<1>7. \A p \in Numbers : Seen(p)'
  <2> SUFFICES ASSUME NEW p \in Numbers, Seen(p)
               PROVE  Seen(p)'
    BY DEF CInv
  <2>1. p \in 0..MaxPort
    BY DEF Numbers
  <2> QED  BY <1>1, <1>4, <2>1, Zenon DEF Seen
<1> QED  BY <1>6, <1>7

(* Only the complete leave handler runs, and it removes everything.        *)
LEMMA LeaveClean ==
    ASSUME IInv, CInv, Undisturbed, NEW e \in Endpoints,
           HandleLeave(e) \/ HandleLeaveNotJoined(e) \/ HandleLeaveUnknown(e)
    PROVE  (\A f \in Endpoints : Staged(f)') /\ (\A p \in Numbers : Seen(p)')
<1> USE BridgeAssumption
<1>0. e \in Names
  BY Zenon DEF Names
<1>1. ep[e] = "joined" /\ ep' = [ep EXCEPT ![e] = "left"]
  BY Zenon DEF HandleLeave, HandleLeaveNotJoined, HandleLeaveUnknown, Move
<1>2. Staged(e) /\ OFPorts[e].port # 0 /\ OFPorts[e].container
  BY <1>1, Zenon DEF CInv, Staged
<1>3. ofport[e] = OFPorts[e].port /\ ofport[e] \in 0..MaxPort /\ ofport[e] # 0
  <2>1. Recorded(e) /\ races = 0
    BY <1>1, <1>2, Zenon DEF Recorded, Undisturbed
  <2>2. ofport[e] = OFPorts[e].port /\ ofport[e] \in Numbers
    BY <2>1, OwnNumber, Zenon
  <2> QED  BY <2>2, NumbersRange, Zenon
<1>4. HandleLeave(e)
  <2>1. CanLeave(e)
    BY <1>2, <1>3, EntryNotEmpty, Zenon DEF CanLeave
  <2> QED  BY <1>2, <2>1, Zenon DEF HandleLeaveNotJoined, HandleLeaveUnknown
<1>5. /\ veths' = veths \ {e} /\ portMaps' = portMaps \ {e} /\ nsLinks' = nsLinks \ {e}
      /\ Containers' = Containers \ {e}
      /\ UNCHANGED AllPortDesc
      /\ ep'[e] = "left" /\ \A f \in Endpoints \ {e} : ep'[f] = ep[f]
  BY <1>1, <1>4, Zenon DEF IInv, TypeOK, HandleLeave, Unplug
<1>6. ofport'[e] = 0 /\ \A x \in Names \ {e} : ofport'[x] = ofport[x]
  BY <1>0, <1>4, Zenon DEF IInv, TypeOK, HandleLeave, Unplug
<1>7. OFPorts'[e] = NoEntry /\ \A f \in Endpoints \ {e} : OFPorts'[f] = OFPorts[f]
  BY <1>4, ZenonT(40) DEF IInv, TypeOK, HandleLeave
<1>8. faucet'[ofport[e]] = None /\ \A p \in 0..MaxPort : p # ofport[e] => faucet'[p] = faucet[p]
  BY <1>3, <1>4 DEF IInv, TypeOK, HandleLeave, Unconfigure
<1>9. \A f \in Endpoints : Staged(f)'
  <2> SUFFICES ASSUME NEW f \in Endpoints
               PROVE  Staged(f)'
    OBVIOUS
  <2>1. Staged(f) /\ f \in Names
    BY DEF CInv, Names
  <2>2. CASE f # e
    <3>1. /\ ep'[f] = ep[f] /\ ofport'[f] = ofport[f] /\ OFPorts'[f] = OFPorts[f]
          /\ \A p \in 0..MaxPort : faucet'[p] = f => faucet[p] = f
          /\ f \in veths' => f \in veths
          /\ f \in portMaps' \cup nsLinks' \cup Containers' => f \in portMaps \cup nsLinks \cup Containers
      <4>1. f # None
        BY Zenon DEF Names
      <4> QED  BY <1>5, <1>6, <1>7, <1>8, <2>1, <2>2, <4>1, ZenonT(40)
    <3> QED  BY <2>1, <3>1, ZenonT(40) DEF Staged
  <2>3. CASE f = e
    BY <1>5, <1>6, <1>7, <1>8, <2>1, <2>3, ZenonT(40) DEF Staged
  <2> QED  BY <2>2, <2>3, Zenon
<1>10. \A p \in Numbers : Seen(p)'
  <2> SUFFICES ASSUME NEW p \in Numbers, Seen(p)
               PROVE  Seen(p)'
    BY DEF CInv
  <2>1. p \in 0..MaxPort
    BY DEF Numbers
  <2>2. CASE p = ofport[e]
    BY <1>8, <2>2, Zenon DEF Seen
  <2>3. CASE p # ofport[e]
    <3>1. faucet'[p] = faucet[p] /\ \A f \in Endpoints : ofport[f] = p => ofport'[f] = p
      BY <1>6, <1>8, <2>1, <2>3 DEF Names
    <3> QED  BY <1>5, <3>1, Zenon DEF Seen
  <2> QED  BY <2>2, <2>3
<1> QED  BY <1>9, <1>10

(* A poll removes the interface of an external port that is gone, and      *)
(* writes none of an endpoint.                                             *)
LEMMA PollClean ==
    ASSUME IInv, CInv, Undisturbed, Poll
    PROVE  (\A f \in Endpoints : Staged(f)') /\ (\A p \in Numbers : Seen(p)')
<1> USE BridgeAssumption
<1> DEFINE new == PortDesc
           gone == [p \in 0..MaxPort |-> IF p \in Removed(new) THEN None ELSE faucet[p]]
<1>1. faucet' = [p \in 0..MaxPort |-> IF p \in Added(new) THEN new[p] ELSE gone[p]]
  BY Zenon DEF Poll, Reconciled
<1>2. /\ UNCHANGED <<ep, veths, ofport, OFPorts, Containers, portMaps, nsLinks>>
      /\ AllPortDesc' = new
  BY Zenon DEF Poll
<1>3. \A p \in 0..MaxPort : faucet'[p] \in Endpoints => faucet'[p] = faucet[p]
  BY <1>1, Zenon DEF Added
<1>4. \A f \in Endpoints : Staged(f)'
  <2> TAKE f \in Endpoints
  <2>1. Staged(f)
    BY Zenon DEF CInv
  <2>2. \A p \in 0..MaxPort : faucet'[p] = f => faucet[p] = f
    BY <1>3, Zenon
  <2> QED  BY <1>2, <2>1, <2>2, Zenon DEF Staged
<1>5. \A p \in Numbers : Seen(p)'
  <2> SUFFICES ASSUME NEW p \in Numbers, Seen(p), faucet'[p] \in ExtPorts \ AddPorts
               PROVE  new[p] \in ExtPorts \/ \E e \in Endpoints : ofport[e] = p
    BY <1>2 DEF CInv, Seen
  <2>1. p \in 0..MaxPort
    BY DEF Numbers
  <2>2. CASE p \in Added(new)
    BY <2>2, Zenon DEF Added
  <2>3. CASE p \notin Added(new)
    <3>1. p \notin Removed(new) /\ faucet'[p] = faucet[p]
      BY <1>1, <2>1, <2>3, Zenon
    <3>2. AllPortDesc[p] \in ExtPorts \/ \E e \in Endpoints : ofport[e] = p
      BY <3>1, Zenon DEF Seen
    <3>3. CASE AllPortDesc[p] \in ExtPorts
      <4>1. new[p] # None
        BY <3>1, <3>3, Zenon DEF Removed
      <4>2. p \in Used /\ new[p] = CHOOSE x \in Names : ofport[x] = p
        BY <2>1, <4>1, Zenon DEF PortDesc
      <4>3. \E x \in Names : ofport[x] = p
        BY <4>2, Zenon DEF Used
      <4>4. new[p] \in Names /\ ofport[new[p]] = p
        BY <4>2, <4>3, Zenon
      <4> QED  BY <4>4, Zenon DEF Names
    <3> QED  BY <3>2, <3>3, Zenon
  <2> QED  BY <2>2, <2>3, Zenon
<1> QED  BY <1>4, <1>5, Zenon

(* ovs-vsctl moves no container's port.                                    *)
LEMMA AdminClean ==
    ASSUME IInv, CInv, Undisturbed, NEW a \in ExtPorts, OvsAddPort(a) \/ OvsDelPort(a)
    PROVE  (\A f \in Endpoints : Staged(f)') /\ (\A p \in Numbers : Seen(p)')
<1>1. UNCHANGED <<ep, veths, OFPorts, Containers, AllPortDesc, faucet, portMaps, nsLinks>>
  BY Zenon DEF OvsAddPort, OvsDelPort, memory
<1>2. \A f \in Endpoints : ofport'[f] = ofport[f]
  BY BridgeAssumption DEF IInv, TypeOK, OvsAddPort, OvsDelPort, Names
<1> QED  BY <1>1, <1>2 DEF CInv, Staged, Seen

-----------------------------------------------------------------------------
(* Every step keeps the invariant, given that IInv holds.                  *)
THEOREM CleanInductive == IInv /\ CInv /\ [Next]_vars => CInv'
<1> SUFFICES ASSUME IInv, CInv, [Next]_vars, Undisturbed'
             PROVE  (\A f \in Endpoints : Staged(f)') /\ (\A p \in Numbers : Seen(p)')
  BY DEF CInv, Numbers
<1>1. Undisturbed /\ UNCHANGED <<faults, restarts, races>>
  BY Disturbed, Zenon
<1>2. faults \in Nat /\ restarts \in Nat
  BY BridgeAssumption DEF IInv, TypeOK
<1>3. CASE \E e \in Endpoints : Endpoint(e)
  <2>1. PICK e \in Endpoints : Endpoint(e)
    BY <1>3
  <2>2. ~ (ReserveFail(e) \/ HandleJoinFail(e) \/ HandleLeaveFail(e))
    <3>1. ~ Fault
      BY <1>1, <1>2 DEF Fault
    <3> QED  BY <3>1, Zenon DEF ReserveFail, HandleJoinFail, HandleLeaveFail
  <2> QED  BY <1>1, <2>1, <2>2, CreateClean, AddClean, JoinClean, LeaveClean DEF Endpoint
<1>4. CASE Poll
  BY <1>1, <1>4, PollClean
<1>5. CASE Admin
  BY <1>1, <1>5, AdminClean DEF Admin
<1>6. CASE RestartGateway \/ RestartFlat
  <2>1. restarts' = restarts + 1
    BY <1>6, Zenon DEF RestartGateway, RestartFlat, LoseMemory
  <2> QED  BY <1>1, <1>2, <2>1
<1>7. CASE UNCHANGED vars
  BY <1>1, <1>7, ZenonT(40) DEF vars, CInv, Staged, Seen
<1> QED  BY <1>3, <1>4, <1>5, <1>6, <1>7 DEF Next

(* In every reachable state both properties of the bookkeeping hold.       *)
THEOREM CleanInvariance == Spec => [](LeaveIsClean /\ NoOrphanInterface)
<1>1. IInv /\ CInv => LeaveIsClean /\ NoOrphanInterface
  BY CInvSuffices
<1> QED  BY <1>1, InitCInv, Inductive, CleanInductive, PTL DEF Spec

(* mustHandleLeave leaves no veth, port, FAUCET interface, port mapping,   *)
(* netns link or map entry of a container that left.                       *)
THEOREM LeaveCorrect == Spec => []LeaveIsClean
BY CleanInvariance, PTL

(* reconcileOvs leaves FAUCET no interface, but those of add_ports, on a   *)
(* number without a port.                                                  *)
THEOREM OrphanCorrect == Spec => []NoOrphanInterface
BY CleanInvariance, PTL

-----------------------------------------------------------------------------
(* What it takes for two containers to share a number, or for a veth to be *)
(* leaked, beyond a failed external call.                                  *)

(* Containers and OFPorts agree on who joined; a container with a recorded *)
(* number is taken out of both by its leave, given no failure and no race; *)
(* given no failure and no restart, an endpoint has a recorded number from *)
(* its reservation on and no port after its leave.                         *)
Tracked(e) ==
    /\ e \in Containers => OFPorts[e].container
    /\ faults = 0 /\ races = 0 /\ e \in Containers /\ OFPorts[e].port # 0 => ep[e] = "joined"
    /\ faults = 0 /\ restarts = 0 =>
        /\ ep[e] \in {"created", "joined"} => OFPorts[e].port # 0
        /\ ep[e] = "left" => ofport[e] = 0

TInv == \A e \in Endpoints : Tracked(e)

(* A step that does not concern an endpoint.                               *)
LEMMA TrackedFrame ==
    ASSUME IInv, [Next]_vars, NEW f \in Endpoints, Tracked(f),
           ep'[f] = ep[f], OFPorts'[f] = OFPorts[f], ofport'[f] = ofport[f],
           f \in Containers' <=> f \in Containers
    PROVE  Tracked(f)'
BY CountersGrow, Zenon DEF Tracked

(* An operation of one endpoint does not concern the others.               *)
LEMMA OneEndpoint ==
    ASSUME IInv, NEW e \in Endpoints, Endpoint(e), NEW f \in Endpoints \ {e}
    PROVE  /\ ep'[f] = ep[f] /\ OFPorts'[f] = OFPorts[f] /\ ofport'[f] = ofport[f]
           /\ f \in Containers' <=> f \in Containers
<1>1. /\ ep \in [Endpoints -> EpStates]
      /\ ofport \in [Names -> 0..MaxPort]
      /\ OFPorts \in [Endpoints -> [port : 0..MaxPort, container : BOOLEAN]]
      /\ f \in Names /\ e \in Names
  BY Zenon DEF IInv, TypeOK, Names
<1>2. CASE CreateEndpoint(e) \/ DeleteEndpoint(e) \/ ReserveScrape(e) \/ ReserveFail(e)
           \/ HandleLeaveUnknown(e)
  BY <1>1, <1>2, Zenon DEF CreateEndpoint, DeleteEndpoint, ReserveScrape, ReserveFail,
                    HandleLeaveUnknown, Move, memory
<1>3. CASE ReserveAdd(e)
  BY <1>1, <1>3, Zenon DEF ReserveAdd, Move
<1>4. CASE HandleJoin(e) \/ HandleJoinFail(e)
  BY <1>1, <1>4, Zenon DEF HandleJoin, HandleJoinFail, Move, memory
<1>5. CASE HandleLeave(e) \/ HandleLeaveNotJoined(e) \/ HandleLeaveFail(e)
  BY <1>1, <1>5, Zenon DEF HandleLeave, HandleLeaveNotJoined, HandleLeaveFail, Unplug, Move, memory
<1> QED  BY <1>2, <1>3, <1>4, <1>5, Zenon DEF Endpoint

(* An operation keeps its own endpoint tracked.                            *)
LEMMA OwnTracked ==
    ASSUME IInv, [Next]_vars, NEW e \in Endpoints, Endpoint(e), Tracked(e)
    PROVE  Tracked(e)'
<1>1. /\ ep \in [Endpoints -> EpStates]
      /\ ofport \in [Names -> 0..MaxPort]
      /\ OFPorts \in [Endpoints -> [port : 0..MaxPort, container : BOOLEAN]]
      /\ e \in Names
      /\ faults \in Nat
  BY BridgeAssumption DEF IInv, TypeOK, Names
<1>2. e \in Containers => ep[e] \in {"joined", "left"}
  BY DEF IInv, Unjoined
<1>3. /\ faults' = 0 => faults = 0
      /\ restarts' = 0 => restarts = 0
      /\ races' = 0 => races = 0
  BY CountersGrow, Zenon
<1>4. CASE CreateEndpoint(e) \/ DeleteEndpoint(e) \/ ReserveScrape(e)
  <2>1. /\ UNCHANGED <<ofport, OFPorts, Containers>>
        /\ ep'[e] \in {"veth", "gone"}
        /\ ep[e] \in {"absent", "created", "veth"}
    BY <1>1, <1>4, Zenon DEF CreateEndpoint, DeleteEndpoint, ReserveScrape, Move, memory
  <2> QED  BY <1>2, <1>3, <2>1, Zenon DEF Tracked
<1>5. CASE ReserveAdd(e)
  <2>1. /\ ep[e] = "veth" /\ ep'[e] = "created" /\ Containers' = Containers
        /\ OFPorts'[e].port = pending.port
    BY <1>1, <1>5, Zenon DEF ReserveAdd, Move
  <2>2. pending.port # 0
    <3>1. pending # NoReserve
      BY <1>5, BridgeAssumption DEF ReserveAdd, NoReserve
    <3> QED  BY <3>1, BridgeAssumption DEF IInv, ReserveOk, Numbers
  <2> QED  BY <1>2, <2>1, <2>2, Zenon DEF Tracked
<1>6. CASE ReserveFail(e) \/ HandleJoinFail(e) \/ HandleLeaveFail(e)
  <2>1. faults' # 0 /\ UNCHANGED <<OFPorts, Containers>>
    BY <1>1, <1>6 DEF ReserveFail, HandleJoinFail, HandleLeaveFail, Fault, memory
  <2> QED  BY <2>1, Zenon DEF Tracked
<1>7. CASE HandleJoin(e)
  <2>1. /\ ep[e] = "created" /\ ep'[e] = "joined"
        /\ OFPorts'[e].container /\ OFPorts'[e].port = OFPorts[e].port
    BY <1>1, <1>7, Zenon DEF HandleJoin, Move
  <2> QED  BY <1>3, <2>1, Zenon DEF Tracked
<1>8. CASE HandleLeave(e)
  <2>1. ep'[e] = "left" /\ e \notin Containers' /\ ofport'[e] = 0
    BY <1>1, <1>8, Zenon DEF HandleLeave, Unplug, Move
  <2> QED  BY <2>1, Zenon DEF Tracked
<1>9. CASE HandleLeaveNotJoined(e)
  <2>1. /\ ep'[e] = "left" /\ ofport'[e] = 0 /\ ~ OFPorts[e].container
        /\ UNCHANGED <<OFPorts, Containers>>
    BY <1>1, <1>9, Zenon DEF HandleLeaveNotJoined, Unplug, Move, memory
  <2> QED  BY <2>1, Zenon DEF Tracked
<1>10. CASE HandleLeaveUnknown(e)
  <2>1. /\ ep[e] = "joined" /\ ep'[e] = "left"
        /\ UNCHANGED <<ofport, OFPorts, Containers>>
        /\ OFPorts[e].port # 0 => ofport[e] = 0
    BY <1>1, <1>10 DEF HandleLeaveUnknown, CanLeave, NoEntry, Move, memory
  <2>2. races = 0 => OFPorts[e].port = 0
    BY <1>1, <2>1, Zenon DEF IInv, RecordedPortIsActual, Recorded
  <2> QED  BY <1>3, <2>1, <2>2, Zenon DEF Tracked
<1> QED  BY <1>4, <1>5, <1>6, <1>7, <1>8, <1>9, <1>10, Zenon DEF Endpoint

(* Every step keeps every endpoint tracked.                                *)
LEMMA TrackedStep == IInv /\ TInv /\ [Next]_vars => TInv'
<1> SUFFICES ASSUME IInv, TInv, [Next]_vars, NEW f \in Endpoints PROVE Tracked(f)'
  BY DEF TInv
<1>0. Tracked(f)
  BY DEF TInv
<1>1. ASSUME NEW e \in Endpoints, Endpoint(e) PROVE Tracked(f)'
  <2>1. CASE e = f
    BY <1>0, <1>1, <2>1, OwnTracked, Zenon
  <2>2. CASE e # f
    BY <1>0, <1>1, <2>2, OneEndpoint, TrackedFrame, Zenon
  <2> QED  BY <2>1, <2>2
<1>2. CASE Poll \/ UNCHANGED vars
  <2>1. UNCHANGED <<ep, ofport, OFPorts, Containers>>
    BY <1>2, Zenon DEF Poll, vars
  <2> QED  BY <1>0, <2>1, TrackedFrame, Zenon
<1>3. ASSUME NEW a \in ExtPorts, OvsAddPort(a) \/ OvsDelPort(a) PROVE Tracked(f)'
  <2>1. UNCHANGED <<ep, OFPorts, Containers>>
    BY <1>3, Zenon DEF OvsAddPort, OvsDelPort, memory
  <2>2. ofport'[f] = ofport[f]
    BY <1>3, BridgeAssumption DEF IInv, TypeOK, OvsAddPort, OvsDelPort, Names
  <2> QED  BY <1>0, <2>1, <2>2, TrackedFrame, Zenon
<1>4. CASE RestartGateway \/ RestartFlat
  <2>1. restarts' # 0 /\ Containers' = {}
    <3>1. restarts' = restarts + 1 /\ Containers' = {}
      BY <1>4, Zenon DEF RestartGateway, RestartFlat, LoseMemory
    <3>2. restarts \in 0..MaxRestarts
      BY Zenon DEF IInv, TypeOK
    <3> QED  BY <3>1, <3>2
  <2> QED  BY <2>1, Zenon DEF Tracked
<1> QED  BY <1>1, <1>2, <1>3, <1>4 DEF Next, Admin

(* The endpoints are tracked in every reachable state.                     *)
LEMMA TrackedInvariance == Spec => [](IInv /\ TInv)
<1>1. Init => TInv
  BY DEF Init, TInv, Tracked
<1> QED  BY <1>1, TrackedStep, Inductive, PTL DEF Spec

(* Where the disagreement of ContainersApart comes from: without a failed  *)
(* call two containers are recorded with one number only if a number was   *)
(* taken between the scrape and the add-port (ovs_port.go), or if both     *)
(* were reserved before a restart and joined after it: OFPorts is empty    *)
(* then, and mustHandleJoinContainer records the number 0 for each. Polls, *)
(* leaves and external ports that come and go do not do it.                *)
THEOREM ApartUnlessRaced ==
    Spec => [](faults = 0 /\ races = 0 =>
                 /\ restarts = 0 => ContainersApart
                 /\ \A e, f \in Containers : OFPorts[e].port = OFPorts[f].port =>
                        e = f \/ OFPorts[e].port = 0)
<1>1. ASSUME IInv, TInv, faults = 0, races = 0,
             NEW e \in Containers, NEW f \in Containers, OFPorts[e].port = OFPorts[f].port,
             OFPorts[e].port # 0
      PROVE  e = f
  <2>1. e \in Endpoints /\ f \in Endpoints /\ e \in Names /\ f \in Names
    BY <1>1, Zenon DEF IInv, TypeOK, Names
  <2>2. Recorded(e) /\ Recorded(f)
    BY <1>1, <2>1, Zenon DEF TInv, Tracked, Recorded
  <2>3. ofport[e] = OFPorts[e].port /\ ofport[f] = OFPorts[f].port /\ ofport[e] # 0
    BY <1>1, <2>1, <2>2 DEF IInv, RecordedPortIsActual, Recorded
  <2> QED  BY <1>1, <2>1, <2>3, Zenon DEF IInv, Distinct
<1>2. ASSUME IInv, TInv, LeaveIsClean, faults = 0, races = 0, restarts = 0,
             NEW e \in Containers
      PROVE  OFPorts[e].port # 0
  <2>1. e \in Endpoints /\ ep[e] \in {"joined", "left"}
    BY <1>2, Zenon DEF IInv, TypeOK, Unjoined
  <2>2. ep[e] # "left"
    BY <1>2, <2>1, Zenon DEF LeaveIsClean, Undisturbed
  <2> QED  BY <1>2, <2>1, <2>2, Zenon DEF TInv, Tracked
<1>3. ASSUME IInv, TInv, LeaveIsClean, faults = 0, races = 0
      PROVE  /\ restarts = 0 => ContainersApart
             /\ \A e, f \in Containers : OFPorts[e].port = OFPorts[f].port =>
                    e = f \/ OFPorts[e].port = 0
  BY <1>1, <1>2, <1>3, Zenon DEF ContainersApart
<1> QED  BY <1>3, LeaveCorrect, TrackedInvariance, PTL

(* Where the disagreement of NoLeakedVeths comes from: without a failed    *)
(* call only a restart, which empties OFPorts, makes mustHandleLeave leave *)
(* a veth on the bridge; a taken number does not.                          *)
THEOREM LeakNeedsRestart == Spec => [](restarts = 0 => NoLeakedVeths)
<1>1. IInv /\ TInv => (restarts = 0 => NoLeakedVeths)
  BY DEF TInv, Tracked, NoLeakedVeths
<1> QED  BY <1>1, TrackedInvariance, PTL

=============================================================================
