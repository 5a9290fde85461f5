------------------------- MODULE NetworkConfigProofs -------------------------
(***************************************************************************)
(* Proofs about NetworkConfig, for any interfaces, options and bounds: the *)
(* invariants its run checks. They rest on IInv, which says what becomes   *)
(* of the interfaces' numbers while the bridge is made and made again.     *)
(***************************************************************************)
EXTENDS NetworkConfig, LeastNumberProofs

(* An entry of FAUCET's configuration has these three fields.              *)
IsIface(x) == x = [kind |-> x.kind, vlan |-> x.vlan, acl |-> x.acl]

Accepted == pc \notin {"none", "refused"}
Bridging == pc \in {"bridging", "rebridging"}
Again == pc \in {"restoring", "rebridging", "crashed"}

IInv ==
    /\ TypeOK
    /\ faucet = [p \in 1..Local |-> faucet[p]]
    /\ \A p \in 1..Local : IsIface(faucet[p])
    \* no two interfaces have one number
    /\ \A i, j \in All : of[i] = of[j] /\ of[i] # 0 => i = j
    \* those that createBridge is done with have one
    /\ Accepted => /\ req \in Requests /\ Valid(req)
                   /\ bridgeName(req) \in bridges
                   /\ ns \in {FromRequest(req), FromResource(req)}
                   /\ todo \subseteq Added(req)
                   /\ \A i \in Added(req) \ todo : of[i] \in Ports
    /\ ~ Bridging => todo = {}
    /\ pc = "none" => bridges = {} /\ addr = NoAddr
    /\ pc \in {"bridging", "exited"} => ns = FromRequest(req)
    /\ Again => restarts > 0 /\ ns = FromResource(req)
    /\ AddressKept

-----------------------------------------------------------------------------
(* What getNetworkStateFromResource reads, and ReOrCreateNetwork before.   *)

(* The two readings agree on all the handler uses.                         *)
LEMMA ReadAlike ==
    ASSUME NEW r
    PROVE  /\ FromResource(r).vlan = FromRequest(r).vlan
           /\ FromRequest(r).pre = Uint(r.pre, 0) /\ FromResource(r).pre = Uint(r.pre, 0)
           /\ FromResource(r).natAcl = FromRequest(r).natAcl
           /\ FromResource(r).defaultAcl = FromRequest(r).defaultAcl
           /\ HasGateway(FromResource(r)) <=> HasGateway(FromRequest(r))
           /\ FromRequest(r).gateway = mustGetGatewayIP(r)
           /\ FromResource(r).gateway = getGatewayFromResource(r)
<1>1. /\ FromResource(r).vlan = FromRequest(r).vlan
      /\ FromRequest(r).pre = Uint(r.pre, 0) /\ FromResource(r).pre = Uint(r.pre, 0)
      /\ FromResource(r).natAcl = FromRequest(r).natAcl
      /\ FromResource(r).defaultAcl = FromRequest(r).defaultAcl
      /\ FromRequest(r).gateway = mustGetGatewayIP(r)
      /\ FromResource(r).gateway = getGatewayFromResource(r)
  BY DEF FromRequest, FromResource
<1>2. /\ FromRequest(r).mode = IF r.mode \in {Absent, Empty} THEN "flat" ELSE r.mode
      /\ FromResource(r).mode = IF r.mode = Absent THEN "flat" ELSE r.mode
  BY DEF FromRequest, FromResource
<1>3. HasGateway(FromResource(r)) <=> r.mode \in {"nat", "routed"}
  BY <1>2, Zenon DEF HasGateway, Absent, Empty
<1>4. HasGateway(FromRequest(r)) <=> r.mode \in {"nat", "routed"}
  BY <1>2, Zenon DEF HasGateway, Absent, Empty
<1> QED  BY <1>1, <1>3, <1>4

(* A gateway read from Docker's record is the one of the request.          *)
LEMMA KeptGateway ==
    ASSUME NEW r \in Requests, Proper(mustGetGatewayIP(r)),
           getGatewayFromResource(r).ip # Empty
    PROVE  getGatewayFromResource(r) = mustGetGatewayIP(r)
<1> DEFINE g == mustGetGatewayIP(r)  first == Head(r.kept)
<1>1. r.kept # <<>> /\ first.subnet.mask # Empty
      /\ getGatewayFromResource(r) = [ip |-> first.gateway, mask |-> first.subnet.mask]
  BY DEF getGatewayFromResource, Splits, NoAddr
<1>2. g \in [ip : STRING, mask : STRING]
  BY RequestAssumption DEF mustGetGatewayIP
<1>3. first.gateway # Empty
  BY <1>1
<1>4. first.gateway = g.ip /\ first.subnet.mask = g.mask
  BY <1>1, <1>3, RequestAssumption
<1>5. g = [ip |-> g.ip, mask |-> g.mask]
  BY <1>2
<1> HIDE DEF g, first
<1> QED  BY <1>1, <1>4, <1>5 DEF g

-----------------------------------------------------------------------------
(* Sets of numbers.                                                        *)

(* The largest of some numbers up to n is one of them.                     *)
LEMMA MaxExists ==
    ASSUME NEW n \in Nat, NEW S, S \subseteq 1..n, S # {}
    PROVE  Max(S) \in S
<1> DEFINE T == {n - k : k \in S}
<1>1. T \subseteq Nat /\ T # {}
  <2>1. \A k \in S : n - k \in Nat
    OBVIOUS
  <2> QED  BY <2>1
<1>2. PICK t \in T : \A u \in T : t <= u
  <2> HIDE DEF T
  <2> QED  BY <1>1, LeastNumber
<1>3. PICK x \in S : t = n - x
  BY <1>2
<1>4. ASSUME NEW y \in S PROVE x >= y
  <2>1. n - x <= n - y
    BY <1>2, <1>3
  <2> QED  BY <2>1
<1> QED  BY <1>3, <1>4 DEF Max

(* mustLowestFreePortOnBridge finds a number no port has.                  *)
LEMMA LowestFreeIsFree ==
    ASSUME TypeOK
    PROVE  LowestFree \in 1..(MaxPort + 1) /\ LowestFree \notin Used
<1> DEFINE S == (1..(MaxPort + 1)) \ Used
<1>1. MaxPort \in Nat
  BY ConfigAssumption
<1>2. Used \subseteq 1..MaxPort
  BY <1>1 DEF Used, TypeOK
<1>3. S \subseteq Nat /\ S # {}
  BY <1>1, <1>2
<1>4. PICK p \in S : \A q \in S : p <= q
  <2> HIDE DEF S
  <2> QED  BY <1>3, LeastNumber
<1>5. ASSUME NEW q \in 1..(p - 1) PROVE q \in Used
  <2>1. q \in 1..(MaxPort + 1) /\ ~ (p <= q)
    BY <1>1, <1>4
  <2> QED  BY <1>4, <2>1
<1>6. p \in 1..(MaxPort + 1) /\ p \notin Used /\ 1..(p - 1) \subseteq Used
  BY <1>4, <1>5
<1> QED  BY <1>6 DEF LowestFree

(* Only with two preallocated ports may one of them have an interface's    *)
(* number.                                                                 *)
LEMMA OverlapTakesTwo ==
    ASSUME IInv, Accepted, ~ Bridging, Overlap
    PROVE  ns.pre > 1
<1>1. ns.pre \in Nat
  <2>1. req.pre \in Int
    BY RequestAssumption DEF IInv
  <2>2. ns.pre = Uint(req.pre, 0)
    BY ReadAlike DEF IInv
  <2> QED  BY <2>1, <2>2 DEF Uint
<1>2. LowestFree \in Nat /\ LowestFree \notin Used
  BY LowestFreeIsFree, ConfigAssumption DEF IInv
<1>3. PICK i \in Handled : of[i] \in PreRange(ns)
  BY DEF Overlap
<1>4. of[i] \in Used
  BY <1>3, ConfigAssumption DEF IInv, Handled, Added, Used, Ports
<1>5. of[i] # LowestFree /\ of[i] \in LowestFree..(LowestFree + ns.pre - 1)
  BY <1>2, <1>3, <1>4 DEF PreRange
<1> QED  BY <1>1, <1>2, <1>5

-----------------------------------------------------------------------------
(* What the handler merges into the datapath.                              *)

Kinds == {"none", "vlan", "copro", "pre", "local"}

(* Two functions on the datapath's numbers with the same values.           *)
LEMMA SameEntries ==
    ASSUME NEW f, NEW g, f = [p \in 1..Local |-> f[p]], g = [p \in 1..Local |-> g[p]],
           \A p \in 1..Local : f[p] = g[p]
    PROVE  f = g
OBVIOUS

(* Every entry of it is one ...                                            *)
LEMMA InterfacesTyped ==
    ASSUME IInv, NEW s, NEW ifs
    PROVE  \A p \in 1..Local : IsIface(Interfaces(s, ifs)[p]) /\ Interfaces(s, ifs)[p].kind \in Kinds
<1>1. \A k, v, a : IsIface(Iface(k, v, a)) /\ Iface(k, v, a).kind = k
  BY DEF IsIface, Iface
<1>2. \A p \in 1..Local : IsIface(faucet[p]) /\ faucet[p].kind \in Kinds
  BY DEF IInv, TypeOK, Kinds
<1>3. \A i : (IF i \in Ifs THEN Iface("vlan", VlanOf(s, i), <<>>) ELSE Iface("copro", 0, <<>>))
            \in {Iface("vlan", VlanOf(s, i), <<>>), Iface("copro", 0, <<>>)}
  OBVIOUS
<1>4. ASSUME NEW p \in 1..Local
      PROVE  \/ \E k \in Kinds : \E v, a : Interfaces(s, ifs)[p] = Iface(k, v, a)
             \/ Interfaces(s, ifs)[p] = faucet[p]
  BY <1>3 DEF Interfaces, Kinds
<1> QED  BY <1>1, <1>2, <1>4

(* ... and an ACL put on it later changes nothing else.                    *)
LEMMA AclsOnly ==
    ASSUME NEW ifs, NEW f, \A p \in 1..Local : IsIface(f[p])
    PROVE  \A p \in 1..Local :
            /\ IsIface(WithAcls(ifs, f)[p])
            /\ WithAcls(ifs, f)[p].kind = f[p].kind
            /\ WithAcls(ifs, f)[p].vlan = f[p].vlan
            /\ WithAcls(ifs, f)[p].acl =
                IF Askers(ifs, p) # {} /\ AclAt(ifs, p) # Absent THEN AclAt(ifs, p) ELSE f[p].acl
<1> SUFFICES ASSUME NEW p \in 1..Local
             PROVE  /\ IsIface(WithAcls(ifs, f)[p])
                    /\ WithAcls(ifs, f)[p].kind = f[p].kind
                    /\ WithAcls(ifs, f)[p].vlan = f[p].vlan
                    /\ WithAcls(ifs, f)[p].acl =
                        IF Askers(ifs, p) # {} /\ AclAt(ifs, p) # Absent THEN AclAt(ifs, p)
                        ELSE f[p].acl
  OBVIOUS
<1>1. f[p] = [kind |-> f[p].kind, vlan |-> f[p].vlan, acl |-> f[p].acl]
  BY DEF IsIface
<1>2. WithAcls(ifs, f)[p] = IF Askers(ifs, p) # {} /\ AclAt(ifs, p) # Absent
                       THEN [f[p] EXCEPT !.acl = AclAt(ifs, p)] ELSE f[p]
  BY DEF WithAcls
<1>3. \A a : [f[p] EXCEPT !.acl = a] = [kind |-> f[p].kind, vlan |-> f[p].vlan, acl |-> a]
  BY <1>1
<1> QED  BY <1>1, <1>2, <1>3 DEF IsIface

(* The interface an external port has in it: the one of the interface that *)
(* has the number, since no other has.                                     *)
LEMMA InterfaceOf ==
    ASSUME IInv, Accepted, ~ Bridging, NEW i \in Handled, of[i] \notin PreRange(ns)
    PROVE  /\ of[i] \in 1..Local
           /\ Interfaces(ns, Handled)[of[i]] = IF i \in Ifs THEN Iface("vlan", VlanOf(ns, i), <<>>)
                                  ELSE Iface("copro", 0, <<>>)
<1>1. \A j \in Handled : j \in Added(req) /\ j \in All
  BY DEF Handled, Added
<1>2. of[i] \in Ports
  BY <1>1 DEF IInv
<1>3. of[i] \in 1..Local /\ of[i] # Local /\ of[i] # 0
  BY <1>2, ConfigAssumption DEF Ports, Local
<1>4. \A j \in Handled : of[j] = of[i] => j = i
  BY <1>1, <1>3 DEF IInv
<1>5. (CHOOSE j \in Handled : of[j] = of[i]) = i
  BY <1>4
<1> QED  BY <1>3, <1>5 DEF Interfaces

-----------------------------------------------------------------------------
(* IInv is inductive.                                                      *)

(* It holds before the request.                                            *)
LEMMA InitIInv == Init => IInv
<1> SUFFICES ASSUME Init PROVE IInv
  OBVIOUS
<1>1. faucet = [p \in 1..Local |-> Unset] /\ \A p \in 1..Local : faucet[p] = Unset
  BY DEF Init
<1>2. TypeOK
  <2>1. of \in [All -> 0..MaxPort] /\ restarts \in 0..MaxRestarts
    BY ConfigAssumption DEF Init
  <2> QED  BY <1>1, <2>1 DEF Init, TypeOK, Unset
<1>3. \A p \in 1..Local : IsIface(faucet[p])
  BY <1>1 DEF IsIface, Unset
<1>4. AddressKept
  BY DEF Init, AddressKept
<1> QED  BY <1>1, <1>2, <1>3, <1>4 DEF Init, IInv, Accepted, Bridging, Again

(* CreateNetwork, for a request it takes and for one it refuses.           *)
LEMMA RequestStep ==
    ASSUME IInv, pc = "none", NEW r \in Requests, Request(r)
    PROVE  IInv'
<1>1. /\ bridges = {} /\ todo = {} /\ addr = NoAddr
      /\ UNCHANGED <<of, addr, faucet, restarts>>
      /\ req' = r
  BY DEF IInv, Bridging, Request
<1>0. AddressKept'
  BY <1>1 DEF AddressKept
<1>2. CASE Valid(r)
  <2>1. /\ pc' = "bridging" /\ ns' = FromRequest(r)
        /\ bridges' = {bridgeName(r)} /\ todo' = Added(r)
    BY <1>2 DEF Request
  <2>2. TypeOK'
    BY <1>1, <2>1 DEF IInv, TypeOK, bridgeName, Added
  <2> QED  BY <1>0, <1>1, <1>2, <2>1, <2>2 DEF IInv, Accepted, Bridging, Again
<1>3. CASE ~ Valid(r)
  <2>1. pc' = "refused" /\ UNCHANGED <<ns, bridges, todo>>
    BY <1>3 DEF Request
  <2>2. TypeOK'
    BY <1>1, <2>1 DEF IInv, TypeOK
  <2> QED  BY <1>0, <1>1, <2>1, <2>2 DEF IInv, Accepted, Bridging, Again
<1> QED  BY <1>2, <1>3

(* createBridge gives an interface a number that no other has.             *)
LEMMA AddPortStep ==
    ASSUME IInv, NEW i \in All, AddPort(i)
    PROVE  IInv'
<1>1. /\ Bridging /\ i \in todo /\ todo' = todo \ {i}
      /\ UNCHANGED <<pc, req, ns, bridges, addr, faucet, restarts>>
  BY DEF AddPort, Bridging
<1>2. PICK p \in Ports \ Used : of' = [of EXCEPT ![i] = p]
  BY DEF AddPort
<1>3. p \in 0..MaxPort /\ p # 0
  BY <1>2, ConfigAssumption DEF Ports
<1>4. of \in [All -> 0..MaxPort]
  BY DEF IInv, TypeOK
<1>5. of' \in [All -> 0..MaxPort] /\ of'[i] = p /\ \A j \in All \ {i} : of'[j] = of[j]
  BY <1>2, <1>3, <1>4
<1>6. \A j \in All : of[j] # p
  BY <1>2, <1>3 DEF Used
<1>7. \A j, k \in All : of'[j] = of'[k] /\ of'[j] # 0 => j = k
  BY <1>5, <1>6 DEF IInv
<1>8. TypeOK'
  BY <1>1, <1>5 DEF IInv, TypeOK
<1>9. \A j \in Added(req') \ todo' : of'[j] \in Ports
  BY <1>1, <1>2, <1>5 DEF IInv, Accepted, Bridging, Added
<1>10. AddressKept'
  BY <1>1 DEF IInv, AddressKept
<1> QED  BY <1>1, <1>7, <1>8, <1>9, <1>10 DEF IInv, Accepted, Bridging, Again

(* initBridge puts the gateway's address on the bridge.                    *)
LEMMA AddressStep ==
    ASSUME IInv, Queue
    PROVE  AddressKept'
<1>1. Accepted /\ req \in Requests /\ Valid(req) /\ req' = req
  BY DEF IInv, Queue, Accepted
<1>2. CASE HasGateway(ns)
  <2>1. addr' = ns.gateway /\ ns.gateway.ip # Empty
    BY <1>2, ConfigAssumption DEF Queue, Addressable
  <2>2. Proper(mustGetGatewayIP(req))
    BY <1>1 DEF Valid
  <2>3. ns.gateway \in {mustGetGatewayIP(req), getGatewayFromResource(req)}
    BY <1>1, ReadAlike DEF IInv
  <2>4. ns.gateway = mustGetGatewayIP(req)
    BY <1>1, <2>1, <2>2, <2>3, KeptGateway
  <2> QED  BY <1>1, <2>1, <2>4 DEF AddressKept
<1>3. CASE ~ HasGateway(ns)
  <2>1. addr' = addr
    BY <1>3 DEF Queue
  <2> QED  BY <1>1, <2>1 DEF IInv, AddressKept
<1> QED  BY <1>2, <1>3

(* The steps that change no more than where the network is, and the        *)
(* bridge's address.                                                       *)
LEMMA QuietStep ==
    ASSUME IInv, Queue \/ InitBridgeFatal \/ HandleCreateFail
    PROVE  IInv'
<1>1. /\ UNCHANGED <<req, ns, todo, of, bridges, faucet, restarts>>
      /\ Accepted /\ Accepted' /\ todo = {} /\ ~ Bridging'
      /\ Again' => Again
      /\ pc' \in {"queued", "restoring", "exited", "crashed", "unconfigured"}
      /\ pc' = "exited" => pc = "bridging"
  BY DEF IInv, Queue, InitBridgeFatal, HandleCreateFail, Accepted, Bridging, Again
<1>2. TypeOK'
  BY <1>1 DEF IInv, TypeOK
<1>3. AddressKept'
  <2>1. CASE Queue
    BY <2>1, AddressStep
  <2>2. CASE ~ Queue
    <3>1. UNCHANGED <<req, addr>>
      BY <2>2 DEF InitBridgeFatal, HandleCreateFail
    <3> QED  BY <3>1 DEF IInv, AddressKept
  <2> QED  BY <2>1, <2>2
<1> QED  BY <1>1, <1>2, <1>3 DEF IInv

(* The handler: FAUCET's entries stay entries.                             *)
LEMMA HandleStep ==
    ASSUME IInv, HandleCreate
    PROVE  IInv'
<1>1. /\ UNCHANGED <<req, ns, todo, of, bridges, addr, restarts>>
      /\ faucet' = Configured(ns, Handled)
      /\ pc' = "configured" /\ Accepted /\ ~ Bridging
  BY DEF HandleCreate, Accepted, Bridging
<1>2. \A p \in 1..Local : IsIface(faucet'[p]) /\ faucet'[p].kind \in Kinds
  BY <1>1, InterfacesTyped, AclsOnly DEF Configured
<1>3. faucet' = [p \in 1..Local |-> faucet'[p]]
  BY <1>1 DEF Configured, WithAcls
<1>4. TypeOK'
  BY <1>1, <1>2 DEF IInv, TypeOK, Kinds
<1>5. AddressKept'
  BY <1>1 DEF IInv, AddressKept
<1> QED  BY <1>1, <1>2, <1>3, <1>4, <1>5 DEF IInv, Accepted, Bridging, Again

(* A restart, which keeps the interfaces' numbers or gives them new ones.  *)
LEMMA RestartStep ==
    ASSUME IInv, RestartKeepsBridge \/ RestartRemakesBridge \/ RestartFails
    PROVE  IInv'
<1>1. /\ Accepted /\ ~ Bridging /\ todo = {}
      /\ UNCHANGED <<req, faucet>>
      /\ ns' = FromResource(req)
      /\ restarts < MaxRestarts /\ restarts' = restarts + 1
      /\ bridges \subseteq bridges' /\ bridges' \subseteq bridges \cup {"id"}
      /\ addr' \in {addr, NoAddr}
      /\ pc' \in {"restoring", "rebridging", "crashed"}
  BY DEF IInv, RestartKeepsBridge, RestartRemakesBridge, RestartFails, Known, Handling,
         Accepted, Bridging
<1>2. restarts' \in 0..MaxRestarts /\ restarts' > 0
  BY <1>1, ConfigAssumption DEF IInv, TypeOK
<1>3. /\ of' \in [All -> 0..MaxPort]
      /\ todo' \subseteq Added(req)
      /\ \A i, j \in All : of'[i] = of'[j] /\ of'[i] # 0 => i = j
      /\ \A i \in Added(req) \ todo' : of'[i] \in Ports
      /\ ~ Bridging' => todo' = {}
  <2>1. CASE RestartRemakesBridge
    <3>1. of' = [i \in All |-> 0] /\ todo' = Added(req) /\ Bridging'
      BY <2>1 DEF RestartRemakesBridge, Bridging
    <3> QED  BY <3>1, ConfigAssumption
  <2>2. CASE RestartKeepsBridge \/ RestartFails
    <3>1. UNCHANGED <<of, todo>> /\ ~ Bridging'
      BY <2>2 DEF RestartKeepsBridge, RestartFails, Bridging
    <3> QED  BY <1>1, <3>1 DEF IInv, TypeOK
  <2> QED  BY <2>1, <2>2
<1>4. TypeOK'
  BY <1>1, <1>2, <1>3 DEF IInv, TypeOK, Added
<1>5. AddressKept'
  BY <1>1 DEF IInv, AddressKept
<1> QED  BY <1>1, <1>2, <1>3, <1>4, <1>5 DEF IInv, Accepted, Again

(* So every step keeps it.                                                 *)
LEMMA NextIInv == IInv /\ [Next]_vars => IInv'
<1>1. CASE UNCHANGED vars
  <2> SUFFICES ASSUME IInv PROVE IInv'
    BY <1>1
  <2>1. TypeOK'
    BY <1>1 DEF vars, IInv, TypeOK
  <2>2. AddressKept'
    BY <1>1 DEF vars, IInv, AddressKept
  <2> QED  BY <1>1, <2>1, <2>2 DEF vars, IInv, Accepted, Bridging, Again
<1> QED
  BY <1>1, RequestStep, AddPortStep, QuietStep, HandleStep, RestartStep DEF Next

(* IInv holds in every state: among others, no two interfaces ever have    *)
(* the same number.                                                        *)
THEOREM Inductive == Spec => []IInv
BY InitIInv, NextIInv, PTL DEF Spec

(* Every variable keeps its type; createBridge never gives an interface    *)
(* the bridge's own port.                                                  *)
THEOREM TypeCorrect == Spec => []TypeOK
<1>1. IInv => TypeOK
  BY DEF IInv
<1> QED  BY <1>1, Inductive, PTL

(* A bridge made again by restoreNetworks has the address it was created   *)
(* with, whatever pools Docker keeps of the network.                       *)
THEOREM AddressCorrect == Spec => []AddressKept
<1>1. IInv => AddressKept
  BY DEF IInv
<1> QED  BY <1>1, Inductive, PTL

-----------------------------------------------------------------------------
(* What may go wrong in InitBridge, in the handler and at a restart.       *)

(* The reasons that AcceptedIsConfigured names.                            *)
Unchecked(r) ==
    \/ BadVlan(r)
    \/ r.name # Empty /\ (HasGateway(FromRequest(r)) \/ Added(r) # {})
    \/ r.pre > 1 /\ Added(r) # {}
    \/ HasGateway(FromRequest(r)) /\ getGatewayFromResource(r).ip \notin IPv4

(* initBridge ends the process for want of an IPv4 gateway only.           *)
LEMMA FatalStep ==
    ASSUME IInv, InitBridgeFatal
    PROVE  Unchecked(req)
<1>1. /\ Accepted /\ req \in Requests /\ Valid(req)
      /\ HasGateway(ns) /\ (ns.gateway.ip \notin IPv4 \/ ns.gateway.mask = Empty)
  BY DEF IInv, InitBridgeFatal, Accepted, Addressable
<1>2. HasGateway(FromRequest(req))
  BY <1>1, ReadAlike DEF IInv
<1>3. SUFFICES ASSUME getGatewayFromResource(req).ip \in IPv4
               PROVE  FALSE
  BY <1>2 DEF Unchecked
<1>4. Proper(mustGetGatewayIP(req)) /\ getGatewayFromResource(req).ip # Empty
  BY <1>1, <1>3, ConfigAssumption DEF Valid
<1>5. getGatewayFromResource(req) = mustGetGatewayIP(req)
  BY <1>1, <1>4, KeptGateway
<1>6. ns.gateway = mustGetGatewayIP(req)
  BY <1>1, <1>5, ReadAlike DEF IInv
<1>7. ns.gateway.mask # Empty
  BY <1>4, <1>5, <1>6 DEF Proper, Splits, NoAddr
<1> QED  BY <1>1, <1>3, <1>5, <1>6, <1>7

(* The handler panics for none of the reasons CreateNetwork has excluded.  *)
LEMMA PanicStep ==
    ASSUME IInv, HandleCreateFail
    PROVE  Unchecked(req)
<1>1. /\ Accepted /\ ~ Bridging /\ Valid(req) /\ req \in Requests
      /\ Panics \/ Overlap
  BY DEF IInv, HandleCreateFail, Accepted, Bridging
<1>2. "id" \in bridges \/ req.name # Empty
  BY <1>1 DEF IInv, bridgeName
<1>3. HasGateway(ns) <=> HasGateway(FromRequest(req))
  BY <1>1, ReadAlike DEF IInv
<1>4. Handled \subseteq Added(req)
  BY DEF Handled
<1>5. CASE Panics
  <2>1. req.dpid /\ ~ BadNumber(req, Added(req))
    BY <1>1 DEF Valid
  <2>2. ~ BadNumber(req, Handled)
    BY <1>4, <2>1 DEF BadNumber
  <2> QED  BY <1>2, <1>3, <1>5, <2>1, <2>2 DEF Panics, Unchecked
<1>6. CASE Overlap
  <2>1. ns.pre > 1 /\ Added(req) # {}
    BY <1>1, <1>4, <1>6, OverlapTakesTwo DEF Overlap
  <2>2. ns.pre = Uint(req.pre, 0) /\ req.pre \in Int
    BY <1>1, ReadAlike, RequestAssumption DEF IInv
  <2>3. req.pre > 1
    BY <2>1, <2>2 DEF Uint
  <2> QED  BY <2>1, <2>3 DEF Unchecked
<1> QED  BY <1>1, <1>5, <1>6

(* So there is a reason whenever the network is not configured.            *)
LEMMA AcceptedStep ==
    IInv /\ AcceptedIsConfigured /\ [Next]_vars => AcceptedIsConfigured'
<1>1. AcceptedIsConfigured <=> (pc \in {"unconfigured", "exited", "crashed"} => Unchecked(req))
  BY DEF AcceptedIsConfigured, Unchecked, OwnName
<1>2. AcceptedIsConfigured' <=>
        (pc' \in {"unconfigured", "exited", "crashed"} => Unchecked(req'))
  BY DEF AcceptedIsConfigured, Unchecked, OwnName, BadVlan, Added, Named, HasGateway,
         FromRequest, getGatewayFromResource
<1> SUFFICES ASSUME IInv, AcceptedIsConfigured, [Next]_vars,
                    pc' \in {"unconfigured", "exited", "crashed"}
             PROVE  Unchecked(req')
  BY <1>2
<1>3. CASE HandleCreateFail
  BY <1>3, PanicStep DEF HandleCreateFail
<1>4. CASE InitBridgeFatal
  BY <1>4, FatalStep DEF InitBridgeFatal
<1>5. CASE RestartFails
  <2>1. req' = req /\ Added(req) # {} /\ req.name # Empty
    BY <1>5 DEF IInv, RestartFails, Accepted, Known, Handling, bridgeName
  <2> QED  BY <2>1 DEF Unchecked
<1>6. CASE UNCHANGED vars
  BY <1>1, <1>6 DEF vars
<1>7. HandleCreateFail \/ InitBridgeFatal \/ RestartFails \/ UNCHANGED vars
  BY DEF Next, Request, AddPort, Queue, HandleCreate, RestartKeepsBridge, RestartRemakesBridge
<1> QED  BY <1>3, <1>4, <1>5, <1>6, <1>7

(* Nothing that ReOrCreateNetwork checks stops InitBridge, the create      *)
(* handler or restoreNetworks later: where one fails the request has one   *)
(* of the named flaws, which it does not check.                            *)
THEOREM AcceptedCorrect == Spec => []AcceptedIsConfigured
<1>1. Init => AcceptedIsConfigured
  BY DEF Init, AcceptedIsConfigured
<1> QED  BY <1>1, AcceptedStep, Inductive, PTL DEF Spec

-----------------------------------------------------------------------------
(* What FAUCET is told.                                                    *)

(* The handler is the only step after which the network is configured, and *)
(* it leaves what the two properties below speak of as it was.             *)
LEMMA ConfiguredBy ==
    ASSUME IInv, [Next]_vars, pc' = "configured"
    PROVE  \/ UNCHANGED vars
           \/ /\ HandleCreate
              /\ Accepted /\ ~ Bridging
              /\ UNCHANGED <<req, of, restarts>>
              /\ Added(req)' = Added(req) /\ PreRange(ns)' = PreRange(ns)
              /\ Named(req)' = Named(req)
              /\ \A i : VlanOf(ns, i)' = VlanOf(ns, i)
              /\ \A i \in Added(req) : i \in Handled \/ (i \notin Ifs /\ restarts > 0)
<1>1. HandleCreate \/ UNCHANGED vars
  BY DEF Next, Request, AddPort, Queue, InitBridgeFatal, HandleCreateFail,
         RestartKeepsBridge, RestartRemakesBridge, RestartFails
<1>2. ASSUME HandleCreate
      PROVE  /\ Accepted /\ ~ Bridging
             /\ UNCHANGED <<req, ns, of, restarts>>
             /\ \A i \in Added(req) : i \in Handled \/ (i \notin Ifs /\ restarts > 0)
  BY <1>2 DEF HandleCreate, Accepted, Bridging, Handled, Restored, IInv, Again
<1>3. ASSUME UNCHANGED <<req, ns, of>>
      PROVE  /\ Added(req)' = Added(req)
             /\ Named(req)' = Named(req)
             /\ \A i : VlanOf(ns, i)' = VlanOf(ns, i)
             /\ LowestFree' = LowestFree
  BY <1>3 DEF Added, Named, VlanOf, LowestFree, Used
<1> QED  BY <1>1, <1>2, <1>3 DEF PreRange

(* The handler puts every interface it is told of under its own number.    *)
LEMMA ExternalStep ==
    IInv /\ ExternalPortsConfigured /\ [Next]_vars => ExternalPortsConfigured'
<1> SUFFICES ASSUME IInv, ExternalPortsConfigured, [Next]_vars, pc' = "configured",
                    NEW i \in Added(req)', (of[i] \notin PreRange(ns))'
             PROVE  (IF i \in Ifs THEN /\ faucet[of[i]].kind = "vlan"
                                       /\ faucet[of[i]].vlan = VlanOf(ns, i)
                     ELSE restarts = 0 => faucet[of[i]].kind = "copro")'
  BY DEF ExternalPortsConfigured
<1>1. CASE UNCHANGED vars
  <2>1. UNCHANGED <<pc, req, ns, of, restarts, faucet>>
    BY <1>1 DEF vars
  <2>2. Added(req)' = Added(req) /\ VlanOf(ns, i)' = VlanOf(ns, i) /\ LowestFree' = LowestFree
    BY <2>1 DEF Added, Named, VlanOf, LowestFree, Used
  <2>3. PreRange(ns)' = PreRange(ns)
    BY <2>1, <2>2 DEF PreRange
  <2> QED  BY <2>1, <2>2, <2>3 DEF ExternalPortsConfigured
<1>2. CASE ~ UNCHANGED vars
  <2>1. /\ HandleCreate /\ Accepted /\ ~ Bridging
        /\ UNCHANGED <<req, of, restarts>>
        /\ i \in Added(req) /\ of[i] \notin PreRange(ns)
        /\ VlanOf(ns, i)' = VlanOf(ns, i)
        /\ i \in Handled \/ (i \notin Ifs /\ restarts > 0)
    BY <1>2, ConfiguredBy
  <2>2. CASE i \in Handled
    <3>1. /\ of[i] \in 1..Local
          /\ Interfaces(ns, Handled)[of[i]] = IF i \in Ifs THEN Iface("vlan", VlanOf(ns, i), <<>>)
                                 ELSE Iface("copro", 0, <<>>)
      BY <2>1, <2>2, InterfaceOf
    <3>2. /\ faucet'[of[i]].kind = Interfaces(ns, Handled)[of[i]].kind
          /\ faucet'[of[i]].vlan = Interfaces(ns, Handled)[of[i]].vlan
      BY <2>1, <3>1, InterfacesTyped, AclsOnly DEF HandleCreate, Configured
    <3> QED  BY <2>1, <3>1, <3>2 DEF Iface
  <2>3. CASE i \notin Ifs /\ restarts > 0
    BY <2>1, <2>3 DEF IInv, TypeOK
  <2> QED  BY <2>1, <2>2, <2>3
<1> QED  BY <1>1, <1>2

(* FAUCET has every interface under the number OVS gave it, with its VLAN, *)
(* for any number of interfaces and restarts, whatever was asked for.      *)
THEOREM ExternalCorrect == Spec => []ExternalPortsConfigured
<1>1. Init => ExternalPortsConfigured
  BY DEF Init, ExternalPortsConfigured
<1> QED  BY <1>1, ExternalStep, Inductive, PTL DEF Spec

(* When every number asked for was given, only an interface itself asks    *)
(* for an ACL on its port.                                                 *)
LEMMA OwnAsker ==
    ASSUME IInv, Accepted, ~ Bridging, Honoured, NEW i \in Handled, of[i] \in Ports
    PROVE  /\ Askers(Handled, of[i]) \subseteq {i}
           /\ i \in Askers(Handled, of[i]) <=> Named(req)[i].no # 0 /\ Named(req)[i].acl # <<>>
           /\ i \in Askers(Handled, of[i]) =>
                AclAt(Handled, of[i]) = getStrForNetwork(Named(req)[i].acl)
<1>1. \A j \in Handled : j \in Added(req) /\ j \in All
  BY DEF Handled, Added
<1>2. of[i] # 0
  BY ConfigAssumption DEF Ports
<1>3. ASSUME NEW j \in Askers(Handled, of[i]) PROVE j = i
  <2>1. j \in Handled /\ Named(req)[j].no = of[i]
    BY DEF Askers
  <2>2. of[j] = of[i]
    BY <1>1, <1>2, <2>1 DEF Honoured
  <2> QED  BY <1>1, <1>2, <2>1, <2>2 DEF IInv
<1>4. i \in Askers(Handled, of[i]) <=> Named(req)[i].no # 0 /\ Named(req)[i].acl # <<>>
  BY <1>1, <1>2 DEF Askers, Honoured
<1>5. ASSUME i \in Askers(Handled, of[i])
      PROVE  AclAt(Handled, of[i]) = getStrForNetwork(Named(req)[i].acl)
  <2> DEFINE S == {k \in DOMAIN Order : Order[k] \in Askers(Handled, of[i])}
  <2>1. Len(Order) \in Nat /\ DOMAIN Order = 1..Len(Order)
    BY ConfigAssumption
  <2>2. S # {}
    BY <1>1, <1>5, ConfigAssumption
  <2>3. Max(S) \in S
    <3>1. S \subseteq 1..Len(Order)
      BY <2>1
    <3> HIDE DEF S
    <3> QED  BY <2>1, <2>2, <3>1, MaxExists
  <2>4. Order[Max(S)] = i
    BY <1>3, <2>3
  <2> QED  BY <2>4 DEF AclAt
<1> QED  BY <1>3, <1>4, <1>5

(* The handler puts each ACL on the port it is for.                        *)
LEMMA AclStep == IInv /\ AclOnItsPort /\ [Next]_vars => AclOnItsPort'
<1> SUFFICES ASSUME IInv, AclOnItsPort, [Next]_vars, pc' = "configured", Honoured',
                    NEW i \in Added(req)' \cap Ifs, (of[i] \notin PreRange(ns))'
             PROVE  (faucet[of[i]].acl = IF Named(req)[i].no = 0 THEN Absent
                                         ELSE getStrForNetwork(Named(req)[i].acl))'
  BY DEF AclOnItsPort
<1>1. CASE UNCHANGED vars
  <2>1. UNCHANGED <<pc, req, ns, of, faucet>>
    BY <1>1 DEF vars
  <2>2. /\ Added(req)' = Added(req) /\ Named(req)' = Named(req)
        /\ LowestFree' = LowestFree
    BY <2>1 DEF Added, Named, LowestFree, Used
  <2>3. PreRange(ns)' = PreRange(ns) /\ Honoured
    BY <2>1, <2>2 DEF PreRange, Honoured
  <2> QED  BY <2>1, <2>2, <2>3 DEF AclOnItsPort
<1>2. CASE ~ UNCHANGED vars
  <2>1. /\ HandleCreate /\ Accepted /\ ~ Bridging
        /\ UNCHANGED <<req, of>>
        /\ i \in Added(req) /\ of[i] \notin PreRange(ns)
        /\ Named(req)' = Named(req)
        /\ i \in Handled
        /\ Added(req)' = Added(req)
    BY <1>2, ConfiguredBy
  <2>2. Honoured
    BY <2>1 DEF Honoured
  <2>3. of[i] \in Ports
    BY <2>1 DEF IInv
  <2>4. of[i] \in 1..Local /\ Interfaces(ns, Handled)[of[i]].acl = getStrForNetwork(<<>>)
    <3>1. of[i] \in 1..Local /\ Interfaces(ns, Handled)[of[i]] = Iface("vlan", VlanOf(ns, i), <<>>)
      BY <2>1, InterfaceOf
    <3> QED  BY <3>1 DEF Iface
  <2>5. getStrForNetwork(<<>>) = Absent
    BY DEF getStrForNetwork
  <2>6. faucet'[of[i]].acl = IF Askers(Handled, of[i]) # {} /\ AclAt(Handled, of[i]) # Absent
                             THEN AclAt(Handled, of[i]) ELSE Absent
    <3> DEFINE f == Interfaces(ns, Handled)
    <3>1. \A p \in 1..Local : IsIface(f[p])
      BY InterfacesTyped
    <3>2. faucet' = WithAcls(Handled, f)
      BY <2>1 DEF HandleCreate, Configured
    <3>3. f[of[i]].acl = Absent /\ of[i] \in 1..Local
      BY <2>4, <2>5
    <3> HIDE DEF f
    <3> QED  BY <3>1, <3>2, <3>3, AclsOnly
  <2>7. CASE i \in Askers(Handled, of[i])
    BY <2>1, <2>2, <2>3, <2>6, <2>7, OwnAsker
  <2>8. CASE i \notin Askers(Handled, of[i])
    <3>1. Askers(Handled, of[i]) = {} /\ (Named(req)[i].no = 0 \/ Named(req)[i].acl = <<>>)
      BY <2>1, <2>2, <2>3, <2>8, OwnAsker
    <3> QED  BY <2>1, <2>5, <2>6, <3>1
  <2> QED  BY <2>7, <2>8
<1> QED  BY <1>1, <1>2

(* mustSetPortAcl's calls leave each interface of add_ports with its own   *)
(* ACL whenever OVS gave every number asked for, although they go by the   *)
(* number asked for.                                                       *)
THEOREM AclCorrect == Spec => []AclOnItsPort
<1>1. Init => AclOnItsPort
  BY DEF Init, AclOnItsPort
<1> QED  BY <1>1, AclStep, Inductive, PTL DEF Spec

-----------------------------------------------------------------------------
(* What a restart tells FAUCET.                                            *)

(* Without ACLs of coprocessor ports, those that restoreNetworks leaves    *)
(* out ask for none.                                                       *)
LEMMA SameAskers ==
    ASSUME NEW ifs, Added(req) \cap Ifs \subseteq ifs, ifs \subseteq Added(req),
           \A i \in Added(req) \ Ifs : Named(req)[i].acl = <<>>
    PROVE  \A p : /\ Askers(Added(req) \cap Ifs, p) = Askers(ifs, p)
                 /\ AclAt(Added(req) \cap Ifs, p) = AclAt(ifs, p)
<1>1. \A p : Askers(Added(req) \cap Ifs, p) = Askers(ifs, p)
  BY DEF Askers
<1>2. ASSUME NEW p PROVE AclAt(Added(req) \cap Ifs, p) = AclAt(ifs, p)
  <2>1. Askers(Added(req) \cap Ifs, p) = Askers(ifs, p)
    BY <1>1
  <2> QED  BY <2>1, Zenon DEF AclAt
<1> QED  BY <1>1, <1>2

(* Putting the ACLs on once more changes nothing.                          *)
LEMMA AclsAgain ==
    ASSUME NEW ifs, NEW f, \A p \in 1..Local : IsIface(f[p])
    PROVE  \A p \in 1..Local : WithAcls(ifs, WithAcls(ifs, f))[p] = WithAcls(ifs, f)[p]
<1> DEFINE g == WithAcls(ifs, f)
<1> SUFFICES ASSUME NEW p \in 1..Local
             PROVE  WithAcls(ifs, g)[p] = g[p]
  OBVIOUS
<1>1. /\ IsIface(g[p])
      /\ g[p].acl = IF Askers(ifs, p) # {} /\ AclAt(ifs, p) # Absent THEN AclAt(ifs, p)
                    ELSE f[p].acl
  BY AclsOnly
<1>2. WithAcls(ifs, g)[p] = IF Askers(ifs, p) # {} /\ AclAt(ifs, p) # Absent
                            THEN [g[p] EXCEPT !.acl = AclAt(ifs, p)] ELSE g[p]
  <2> HIDE DEF g
  <2> QED  BY DEF WithAcls
<1>3. \A a : a = g[p].acl => [g[p] EXCEPT !.acl = a] = g[p]
  <2> HIDE DEF g
  <2>1. g[p] = [kind |-> g[p].kind, vlan |-> g[p].vlan, acl |-> g[p].acl]
    BY <1>1 DEF IsIface
  <2> QED  BY <2>1
<1> QED  BY <1>1, <1>2, <1>3

(* What restoreNetworks has merged, when the handler has left f.           *)
Merged(f) ==
    [p \in 1..Local |->
        IF \/ p = Local /\ HasGateway(ns)
           \/ p \in PreRange(ns)
           \/ \E i \in Added(req) \cap Ifs : of[i] = p
        THEN Interfaces(ns, Handled)[p]
        ELSE f[p]]

(* It is the entries the handler wrote before, but for those that neither  *)
(* writes.                                                                 *)
LEMMA MergedAgain ==
    ASSUME IInv, HandleCreate
    PROVE  Interfaces(FromResource(req), Added(req) \cap Ifs)' = Merged(faucet')
<1> DEFINE K == Added(req) \cap Ifs  t == FromResource(req)
<1>1. UNCHANGED <<req, of, ns>> /\ Accepted /\ ~ Bridging
  BY DEF HandleCreate, Accepted, Bridging
<1>2. /\ t.vlan = ns.vlan /\ t.pre = ns.pre /\ t.natAcl = ns.natAcl
      /\ t.defaultAcl = ns.defaultAcl /\ (HasGateway(t) <=> HasGateway(ns))
  BY <1>1, ReadAlike DEF IInv
<1>3. K' = K /\ t' = t /\ LowestFree' = LowestFree /\ Named(req)' = Named(req)
  BY <1>1 DEF Added, Named, FromResource, LowestFree, Used, getGatewayFromResource
<1>4. PreRange(t)' = PreRange(ns) /\ \A i : VlanOf(t, i)' = VlanOf(ns, i)
  BY <1>2, <1>3 DEF PreRange, VlanOf
<1>5. \A i, j \in All : of[i] = of[j] /\ of[i] # 0 => i = j
  BY DEF IInv
<1>6. K \subseteq Handled /\ Handled \subseteq All
  BY DEF Handled, Added
<1> HIDE DEF t, K
<1>f. Interfaces(t, K)' = [p \in 1..Local |-> Interfaces(t, K)'[p]]
  BY DEF Interfaces
<1>m. Merged(faucet') = [p \in 1..Local |-> Merged(faucet')[p]]
  BY DEF Merged
<1> SUFFICES ASSUME NEW p \in 1..Local
             PROVE  Interfaces(t, K)'[p] = Merged(faucet')[p]
  BY <1>f, <1>m, SameEntries, Zenon DEF t, K
<1>7. CASE p = Local /\ HasGateway(ns)
  <2>1. Interfaces(ns, Handled)[p] = Iface("local", ns.vlan, ns.natAcl)
    BY <1>7 DEF Interfaces
  <2>2. Interfaces(t, K)'[p] = Iface("local", t.vlan, t.natAcl)
    BY <1>2, <1>3, <1>7 DEF Interfaces
  <2> QED  BY <1>2, <1>7, <2>1, <2>2 DEF Merged
<1>8. CASE ~ (p = Local /\ HasGateway(ns)) /\ p \in PreRange(ns)
  <2>1. Interfaces(ns, Handled)[p] = Iface("pre", ns.vlan, ns.defaultAcl)
    BY <1>8 DEF Interfaces
  <2>2. Interfaces(t, K)'[p] = Iface("pre", t.vlan, t.defaultAcl)
    BY <1>2, <1>3, <1>4, <1>8 DEF Interfaces
  <2> QED  BY <1>2, <1>8, <2>1, <2>2 DEF Merged
<1>9. CASE ~ (p = Local /\ HasGateway(ns)) /\ p \notin PreRange(ns)
  <2>1. ASSUME NEW i \in K, of[i] = p
        PROVE  Interfaces(t, K)'[p] = Merged(faucet')[p]
    <3>1. i \in Handled /\ i \in Ifs /\ p # 0
      BY <1>6, <2>1 DEF K
    <3>2. \A j \in Handled : of[j] = p => j = i
      BY <1>5, <1>6, <2>1, <3>1
    <3>3. (CHOOSE j \in Handled : of[j] = p) = i
      BY <2>1, <3>1, <3>2
    <3>4. (CHOOSE j \in K : of[j] = p) = i
      BY <1>6, <2>1, <3>2
    <3>5. Interfaces(ns, Handled)[p] = Iface("vlan", VlanOf(ns, i), <<>>)
      BY <1>9, <2>1, <3>1, <3>3 DEF Interfaces
    <3>6. Interfaces(t, K)'[p] = Iface("vlan", VlanOf(ns, i), <<>>)
      BY <1>1, <1>2, <1>3, <1>4, <1>9, <2>1, <3>1, <3>4 DEF Interfaces
    <3> QED  BY <2>1, <3>5, <3>6 DEF Merged, K
  <2>2. ASSUME ~ \E i \in K : of[i] = p
        PROVE  Interfaces(t, K)'[p] = Merged(faucet')[p]
    <3>1. Interfaces(t, K)'[p] = faucet'[p]
      BY <1>1, <1>2, <1>3, <1>4, <1>9, <2>2 DEF Interfaces
    <3> QED  BY <1>9, <2>2, <3>1 DEF Merged, K
  <2> QED  BY <2>1, <2>2
<1> QED  BY <1>7, <1>8, <1>9

(* Nothing but these variables counts.                                     *)
LEMMA SameConfigured ==
    ASSUME UNCHANGED <<req, of, faucet>>
    PROVE  Configured(FromResource(req), Added(req) \cap Ifs)' =
           Configured(FromResource(req), Added(req) \cap Ifs)
<1> DEFINE K == Added(req) \cap Ifs  t == FromResource(req)
<1>1. K' = K /\ t' = t /\ LowestFree' = LowestFree /\ Named(req)' = Named(req)
  BY DEF Added, Named, FromResource, LowestFree, Used, getGatewayFromResource
<1> HIDE DEF K, t
<1>2. PreRange(t)' = PreRange(t) /\ \A i : VlanOf(t, i)' = VlanOf(t, i)
  BY <1>1 DEF PreRange, VlanOf
<1>3. Interfaces(t, K)' = Interfaces(t, K)
  BY <1>1, <1>2, Zenon DEF Interfaces
<1>4. \A p : Askers(K, p)' = Askers(K, p)
  BY <1>1 DEF Askers
<1>5. \A p : AclAt(K, p)' = AclAt(K, p)
  BY <1>1, <1>4 DEF AclAt
<1>6. WithAcls(K, Interfaces(t, K))' = WithAcls(K, Interfaces(t, K))
  BY <1>3, <1>4, <1>5, Zenon DEF WithAcls
<1> QED  BY <1>6 DEF Configured, K, t

(* The handler leaves FAUCET as restoreNetworks would have it.             *)
LEMMA IdempotentStep ==
    IInv /\ RestoreIsIdempotent /\ [Next]_vars => RestoreIsIdempotent'
<1> DEFINE K == Added(req) \cap Ifs
           NoCoproAcl == \A i \in Added(req) \ Ifs : Named(req)[i].acl = <<>>
<1> SUFFICES ASSUME IInv, RestoreIsIdempotent, [Next]_vars, pc' = "configured", NoCoproAcl'
             PROVE  (Configured(FromResource(req), K) = faucet)'
  BY DEF RestoreIsIdempotent
<1>1. CASE UNCHANGED vars
  BY <1>1, SameConfigured DEF RestoreIsIdempotent, vars, Added, Named
<1>2. CASE ~ UNCHANGED vars
  <2>1. HandleCreate /\ Accepted /\ ~ Bridging /\ UNCHANGED <<req, of>>
        /\ Added(req)' = Added(req) /\ Named(req)' = Named(req)
    BY <1>2, ConfiguredBy
  <2>2. faucet' = WithAcls(Handled, Interfaces(ns, Handled))
    BY <2>1 DEF HandleCreate, Configured
  <2>3. Interfaces(FromResource(req), K)' = Merged(faucet')
    BY <2>1, MergedAgain
  <2>4. NoCoproAcl /\ K \subseteq Handled /\ Handled \subseteq Added(req)
    BY <2>1 DEF Handled
  <2>5. \A p : Askers(K, p) = Askers(Handled, p) /\ AclAt(K, p) = AclAt(Handled, p)
    BY <2>4, SameAskers
  <2>6. \A p : Askers(K, p)' = Askers(Handled, p) /\ AclAt(K, p)' = AclAt(Handled, p)
    <3>1. \A p : Askers(K, p)' = Askers(K, p)
      BY <2>1 DEF Askers
    <3>2. \A p : AclAt(K, p)' = AclAt(K, p)
      BY <2>1, <3>1 DEF AclAt
    <3> QED  BY <2>5, <3>1, <3>2
  <2>7. Configured(FromResource(req), K)' = WithAcls(Handled, Merged(faucet'))
    <3>1. Configured(FromResource(req), K)' =
            [p \in 1..Local |-> IF Askers(K, p)' # {} /\ AclAt(K, p)' # Absent
                                THEN [Merged(faucet')[p] EXCEPT !.acl = AclAt(K, p)']
                                ELSE Merged(faucet')[p]]
      BY <2>3 DEF Configured, WithAcls
    <3>2. \A p \in 1..Local : Configured(FromResource(req), K)'[p]
                              = WithAcls(Handled, Merged(faucet'))[p]
      <4> SUFFICES ASSUME NEW p \in 1..Local
                   PROVE  Configured(FromResource(req), K)'[p]
                          = WithAcls(Handled, Merged(faucet'))[p]
        OBVIOUS
      <4> DEFINE m == Merged(faucet')
      <4>1. Configured(FromResource(req), K)'[p] =
              IF Askers(K, p)' # {} /\ AclAt(K, p)' # Absent
              THEN [m[p] EXCEPT !.acl = AclAt(K, p)'] ELSE m[p]
        BY <3>1, Zenon
      <4> HIDE DEF m
      <4>2. WithAcls(Handled, m)[p] =
              IF Askers(Handled, p) # {} /\ AclAt(Handled, p) # Absent
              THEN [m[p] EXCEPT !.acl = AclAt(Handled, p)] ELSE m[p]
        BY DEF WithAcls
      <4>3. Askers(K, p)' = Askers(Handled, p) /\ AclAt(K, p)' = AclAt(Handled, p)
        BY <2>6
      <4> QED  BY <4>1, <4>2, <4>3, Zenon DEF m
    <3>3. WithAcls(Handled, Merged(faucet')) =
            [p \in 1..Local |-> WithAcls(Handled, Merged(faucet'))[p]]
      BY DEF WithAcls
    <3>4. Configured(FromResource(req), K)' =
            [p \in 1..Local |-> Configured(FromResource(req), K)'[p]]
      BY <3>1
    <3> QED  BY <3>2, <3>3, <3>4, SameEntries, Zenon
  <2>8. \A p \in 1..Local : IsIface(Interfaces(ns, Handled)[p])
    BY InterfacesTyped
  <2>9. ASSUME NEW p \in 1..Local
        PROVE  WithAcls(Handled, Merged(faucet'))[p] = faucet'[p]
    <3>1. CASE Merged(faucet')[p] = Interfaces(ns, Handled)[p]
      BY <2>2, <3>1 DEF WithAcls
    <3>2. CASE Merged(faucet')[p] = faucet'[p]
      <4>1. WithAcls(Handled, Merged(faucet'))[p] = WithAcls(Handled, faucet')[p]
        BY <3>2 DEF WithAcls
      <4> QED  BY <2>2, <2>8, <4>1, AclsAgain
    <3> QED  BY <3>1, <3>2 DEF Merged
  <2> QED  BY <2>2, <2>7, <2>9 DEF WithAcls
<1> QED  BY <1>1, <1>2

(* A restart that finds the bridge in place tells FAUCET nothing new, for  *)
(* any options, interfaces and numbers and after any restarts before it,   *)
(* unless a coprocessor port has an ACL.                                   *)
THEOREM IdempotentCorrect == Spec => []RestoreIsIdempotent
<1>1. Init => RestoreIsIdempotent
  BY DEF Init, RestoreIsIdempotent
<1> QED  BY <1>1, IdempotentStep, Inductive, PTL DEF Spec
=============================================================================
