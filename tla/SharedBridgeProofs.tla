-------------------------- MODULE SharedBridgeProofs --------------------------
(***************************************************************************)
(* Proofs about SharedBridge for every set of networks and every number of *)
(* ports, failures and restarts: concurrent CreateNetwork calls, deletes   *)
(* and restores leave every served network with a patch port of its own,   *)
(* and FAUCET and the mirror bridge's flows know it by its own number.     *)
(***************************************************************************)
EXTENDS SharedBridge, LeastNumberProofs, TLAPS

(* No two networks have the same number on the shared bridge.              *)
Apart ==
    \A m, n \in Networks : sport[m] = sport[n] /\ sport[m] # 0 => m = n

(* The states in which InitBridge is over and the delete handler is not.   *)
Inited == {"queued", "live", "broken", "stuck", "known"}

(* From the end of InitBridge on, the flow for a network's port is its own.*)
Tagged ==
    using = "mirror" =>
        \A n \in Networks : net[n] \in Inited /\ sport[n] # 0 => flow[sport[n]] = n

(* One rule is inserted by CreateNetwork and one by each recreation, and a *)
(* bridge is recreated at most once for every death of the process.        *)
RulesCounted ==
    \A n \in Networks :
        /\ n \notin NatNets \/ net[n] = "absent" => rules[n] = 0
        /\ rules[n] <= remade[n] + 1
        /\ remade[n] <= deaths
        /\ net[n] = "known" => remade[n] < deaths

IInv ==
    /\ TypeOK
    /\ Apart
    /\ Tagged
    /\ RulesCounted
    /\ LinksAgree
    /\ MirrorTagged
    /\ DeleteIsClean

-----------------------------------------------------------------------------
(* What a delete leaves of the rules: one fewer than at most one more than *)
(* the recreations, or none.                                               *)
LEMMA OneFewer ==
    ASSUME NEW new \in Nat, NEW old \in Nat, NEW made \in Nat,
           new <= old, old <= made + 1, new < old \/ old = 0
    PROVE  new <= made
OBVIOUS

(* The number mustAddPatchPort asks for is one more than the bound at most.*)
LEMMA LowestFreeType ==
    ASSUME TypeOK, NEW used \in SUBSET Nat, MaxPort + 1 \notin used
    PROVE  LowestFree(used) \in 1..(MaxPort + 1)
<1> DEFINE S == {p \in 1..(MaxPort + 1) : p \notin used}
<1>1. MaxPort \in Nat
  BY SharedBridgeAssumption
<1>2. S \subseteq Nat /\ S # {}
  BY <1>1
<1>3. PICK p \in S : \A q \in S : p <= q
  BY <1>2, LeastNumber, ZenonT(40)
<1>4. p \in 1..(MaxPort + 1) /\ p \notin used
  OBVIOUS
<1>5. \A q \in 1..(p - 1) : q \in used
  <2> TAKE q \in 1..(p - 1)
  <2> QED  BY <1>1, <1>3, <1>4
<1> HIDE DEF S
<1> QED  BY <1>4, <1>5 DEF LowestFree

(* The ports of the shared bridge are numbered within the bound.           *)
LEMMA TakenType ==
    ASSUME TypeOK
    PROVE  Taken \in SUBSET Ports
BY SharedBridgeAssumption DEF Taken, Ends, BasePorts, Ports, TypeOK

(* A number given by OVS is within the bound and nobody else's.            *)
LEMMA GivenIsFree ==
    ASSUME NEW p, NEW used, NEW q \in Given(p, used)
    PROVE  q \in Ports /\ q \notin used
BY DEF Given

-----------------------------------------------------------------------------
(* Nothing is created before the shared bridge is.                         *)
THEOREM InitIInv == Init => IInv
<1> SUFFICES ASSUME Init PROVE IInv
  OBVIOUS
<1> USE SharedBridgeAssumption
<1>1. TypeOK
  BY DEF Init, TypeOK, States, Ports, NoLink
<1>2. Apart /\ Tagged /\ LinksAgree /\ MirrorTagged /\ DeleteIsClean
  BY DEF Init, Apart, Tagged, Inited, LinksAgree, MirrorTagged, DeleteIsClean
<1>3. RulesCounted
  BY DEF Init, RulesCounted
<1> QED  BY <1>1, <1>2, <1>3 DEF IInv

(* A step of NewDriver leaves the networks and their ports alone.          *)
LEMMA StartStep ==
    ASSUME IInv, Start \/ Restart \/ UNCHANGED vars
    PROVE  IInv'
<1> USE SharedBridgeAssumption
<1>1. UNCHANGED <<using, netState, deaths>>
  BY DEF Start, SharedExists, SharedCreate, SharedFinish, SharedFail, Serve, Restart, vars,
         bridges, netState, bounds, faucet
<1>2. TypeOK'
  <2>1. /\ proc' \in {"starting", "finishing", "restoring", "serving", "dead"}
        /\ shared' \in {"absent", "bare", "ready"}
        /\ faults' \in 0..MaxFaults
    BY DEF IInv, TypeOK, Start, SharedExists, SharedCreate, SharedFinish, SharedFail, Serve,
           Restart, Fault, vars, bridges, bounds
  <2> QED  BY <1>1, <2>1 DEF IInv, TypeOK, netState, faucet
<1>3. Apart' /\ Tagged' /\ LinksAgree' /\ MirrorTagged' /\ DeleteIsClean' /\ RulesCounted'
  BY <1>1 DEF IInv, netState, faucet, Apart, Tagged, LinksAgree, MirrorTagged,
              DeleteIsClean, RulesCounted
<1> QED  BY <1>2, <1>3 DEF IInv

(* The process dies: what is in OVS, FAUCET and iptables stays, and a      *)
(* network that is known to Docker waits to be restored.                   *)
LEMMA DieStep ==
    ASSUME IInv, Die
    PROVE  IInv'
<1> USE SharedBridgeAssumption
<1>1. UNCHANGED <<using, shared, want, lport, sport, flow, link, peer, rules,
                  remade, faults>>
  BY DEF Die, bridges, faucet
<1>2. /\ net' \in [Networks -> States]
      /\ deaths' = deaths + 1 /\ deaths' \in 0..MaxDeaths
      /\ proc' = "dead"
  BY DEF Die, IInv, TypeOK, States, Begun
<1>3. \A n \in Networks :
        /\ net'[n] \notin {"queued", "live", "broken", "stuck"}
        /\ net'[n] = "known" => net[n] \in Inited
        /\ net'[n] \in {"absent", "gone"} => net'[n] = net[n]
  BY DEF Die, IInv, TypeOK, States, Begun, Inited
<1>4. TypeOK'
  BY <1>1, <1>2 DEF IInv, TypeOK
<1>5. Apart' /\ Tagged'
  BY <1>1, <1>3 DEF IInv, Apart, Tagged, Inited
<1>6. LinksAgree' /\ MirrorTagged' /\ DeleteIsClean'
  BY <1>1, <1>3 DEF IInv, LinksAgree, MirrorTagged, DeleteIsClean
<1>7. RulesCounted'
  <2> SUFFICES ASSUME NEW n \in Networks
               PROVE  RulesCounted!(n)'
    BY DEF RulesCounted
  <2>1. RulesCounted!(n) /\ remade[n] \in Nat /\ deaths \in Nat
    BY DEF IInv, RulesCounted, TypeOK
  <2> QED  BY <1>1, <1>2, <1>3, <2>1
<1> QED  BY <1>4, <1>5, <1>6, <1>7 DEF IInv

(* InitBridge's steps before the patch port has its ends.                  *)
LEMMA BridgeStep ==
    ASSUME IInv, NEW n \in Networks, InitBridge(n) \/ ScrapePatch(n) \/ InitBridgeFail(n)
    PROVE  IInv'
<1> USE SharedBridgeAssumption
<1>1. UNCHANGED <<using, proc, shared, lport, sport, flow, link, peer, remade, deaths>>
  BY DEF InitBridge, ScrapePatch, InitBridgeFail, bridges, faucet, bounds
<1>2. PICK s \in {"bridged", "scraped", "orphan"} : net' = [net EXCEPT ![n] = s]
  BY DEF InitBridge, ScrapePatch, InitBridgeFail, Move
<1>3. want' \in [Networks -> 0..(MaxPort + 1)]
  <2>1. LowestFree(Taken) \in 0..(MaxPort + 1)
    <3>1. MaxPort \in Nat /\ Taken \in SUBSET Ports
      BY TakenType DEF IInv
    <3>2. Taken \in SUBSET Nat /\ MaxPort + 1 \notin Taken
      BY <3>1 DEF Ports
    <3> QED  BY <3>1, <3>2, LowestFreeType DEF IInv
  <2> QED  BY <2>1 DEF IInv, TypeOK, InitBridge, ScrapePatch, InitBridgeFail
<1>4. faults' \in 0..MaxFaults
  BY DEF IInv, TypeOK, InitBridge, ScrapePatch, InitBridgeFail, Fault, bounds
<1>5. /\ rules' \in [Networks -> 0..(MaxDeaths + 1)]
      /\ \A m \in Networks \ {n} : rules'[m] = rules[m]
      /\ n \notin NatNets => rules'[n] = 0
      /\ rules'[n] <= remade[n] + 1
  <2>1. rules' = rules \/ (net[n] = "absent" /\ rules' = Count(rules, n, 1))
    BY DEF InitBridge, ScrapePatch, InitBridgeFail, Move
  <2>2. RulesCounted!(n) /\ rules \in [Networks -> 0..(MaxDeaths + 1)] /\ remade[n] \in Nat
    BY DEF IInv, TypeOK, RulesCounted
  <2>3. CASE rules' = rules
    BY <2>2, <2>3
  <2>4. CASE net[n] = "absent" /\ rules' = Count(rules, n, 1)
    BY <2>2, <2>4 DEF Count
  <2> QED  BY <2>1, <2>3, <2>4
<1>6. TypeOK'
  BY <1>1, <1>2, <1>3, <1>4, <1>5, ZenonT(40) DEF IInv, TypeOK, States
<1>7. net \in [Networks -> States]
  BY DEF IInv, TypeOK
<1>8. Apart' /\ Tagged'
  BY <1>1, <1>2, <1>7, Zenon DEF IInv, Apart, Tagged, Inited
<1>9. LinksAgree' /\ MirrorTagged'
  BY <1>1, <1>2, <1>7 DEF IInv, LinksAgree, MirrorTagged
<1>10. DeleteIsClean'
  BY <1>1, <1>2, <1>5, <1>7 DEF IInv, DeleteIsClean
<1>11. RulesCounted'
  BY <1>1, <1>2, <1>5, <1>7 DEF IInv, RulesCounted
<1> QED  BY <1>6, <1>8, <1>9, <1>10, <1>11 DEF IInv

(* mustAddPatchPort: the number OVS gives is nobody else's, and one that   *)
(* was asked for by several goroutines goes to one of them.                *)
LEMMA AddPatchStep ==
    ASSUME IInv, NEW n \in Networks, AddPatch(n) \/ AddPatchLosesEnd(n)
    PROVE  IInv'
<1> USE SharedBridgeAssumption
<1>1. /\ UNCHANGED <<using, proc, shared, want, flow, link, peer, rules, remade, deaths>>
      /\ net' = [net EXCEPT ![n] = "patched"]
      /\ net \in [Networks -> States]
  BY DEF IInv, TypeOK, AddPatch, AddPatchLosesEnd, Move, bridges, faucet, bounds
<1>2. PICK l \in LocalPorts \cup {lport[n]} : lport' = [lport EXCEPT ![n] = l]
  <2>1. \/ \E l \in LocalPorts : lport' = [lport EXCEPT ![n] = l]
        \/ lport' = lport
    BY DEF AddPatch, AddPatchLosesEnd
  <2>2. lport = [lport EXCEPT ![n] = lport[n]]
    BY DEF IInv, TypeOK
  <2> QED  BY <2>1, <2>2
<1>3. PICK p \in Given(want[n], Taken) \cup {sport[n]} : sport' = [sport EXCEPT ![n] = p]
  <2>1. \/ \E p \in Given(want[n], Taken) : sport' = [sport EXCEPT ![n] = p]
        \/ sport' = sport
    BY DEF AddPatch, AddPatchLosesEnd
  <2>2. sport = [sport EXCEPT ![n] = sport[n]]
    BY DEF IInv, TypeOK
  <2> QED  BY <2>1, <2>2
<1>4. p = sport[n] \/ (p \in Ports /\ p \notin Taken)
  BY <1>3, GivenIsFree
<1>5. TypeOK'
  <2>1. faults' \in 0..MaxFaults
    <3>1. faults \in 0..MaxFaults
      BY Zenon DEF IInv, TypeOK
    <3>2. faults' = faults \/ (faults < MaxFaults /\ faults' = faults + 1)
      BY Zenon DEF AddPatch, AddPatchLosesEnd, Fault, bounds
    <3> QED  BY <3>1, <3>2
  <2>2. lport' \in [Networks -> LocalPorts \cup {0}] /\ sport' \in [Networks -> 0..MaxPort]
    <3>1. lport \in [Networks -> LocalPorts \cup {0}] /\ sport \in [Networks -> 0..MaxPort]
      BY Zenon DEF IInv, TypeOK
    <3> QED  BY <1>2, <1>3, <1>4, <3>1 DEF Ports
  <2> QED  BY <1>1, <2>1, <2>2, ZenonT(40) DEF IInv, TypeOK, States
<1>6. Apart'
  <2>1. \A m \in Networks : sport[m] # 0 => sport[m] \in Taken
    BY DEF Taken, Ends
  <2>2. sport \in [Networks -> 0..MaxPort] /\ Apart
    BY DEF IInv, TypeOK
  <2> QED  BY <1>3, <1>4, <2>1, <2>2 DEF Apart, Ports
<1>7. \A m \in Networks \ {n} : sport'[m] = sport[m] /\ lport'[m] = lport[m]
  BY <1>2, <1>3 DEF IInv, TypeOK
<1>8. Tagged' /\ MirrorTagged' /\ LinksAgree'
  BY <1>1, <1>7, ZenonT(60) DEF IInv, Tagged, Inited, MirrorTagged, LinksAgree
<1>9. DeleteIsClean' /\ RulesCounted'
  BY <1>1, <1>7, ZenonT(40) DEF IInv, DeleteIsClean, RulesCounted
<1> QED  BY <1>5, <1>6, <1>8, <1>9 DEF IInv

(* The flow is for the network's own number, which is no other network's.  *)
LEMMA FinishInitStep ==
    ASSUME IInv, NEW n \in Networks, FinishInit(n)
    PROVE  IInv'
<1> USE SharedBridgeAssumption
<1>1. /\ UNCHANGED <<using, proc, shared, want, lport, sport, link, peer, rules, remade,
                     faults, deaths>>
      /\ net' = [net EXCEPT ![n] = "queued"]
      /\ net \in [Networks -> States]
  BY DEF IInv, TypeOK, FinishInit, Move, bridges, faucet, bounds
<1>2. using = "mirror" => /\ sport[n] \in Ports
                          /\ flow' = [flow EXCEPT ![sport[n]] = n]
  BY DEF IInv, TypeOK, FinishInit, Ports
<1>3. using # "mirror" => flow' = flow
  BY DEF FinishInit
<1>4. TypeOK'
  <2>1. flow' \in [Ports -> Networks \cup {NoNet}]
    BY <1>2, <1>3 DEF IInv, TypeOK
  <2> QED  BY <1>1, <2>1 DEF IInv, TypeOK, States
<1>5. Apart' /\ LinksAgree' /\ DeleteIsClean' /\ RulesCounted'
  <2>1. Apart' /\ LinksAgree'
    BY <1>1, ZenonT(40) DEF IInv, Apart, LinksAgree
  <2>2. DeleteIsClean'
    BY <1>1 DEF IInv, DeleteIsClean
  <2>3. RulesCounted'
    BY <1>1 DEF IInv, RulesCounted
  <2> QED  BY <2>1, <2>2, <2>3
<1>6. Tagged'
  <2> SUFFICES ASSUME using = "mirror", NEW m \in Networks, net'[m] \in Inited, sport[m] # 0
               PROVE  flow'[sport[m]] = m
    BY <1>1 DEF Tagged
  <2>1. flow \in [Ports -> Networks \cup {NoNet}] /\ sport[m] \in Ports
    <3>1. flow \in [Ports -> Networks \cup {NoNet}] /\ sport[m] \in 0..MaxPort
      BY Zenon DEF IInv, TypeOK
    <3> QED  BY <3>1 DEF Ports
  <2>2. CASE m = n
    BY <1>2, <2>1, <2>2
  <2>3. CASE m # n
    <3>1. sport[m] # sport[n] /\ flow[sport[m]] = m
      BY <1>1, <2>3 DEF IInv, Apart, Tagged
    <3> QED  BY <1>2, <2>1, <3>1
  <2> QED  BY <2>2, <2>3
<1>7. MirrorTagged'
  BY <1>1, <1>6 DEF IInv, Tagged, Inited, MirrorTagged
<1> QED  BY <1>4, <1>5, <1>6, <1>7 DEF IInv

-----------------------------------------------------------------------------
(* What the create handler writes for one network's ends keeps FAUCET's    *)
(* links of the other networks.                                            *)
LEMMA StackedFrame ==
    ASSUME IInv, NEW n \in Networks, NEW l \in LocalPorts \cup {0}, NEW p \in Ports,
           using = "stack" => l # 0,
           \A m \in Networks \ {n} : sport[m] # p,
           Stacked(n, l, p)
    PROVE  /\ peer' \in [Networks -> [LocalPorts -> 0..MaxPort]]
           /\ link' \in [Ports -> [net : Networks, port : LocalPorts] \cup {NoLink}]
           /\ using = "stack" => peer'[n][l] = p /\ link'[p] = Link(n, l)
           /\ \A m \in Networks \ {n} : peer'[m] = peer[m] /\ link'[sport[m]] = link[sport[m]]
<1> USE SharedBridgeAssumption
<1>1. /\ peer \in [Networks -> [LocalPorts -> 0..MaxPort]]
      /\ link \in [Ports -> [net : Networks, port : LocalPorts] \cup {NoLink}]
  BY DEF IInv, TypeOK
<1>2. CASE using = "stack"
  <2>1. /\ peer' = [peer EXCEPT ![n][l] = p]
        /\ link' = [link EXCEPT ![p] = Link(n, l)]
        /\ l \in LocalPorts
    BY <1>2 DEF Stacked
  <2>2. Link(n, l) \in [net : Networks, port : LocalPorts]
    BY <2>1 DEF Link
  <2>3. p \in 0..MaxPort
    BY DEF Ports
  <2>4. peer' \in [Networks -> [LocalPorts -> 0..MaxPort]] /\ peer'[n][l] = p
    BY <1>1, <2>1, <2>3
  <2>5. /\ link' \in [Ports -> [net : Networks, port : LocalPorts] \cup {NoLink}]
        /\ link'[p] = Link(n, l)
    BY <1>1, <2>1, <2>2
  <2>6. \A m \in Networks \ {n} : peer'[m] = peer[m] /\ link'[sport[m]] = link[sport[m]]
    BY <1>1, <2>1
  <2> QED  BY <2>4, <2>5, <2>6
<1>3. CASE using # "stack"
  BY <1>1, <1>3 DEF Stacked, faucet
<1> QED  BY <1>2, <1>3

(* The create handler, when CreateNetwork queued it or restoreNetworks     *)
(* did: FAUCET is told the ends that the network's own patch port has.     *)
LEMMA HandleCreateStep ==
    ASSUME IInv, NEW n \in Networks,
           HandleCreate(n) \/ HandleCreateFail(n) \/ RestoreNetwork(n)
    PROVE  IInv'
<1> USE SharedBridgeAssumption
<1>1. /\ UNCHANGED <<using, proc, shared, want, lport, sport, flow, rules, remade, deaths>>
      /\ net \in [Networks -> States]
      /\ net[n] \in {"queued", "known"}
      /\ sport \in [Networks -> 0..MaxPort]
  BY Zenon DEF IInv, TypeOK, HandleCreate, HandleCreateFail, RestoreNetwork, Move, bridges, faucet, bounds
<1>2. \/ /\ net' = [net EXCEPT ![n] = "live"]
         /\ Known(n)
         /\ Stacked(n, lport[n], sport[n])
      \/ /\ net' = [net EXCEPT ![n] = "broken"]
         /\ \/ Known(n) /\ Stacked(n, lport[n], sport[n])
            \/ UNCHANGED <<peer, link>>
  BY DEF HandleCreate, HandleCreateFail, RestoreNetwork, Move, faucet
<1>3. faults' \in 0..MaxFaults
  BY DEF IInv, TypeOK, HandleCreate, HandleCreateFail, RestoreNetwork, Fault, bounds
<1>4. /\ peer' \in [Networks -> [LocalPorts -> 0..MaxPort]]
      /\ link' \in [Ports -> [net : Networks, port : LocalPorts] \cup {NoLink}]
      /\ using = "stack" /\ net'[n] = "live" =>
            /\ peer'[n][lport[n]] = sport[n]
            /\ link'[sport[n]] = Link(n, lport[n])
      /\ \A m \in Networks \ {n} : peer'[m] = peer[m] /\ link'[sport[m]] = link[sport[m]]
  <2>1. CASE Known(n) /\ Stacked(n, lport[n], sport[n])
    <3>1. /\ sport[n] \in Ports
          /\ lport[n] \in LocalPorts \cup {0}
          /\ using = "stack" => lport[n] # 0
          /\ \A m \in Networks \ {n} : sport[m] # sport[n]
      <4>1. sport[n] \in 0..MaxPort /\ lport[n] \in LocalPorts \cup {0}
        BY Zenon DEF IInv, TypeOK
      <4>2. sport[n] # 0 /\ (using = "stack" => lport[n] # 0)
        BY <2>1, Zenon DEF Known
      <4>3. sport[n] \in Ports
        BY <4>1, <4>2 DEF Ports
      <4>4. \A m \in Networks \ {n} : sport[m] # sport[n]
        BY <4>2, Zenon DEF IInv, Apart
      <4> QED  BY <4>1, <4>2, <4>3, <4>4
    <3>2. /\ peer' \in [Networks -> [LocalPorts -> 0..MaxPort]]
          /\ link' \in [Ports -> [net : Networks, port : LocalPorts] \cup {NoLink}]
          /\ using = "stack" => /\ peer'[n][lport[n]] = sport[n]
                               /\ link'[sport[n]] = Link(n, lport[n])
          /\ \A m \in Networks \ {n} : peer'[m] = peer[m] /\ link'[sport[m]] = link[sport[m]]
      BY <2>1, <3>1, StackedFrame, ZenonT(40)
    <3> QED  BY <3>2, Zenon
  <2>2. CASE net'[n] # "live" /\ UNCHANGED <<peer, link>>
    BY <2>2 DEF IInv, TypeOK
  <2> QED  BY <1>1, <1>2, <2>1, <2>2, Zenon
<1>5. net' \in [Networks -> States] /\ \A m \in Networks \ {n} : net'[m] = net[m]
  BY <1>1, <1>2 DEF States
<1>6. net'[n] \in {"live", "broken"} /\ (net'[n] = "live" => Known(n))
  BY <1>1, <1>2, Zenon
<1>7. TypeOK'
  BY <1>1, <1>3, <1>4, <1>5, Zenon DEF IInv, TypeOK
<1>8. Apart' /\ RulesCounted'
  BY <1>1, <1>5, <1>6, Zenon DEF IInv, Apart, RulesCounted
<1>9. Tagged' /\ MirrorTagged'
  BY <1>1, <1>5, <1>6 DEF IInv, Tagged, Inited, MirrorTagged, Known
<1>10. LinksAgree'
  BY <1>1, <1>4, <1>5, <1>6 DEF IInv, LinksAgree, Known
<1>11. DeleteIsClean'
  <2> SUFFICES ASSUME NEW m \in Networks, net'[m] = "gone"
               PROVE  DeleteIsClean!(m)!2'
    BY Zenon DEF DeleteIsClean
  <2>1. m # n /\ net[m] = "gone"
    BY <1>5, <1>6, Zenon
  <2>2. DeleteIsClean!(m)!2
    BY <2>1, Zenon DEF IInv, DeleteIsClean
  <2> QED  BY <1>1, <1>4, <2>1, <2>2, Zenon
<1> QED  BY <1>7, <1>8, <1>9, <1>10, <1>11, Zenon DEF IInv

(* The delete handler, whether it gets to its end or panics on the way:    *)
(* the other networks keep their ends and FAUCET's links, and one rule is  *)
(* deleted at most.                                                        *)
LEMMA HandleDeleteStep ==
    ASSUME IInv, NEW n \in Networks, HandleDelete(n) \/ HandleDeleteFail(n)
    PROVE  IInv'
<1> USE SharedBridgeAssumption
<1>1. /\ UNCHANGED <<using, proc, shared, want, flow, remade, deaths>>
      /\ net \in [Networks -> States]
      /\ net[n] \in {"live", "broken"}
  BY DEF IInv, TypeOK, HandleDelete, HandleDeleteFail, bridges, bounds
<1>2. \/ net' = [net EXCEPT ![n] = "gone"] /\ HandleDelete(n)
      \/ net' = [net EXCEPT ![n] = "stuck"]
  BY DEF HandleDelete, HandleDeleteFail, Move
<1>3. /\ net' \in [Networks -> States]
      /\ \A m \in Networks \ {n} : net'[m] = net[m]
      /\ net'[n] \in {"gone", "stuck"} /\ (net'[n] = "gone" => HandleDelete(n))
  BY <1>1, <1>2 DEF States
<1>4. faults' \in 0..MaxFaults
  BY DEF IInv, TypeOK, HandleDelete, HandleDeleteFail, Fault, bounds
<1>5. /\ lport' \in [Networks -> LocalPorts \cup {0}]
      /\ \A m \in Networks \ {n} : lport'[m] = lport[m]
      /\ HandleDelete(n) => lport'[n] = 0
  <2>1. \/ lport' = lport /\ ~ HandleDelete(n)
        \/ lport' = [lport EXCEPT ![n] = 0]
    BY DEF IInv, TypeOK, HandleDelete, HandleDeleteFail
  <2> QED  BY <2>1 DEF IInv, TypeOK
<1>6. /\ sport' \in [Networks -> 0..MaxPort]
      /\ \A m \in Networks \ {n} : sport'[m] = sport[m]
      /\ sport'[n] \in {0, sport[n]}
      /\ HandleDelete(n) => sport'[n] = 0
  <2>1. \/ sport' = sport /\ ~ HandleDelete(n)
        \/ sport' = [sport EXCEPT ![n] = 0]
    BY DEF IInv, TypeOK, HandleDelete, HandleDeleteFail
  <2>2. sport \in [Networks -> 0..MaxPort] /\ 0 \in 0..MaxPort
    BY SharedBridgeAssumption DEF IInv, TypeOK
  <2>3. CASE sport' = sport /\ ~ HandleDelete(n)
    BY <2>2, <2>3
  <2>4. CASE sport' = [sport EXCEPT ![n] = 0]
    BY <2>2, <2>4, Zenon
  <2> QED  BY <2>1, <2>3, <2>4, Zenon
<1>7. (UNCHANGED <<peer, link>> /\ ~ HandleDelete(n)) \/ Unstacked(n)
  BY Zenon DEF HandleDelete, HandleDeleteFail, Move, faucet
<1>8. /\ peer' \in [Networks -> [LocalPorts -> 0..MaxPort]]
      /\ \A m \in Networks \ {n} : peer'[m] = peer[m]
      /\ HandleDelete(n) => \A l \in LocalPorts : peer'[n][l] = 0
  BY <1>7 DEF IInv, TypeOK, Unstacked
<1>9. /\ link' \in [Ports -> [net : Networks, port : LocalPorts] \cup {NoLink}]
      /\ \A p \in Ports : link[p].net # n => link'[p] = link[p]
  BY <1>7 DEF IInv, TypeOK, Unstacked
<1>10. /\ rules' \in [Networks -> 0..(MaxDeaths + 1)]
       /\ \A m \in Networks \ {n} : rules'[m] = rules[m]
       /\ rules'[n] <= rules[n]
       /\ HandleDelete(n) /\ n \in NatNets => rules'[n] < rules[n]
  <2>1. \/ rules' = rules /\ ~ HandleDelete(n)
        \/ (n \in NatNets => rules[n] > 0) /\ rules' = Count(rules, n, -1)
    BY DEF HandleDelete, HandleDeleteFail, Move
  <2>2. rules \in [Networks -> 0..(MaxDeaths + 1)]
    BY Zenon DEF IInv, TypeOK
  <2> QED  BY <2>1, <2>2 DEF Count
<1>11. TypeOK'
  BY <1>1, <1>3, <1>4, <1>5, <1>6, <1>8, <1>9, <1>10, Zenon DEF IInv, TypeOK
<1>12. Apart' /\ Tagged' /\ MirrorTagged'
  BY <1>1, <1>3, <1>6 DEF IInv, Apart, Tagged, Inited, MirrorTagged
<1>13. LinksAgree'
  <2> SUFFICES ASSUME using = "stack", NEW m \in Networks, net'[m] = "live"
               PROVE  /\ lport'[m] # 0 /\ sport'[m] # 0
                      /\ peer'[m][lport'[m]] = sport'[m]
                      /\ link'[sport'[m]] = Link(m, lport'[m])
    BY <1>1 DEF LinksAgree
  <2>1. m # n /\ net[m] = "live"
    BY <1>3, Zenon
  <2>2. /\ lport[m] # 0 /\ sport[m] # 0
        /\ peer[m][lport[m]] = sport[m]
        /\ link[sport[m]] = Link(m, lport[m])
        /\ sport[m] \in Ports
    <3>1. sport \in [Networks -> 0..MaxPort] /\ LinksAgree
      BY Zenon DEF IInv, TypeOK
    <3> QED  BY <2>1, <3>1 DEF LinksAgree, Ports
  <2>3. link[sport[m]].net # n
    <3>1. Link(m, lport[m]).net = m
      BY Zenon DEF Link
    <3> QED  BY <2>1, <2>2, <3>1, Zenon
  <2> QED  BY <1>5, <1>6, <1>8, <1>9, <2>1, <2>2, <2>3
<1>14. RulesCounted'
  <2> SUFFICES ASSUME NEW m \in Networks
               PROVE  RulesCounted!(m)'
    BY DEF RulesCounted
  <2>1. RulesCounted!(m) /\ rules[m] \in Nat /\ rules'[m] \in Nat /\ remade[m] \in Nat
    BY <1>10 DEF IInv, TypeOK, RulesCounted
  <2> QED  BY <1>1, <1>3, <1>10, <2>1
<1>15. DeleteIsClean'
  <2> SUFFICES ASSUME NEW m \in Networks, net'[m] = "gone"
               PROVE  DeleteIsClean!(m)!2'
    BY ZenonT(40) DEF DeleteIsClean
  <2>1. CASE m # n
    <3>1. net[m] = "gone"
      BY <1>3, <2>1
    <3>2. /\ sport[m] = 0 /\ lport[m] = 0
          /\ \A l \in LocalPorts : peer[m][l] = 0
          /\ rules[m] <= remade[m]
      BY <3>1, Zenon DEF IInv, DeleteIsClean
    <3> QED  BY <1>1, <1>5, <1>6, <1>8, <1>10, <2>1, <3>2
  <2>2. CASE m = n
    <3>1. HandleDelete(n)
      BY <1>3, <2>2, Zenon
    <3>2. /\ n \notin NatNets => rules[n] = 0
          /\ rules[n] <= remade[n] + 1
          /\ rules[n] \in Nat /\ rules'[n] \in Nat /\ remade[n] \in Nat
      BY <1>10 DEF IInv, TypeOK, RulesCounted
    <3>3. rules'[n] <= remade[n]
      <4>1. rules'[n] <= rules[n] /\ (n \in NatNets => rules'[n] < rules[n])
        BY <1>10, <3>1, ZenonT(40)
      <4> QED  BY <3>2, <4>1, OneFewer, Zenon
    <3> QED  BY <1>1, <1>5, <1>6, <1>8, <2>2, <3>1, <3>3
  <2> QED  BY <2>1, <2>2, ZenonT(40)
<1> QED  BY <1>11, <1>12, <1>13, <1>14, <1>15, Zenon DEF IInv

(* A bridge is made again: the end on the shared bridge keeps its number,  *)
(* or gets one that is no other network's.                                 *)
LEMMA RemakeStep ==
    ASSUME IInv, NEW n \in Networks, RecreateBadBridge(n) \/ RecreateDownBridge(n)
    PROVE  IInv'
<1> USE SharedBridgeAssumption
<1>1. PICK used : Remake(n, used) /\ \A m \in Networks \ {n} : sport[m] # 0 => sport[m] \in used
  <2>1. \A m \in Networks : sport[m] # 0 => sport[m] \in Taken /\ sport[m] \in Ports
    <3> SUFFICES ASSUME NEW m \in Networks, sport[m] # 0
                 PROVE  sport[m] \in Taken /\ sport[m] \in Ports
      OBVIOUS
    <3>1. sport[m] \in 0..MaxPort
      BY Zenon DEF IInv, TypeOK
    <3>2. sport[m] \in Taken
      BY Zenon DEF Taken, Ends
    <3> QED  BY <3>1, <3>2 DEF Ports
  <2>2. \A m \in Networks \ {n} : sport[m] # 0 => sport[m] # sport[n]
    BY DEF IInv, Apart
  <2>3. CASE RecreateBadBridge(n)
    BY <2>1, <2>2, <2>3 DEF RecreateBadBridge
  <2>4. CASE RecreateDownBridge(n)
    BY <2>1, <2>2, <2>4 DEF RecreateDownBridge
  <2> QED  BY <2>3, <2>4
<1>2. PICK l \in LocalPorts, p \in Given(LowestFree(used), used) :
        /\ lport' = [lport EXCEPT ![n] = l]
        /\ sport' = [sport EXCEPT ![n] = p]
        /\ flow' = IF using = "mirror" THEN [flow EXCEPT ![p] = n] ELSE flow
        /\ Stacked(n, l, p)
  BY <1>1, ZenonT(40) DEF Remake
<1>3. /\ UNCHANGED <<using, proc, shared, want, faults, deaths>>
      /\ net \in [Networks -> States]
      /\ net[n] = "known"
      /\ net' = [net EXCEPT ![n] = "live"]
      /\ rules' = Count(rules, n, 1)
      /\ remade' = [remade EXCEPT ![n] = @ + 1]
  BY <1>1 DEF Remake, Move, IInv, TypeOK, bridges, bounds
<1>4. p \in Ports /\ \A m \in Networks \ {n} : sport[m] # p
  <2>1. p \in Ports /\ p \notin used /\ p # 0
    BY GivenIsFree DEF Ports
  <2> QED  BY <1>1, <2>1
<1>5. l # 0 /\ l \in LocalPorts \cup {0}
  BY Zenon
<1>6. /\ peer' \in [Networks -> [LocalPorts -> 0..MaxPort]]
      /\ link' \in [Ports -> [net : Networks, port : LocalPorts] \cup {NoLink}]
      /\ using = "stack" => peer'[n][l] = p /\ link'[p] = Link(n, l)
      /\ \A m \in Networks \ {n} : peer'[m] = peer[m] /\ link'[sport[m]] = link[sport[m]]
  BY <1>2, <1>4, <1>5, StackedFrame, Zenon
<1>7. /\ lport' \in [Networks -> LocalPorts \cup {0}] /\ lport'[n] = l
      /\ sport' \in [Networks -> 0..MaxPort] /\ sport'[n] = p /\ p # 0
      /\ \A m \in Networks \ {n} : lport'[m] = lport[m] /\ sport'[m] = sport[m]
  <2>1. lport \in [Networks -> LocalPorts \cup {0}] /\ sport \in [Networks -> 0..MaxPort]
    BY DEF IInv, TypeOK
  <2>2. p \in 0..MaxPort /\ p # 0
    BY <1>4 DEF Ports
  <2>3. /\ lport' \in [Networks -> LocalPorts \cup {0}] /\ lport'[n] = l
        /\ \A m \in Networks \ {n} : lport'[m] = lport[m]
    BY <1>2, <1>5, <2>1
  <2>4. /\ sport' \in [Networks -> 0..MaxPort] /\ sport'[n] = p
        /\ \A m \in Networks \ {n} : sport'[m] = sport[m]
    BY <1>2, <2>1, <2>2
  <2> QED  BY <2>2, <2>3, <2>4
<1>8. /\ net' \in [Networks -> States] /\ net'[n] = "live"
      /\ \A m \in Networks \ {n} : net'[m] = net[m]
  BY <1>3, Zenon DEF States
<1>9. /\ flow' \in [Ports -> Networks \cup {NoNet}]
      /\ using = "mirror" => flow'[p] = n
      /\ \A q \in Ports \ {p} : flow'[q] = flow[q]
  BY <1>2, <1>4 DEF IInv, TypeOK
<1>10. /\ remade' \in [Networks -> 0..MaxDeaths]
       /\ rules' \in [Networks -> 0..(MaxDeaths + 1)]
       /\ RulesCounted'
  <2>1. /\ \A m \in Networks : RulesCounted!(m)
        /\ rules \in [Networks -> 0..(MaxDeaths + 1)]
        /\ remade \in [Networks -> 0..MaxDeaths]
        /\ deaths \in 0..MaxDeaths
    BY DEF IInv, TypeOK, RulesCounted
  <2>2. remade' \in [Networks -> 0..MaxDeaths]
    BY <1>3, <2>1
  <2>3. rules' \in [Networks -> 0..(MaxDeaths + 1)]
    BY <1>3, <2>1 DEF Count
  <2>4. RulesCounted'
    <3> SUFFICES ASSUME NEW m \in Networks
                 PROVE  RulesCounted!(m)'
      BY DEF RulesCounted
    <3>1. CASE m = n
      BY <1>3, <2>1, <3>1 DEF Count
    <3>2. CASE m # n
      BY <1>3, <2>1, <3>2, Zenon DEF Count
    <3> QED  BY <3>1, <3>2
  <2> QED  BY <2>2, <2>3, <2>4, Zenon
<1>11. TypeOK'
  BY <1>3, <1>6, <1>7, <1>8, <1>9, <1>10, Zenon DEF IInv, TypeOK
<1>12. Apart'
  BY <1>4, <1>7, ZenonT(60) DEF IInv, Apart
<1>13. Tagged' /\ MirrorTagged'
  <2> SUFFICES ASSUME using = "mirror", NEW m \in Networks, net'[m] \in Inited
               PROVE  /\ sport'[m] # 0 => flow'[sport'[m]] = m
                      /\ net'[m] = "live" => sport'[m] # 0
    BY <1>3, ZenonT(40) DEF Tagged, MirrorTagged, Inited
  <2>1. CASE m = n
    BY <1>7, <1>9, <2>1, Zenon
  <2>2. CASE m # n
    <3>1. sport[m] # p /\ (sport[m] # 0 => sport[m] \in Ports)
      <4>1. sport \in [Networks -> 0..MaxPort]
        BY Zenon DEF IInv, TypeOK
      <4> QED  BY <1>4, <2>2, <4>1 DEF Ports
    <3>2. /\ net'[m] = net[m] /\ sport'[m] = sport[m]
          /\ sport[m] \in Ports => flow'[sport[m]] = flow[sport[m]]
      BY <1>7, <1>8, <1>9, <2>2, <3>1, Zenon
    <3>3. sport[m] # 0 => flow[sport[m]] = m
      BY <3>2, Zenon DEF IInv, Tagged
    <3>4. net[m] = "live" => sport[m] # 0
      BY Zenon DEF IInv, MirrorTagged
    <3> QED  BY <3>1, <3>2, <3>3, <3>4, Zenon
  <2> QED  BY <2>1, <2>2
<1>14. LinksAgree'
  <2> SUFFICES ASSUME using = "stack", NEW m \in Networks, net'[m] = "live"
               PROVE  /\ lport'[m] # 0 /\ sport'[m] # 0
                      /\ peer'[m][lport'[m]] = sport'[m]
                      /\ link'[sport'[m]] = Link(m, lport'[m])
    BY <1>3, Zenon DEF LinksAgree
  <2>1. CASE m = n
    BY <1>5, <1>6, <1>7, <2>1, Zenon
  <2>2. CASE m # n
    <3>1. /\ lport[m] # 0 /\ sport[m] # 0
          /\ peer[m][lport[m]] = sport[m]
          /\ link[sport[m]] = Link(m, lport[m])
      BY <1>8, <2>2, Zenon DEF IInv, LinksAgree
    <3> QED  BY <1>6, <1>7, <2>2, <3>1
  <2> QED  BY <2>1, <2>2, Zenon
<1>15. DeleteIsClean'
  <2> SUFFICES ASSUME NEW m \in Networks, net'[m] = "gone"
               PROVE  DeleteIsClean!(m)!2'
    BY DEF DeleteIsClean
  <2>1. m # n /\ net[m] = "gone"
    BY <1>8, Zenon
  <2>2. rules'[m] = rules[m] /\ remade'[m] = remade[m]
    BY <1>3, <2>1, Zenon DEF IInv, TypeOK, Count
  <2>3. /\ sport[m] = 0 /\ lport[m] = 0
        /\ \A k \in LocalPorts : peer[m][k] = 0
        /\ rules[m] <= remade[m]
    BY <2>1, ZenonT(40) DEF IInv, DeleteIsClean
  <2> QED  BY <1>6, <1>7, <2>1, <2>2, <2>3, ZenonT(40)
<1> QED  BY <1>10, <1>11, <1>12, <1>13, <1>14, <1>15 DEF IInv

-----------------------------------------------------------------------------
(* Every step keeps the invariant.                                         *)
THEOREM Inductive == IInv /\ [Next]_vars => IInv'
<1> SUFFICES ASSUME IInv, [Next]_vars PROVE IInv'
  OBVIOUS
<1>1. CASE Start \/ Restart \/ UNCHANGED vars
  BY <1>1, StartStep
<1>2. CASE Die
  BY <1>2, DieStep
<1>3. CASE \E n \in Networks : Create(n)
  BY <1>3, BridgeStep, AddPatchStep, FinishInitStep DEF Create
<1>4. CASE \E n \in Networks : Handle(n)
  BY <1>4, HandleCreateStep, HandleDeleteStep DEF Handle
<1>5. CASE \E n \in Networks : Restore(n)
  BY <1>5, HandleCreateStep, RemakeStep DEF Restore
<1> QED  BY <1>1, <1>2, <1>3, <1>4, <1>5 DEF Next

(* In every reachable state the invariant holds.                           *)
THEOREM Invariance == Spec => []IInv
BY InitIInv, Inductive, PTL DEF Spec

(* Every variable keeps its type, and no rule is deleted that was not      *)
(* inserted (the delete handler's natOut).                                 *)
THEOREM TypeCorrect == Spec => []TypeOK
<1>1. IInv => TypeOK
  BY DEF IInv
<1> QED  BY <1>1, Invariance, PTL

(* FAUCET's two ends of a network's stacking link are those of the         *)
(* network's own patch port, whatever CreateNetwork calls race for numbers *)
(* in mustAddPatchPort.                                                    *)
THEOREM LinksCorrect == Spec => []LinksAgree
<1>1. IInv => LinksAgree
  BY DEF IInv
<1> QED  BY <1>1, Invariance, PTL

(* The flow InitBridge adds to the mirror bridge tags a network's packets  *)
(* with its own VLAN, although flows are never removed.                    *)
THEOREM MirrorCorrect == Spec => []MirrorTagged
<1>1. IInv => MirrorTagged
  BY DEF IInv
<1> QED  BY <1>1, Invariance, PTL

(* What mustDeleteBridgeAndPorts and the delete handler leave behind: no   *)
(* patch port, no datapath, at most one rule per recreation.               *)
THEOREM DeleteCorrect == Spec => []DeleteIsClean
<1>1. IInv => DeleteIsClean
  BY DEF IInv
<1> QED  BY <1>1, Invariance, PTL

=============================================================================
