---------------------------- MODULE RestoreProofs ----------------------------
(***************************************************************************)
(* Proofs about Restore, for any number of networks found in any state,    *)
(* any number of failures, races and restarts, with and without shared     *)
(* bridges: type correctness; that the plugin serves calls only when every *)
(* network was seen to, and that nothing but a failure or a race ends the  *)
(* process, both unless a recreatedownbridge was carried out; that         *)
(* recovery never touches a healthy bridge.                                *)
(***************************************************************************)
EXTENDS Restore, FiniteSetTheorems, TLAPS

Message == [net : Networks, op : Ops]

(* The networks whose operation is queued or being carried out.            *)
Pending == {n \in Networks : \/ cur.op \in Ops /\ cur.net = n
                             \/ \E i \in 1..Len(opChan) : opChan[i].net = n}

(* No network has two operations.                                          *)
Distinct ==
    /\ \A i, j \in 1..Len(opChan) : opChan[i].net = opChan[j].net => i = j
    /\ cur.op \in Ops => \A i \in 1..Len(opChan) : opChan[i].net # cur.net

(* A network is still to be come to, pending, or seen to, and unless a     *)
(* recreatedownbridge called Done out of turn the WaitGroup counts the     *)
(* pending ones.                                                           *)
Seen ==
    /\ Distinct
    /\ todo \cap Pending = {}
    /\ todo \cup Pending \cup networks \cup failed = Networks

Counted ==
    /\ wg + Cardinality(todo) <= Cardinality(Networks)
    /\ Up => wg >= 0
    /\ ~ downs => wg = Cardinality(Pending)
    /\ main # "restoring" => todo = {}
    /\ main = "serving" => Pending = {} \/ downs

IInv == TypeOK /\ Seen /\ Counted

-----------------------------------------------------------------------------
(* The sets of networks are finite.                                        *)
LEMMA Finite ==
    ASSUME TypeOK
    PROVE  /\ IsFiniteSet(todo) /\ Cardinality(todo) \in Nat
           /\ IsFiniteSet(Pending) /\ Cardinality(Pending) \in Nat
           /\ Cardinality(Networks) \in Nat
           /\ Cardinality(Pending) = 0 => Pending = {}
<1>1. todo \subseteq Networks /\ Pending \subseteq Networks /\ IsFiniteSet(Networks)
  BY RestoreAssumption DEF TypeOK, Pending
<1>2. IsFiniteSet(todo) /\ IsFiniteSet(Pending)
  BY <1>1, FS_Subset
<1> QED  BY <1>1, <1>2, FS_CardinalityType, FS_EmptySet

(* What an operation is.                                                   *)
LEMMA OpFacts ==
    /\ \A n, o : Op(n, o).net = n /\ Op(n, o).op = o
    /\ \A n \in Networks : \A o \in Ops : Op(n, o) \in Message
    /\ Idle.op \notin Ops /\ Idle \notin Message
    /\ \A m \in Message : m.net \in Networks /\ m.op \in Ops
BY DEF Op, Idle, Message, Ops

(* Queueing an operation makes its network pending.                        *)
LEMMA AfterQueue ==
    ASSUME TypeOK, NEW n \in Networks, NEW m \in Message, m.net = n,
           opChan' = Append(opChan, m), cur' = cur
    PROVE  /\ opChan' \in Seq(Message)
           /\ Pending' = Pending \cup {n}
           /\ Distinct /\ n \notin Pending => Distinct'
<1>0. opChan \in Seq(Message)
  BY DEF TypeOK, Message
<1>1. /\ opChan' \in Seq(Message)
      /\ Len(opChan) \in Nat
      /\ Len(opChan') = Len(opChan) + 1
      /\ \A i \in 1..Len(opChan) : opChan'[i] = opChan[i] /\ opChan[i] \in Message
      /\ opChan'[Len(opChan) + 1] = m
  BY <1>0
<1>2. Pending' = Pending \cup {n}
  BY <1>1 DEF Pending
<1>3. ASSUME Distinct, n \notin Pending PROVE Distinct'
  <2>1. /\ \A i \in 1..Len(opChan) : opChan[i].net # n
        /\ cur.op \in Ops => cur.net # n
    BY <1>3 DEF Pending
  <2>2. ASSUME NEW i \in 1..Len(opChan'), NEW j \in 1..Len(opChan'),
               opChan'[i].net = opChan'[j].net
        PROVE  i = j
    BY <1>1, <1>3, <2>1, <2>2 DEF Distinct
  <2>3. ASSUME cur'.op \in Ops, NEW i \in 1..Len(opChan') PROVE opChan'[i].net # cur'.net
    BY <1>1, <1>3, <2>1, <2>3 DEF Distinct
  <2> QED  BY <2>2, <2>3 DEF Distinct
<1> QED  BY <1>1, <1>2, <1>3

(* Receiving an operation keeps it pending.                                *)
LEMMA AfterReceive ==
    ASSUME TypeOK, RmReceive
    PROVE  /\ opChan' \in Seq(Message) /\ cur' \in Message
           /\ Pending' = Pending
           /\ Distinct => Distinct'
<1>0. opChan \in Seq(Message)
  BY DEF TypeOK, Message
<1>1. /\ Len(opChan) \in Nat \ {0}
      /\ Len(opChan') = Len(opChan) - 1
      /\ \A i \in 1..Len(opChan') : opChan'[i] = opChan[i + 1]
      /\ \A i \in 1..Len(opChan) : opChan[i] \in Message
      /\ cur' = opChan[1] /\ cur = Idle
      /\ opChan' \in Seq(Message)
  BY <1>0 DEF RmReceive
<1>2. cur' \in Message /\ cur'.op \in Ops /\ cur.op \notin Ops
  BY <1>1, OpFacts
<1>3. ASSUME NEW n PROVE (n \in Pending') <=> (n \in Pending)
  <2>1. ASSUME n \in Pending PROVE n \in Pending'
    <3>1. PICK i \in 1..Len(opChan) : opChan[i].net = n
      BY <1>2, <2>1 DEF Pending
    <3>2. CASE i = 1
      BY <1>1, <1>2, <2>1, <3>1, <3>2 DEF Pending
    <3>3. CASE i # 1
      <4>1. i - 1 \in 1..Len(opChan') /\ opChan'[i - 1].net = n
        BY <1>1, <3>1, <3>3
      <4> QED  BY <2>1, <4>1 DEF Pending
    <3> QED  BY <3>2, <3>3
  <2>2. ASSUME n \in Pending' PROVE n \in Pending
    <3>1. n \in Networks /\ (cur'.net = n \/ \E i \in 1..Len(opChan') : opChan'[i].net = n)
      BY <2>2 DEF Pending
    <3>2. \E i \in 1..Len(opChan) : opChan[i].net = n
      BY <1>1, <3>1
    <3> QED  BY <3>1, <3>2 DEF Pending
  <2> QED  BY <2>1, <2>2
<1>4. Pending' = Pending
  BY <1>3
<1>5. ASSUME Distinct PROVE Distinct'
  <2>1. ASSUME NEW i \in 1..Len(opChan'), NEW j \in 1..Len(opChan'),
               opChan'[i].net = opChan'[j].net
        PROVE  i = j
    <3>1. i + 1 \in 1..Len(opChan) /\ j + 1 \in 1..Len(opChan)
      BY <1>1
    <3>2. opChan[i + 1].net = opChan[j + 1].net
      BY <1>1, <2>1
    <3>3. i + 1 = j + 1
      BY <1>5, <3>1, <3>2 DEF Distinct
    <3> QED  BY <3>3
  <2>2. ASSUME NEW i \in 1..Len(opChan') PROVE opChan'[i].net # cur'.net
    <3>1. i + 1 \in 1..Len(opChan) /\ 1 \in 1..Len(opChan) /\ i + 1 # 1
      BY <1>1
    <3>2. opChan[i + 1].net # opChan[1].net
      BY <1>5, <3>1 DEF Distinct
    <3> QED  BY <1>1, <3>2
  <2> QED  BY <2>1, <2>2 DEF Distinct
<1> QED  BY <1>1, <1>2, <1>4, <1>5

(* A finished operation is pending no more.                                *)
LEMMA AfterFinish ==
    ASSUME TypeOK, Distinct, NEW n \in Networks, NEW o \in Ops,
           cur = Op(n, o), cur' = Idle, opChan' = opChan
    PROVE  n \in Pending /\ Pending' = Pending \ {n} /\ Distinct'
<1>1. cur.op \in Ops /\ cur.net = n /\ cur'.op \notin Ops
  BY OpFacts
<1>2. n \in Pending /\ Pending' = Pending \ {n}
  BY <1>1 DEF Pending, Distinct
<1>3. Distinct'
  BY <1>1 DEF Distinct
<1> QED  BY <1>2, <1>3

(* The next step of the same operation, or none.                           *)
LEMMA AfterStep ==
    ASSUME opChan' = opChan,
           \/ cur' = cur
           \/ cur.op \in Ops /\ cur'.op \in Ops /\ cur'.net = cur.net
    PROVE  Pending' = Pending /\ (Distinct => Distinct')
<1>1. Pending' = Pending
  BY DEF Pending
<1>2. Distinct => Distinct'
  BY DEF Distinct
<1> QED  BY <1>1, <1>2

-----------------------------------------------------------------------------
(* Done lowers the counter; it never takes it below -1, nor below zero     *)
(* while the process lives.                                                *)
LEMMA AfterDone ==
    ASSUME IInv, Up, Done
    PROVE  /\ wg' \in -1..Cardinality(Networks)
           /\ wg' = wg - 1
           /\ Up' => wg' >= 0
           /\ main' \in {"restoring", "waiting", "serving"}
           /\ main' = main \/ (main = "waiting" /\ main' = "serving" /\ wg' = 0)
           /\ proc' \in {"up", "crashed"}
<1>1. wg \in 0..Cardinality(Networks) /\ Cardinality(Networks) \in Nat /\ proc = "up"
  BY Finite DEF IInv, TypeOK, Counted, Up
<1>2. main \in {"restoring", "waiting", "serving"}
  BY DEF IInv, TypeOK
<1> QED  BY <1>1, <1>2 DEF Done, Up

(* The main goroutine comes to a network.                                  *)
LEMMA RestoreNetworkStep ==
    ASSUME IInv, NEW n \in Networks, RestoreNetwork(n)
    PROVE  IInv'
<1> USE DEF RestoreNetwork
<1>1. RestoreOp(n) \in Ops
  <2>1. bridge[n] \in {"addressed", "bare", "down"}
    BY DEF IInv, TypeOK
  <2> QED  BY <2>1 DEF RestoreOp, Ops
<1>2. Op(n, RestoreOp(n)) \in Message /\ Op(n, RestoreOp(n)).net = n
  BY <1>1, OpFacts
<1>3. n \in todo /\ n \notin Pending
  BY DEF IInv, Seen
<1>4. opChan' \in Seq(Message) /\ Pending' = Pending \cup {n} /\ Distinct'
  BY <1>2, <1>3, AfterQueue DEF IInv, Seen
<1>5. /\ Cardinality(todo') = Cardinality(todo) - 1
      /\ Cardinality(Pending') = Cardinality(Pending) + 1
      /\ Cardinality(todo) \in Nat /\ Cardinality(Networks) \in Nat /\ Cardinality(todo') \in Nat
  <2>1. IsFiniteSet(todo) /\ IsFiniteSet(Pending) /\ Cardinality(todo) \in Nat /\ Cardinality(Networks) \in Nat
    BY Finite DEF IInv
  <2>2. Cardinality(todo') = Cardinality(todo) - 1 /\ IsFiniteSet(todo')
    BY <1>3, <2>1, FS_RemoveElement
  <2>3. Cardinality(Pending') = Cardinality(Pending) + 1
    BY <1>3, <1>4, <2>1, FS_AddElement, ZenonT(40)
  <2> QED  BY <2>1, <2>2, <2>3, FS_CardinalityType
<1>6. wg' \in -1..Cardinality(Networks)
  BY <1>5 DEF IInv, TypeOK, Counted
<1>7. TypeOK'
  BY <1>4, <1>6 DEF IInv, TypeOK, Message
<1>8. Seen'
  BY <1>3, <1>4 DEF IInv, Seen
<1>9. Counted'
  BY <1>5 DEF IInv, TypeOK, Counted, Up
<1> QED  BY <1>7, <1>8, <1>9 DEF IInv

(* The create handler ends, in either way.                                 *)
LEMMA CreateStep ==
    ASSUME IInv, NEW n \in Networks, HandleCreate(n) \/ HandleCreateFail(n)
    PROVE  IInv'
<1>1. /\ Up /\ Done
      /\ cur = Op(n, "create") /\ cur' = Idle
      /\ UNCHANGED <<bridge, patch, todo, opChan, races, downs>>
      /\ networks' \in {networks, networks \cup {n}}
      /\ failed' \in {failed, failed \cup {n}}
      /\ n \in networks' \cup failed'
      /\ faults' = faults \/ Fault
  BY DEF HandleCreate, HandleCreateFail, At
<1>2. n \in Pending /\ Pending' = Pending \ {n} /\ Distinct'
  <2>1. "create" \in Ops
    BY DEF Ops
  <2> QED  BY <1>1, <2>1, AfterFinish DEF IInv, Seen
<1>3. /\ wg' \in -1..Cardinality(Networks)
      /\ wg' = wg - 1
      /\ Up' => wg' >= 0
      /\ main' \in {"restoring", "waiting", "serving"}
      /\ main' = main \/ (main = "waiting" /\ main' = "serving" /\ wg' = 0)
      /\ proc' \in {"up", "crashed"}
  BY <1>1, AfterDone
<1>4. /\ Cardinality(Pending') = Cardinality(Pending) - 1
      /\ Cardinality(Pending') = 0 => Pending' = {}
      /\ Cardinality(todo) \in Nat /\ Cardinality(Networks) \in Nat
  <2>1. IsFiniteSet(Pending) /\ Cardinality(todo) \in Nat /\ Cardinality(Networks) \in Nat
    BY Finite DEF IInv
  <2>2. Cardinality(Pending') = Cardinality(Pending) - 1 /\ IsFiniteSet(Pending')
    BY <1>2, <2>1, FS_RemoveElement
  <2> QED  BY <2>1, <2>2, FS_EmptySet
<1>5. TypeOK'
  <2>1. faults' \in 0..MaxFaults
    BY <1>1, RestoreAssumption DEF IInv, TypeOK, Fault
  <2>2. networks' \subseteq Networks /\ failed' \subseteq Networks
    BY <1>1 DEF IInv, TypeOK
  <2> QED  BY <1>1, <1>3, <2>1, <2>2 DEF IInv, TypeOK
<1>6. Seen'
  BY <1>1, <1>2 DEF IInv, Seen
<1>7. Counted'
  <2>1. /\ wg' + Cardinality(todo') <= Cardinality(Networks)
        /\ ~ downs' => wg' = Cardinality(Pending')
        /\ main' # "restoring" => todo' = {}
    BY <1>1, <1>3, <1>4 DEF IInv, TypeOK, Counted
  <2>2. main' = "serving" => Pending' = {} \/ downs'
    BY <1>1, <1>2, <1>3, <1>4, <2>1 DEF IInv, Counted
  <2> QED  BY <1>3, <2>1, <2>2 DEF Counted
<1> QED  BY <1>5, <1>6, <1>7 DEF IInv

(* recreatedownbridge calls the delete handler.                            *)
LEMMA DownStep ==
    ASSUME IInv, NEW n \in Networks, DeleteDownBridge(n)
    PROVE  IInv'
<1>1. /\ Up /\ Done
      /\ cur = Op(n, "recreatedownbridge") /\ cur' = Op(n, "initbridge")
      /\ downs' = TRUE
      /\ UNCHANGED <<bridge, patch, todo, opChan, networks, failed, faults, races>>
  BY DEF DeleteDownBridge, At
<1>2. "recreatedownbridge" \in Ops /\ "initbridge" \in Ops
  BY DEF Ops
<1>3. Pending' = Pending /\ Distinct' /\ cur' \in Message
  BY <1>1, <1>2, OpFacts, AfterStep DEF IInv, Seen
<1>4. /\ wg' \in -1..Cardinality(Networks)
      /\ wg' = wg - 1
      /\ Up' => wg' >= 0
      /\ main' \in {"restoring", "waiting", "serving"}
      /\ main' = main \/ (main = "waiting" /\ main' = "serving" /\ wg' = 0)
      /\ proc' \in {"up", "crashed"}
  BY <1>1, AfterDone
<1>5. TypeOK'
  BY <1>1, <1>3, <1>4 DEF IInv, TypeOK, Message
<1>6. Seen'
  BY <1>1, <1>3 DEF IInv, Seen
<1>7. Counted'
  <2>1. Cardinality(todo) \in Nat /\ Cardinality(Networks) \in Nat
    BY Finite DEF IInv
  <2> QED  BY <1>1, <1>4, <2>1 DEF IInv, TypeOK, Counted
<1> QED  BY <1>5, <1>6, <1>7 DEF IInv

(* A step that finishes no operation, counts nothing and records nothing.  *)
LEMMA QuietStep ==
    ASSUME IInv, TypeOK', Pending' = Pending, Distinct',
           UNCHANGED <<wg, todo, networks, failed, downs>>,
           Up' => Up,
           \/ main' = main
           \/ todo = {} /\ main' = IF wg = 0 THEN "serving" ELSE "waiting"
    PROVE  IInv'
<1>1. Seen'
  BY DEF IInv, Seen
<1>2. main' = "serving" => Pending' = {} \/ downs'
  <2>1. Cardinality(Pending) = 0 => Pending = {}
    BY Finite DEF IInv
  <2> QED  BY <2>1 DEF IInv, Counted
<1>3. Counted'
  BY <1>2 DEF IInv, Counted
<1> QED  BY <1>1, <1>3 DEF IInv

(* Bridges are deleted and made; the process dies on a failure.            *)
LEMMA BridgeStep ==
    ASSUME IInv, NEW n \in Networks,
           \/ DeleteBadBridge(n) \/ DeleteBadBridgeFail(n) \/ DeleteBadBridgePanic(n)
           \/ InitBridge(n) \/ InitBridgeFail(n) \/ InitBridgeLosesEnd(n)
    PROVE  IInv'
<1>1. /\ Up
      /\ UNCHANGED <<main, todo, opChan, wg, networks, failed, races, downs>>
      /\ proc' = proc \/ proc' = "crashed"
      /\ faults' = faults \/ Fault
      /\ \E o \in Ops : cur = Op(n, o)
      /\ cur' = cur \/ \E o \in Ops : cur' = Op(n, o)
  BY DEF DeleteBadBridge, DeleteBadBridgeFail, DeleteBadBridgePanic, InitBridge,
         InitBridgeFail, InitBridgeLosesEnd, At, Crash, Ops
<1>2. bridge' = bridge \/ \E s \in {"addressed", "bare", "down"} : bridge' = [bridge EXCEPT ![n] = s]
  BY DEF DeleteBadBridge, DeleteBadBridgeFail, DeleteBadBridgePanic, InitBridge,
         InitBridgeFail, InitBridgeLosesEnd, Made
<1>3. \E s \in SUBSET Ends : patch' = [patch EXCEPT ![n] = s]
  <2>1. patch[n] \subseteq Ends
    BY DEF IInv, TypeOK
  <2>2. CASE DeleteBadBridge(n) \/ DeleteBadBridgeFail(n) \/ DeleteBadBridgePanic(n)
    BY <2>1, <2>2 DEF DeleteBadBridge, DeleteBadBridgeFail, DeleteBadBridgePanic
  <2>3. CASE InitBridge(n) \/ InitBridgeFail(n) \/ InitBridgeLosesEnd(n)
    BY <2>1, <2>3 DEF InitBridge, InitBridgeFail, InitBridgeLosesEnd, Unpatched
  <2> QED  BY <2>2, <2>3
<1>4. Pending' = Pending /\ Distinct'
  BY <1>1, OpFacts, AfterStep DEF IInv, Seen
<1>5. TypeOK'
  <2>1. bridge' \in [Networks -> {"addressed", "bare", "down"}]
    BY <1>2 DEF IInv, TypeOK
  <2>2. patch' \in [Networks -> SUBSET Ends]
    BY <1>3 DEF IInv, TypeOK
  <2>3. faults' \in 0..MaxFaults
    BY <1>1, RestoreAssumption DEF IInv, TypeOK, Fault
  <2>4. cur' \in Message
    BY <1>1, OpFacts
  <2> QED  BY <1>1, <2>1, <2>2, <2>3, <2>4 DEF IInv, TypeOK, Message
<1> QED  BY <1>1, <1>4, <1>5, QuietStep DEF Up

(* The main goroutine and resourceManager keep their accounts.             *)
THEOREM RestoreInductive == IInv /\ [Next]_vars => IInv'
<1> SUFFICES ASSUME IInv, [Next]_vars PROVE IInv'
  OBVIOUS
<1>1. ASSUME NEW n \in Networks, RestoreNetwork(n) PROVE IInv'
  BY <1>1, RestoreNetworkStep
<1>2. ASSUME NEW n \in Networks, HandleCreate(n) \/ HandleCreateFail(n) PROVE IInv'
  BY <1>2, CreateStep
<1>3. ASSUME NEW n \in Networks, DeleteDownBridge(n) PROVE IInv'
  BY <1>3, DownStep
<1>4. ASSUME NEW n \in Networks,
             \/ DeleteBadBridge(n) \/ DeleteBadBridgeFail(n) \/ DeleteBadBridgePanic(n)
             \/ InitBridge(n) \/ InitBridgeFail(n) \/ InitBridgeLosesEnd(n)
      PROVE  IInv'
  BY <1>4, BridgeStep
<1>5. CASE RestoreWait \/ RestoreRace \/ UNCHANGED vars
  <2>1. /\ UNCHANGED <<bridge, patch, todo, opChan, cur, wg, networks, failed, faults, downs>>
        /\ proc' = proc \/ proc' = "crashed"
        /\ races' = races \/ (races < MaxRaces /\ races' = races + 1)
        /\ \/ main' = main
           \/ todo = {} /\ main' = IF wg = 0 THEN "serving" ELSE "waiting"
    <3>1. CASE RestoreWait
      BY <3>1 DEF RestoreWait
    <3>2. CASE RestoreRace
      BY <3>2 DEF RestoreRace
    <3>3. CASE UNCHANGED vars
      BY <3>3 DEF vars
    <3> QED  BY <1>5, <3>1, <3>2, <3>3
  <2>2. TypeOK'
    <3>1. races' \in 0..MaxRaces
      BY <2>1, RestoreAssumption DEF IInv, TypeOK
    <3>2. main' \in {"restoring", "waiting", "serving"}
      BY <2>1 DEF IInv, TypeOK
    <3>3. proc' \in {"up", "crashed"}
      BY <2>1 DEF IInv, TypeOK
    <3> QED  BY <2>1, <3>1, <3>2, <3>3 DEF IInv, TypeOK
  <2>3. Pending' = Pending /\ Distinct'
    BY <2>1, AfterStep DEF IInv, Seen
  <2> QED  BY <2>1, <2>2, <2>3, QuietStep DEF Up
<1>6. CASE RmReceive
  <2>1. opChan' \in Seq(Message) /\ cur' \in Message /\ Pending' = Pending /\ Distinct'
    BY <1>6, AfterReceive DEF IInv, Seen
  <2>2. TypeOK'
    BY <1>6, <2>1 DEF IInv, TypeOK, RmReceive, Message
  <2> QED  BY <1>6, <2>1, <2>2, QuietStep DEF RmReceive, Up
<1>7. CASE Restart
  <2>1. Cardinality(Networks) \in Nat
    BY Finite DEF IInv
  <2>2. TypeOK'
    <3>1. 0 \in -1..Cardinality(Networks) /\ <<>> \in Seq([net : Networks, op : Ops])
      BY <2>1
    <3> QED  BY <1>7, <3>1, ZenonT(40) DEF IInv, TypeOK, Restart
  <2>3. cur'.op \notin Ops /\ 1..Len(opChan') = {}
    BY <1>7, OpFacts DEF Restart
  <2>4. Pending' = {} /\ Distinct'
    BY <2>3 DEF Pending, Distinct
  <2>5. Cardinality(Pending') = 0
    BY <2>4, FS_EmptySet
  <2>6. Seen' /\ Counted'
    BY <1>7, <2>1, <2>4, <2>5 DEF Seen, Counted, Restart
  <2> QED  BY <2>2, <2>6 DEF IInv
<1> QED  BY <1>1, <1>2, <1>3, <1>4, <1>5, <1>6, <1>7 DEF Next, Main, ResourceManager

(* The accounts hold in every reachable state.                             *)
LEMMA RestoreInvariance == Spec => []IInv
<1>1. Init => IInv
  <2> SUFFICES ASSUME Init PROVE IInv
    OBVIOUS
  <2>1. Cardinality(Networks) \in Nat
    BY RestoreAssumption, FS_CardinalityType
  <2>2. TypeOK
    <3>1. 0 \in -1..Cardinality(Networks) /\ <<>> \in Seq([net : Networks, op : Ops])
      BY <2>1
    <3>2. 0 \in 0..MaxFaults /\ 0 \in 0..MaxRaces
      BY RestoreAssumption
    <3>3. bridge \in [Networks -> {"addressed", "bare", "down"}]
      BY RestoreAssumption, ZenonT(40) DEF Init
    <3> QED  BY <3>1, <3>2, <3>3, ZenonT(40) DEF Init, TypeOK
  <2>3. cur.op \notin Ops /\ 1..Len(opChan) = {}
    BY OpFacts DEF Init
  <2>4. Pending = {} /\ Distinct
    BY <2>3 DEF Pending, Distinct
  <2>5. Cardinality(Pending) = 0
    BY <2>4, FS_EmptySet
  <2>6. Seen /\ Counted
    BY <2>1, <2>4, <2>5 DEF Seen, Counted, Init
  <2> QED  BY <2>2, <2>6 DEF IInv
<1>2. IInv /\ [Next]_vars => IInv'
  BY RestoreInductive
<1> QED  BY <1>1, <1>2, PTL DEF Spec

(* Whatever the bridges are found like and however often the process dies, *)
(* the variables hold what the code can put there; the WaitGroup counter   *)
(* is never below -1.                                                      *)
THEOREM TypeCorrect == Spec => []TypeOK
<1>1. IInv => TypeOK
  BY DEF IInv
<1> QED  BY <1>1, RestoreInvariance, PTL

(* restoreNetworks' wait on createDeleteNetworkWG: the plugin serves       *)
(* Docker's calls only when every network is in d.networks or its create   *)
(* handler failed, unless a recreatedownbridge was carried out.            *)
THEOREM ServesCorrect == Spec => []ServesRestored
<1>1. IInv => ServesRestored
  BY DEF IInv, TypeOK, Seen, Counted, ServesRestored, Restored
<1> QED  BY <1>1, RestoreInvariance, PTL

-----------------------------------------------------------------------------
(* What recovery does to the bridges.                                      *)

(* The operations that may meet a bridge in state s.                       *)
Meets(o, s) ==
    \/ o \in {"idle", "create"}
    \/ o = "recreatebadbridge" /\ s = "bare"
    \/ o \in {"recreatedownbridge", "initbridge"} /\ s = "down"

(* The bridges are still as they were when the queued operations were      *)
(* chosen, and while the process lives the step resourceManager is at      *)
(* meets a bridge it is for.                                               *)
QueueFits == \A i \in 1..Len(opChan) : Meets(opChan[i].op, bridge[opChan[i].net])

Chosen == QueueFits /\ (Up => Meets(cur.op, bridge[cur.net]))

(* As long as nothing failed, only a bridge that is being made again is    *)
(* without its patch port.                                                 *)
Patched ==
    faults = 0 => \A n \in Networks : patch[n] = Ends \/ (Up /\ cur = Op(n, "initbridge"))

BInv == IInv /\ Chosen /\ Patched /\ BadBridgesSurvived

(* restoreNetworks chooses an operation that is for the bridge.            *)
LEMMA OpChosen ==
    ASSUME TypeOK, NEW n \in Networks
    PROVE  Meets(RestoreOp(n), bridge[n])
<1>1. bridge[n] \in {"addressed", "bare", "down"}
  BY DEF TypeOK
<1> QED  BY <1>1 DEF RestoreOp, Meets

(* A step that takes up no operation and works on no bridge.               *)
LEMMA ChosenFrame ==
    ASSUME Chosen, UNCHANGED <<opChan, bridge>>, Up' => Up,
           cur' = cur \/ cur' = Idle
    PROVE  Chosen'
<1>1. QueueFits'
  BY DEF Chosen, QueueFits
<1>2. CASE cur' = cur
  BY <1>1, <1>2 DEF Chosen
<1>3. CASE cur' = Idle
  BY <1>1, <1>3 DEF Chosen, Meets, Idle, Op
<1> QED  BY <1>2, <1>3

(* Work on the bridge of the current operation leaves the others' bridges  *)
(* as they were when their operations were chosen.                         *)
LEMMA ChosenElsewhere ==
    ASSUME IInv, Chosen, NEW n \in Networks, NEW o \in Ops, cur = Op(n, o), NEW s,
           bridge' = [bridge EXCEPT ![n] = s] \/ bridge' = bridge, opChan' = opChan
    PROVE  QueueFits'
<1> SUFFICES ASSUME NEW i \in 1..Len(opChan)
             PROVE  Meets(opChan[i].op, bridge'[opChan[i].net])
  BY DEF QueueFits
<1>1. opChan[i].net # n
  BY OpFacts DEF IInv, Seen, Distinct
<1>2. bridge'[opChan[i].net] = bridge[opChan[i].net]
  <2>1. opChan \in Seq(Message)
    BY DEF IInv, TypeOK, Message
  <2>2. opChan[i] \in Message
    BY <2>1
  <2>3. bridge \in [Networks -> {"addressed", "bare", "down"}] /\ opChan[i].net \in Networks
    BY <2>2, OpFacts DEF IInv, TypeOK
  <2> QED  BY <1>1, <2>3
<1> QED  BY <1>2 DEF Chosen, QueueFits

(* The operations fit the bridges after every step.                        *)
LEMMA ChosenStep ==
    ASSUME IInv, Chosen, [Next]_vars
    PROVE  Chosen'
<1>1. CASE RestoreWait \/ RestoreRace \/ UNCHANGED vars
  <2>1. UNCHANGED <<opChan, bridge, cur>> /\ (Up' => Up)
    BY <1>1 DEF RestoreWait, RestoreRace, vars, Up
  <2> QED  BY <2>1, ChosenFrame
<1>2. ASSUME NEW n \in Networks, HandleCreate(n) \/ HandleCreateFail(n) PROVE Chosen'
  <2>1. UNCHANGED <<opChan, bridge>> /\ Up /\ cur' = Idle
    BY <1>2 DEF HandleCreate, HandleCreateFail, At
  <2> QED  BY <2>1, ChosenFrame
<1>3. ASSUME NEW n \in Networks, RestoreNetwork(n) PROVE Chosen'
  <2>1. opChan \in Seq(Message) /\ opChan' = Append(opChan, Op(n, RestoreOp(n)))
    BY <1>3 DEF IInv, TypeOK, Message, RestoreNetwork
  <2>2. UNCHANGED <<bridge, cur, proc>>
    BY <1>3 DEF RestoreNetwork
  <2>3. ASSUME NEW i \in 1..Len(opChan') PROVE Meets(opChan'[i].op, bridge[opChan'[i].net])
    <3>1. CASE i \in 1..Len(opChan)
      <4>1. opChan'[i] = opChan[i]
        BY <2>1, <3>1
      <4> QED  BY <3>1, <4>1 DEF Chosen, QueueFits
    <3>2. CASE i = Len(opChan) + 1
      <4>1. opChan'[i] = Op(n, RestoreOp(n))
        BY <2>1, <3>2
      <4>2. opChan'[i].op = RestoreOp(n) /\ opChan'[i].net = n
        BY <4>1, OpFacts
      <4> QED  BY <4>2, OpChosen DEF IInv
    <3> QED  BY <2>1, <3>1, <3>2
  <2>4. QueueFits'
    BY <2>2, <2>3 DEF QueueFits
  <2> QED  BY <2>2, <2>4 DEF Chosen, Up
<1>4. CASE RmReceive
  <2>1. opChan \in Seq(Message) /\ opChan # <<>>
    BY <1>4 DEF IInv, TypeOK, Message, RmReceive
  <2>2. /\ 1 \in 1..Len(opChan)
        /\ \A i \in 1..Len(opChan') : i + 1 \in 1..Len(opChan) /\ opChan'[i] = opChan[i + 1]
        /\ cur' = opChan[1]
    BY <1>4, <2>1 DEF RmReceive
  <2>3. UNCHANGED bridge
    BY <1>4 DEF RmReceive
  <2>4. QueueFits'
    BY <2>2, <2>3 DEF Chosen, QueueFits
  <2>5. Meets(cur'.op, bridge'[cur'.net])
    BY <2>2, <2>3 DEF Chosen, QueueFits
  <2> QED  BY <2>4, <2>5 DEF Chosen
<1>5. ASSUME NEW n \in Networks, DeleteDownBridge(n) PROVE Chosen'
  <2>1. /\ Up /\ cur = Op(n, "recreatedownbridge") /\ cur' = Op(n, "initbridge")
        /\ UNCHANGED <<bridge, opChan>>
    BY <1>5 DEF DeleteDownBridge, At
  <2>2. bridge[n] = "down"
    BY <2>1, OpFacts DEF Chosen, Meets
  <2>3. Meets(cur'.op, bridge'[cur'.net])
    BY <2>1, <2>2, OpFacts DEF Meets
  <2>4. QueueFits'
    BY <2>1 DEF Chosen, QueueFits
  <2> QED  BY <2>3, <2>4 DEF Chosen
<1>6. ASSUME NEW n \in Networks,
             \/ DeleteBadBridge(n) \/ DeleteBadBridgeFail(n) \/ DeleteBadBridgePanic(n)
             \/ InitBridge(n) \/ InitBridgeFail(n) \/ InitBridgeLosesEnd(n)
      PROVE  Chosen'
  <2>1. opChan' = opChan /\ \E o \in Ops : cur = Op(n, o)
    BY <1>6 DEF DeleteBadBridge, DeleteBadBridgeFail, DeleteBadBridgePanic, InitBridge,
                InitBridgeFail, InitBridgeLosesEnd, At, Ops
  <2>2. \E s : bridge' = [bridge EXCEPT ![n] = s] \/ bridge' = bridge
    BY <1>6 DEF DeleteBadBridge, DeleteBadBridgeFail, DeleteBadBridgePanic, InitBridge,
                InitBridgeFail, InitBridgeLosesEnd, Made
  <2>3. QueueFits'
    BY <2>1, <2>2, ChosenElsewhere
  <2>4. \/ ~ Up'
        \/ cur' = Op(n, "create")
        \/ cur' = Op(n, "initbridge") /\ bridge' = [bridge EXCEPT ![n] = "down"]
    BY <1>6 DEF DeleteBadBridge, DeleteBadBridgeFail, DeleteBadBridgePanic, InitBridge,
                InitBridgeFail, InitBridgeLosesEnd, Crash, Up
  <2>5. Up' => Meets(cur'.op, bridge'[cur'.net])
    <3>1. bridge \in [Networks -> {"addressed", "bare", "down"}]
      BY DEF IInv, TypeOK
    <3> QED  BY <2>4, <3>1, OpFacts DEF Meets
  <2> QED  BY <2>3, <2>5 DEF Chosen
<1>7. CASE Restart
  <2>1. 1..Len(opChan') = {} /\ cur'.op = "idle"
    BY <1>7 DEF Restart, Idle, Op
  <2> QED  BY <2>1 DEF Chosen, QueueFits, Meets
<1> QED  BY <1>1, <1>2, <1>3, <1>4, <1>5, <1>6, <1>7 DEF Next, Main, ResourceManager

(* A failure is counted.                                                   *)
LEMMA FaultCounted ==
    ASSUME IInv, Fault
    PROVE  faults' # 0
BY RestoreAssumption DEF IInv, TypeOK, Fault

(* As long as nothing failed, patch ports are complete outside of a        *)
(* recreation.                                                             *)
LEMMA PatchesComplete ==
    ASSUME Patched, faults = 0, ~ Up \/ cur.op # "initbridge"
    PROVE  \A n \in Networks : patch[n] = Ends
BY OpFacts DEF Patched

(* A recreation that does not fail makes the patch port again.             *)
LEMMA PatchedStep ==
    ASSUME IInv, Patched, [Next]_vars
    PROVE  Patched'
<1> SUFFICES ASSUME faults' = 0 PROVE Patched'
  BY DEF Patched
<1>0. patch \in [Networks -> SUBSET Ends]
  BY DEF IInv, TypeOK
<1>1. CASE Main \/ UNCHANGED vars
  BY <1>1 DEF Main, RestoreNetwork, RestoreWait, vars, Patched, Up
<1>2. ASSUME UNCHANGED <<patch, faults>>, ~ Up \/ cur.op # "initbridge" PROVE Patched'
  BY <1>2, PatchesComplete DEF Patched
<1>3. CASE RestoreRace \/ RmReceive \/ Restart
  <2>1. UNCHANGED <<patch, faults>>
    BY <1>3 DEF RestoreRace, RmReceive, Restart
  <2>2. ~ Up \/ cur.op # "initbridge"
    BY <1>3 DEF RestoreRace, WritesMirrorConfigs, RmReceive, Restart, Up, Idle, Op
  <2> QED  BY <1>2, <2>1, <2>2
<1>4. ASSUME NEW n \in Networks, HandleCreate(n) \/ HandleCreateFail(n) \/ DeleteDownBridge(n)
      PROVE  Patched'
  <2>1. UNCHANGED patch /\ (faults' = faults \/ Fault)
    BY <1>4 DEF HandleCreate, HandleCreateFail, DeleteDownBridge
  <2>2. cur.op # "initbridge"
    BY <1>4, OpFacts DEF HandleCreate, HandleCreateFail, DeleteDownBridge, At
  <2> QED  BY <1>2, <2>1, <2>2, FaultCounted
<1>5. ASSUME NEW n \in Networks, DeleteBadBridge(n) PROVE Patched'
  <2>1. /\ Up /\ cur.op # "initbridge" /\ faults = 0
        /\ Up' /\ cur' = Op(n, "initbridge") /\ patch' = [patch EXCEPT ![n] = {}]
    BY <1>5, OpFacts DEF DeleteBadBridge, At, Up
  <2>2. \A m \in Networks : patch[m] = Ends
    BY <2>1, PatchesComplete
  <2> QED  BY <1>0, <2>1, <2>2 DEF Patched
<1>6. ASSUME NEW n \in Networks, InitBridge(n) PROVE Patched'
  <2>1. /\ cur = Op(n, "initbridge") /\ faults = 0
        /\ patch' = [patch EXCEPT ![n] = Ends]
    BY <1>6 DEF InitBridge, At
  <2>2. \A m \in Networks \ {n} : cur # Op(m, "initbridge")
    BY <2>1, OpFacts
  <2>3. \A m \in Networks : patch'[m] = Ends
    BY <1>0, <2>1, <2>2 DEF Patched
  <2> QED  BY <2>3 DEF Patched
<1>7. ASSUME NEW n \in Networks, DeleteBadBridgePanic(n) PROVE FALSE
  <2>1. cur.op # "initbridge" /\ faults = 0 /\ patch[n] # Ends
    BY <1>7, OpFacts DEF DeleteBadBridgePanic, At
  <2> QED  BY <2>1, PatchesComplete
<1>8. ASSUME NEW n \in Networks,
             DeleteBadBridgeFail(n) \/ InitBridgeFail(n) \/ InitBridgeLosesEnd(n)
      PROVE  FALSE
  BY <1>8, FaultCounted DEF DeleteBadBridgeFail, InitBridgeFail, InitBridgeLosesEnd
<1> QED  BY <1>1, <1>3, <1>4, <1>5, <1>6, <1>7, <1>8 DEF Next, ResourceManager

(* Without failures, races and recreatedownbridge nothing ends the         *)
(* process: the WaitGroup counts the operation that is being carried out,  *)
(* and a recreatebadbridge finds a complete patch port.                    *)
LEMMA SurvivedStep ==
    ASSUME IInv, Patched, BadBridgesSurvived, [Next]_vars
    PROVE  BadBridgesSurvived'
<1> SUFFICES ASSUME faults' = 0, races' = 0, ~ downs' PROVE Up'
  BY DEF BadBridgesSurvived
<1>1. CASE Main \/ RmReceive \/ UNCHANGED vars
  BY <1>1 DEF Main, RestoreNetwork, RestoreWait, RmReceive, vars, BadBridgesSurvived, Up
<1>2. ASSUME RestoreRace PROVE FALSE
  <2>1. races \in Nat /\ races' = races + 1
    BY <1>2, RestoreAssumption DEF RestoreRace, IInv, TypeOK
  <2> QED  BY <2>1
<1>3. ASSUME NEW n \in Networks, HandleCreate(n) \/ HandleCreateFail(n) PROVE Up'
  <2>1. Up /\ Done /\ ~ downs /\ cur = Op(n, "create")
    BY <1>3 DEF HandleCreate, HandleCreateFail, At
  <2>2. n \in Pending
    BY <2>1, OpFacts DEF Pending, Ops
  <2>3. wg # 0
    BY <2>1, <2>2, Finite DEF IInv, Counted
  <2> QED  BY <2>1, <2>3 DEF Done, Up
<1>4. ASSUME NEW n \in Networks, DeleteDownBridge(n) PROVE FALSE
  BY <1>4 DEF DeleteDownBridge
<1>5. ASSUME NEW n \in Networks, DeleteBadBridge(n) \/ InitBridge(n) PROVE Up'
  BY <1>5 DEF DeleteBadBridge, InitBridge, At, Up
<1>6. ASSUME NEW n \in Networks, DeleteBadBridgePanic(n) PROVE FALSE
  <2>1. cur.op # "initbridge" /\ faults = 0 /\ patch[n] # Ends
    BY <1>6, OpFacts DEF DeleteBadBridgePanic, At
  <2> QED  BY <2>1, PatchesComplete
<1>7. ASSUME NEW n \in Networks,
             DeleteBadBridgeFail(n) \/ InitBridgeFail(n) \/ InitBridgeLosesEnd(n)
      PROVE  FALSE
  BY <1>7, FaultCounted DEF DeleteBadBridgeFail, InitBridgeFail, InitBridgeLosesEnd
<1>8. CASE Restart
  BY <1>8 DEF Restart, Up
<1> QED  BY <1>1, <1>2, <1>3, <1>4, <1>5, <1>6, <1>7, <1>8 DEF Next, ResourceManager

(* The bridges and the operations match in every reachable state.          *)
LEMMA BridgeInvariance == Spec => []BInv
<1>1. Init /\ IInv => BInv
  <2> SUFFICES ASSUME Init PROVE Chosen /\ Patched /\ BadBridgesSurvived
    BY DEF BInv
  <2>1. 1..Len(opChan) = {} /\ cur.op = "idle"
    BY DEF Init, Idle, Op
  <2>2. Chosen
    BY <2>1 DEF Chosen, QueueFits, Meets
  <2> QED  BY <2>2 DEF Init, Patched, BadBridgesSurvived, Up
<1>2. BInv /\ IInv' /\ [Next]_vars => BInv'
  BY ChosenStep, PatchedStep, SurvivedStep DEF BInv
<1> QED  BY <1>1, <1>2, RestoreInvariance, PTL DEF Spec

(* A bad bridge (up, without an address) is recovered from without ending  *)
(* the process, whatever else is queued: driver.go's Add and Done match    *)
(* and DeletePatchPort finds both ends, unless a recreatedownbridge was    *)
(* carried out.                                                            *)
THEOREM SurvivedCorrect == Spec => []BadBridgesSurvived
<1>1. BInv => BadBridgesSurvived
  BY DEF BInv
<1> QED  BY <1>1, BridgeInvariance, PTL

(* What restoreNetworks and resourceManager do to recover other networks   *)
(* never touches a bridge that is up with its address, although ifUp and   *)
(* getIfaceAddr were asked long before the operation is carried out.       *)
THEOREM HealthyCorrect == Spec => HealthyKept
<1> DEFINE Healthy == \A n \in Networks : bridge[n] = "addressed" =>
                          bridge'[n] = "addressed" /\ patch'[n] = patch[n]
<1>1. ASSUME BInv, [Next]_vars PROVE Healthy
  <2>0. bridge \in [Networks -> {"addressed", "bare", "down"}] /\ patch \in [Networks -> SUBSET Ends]
    BY <1>1 DEF BInv, IInv, TypeOK
  <2>1. ASSUME UNCHANGED <<bridge, patch>> PROVE Healthy
    BY <2>1
  <2>2. CASE Main \/ RestoreRace \/ RmReceive \/ Restart \/ UNCHANGED vars
    BY <2>1, <2>2 DEF Main, RestoreNetwork, RestoreWait, RestoreRace, RmReceive, Restart, vars
  <2>3. ASSUME NEW n \in Networks, HandleCreate(n) \/ HandleCreateFail(n) \/ DeleteDownBridge(n)
        PROVE  Healthy
    BY <2>1, <2>3 DEF HandleCreate, HandleCreateFail, DeleteDownBridge
  <2>4. ASSUME NEW n \in Networks,
               \/ DeleteBadBridge(n) \/ DeleteBadBridgeFail(n) \/ DeleteBadBridgePanic(n)
               \/ InitBridge(n) \/ InitBridgeFail(n) \/ InitBridgeLosesEnd(n)
        PROVE  Healthy
    <3>1. \E o \in {"recreatebadbridge", "initbridge"} : At(n, o)
      BY <2>4 DEF DeleteBadBridge, DeleteBadBridgeFail, DeleteBadBridgePanic, InitBridge,
                  InitBridgeFail, InitBridgeLosesEnd
    <3>2. bridge[n] # "addressed"
      BY <1>1, <3>1, OpFacts DEF BInv, Chosen, Meets, At
    <3>3. /\ bridge' = bridge \/ \E s : bridge' = [bridge EXCEPT ![n] = s]
          /\ \E s : patch' = [patch EXCEPT ![n] = s]
      BY <2>4 DEF DeleteBadBridge, DeleteBadBridgeFail, DeleteBadBridgePanic, InitBridge,
                  InitBridgeFail, InitBridgeLosesEnd, Made, Unpatched
    <3> QED  BY <2>0, <3>2, <3>3
  <2> QED  BY <1>1, <2>2, <2>3, <2>4 DEF Next, ResourceManager
<1>2. Spec => [][Healthy]_vars
  BY <1>1, BridgeInvariance, PTL DEF Spec
<1> QED  BY <1>2 DEF HealthyKept

=============================================================================
