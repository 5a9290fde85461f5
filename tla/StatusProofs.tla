---------------------------- MODULE StatusProofs ----------------------------
(***************************************************************************)
(* Proofs about Status: type correctness, that the status shows a          *)
(* container only addresses it was given, and that no request of a web     *)
(* client is lost. Each needs its own invariant: the addresses one about   *)
(* the scripts and their files, the requests one about every request being *)
(* in one place.                                                           *)
(***************************************************************************)
EXTENDS Status, TLAPS

(* What may be in the channel and in resourceManager's hands.              *)
ChanOps == [op : {"join", "leave", "networks"}, who : Containers \cup Clients]
RmOps == ChanOps \cup [op : {"idle", "notify"}, who : {NoIP}]
                 \cup [op : {"read"}, who : Clients \cup {NoIP}]

TInv ==
    /\ TypeOK
    /\ opChan \in Seq(ChanOps)
    /\ rm \in RmOps

(* A script that runs has an address its container was given, and so has   *)
(* the file once it is written, and what was read from it.                 *)
AInv ==
    /\ given \in [Containers -> SUBSET Addresses]
    /\ \A c \in Containers :
        /\ script[c].at # "off" => script[c].ip \in given[c]
        /\ file[c] \in given[c] \cup {Missing, Empty}
        /\ hostIP[c] \in given[c] \cup {NoIP}

(* A client's request is in one place only.                                *)
InChan(w) == \E i \in DOMAIN opChan : opChan[i] = Op("networks", w)
InHand(w) == rm \in {Op("networks", w), Op("read", w)}
WInv ==
    \A w \in Clients :
        /\ web[w] = "waiting" <=> InChan(w) \/ InHand(w)
        /\ ~ (InChan(w) /\ InHand(w))
        /\ \A i, j \in DOMAIN opChan :
            opChan[i] = Op("networks", w) /\ opChan[j] = Op("networks", w) => i = j

-----------------------------------------------------------------------------
(* A request that is sent is the last of the channel, the others stay      *)
(* where they are ...                                                      *)
LEMMA Sent ==
    ASSUME NEW S, NEW q \in Seq(S), NEW m \in S
    PROVE  /\ Append(q, m) \in Seq(S)
           /\ Len(Append(q, m)) = Len(q) + 1
           /\ DOMAIN q = 1..Len(q)
           /\ DOMAIN Append(q, m) = 1..(Len(q) + 1)
           /\ \A i \in 1..Len(q) : Append(q, m)[i] = q[i]
           /\ Append(q, m)[Len(q) + 1] = m
OBVIOUS

(* ... and one that is received was the first, the others moving up.       *)
LEMMA Received ==
    ASSUME NEW S, NEW q \in Seq(S), q # <<>>
    PROVE  /\ Head(q) \in S
           /\ Head(q) = q[1]
           /\ 1 \in DOMAIN q
           /\ Tail(q) \in Seq(S)
           /\ Len(q) \in Nat \ {0}
           /\ DOMAIN q = 1..Len(q)
           /\ DOMAIN Tail(q) = 1..(Len(q) - 1)
           /\ \A i \in 1..(Len(q) - 1) : Tail(q)[i] = q[i + 1]
OBVIOUS

-----------------------------------------------------------------------------
(* Every action keeps the types of the variables.                          *)
LEMMA TypeStep == TInv /\ AInv /\ [Next]_vars => TInv'
<1> SUFFICES ASSUME TInv, AInv, [Next]_vars PROVE TInv'
  OBVIOUS
<1> USE StatusAssumption DEF TInv, TypeOK, ChanOps, RmOps, Op, NoIP, Idle, Steps, NotRunning
<1>1. ASSUME NEW c \in Containers, Join(c) \/ Leave(c) PROVE TInv'
  <2>1. \E m \in ChanOps : opChan' = Append(opChan, m)
    BY <1>1 DEF Join, Leave, Send
  <2>2. opChan' \in Seq(ChanOps)
    BY <2>1, Sent
  <2> QED  BY <1>1, <2>2 DEF Join, Leave, dhcp
<1>2. ASSUME NEW w \in Clients, getWebResponse(w) PROVE TInv'
  <2>1. \E m \in ChanOps : opChan' = Append(opChan, m)
    BY <1>2 DEF getWebResponse, Send
  <2>2. opChan' \in Seq(ChanOps)
    BY <2>1, Sent
  <2> QED  BY <1>2, <2>2 DEF getWebResponse, dhcp
<1>3. ASSUME NEW c \in Containers, NEW a \in Pool[c], Bound(c, a) PROVE TInv'
  <2>1. a \in Addresses
    BY DEF Addresses
  <2>2. lease' \in [Containers -> Addresses \cup {NoIP}]
    BY <1>3, <2>1 DEF Bound
  <2>3. script' \in [Containers -> [at : Steps, ip : Addresses \cup {NoIP}]]
    BY <1>3, <2>1 DEF Bound
  <2> QED  BY <1>3, <2>2, <2>3 DEF Bound
<1>4. ASSUME NEW c \in Containers, Touch(c) PROVE TInv'
  BY <1>4 DEF Touch
<1>5. ASSUME NEW c \in Containers, Truncate(c) PROVE TInv'
  BY <1>5 DEF Truncate
<1>6. ASSUME NEW c \in Containers, Write(c) PROVE TInv'
  <2>1. script[c].ip \in Addresses
    BY <1>6 DEF Write, AInv
  <2> QED  BY <1>6, <2>1 DEF Write
<1>7. CASE RmReceive
  <2>1. Head(opChan) \in ChanOps /\ Tail(opChan) \in Seq(ChanOps)
    BY <1>7, Received DEF RmReceive
  <2> QED  BY <1>7, <2>1 DEF RmReceive, dhcp
<1>8. ASSUME NEW c \in Containers, HandleJoin(c) PROVE TInv'
  BY <1>8 DEF HandleJoin, dhcp
<1>9. ASSUME NEW c \in Containers, HandleLeave(c) PROVE TInv'
  BY <1>9 DEF HandleLeave
<1>10. CASE Notify
  BY <1>10 DEF Notify, dhcp
<1>11. CASE Poll
  BY <1>11 DEF Poll, Stat, dhcp
<1>12. ASSUME NEW w \in Clients, HandleNetworks(w) PROVE TInv'
  BY <1>12 DEF HandleNetworks, Stat, dhcp
<1>13. ASSUME NEW c \in Containers, ReadFile(c) PROVE TInv'
  BY <1>13 DEF ReadFile, Address, dhcp
<1>14. CASE ReadDone
  BY <1>14 DEF ReadDone, dhcp
<1>15. CASE notifier
  BY <1>15 DEF notifier, dhcp
<1>16. CASE UNCHANGED vars
  BY <1>16 DEF vars
<1> QED
  BY <1>1, <1>2, <1>3, <1>4, <1>5, <1>6, <1>7, <1>8, <1>9, <1>10, <1>11, <1>12, <1>13,
     <1>14, <1>15, <1>16 DEF Next, ResourceManager, Script

-----------------------------------------------------------------------------
(* Every action keeps what is known of addresses: a script and a file      *)
(* belong to one container, and the read goes by the container.            *)
LEMMA AddressStep == TInv /\ AInv /\ [Next]_vars => AInv'
<1> SUFFICES ASSUME TInv, AInv, [Next]_vars PROVE AInv'
  OBVIOUS
<1>0. /\ script \in [Containers -> [at : Steps, ip : Addresses \cup {NoIP}]]
      /\ file \in [Containers -> Addresses \cup {Missing, Empty}]
      /\ hostIP \in [Containers -> Addresses \cup {NoIP}]
      /\ given \in [Containers -> SUBSET Addresses]
  BY DEF TInv, TypeOK, AInv
<1>1. CASE UNCHANGED <<script, file, hostIP, given>>
  BY <1>1 DEF AInv
<1>2. ASSUME NEW c \in Containers, NEW a \in Pool[c], Bound(c, a) PROVE AInv'
  <2>1. a \in Addresses
    BY DEF Addresses
  <2>2. /\ given' \in [Containers -> SUBSET Addresses]
        /\ \A d \in Containers : given[d] \subseteq given'[d]
        /\ a \in given'[c]
    BY <1>0, <1>2, <2>1 DEF Bound
  <2>3. /\ script'[c].ip = a
        /\ \A d \in Containers \ {c} : script'[d] = script[d]
    BY <1>0, <1>2 DEF Bound
  <2> QED  BY <1>2, <2>2, <2>3 DEF AInv, Bound
<1>3. ASSUME NEW c \in Containers, Touch(c) PROVE AInv'
  BY <1>0, <1>3 DEF AInv, Touch, Steps
<1>4. ASSUME NEW c \in Containers, Truncate(c) PROVE AInv'
  BY <1>0, <1>4 DEF AInv, Truncate, Steps
<1>5. ASSUME NEW c \in Containers, Write(c) PROVE AInv'
  <2>1. script[c].ip \in given[c]
    BY <1>5 DEF AInv, Write
  <2> QED  BY <1>0, <1>5, <2>1 DEF AInv, Write, NotRunning
<1>6. ASSUME NEW c \in Containers, HandleJoin(c) \/ HandleLeave(c) PROVE AInv'
  BY <1>0, <1>6 DEF AInv, HandleJoin, HandleLeave, dhcp
<1>7. ASSUME NEW c \in Containers, ReadFile(c) PROVE AInv'
  BY <1>0, <1>7 DEF AInv, ReadFile, Address, dhcp
<1>8. [Next]_vars => \/ UNCHANGED <<script, file, hostIP, given>>
                     \/ \E c \in Containers : \E a \in Pool[c] : Bound(c, a)
                     \/ \E c \in Containers : Script(c)
                     \/ \E c \in Containers : HandleJoin(c) \/ HandleLeave(c) \/ ReadFile(c)
  BY DEF Next, ResourceManager, Join, Leave, getWebResponse, RmReceive, Notify, Poll,
         HandleNetworks, ReadDone, notifier, dhcp, vars
<1> QED  BY <1>1, <1>2, <1>3, <1>4, <1>5, <1>6, <1>7, <1>8 DEF Script

-----------------------------------------------------------------------------
(* A send adds its operation to the channel and leaves the others there.   *)
LEMMA SendOne ==
    ASSUME TInv, NEW m \in ChanOps, opChan' = Append(opChan, m)
    PROVE  /\ \A w \in Clients : InChan(w)' <=> InChan(w) \/ m = Op("networks", w)
           /\ \A i, j \in DOMAIN opChan' :
                i # j /\ opChan'[i] = opChan'[j] =>
                    \/ i \in DOMAIN opChan /\ j \in DOMAIN opChan /\ opChan[i] = opChan[j]
                    \/ \E k \in DOMAIN opChan : opChan[k] = m /\ opChan'[i] = m
<1>1. opChan \in Seq(ChanOps)
  BY DEF TInv
<1>2. /\ Len(opChan) \in Nat
      /\ DOMAIN opChan = 1..Len(opChan)
      /\ DOMAIN opChan' = 1..(Len(opChan) + 1)
      /\ \A i \in 1..Len(opChan) : opChan'[i] = opChan[i]
      /\ opChan'[Len(opChan) + 1] = m
  BY <1>1, Sent
<1>3. \A i \in DOMAIN opChan' : i \in DOMAIN opChan \/ i = Len(opChan) + 1
  BY <1>2
<1>4. ASSUME NEW w \in Clients
      PROVE  InChan(w)' <=> InChan(w) \/ m = Op("networks", w)
  BY <1>2, <1>3 DEF InChan, Op
<1>5. ASSUME NEW i \in DOMAIN opChan', NEW j \in DOMAIN opChan',
             i # j, opChan'[i] = opChan'[j]
      PROVE  \/ i \in DOMAIN opChan /\ j \in DOMAIN opChan /\ opChan[i] = opChan[j]
             \/ \E k \in DOMAIN opChan : opChan[k] = m /\ opChan'[i] = m
  BY <1>2, <1>3, <1>5
<1> QED  BY <1>4, <1>5

(* Every action keeps each request in one place, and its client waiting.   *)
LEMMA RequestStep == TInv /\ WInv /\ [Next]_vars => WInv'
<1> SUFFICES ASSUME TInv, WInv, [Next]_vars PROVE WInv'
  OBVIOUS
<1>0. /\ web \in [Clients -> {"waiting", "answered"}]
      /\ rm \in RmOps
      /\ opChan \in Seq(ChanOps)
  BY DEF TInv, TypeOK
<1>1. CASE UNCHANGED <<web, rm, opChan>>
  BY <1>1 DEF WInv, InChan, InHand
<1>2. ASSUME NEW c \in Containers, NEW op \in {"join", "leave"}, Send(op, c),
             UNCHANGED <<web, rm>>
      PROVE  WInv'
  <2>1. Op(op, c) \in ChanOps /\ opChan' = Append(opChan, Op(op, c))
    BY <1>2 DEF Send, Op, ChanOps
  <2>2. \A w : Op(op, c) # Op("networks", w)
    BY DEF Op
  <2>3. \A w \in Clients : (InChan(w)' <=> InChan(w)) /\ (InHand(w)' <=> InHand(w))
    BY <1>2, <2>1, <2>2, SendOne DEF InHand
  <2>4. ASSUME NEW w \in Clients, NEW i \in DOMAIN opChan', NEW j \in DOMAIN opChan',
               opChan'[i] = Op("networks", w), opChan'[j] = Op("networks", w)
        PROVE  i = j
    BY <2>1, <2>2, <2>4, SendOne DEF WInv
  <2> QED  BY <1>2, <2>3, <2>4 DEF WInv
<1>3. ASSUME NEW v \in Clients, getWebResponse(v) PROVE WInv'
  <2>1. Op("networks", v) \in ChanOps /\ opChan' = Append(opChan, Op("networks", v))
    BY <1>3 DEF getWebResponse, Send, Op, ChanOps
  <2>2. ~ InChan(v) /\ ~ InHand(v)
    BY <1>3 DEF getWebResponse, WInv
  <2>3. \A w \in Clients : /\ InChan(w)' <=> InChan(w) \/ w = v
                           /\ InHand(w)' <=> InHand(w)
    BY <1>3, <2>1, SendOne DEF getWebResponse, InHand, Op
  <2>4. \A w \in Clients : web'[w] = "waiting" <=> web[w] = "waiting" \/ w = v
    BY <1>0, <1>3 DEF getWebResponse
  <2>5. ASSUME NEW w \in Clients, NEW i \in DOMAIN opChan', NEW j \in DOMAIN opChan',
               opChan'[i] = Op("networks", w), opChan'[j] = Op("networks", w)
        PROVE  i = j
    BY <2>1, <2>2, <2>5, SendOne DEF WInv, InChan
  <2> QED  BY <2>2, <2>3, <2>4, <2>5 DEF WInv
<1>4. CASE RmReceive
  <2>1. /\ rm = Idle /\ rm' = opChan[1] /\ web' = web
        /\ 1 \in DOMAIN opChan
        /\ opChan[1] \in ChanOps
        /\ Len(opChan) \in Nat \ {0}
        /\ DOMAIN opChan = 1..Len(opChan)
        /\ DOMAIN opChan' = 1..(Len(opChan) - 1)
        /\ \A i \in 1..(Len(opChan) - 1) : opChan'[i] = opChan[i + 1]
    BY <1>0, <1>4, Received DEF RmReceive
  <2>2. \A i \in DOMAIN opChan' : i + 1 \in DOMAIN opChan /\ i + 1 # 1 /\ opChan'[i] = opChan[i + 1]
    BY <2>1
  <2>3. \A i \in DOMAIN opChan : i # 1 => i - 1 \in DOMAIN opChan' /\ opChan'[i - 1] = opChan[i]
    BY <2>1
  <2>4. ASSUME NEW w \in Clients
        PROVE  /\ InHand(w)' <=> opChan[1] = Op("networks", w)
               /\ ~ InHand(w)
    BY <2>1 DEF InHand, Idle, Op, ChanOps
  <2>5. ASSUME NEW w \in Clients
        PROVE  InChan(w) <=> InChan(w)' \/ opChan[1] = Op("networks", w)
    BY <2>1, <2>2, <2>3 DEF InChan
  <2>6. ASSUME NEW w \in Clients PROVE ~ (InChan(w)' /\ InHand(w)')
    BY <2>1, <2>2, <2>4 DEF InChan, WInv
  <2>7. ASSUME NEW w \in Clients, NEW i \in DOMAIN opChan', NEW j \in DOMAIN opChan',
               opChan'[i] = Op("networks", w), opChan'[j] = Op("networks", w)
        PROVE  i = j
    <3>1. i + 1 = j + 1
      BY <2>2, <2>7 DEF WInv
    <3> QED  BY <2>1, <3>1
  <2> QED  BY <2>1, <2>4, <2>5, <2>6, <2>7 DEF WInv
<1>5. ASSUME UNCHANGED <<web, opChan>>, \A w \in Clients : InHand(w)' <=> InHand(w)
      PROVE  WInv'
  BY <1>5 DEF WInv, InChan
<1>6. ASSUME NEW c \in Containers, HandleJoin(c) \/ HandleLeave(c) PROVE WInv'
  BY <1>5, <1>6 DEF HandleJoin, HandleLeave, InHand, Op
<1>7. CASE Notify
  BY <1>5, <1>7 DEF Notify, InHand, Op, Idle
<1>8. CASE Poll
  BY <1>5, <1>8, StatusAssumption DEF Poll, InHand, Op, Idle, NoIP
<1>9. ASSUME NEW v \in Clients, HandleNetworks(v) PROVE WInv'
  BY <1>5, <1>9 DEF HandleNetworks, InHand, Op
<1>10. CASE ReadDone
  <2>1. rm.op = "read" /\ rm' = Idle /\ opChan' = opChan
    BY <1>10 DEF ReadDone
  <2>2. PICK v \in Clients \cup {NoIP} : rm = Op("read", v)
    BY <1>0, <2>1 DEF RmOps, ChanOps, Op
  <2>3. \A w \in Clients : (InHand(w) <=> w = v) /\ ~ InHand(w)'
    BY <2>1, <2>2 DEF InHand, Op, Idle
  <2>4. \A w \in Clients : web'[w] = IF w = v THEN "answered" ELSE web[w]
    BY <1>0, <1>10, <2>2 DEF ReadDone, Op
  <2>5. \A w \in Clients : InChan(w)' <=> InChan(w)
    BY <2>1 DEF InChan
  <2> QED  BY <1>0, <2>1, <2>3, <2>4, <2>5 DEF WInv
<1>11. [Next]_vars =>
         \/ UNCHANGED <<web, rm, opChan>>
         \/ \E c \in Containers, op \in {"join", "leave"} : Send(op, c) /\ UNCHANGED <<web, rm>>
         \/ \E w \in Clients : getWebResponse(w) \/ HandleNetworks(w)
         \/ \E c \in Containers : HandleJoin(c) \/ HandleLeave(c)
         \/ RmReceive \/ Notify \/ Poll \/ ReadDone
  BY DEF Next, ResourceManager, Join, Leave, Script, Touch, Truncate, Write, Bound, ReadFile,
         notifier, vars
<1> QED  BY <1>1, <1>2, <1>3, <1>4, <1>6, <1>7, <1>8, <1>9, <1>10, <1>11

-----------------------------------------------------------------------------
(* The initial states satisfy all three.                                   *)
LEMMA InitInv == Init => TInv /\ AInv /\ WInv
<1> SUFFICES ASSUME Init PROVE TInv /\ AInv /\ WInv
  OBVIOUS
<1>1. TypeOK
  <2>1. /\ 0 \in 0..ChanSize
        /\ rm.op = "idle"
    BY StatusAssumption DEF Init, Idle, Op
  <2>2. /\ script \in [Containers -> [at : Steps, ip : Addresses \cup {NoIP}]]
        /\ web \in [Clients -> {"waiting", "answered"}]
    BY DEF Init, NotRunning, Steps
  <2> QED  BY <2>1, <2>2 DEF Init, TypeOK
<1>2. opChan \in Seq(ChanOps) /\ rm \in RmOps
  BY DEF Init, RmOps, Idle, Op
<1>3. AInv
  BY DEF Init, AInv, NotRunning
<1>4. WInv
  BY DEF Init, WInv, InChan, InHand, Idle, Op
<1> QED  BY <1>1, <1>2, <1>3, <1>4 DEF TInv

(* The three invariants hold in every state that Status can be in.         *)
THEOREM Inductive == Spec => [](TInv /\ AInv /\ WInv)
BY InitInv, TypeStep, AddressStep, RequestStep, PTL DEF Spec

(* Every variable keeps its type, and notifyMsgChan its capacity, whatever *)
(* the goroutines, scripts and clients do.                                 *)
THEOREM TypeCorrect == Spec => []TypeOK
<1>1. TInv => TypeOK
  BY DEF TInv
<1> QED  BY <1>1, Inductive, PTL

(* reconcileDhcpIp never shows a container with an address that it was not *)
(* given, for any number of containers and any pools of addresses.         *)
THEOREM AddressCorrect == Spec => []StatusAddress
<1>1. TInv /\ AInv => StatusAddress
  BY DEF TInv, TypeOK, AInv, StatusAddress
<1> QED  BY <1>1, Inductive, PTL

(* getWebResponse's operation is never lost on its way through the channel *)
(* and resourceManager, and never answered twice.                          *)
THEOREM RequestsCorrect == Spec => []RequestsKept
<1>1. WInv => RequestsKept
  BY DEF WInv, RequestsKept, Queued, InChan, InHand
<1> QED  BY <1>1, Inductive, PTL
=============================================================================
