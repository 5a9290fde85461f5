------------------------------- MODULE Status -------------------------------
(***************************************************************************)
(* What dovesnap reports: the status web server and the notifications      *)
(* (src/ovs/driver.go: getWebResponse, mustHandleNetworks, notifier), and  *)
(* the addresses of containers on a DHCP network (reconcileDhcpIp, and the *)
(* udhcpc parts of the join and leave handlers).                           *)
(*                                                                         *)
(* For every container a udhcpc process runs; whenever it gets or renews a *)
(* lease, its script touches udhcpc.updated and then writes the address to *)
(* the container's file. resourceManager compares the time of the first    *)
(* with the last it saw, and reads the files when it has changed.          *)
(***************************************************************************)
EXTENDS Integers, Sequences, FiniteSets

CONSTANTS
    Containers,
    Pool,         \* the addresses a container may be leased
    Clients,      \* clients of the status web server
    ChanSize,     \* capacity of both channels (64 in the code)
    MaxJoins      \* bound on joins

ASSUME StatusAssumption ==
    /\ ChanSize \in Nat \ {0}
    /\ MaxJoins \in Nat
    /\ "none" \notin Clients       \* it stands for nobody

VARIABLES
    joined,     \* the containers in DynamicNetworkStates.Containers
    hostIP,     \* their HostIP
    lease,      \* the address each container's udhcpc holds
    script,     \* where each container's udhcpclog.sh is, and its address
    file,       \* what the container's file holds
    updated,    \* udhcpc.updated is newer than d.lastDhcpMtime
    opChan,     \* d.dovesnapOpChan
    rm,         \* what resourceManager is doing
    toRead,     \* containers reconcileDhcpIp has still to read
    notes,      \* messages in notifyMsgChan
    web,        \* whether a web client waits for an answer
    given,      \* the addresses a container has had (history)
    joins

vars == <<joined, hostIP, lease, script, file, updated, opChan, rm, toRead, notes,
          web, given, joins>>

Addresses == UNION {Pool[c] : c \in Containers}
NoIP == "none"
Missing == "missing"
Empty == "empty"

Op(op, who) == [op |-> op, who |-> who]
Idle == Op("idle", NoIP)

(* udhcpclog.sh: not running; about to touch, to open the file, to write.  *)
Steps == {"off", "touch", "open", "write"}
NotRunning == [at |-> "off", ip |-> NoIP]

dhcp == <<lease, script, file, given>>

Init ==
    /\ joined = {}
    /\ hostIP = [c \in Containers |-> NoIP]
    /\ lease = [c \in Containers |-> NoIP]
    /\ script = [c \in Containers |-> NotRunning]
    /\ file = [c \in Containers |-> Missing]
    /\ updated = FALSE
    /\ opChan = <<>>
    /\ rm = Idle
    /\ toRead = {}
    /\ notes = 0
    /\ web = [w \in Clients |-> "answered"]
    /\ given = [c \in Containers |-> {}]
    /\ joins = 0

-----------------------------------------------------------------------------
(* Docker's calls and web requests: each queues an operation, and waits    *)
(* while the channel is full.                                              *)

Send(op, who) == Len(opChan) < ChanSize /\ opChan' = Append(opChan, Op(op, who))

Queued(op, who) == \/ \E i \in DOMAIN opChan : opChan[i] = Op(op, who)
                   \/ rm = Op(op, who)

Join(c) ==
    /\ c \notin joined
    /\ ~ Queued("join", c)
    /\ joins < MaxJoins
    /\ joins' = joins + 1
    /\ Send("join", c)
    /\ UNCHANGED <<joined, hostIP, dhcp, updated, rm, toRead, notes, web>>

Leave(c) ==
    /\ c \in joined
    /\ ~ Queued("leave", c)
    /\ Send("leave", c)
    /\ UNCHANGED <<joined, hostIP, dhcp, updated, rm, toRead, notes, web, joins>>

(* Variant: the request is dropped when the channel is full.               *)
getWebResponseDrops(w) ==
    /\ web[w] # "waiting"
    /\ web' = [web EXCEPT ![w] = "waiting"]
    /\ IF Len(opChan) < ChanSize THEN Send("networks", w) ELSE UNCHANGED opChan
    /\ UNCHANGED <<joined, hostIP, dhcp, updated, rm, toRead, notes, joins>>

getWebResponse(w) ==
    /\ web[w] # "waiting"
    /\ web' = [web EXCEPT ![w] = "waiting"]
    /\ Send("networks", w)
    /\ UNCHANGED <<joined, hostIP, dhcp, updated, rm, toRead, notes, joins>>

-----------------------------------------------------------------------------
(* udhcpc and its script (udhcpclog.sh).                                   *)

(* A lease is obtained or renewed, the address being free or its own.      *)
Bound(c, a) ==
    /\ c \in joined
    /\ script[c] = NotRunning
    /\ \A o \in Containers \ {c} : lease[o] # a
    /\ lease' = [lease EXCEPT ![c] = a]
    /\ script' = [script EXCEPT ![c] = [at |-> "touch", ip |-> a]]
    /\ given' = [given EXCEPT ![c] = @ \cup {a}]
    /\ UNCHANGED <<joined, hostIP, file, updated, opChan, rm, toRead, notes, web, joins>>

Renew(c) == lease[c] # NoIP /\ Bound(c, lease[c])

Touch(c) ==
    /\ script[c].at = "touch"
    /\ script' = [script EXCEPT ![c].at = "open"]
    /\ updated' = TRUE
    /\ UNCHANGED <<joined, hostIP, lease, file, given, opChan, rm, toRead, notes, web,
                   joins>>

(* The shell opens the file, which truncates it, and echo writes to it.    *)
Truncate(c) ==
    /\ script[c].at = "open"
    /\ script' = [script EXCEPT ![c].at = "write"]
    /\ file' = [file EXCEPT ![c] = Empty]
    /\ UNCHANGED <<joined, hostIP, lease, updated, given, opChan, rm, toRead, notes, web,
                   joins>>

Write(c) ==
    /\ script[c].at = "write"
    /\ script' = [script EXCEPT ![c] = NotRunning]
    /\ file' = [file EXCEPT ![c] = script[c].ip]
    /\ UNCHANGED <<joined, hostIP, lease, updated, given, opChan, rm, toRead, notes, web,
                   joins>>

-----------------------------------------------------------------------------
(* resourceManager.                                                        *)

RmReceive ==
    /\ rm = Idle
    /\ opChan # <<>>
    /\ rm' = Head(opChan)
    /\ opChan' = Tail(opChan)
    /\ UNCHANGED <<joined, hostIP, dhcp, updated, toRead, notes, web, joins>>

(* udhcpc is started before the container is recorded; Docker has no       *)
(* address for it.                                                         *)
HandleJoin(c) ==
    /\ rm = Op("join", c)
    /\ rm' = Op("notify", NoIP)
    /\ joined' = joined \cup {c}
    /\ hostIP' = [hostIP EXCEPT ![c] = NoIP]
    /\ UNCHANGED <<dhcp, updated, opChan, toRead, notes, web, joins>>

(* udhcpc is killed; a script of it that is running goes on, and the file  *)
(* stays.                                                                  *)
HandleLeave(c) ==
    /\ rm = Op("leave", c)
    /\ rm' = Op("notify", NoIP)
    /\ joined' = joined \ {c}
    /\ hostIP' = [hostIP EXCEPT ![c] = NoIP]
    /\ lease' = [lease EXCEPT ![c] = NoIP]
    /\ UNCHANGED <<script, file, given, updated, opChan, toRead, notes, web, joins>>

(* Variant: the capacity is not kept to.                                   *)
NotifyUnbounded ==
    /\ rm.op = "notify"
    /\ notes' = notes + 1
    /\ rm' = Idle
    /\ UNCHANGED <<joined, hostIP, dhcp, updated, opChan, toRead, web, joins>>

(* The send to notifyMsgChan blocks while the channel is full.             *)
Notify ==
    /\ rm.op = "notify"
    /\ notes < ChanSize
    /\ notes' = notes + 1
    /\ rm' = Idle
    /\ UNCHANGED <<joined, hostIP, dhcp, updated, opChan, toRead, web, joins>>

(* reconcileDhcpIp, on a "networks" operation or three seconds after the   *)
(* last one: the time of udhcpc.updated is noted, and then the files are   *)
(* read.                                                                   *)
Stat ==
    /\ updated' = FALSE
    /\ toRead' = IF updated THEN joined ELSE {}

Poll ==
    /\ rm = Idle
    /\ opChan = <<>>
    /\ updated
    /\ Stat
    /\ rm' = Op("read", NoIP)
    /\ UNCHANGED <<joined, hostIP, dhcp, opChan, notes, web, joins>>

HandleNetworks(w) ==
    /\ rm = Op("networks", w)
    /\ Stat
    /\ rm' = Op("read", w)
    /\ UNCHANGED <<joined, hostIP, dhcp, opChan, notes, web, joins>>

Address(content) == IF content \in {Missing, Empty} THEN NoIP ELSE content

(* Variant: the file of any container is read.                             *)
ReadAnyFile(c) ==
    /\ rm.op = "read"
    /\ c \in toRead
    /\ toRead' = toRead \ {c}
    /\ \E o \in Containers :
        hostIP' = IF file[o] = Missing THEN hostIP
                  ELSE [hostIP EXCEPT ![c] = Address(file[o])]
    /\ UNCHANGED <<joined, dhcp, updated, opChan, rm, notes, web, joins>>

(* Variant: a container that has an address is passed over.                *)
ReadFileOnce(c) ==
    /\ rm.op = "read"
    /\ c \in toRead
    /\ toRead' = toRead \ {c}
    /\ hostIP' = IF file[c] = Missing \/ hostIP[c] # NoIP THEN hostIP
                 ELSE [hostIP EXCEPT ![c] = Address(file[c])]
    /\ UNCHANGED <<joined, dhcp, updated, opChan, rm, notes, web, joins>>

(* A file that is missing is passed over; an empty one is no address.      *)
ReadFile(c) ==
    /\ rm.op = "read"
    /\ c \in toRead
    /\ toRead' = toRead \ {c}
    /\ hostIP' = IF file[c] = Missing THEN hostIP
                 ELSE [hostIP EXCEPT ![c] = Address(file[c])]
    /\ UNCHANGED <<joined, dhcp, updated, opChan, rm, notes, web, joins>>

(* mustHandleNetworks answers after that.                                  *)
ReadDone ==
    /\ rm.op = "read"
    /\ toRead = {}
    /\ rm' = Idle
    /\ web' = IF rm.who \in Clients THEN [web EXCEPT ![rm.who] = "answered"] ELSE web
    /\ UNCHANGED <<joined, hostIP, dhcp, updated, opChan, toRead, notes, joins>>

-----------------------------------------------------------------------------
(* Variant: the notifier leaves its last message in the channel.           *)
NotifierKeepsLast ==
    /\ notes > 1
    /\ notes' = notes - 1
    /\ UNCHANGED <<joined, hostIP, dhcp, updated, opChan, rm, toRead, web, joins>>

notifier ==
    /\ notes > 0
    /\ notes' = notes - 1
    /\ UNCHANGED <<joined, hostIP, dhcp, updated, opChan, rm, toRead, web, joins>>

ResourceManager ==
    \/ RmReceive \/ Notify \/ Poll \/ ReadDone
    \/ \E c \in Containers : HandleJoin(c) \/ HandleLeave(c) \/ ReadFile(c)
    \/ \E w \in Clients : HandleNetworks(w)

Script(c) == Touch(c) \/ Truncate(c) \/ Write(c)

Next == \/ ResourceManager \/ notifier
        \/ \E c \in Containers : Join(c) \/ Leave(c) \/ Script(c)
        \/ \E c \in Containers : \E a \in Pool[c] : Bound(c, a)
        \/ \E w \in Clients : getWebResponse(w)

Spec == Init /\ [][Next]_vars

(* The goroutines and the scripts run on, and a udhcpc renews its lease    *)
(* while it runs.                                                          *)
Fairness ==
    /\ WF_vars(ResourceManager)
    /\ WF_vars(notifier)
    /\ \A c \in Containers : WF_vars(Script(c)) /\ WF_vars(Renew(c))

FairSpec == Spec /\ Fairness

-----------------------------------------------------------------------------
(* Properties.                                                             *)

(* Every variable holds what the code can put there; notifyMsgChan keeps   *)
(* to its capacity.                                                        *)
TypeOK ==
    /\ joined \subseteq Containers
    /\ hostIP \in [Containers -> Addresses \cup {NoIP}]
    /\ lease \in [Containers -> Addresses \cup {NoIP}]
    /\ script \in [Containers -> [at : Steps, ip : Addresses \cup {NoIP}]]
    /\ file \in [Containers -> Addresses \cup {Missing, Empty}]
    /\ updated \in BOOLEAN
    /\ rm.op \in {"idle", "join", "leave", "networks", "notify", "read"}
    /\ toRead \subseteq Containers
    /\ notes \in 0..ChanSize
    /\ web \in [Clients -> {"waiting", "answered"}]

(* The status never shows for a container an address that was another's    *)
(* alone, however the scripts of several containers and the poll interleave*)
(* (one file per container; a file outlives the lease, so an address the   *)
(* container had before may show).                                         *)
StatusAddress ==
    \A c \in joined : hostIP[c] # NoIP => hostIP[c] \in given[c]

(* A client waits exactly while its request is in dovesnapOpChan or in the *)
(* hands of resourceManager: whatever joins, leaves and polls come between *)
(* no request is lost, and no client is answered that did not ask.         *)
RequestsKept ==
    \A w \in Clients :
        web[w] = "waiting" <=> Queued("networks", w) \/ rm = Op("read", w)

(* A container that stays and keeps its address is in the end never shown *)
(* with one it had before: whatever update reconcileDhcpIp misses, because *)
(* a script touches udhcpc.updated before it writes the address, the next  *)
(* renewal brings. It is shown with its address from some time on, unless  *)
(* reads keep falling between the truncation and the write of its file for *)
(* ever; after each such read no address is shown until the next renewal.  *)
StatusCatchesUp ==
    \A c \in Containers, a \in Addresses :
        <>[](c \in joined /\ lease[c] = a) =>
            /\ <>[](hostIP[c] \in {a, NoIP})
            /\ <>[](hostIP[c] = a) \/ []<><<ReadFile(c) /\ file[c] = Empty>>_vars

(* Every web request is answered: resourceManager is never held up for     *)
(* good by a full notifyMsgChan.                                           *)
WebAnswered == \A w \in Clients : web[w] = "waiting" ~> web[w] = "answered"
=============================================================================
