# A TLA+ model of dovesnap

dovesnap is a Docker network plugin: Docker's calls about networks and endpoints
become Open vSwitch (OVS) bridges and ports, entries in FAUCET's configuration
and iptables rules. This directory models what is hard to test in it, above all
the order in which things happen and what a failure or a restart leaves, checks it
with TLC and proves its safety properties with TLAPS. Paths below are relative to the
repository; line numbers of `driver.go` refer to `ovs/driver.go`.

## The system

| Part | Code | State | Operations |
|---|---|---|---|
| Plugin calls | `driver.go` 233-493 | one goroutine per call; Docker's view of networks and endpoints | CreateNetwork, DeleteNetwork, CreateEndpoint, Join, Leave, DeleteEndpoint |
| Operation queue | `driver.go` 85-151 | `dovesnapOpChan` (64 messages), `createDeleteNetworkWG`, reply channels | send, receive, Add, Done, Wait |
| resourceManager | `driver.go` 495-900, 1031-1082 | `networks`, `stackMirrorConfigs`, `OFPorts`, `AllPortDesc` | create, delete, reserveport, join, leave, networks, quit, the two recreate operations |
| OVS polling | `driver.go` 929-995 | `AllPortDesc`, `ExternalPorts` | reconcileOvs |
| Start-up and recovery | `driver.go` 1115-1156, 1195-1274 | bridges left by the last process | restoreNetworks |
| Bridges and ports | `ovs/ovs_bridge.go`, `ovs/ovs_port.go` | bridges, ports and their OF numbers | create, delete, lowest free number, add port, patch ports |
| FAUCET client | `ovs/ovs_faucetconfrpc.go` | DPs and interfaces (held by faucetconfrpc) | merge, delete interface, delete DP, ACLs, mirrors |
| Stacking and mirroring | `driver.go` 153-231 | bridges shared by all networks | patch ports at network creation and deletion |
| DHCP | `driver.go` 902-927, `udhcpclog.sh` | address files, `lastDhcpMtime` | reconcileDhcpIp |
| Notifier, status page | `driver.go` 1096-1113, 1158-1185 | `notifyMsgChan`, the reply of a status request | encode and write |
| iptables, Docker client, options, utilities | `ovs/ovs_iptables.go`, `ovs_docker.go`, `ovs_config.go`, `utils.go` | rules, none, none, links | helpers of the handlers |

How they interact: a plugin call does little itself, queues an operation and (except
DeleteNetwork and Leave, which wait for a reply) returns before the operation is
carried out. resourceManager carries operations out one at a time, in channel order,
and polls OVS after three idle seconds. Join waits on the WaitGroup that counts
creates and deletes under way, and then reads `d.networks` from its own goroutine.
Handlers panic on any failure, and a deferred function recovers, so each has many
ways to stop half way. Meanwhile an administrator may use `ovs-vsctl`, and the process
may die and be started again (`restart: always`) with its maps empty.

What makes each part correct, in short: the WaitGroup is exact and Join sees its
network; handlers find what earlier ones left; calls return; a delete or a leave that
is answered left nothing behind; recorded port numbers are OVS's; FAUCET's interface
on a container's port stays the container's; external ports are configured; networks
on a shared bridge do not disturb each other; the options of a network are honoured, at
its creation and after a restart; the status page catches up; a restart ends with every
network served. `PROJECT.json` lists the hazards line by line.

## Modules

**`Driver`** is the concurrency core. `netCall` and `epCall` say where Docker's calls
for a network or endpoint are; a call is split at its sends, waits and reads, since
other goroutines run there (`Join`, `JoinWake`, `JoinRead`, `JoinSend`). `opChan`, `wg`,
`networks`, `OFPorts` and `replied` are the code's; `cur` is what resourceManager is
executing. Each handler is one action for the case in which all goes well and one for
each way it can end otherwise (`HandleDeleteFail`: a panic, no reply;
`HandleDeleteFatal`: `log.Fatalf`; `HandleDeleteUnknown`: the network is not in the
map). A handler runs in one step because no other goroutine touches what it changes,
with one exception that has its own action: Join's read of `d.networks`
(`JoinReadRace`). `Done` wakes waiters as Go's WaitGroup does, and a woken waiter
panics if the WaitGroup is in use again.

**`NetworkService`** is what Driver promises: networks provisioned and removed once,
endpoints reserved, attached and detached in that order on a provisioned network.
Driver implements it (`ImplementsService`) under the mapping `up <- networks`,
`removed <-` the networks whose delete was answered, `att <- OFPorts` (`gone` once the
leave was answered), `broken <- failed`: a handler that panics disturbs no network and
no endpoint but its own. What follows from these steps alone (`Promise`) Driver then
keeps as well (`ServiceKept`).

**`Bridge`** looks into one network: the OF numbers of the ports on its bridge
(`ofport`), the maps dovesnap keeps (`OFPorts`, `Containers`, `ExternalPorts`,
`AllPortDesc`), FAUCET's interfaces by port number (`faucet`) and DP (`dp`), veth pairs,
port mappings and netns links. Reserving a port is two steps, the scrape and the
add-port, because an administrator's `ovs-vsctl` may come in between; `races` counts
when that happens. `HandleJoinFail` and `HandleLeaveFail` stop after each group of
effects. `Poll` is reconcileOvs, which leaves alone what is in add_ports, on the number
of the mirror port (`LbPort`) or named like a patch port (`PatchNames`). A restart
empties the maps and loses queued operations; on a bridge with an address
(`RestartGateway`) the create handler runs again, a flat bridge (`RestartFlat`) is
deleted and made again. `CutShort` covers a process that dies in a poll; a handler cut
short by the end of the process is its Fail action followed by a restart. The order of
one endpoint's operations, which Bridge takes for granted, is what Driver's
`HandlersInOrder` shows.

**`Restore`** is start-up: the main goroutine queues `create`, `recreatebadbridge` or
`recreatedownbridge` for each network, by the state of its bridge, and waits;
resourceManager works at the same time; the process may die and is started again. With
a shared bridge each network has a patch port with an end on either bridge (`patch`);
a failure may leave one end only, which the next start has to cope with. The recreate
operations run outside any recover, so that every failure in them ends the process.

**`SharedBridge`** has the mirror or stacking bridge that all networks share (`using`)
and what each network owns there. CreateNetwork is split where its goroutine can be
overtaken by another's: the bridge is made (`InitBridge`), a free number on the shared
bridge is scraped (`ScrapePatch`), the patch port is added under the number OVS gives it
(`AddPatch`, or `AddPatchLosesEnd`, since the errors of add-port are ignored), the number
is read back and the mirror flow written (`FinishInit`). resourceManager then writes the
two ends of the stack link to FAUCET (`link`, `peer`). `rules` counts MASQUERADE rules. A
CreateNetwork that fails half way leaves an `orphan`. The process may die at any point
(`Die`); `Restart` makes the shared bridge if it is not there and restores, recreating
bad and down bridges with new numbers. It serves calls when all are restored. (In the
code the first Done of a recreatedownbridge can let main go early, so that a CreateNetwork
could overlap a recreation; Restore has that step, SharedBridge does not.)

**`NetworkConfig`** follows the options of one network: a request is checked
(`Valid`) and read (`FromRequest`), the ports of `add_ports` and `add_copro_ports` are
added one by one, OVS giving the number asked for or another (`AddPort`), the create
handler computes FAUCET's interfaces (`Configured`) or panics (`Panics`), and
after a restart the options are read from Docker's record (`FromResource`). `addr` is the
address initBridge gives the bridge of a nat or routed network: it must be an IPv4 address
with a mask, or the process ends (`InitBridgeFatal`). At creation it is the gateway that
Docker hands over, IPv4 before IPv6, which has to split into address and mask; after a
restart it is the gateway of the first pool Docker keeps (`kept`) with the mask of that
pool's subnet. Options are records of small values; a list of ACLs is a sequence of parts
for this network, another or all. Commands succeed here: their failures are in Driver,
Restore and SharedBridge.

**`Status`** is how addresses obtained by DHCP reach the status page: the udhcpc script
of each container touches `udhcpc.updated`, truncates and writes the address file, in
steps of its own; resourceManager, on a poll or a status request, compares the time of
`udhcpc.updated` with the last it saw and reads the files one by one. The notifier and
its bounded channel are here too, because a full channel holds up resourceManager.

`DriverProofs`, `DriverOrderProofs`, `BridgeProofs`, `SharedBridgeProofs`,
`RestoreProofs`, `NetworkConfigProofs`, `StatusProofs` and `LeastNumberProofs` hold
theorems; the modules whose names begin with `MC` the small instances. A definition
whose comment begins with "Variant" is a plausible wrong version of the one after it,
used to see that a property notices; no specification uses it.

## Runs

| Run | Instance | States | Checks |
|---|---|---|---|
| `driver_faults` | 2 networks, 1 endpoint, channel of 2, 2 failures | 54,808 | TypeOK, ServiceKept, WaitGroupExact, JoinSeesNetwork, HandlersInOrder, DeleteReplyIsClean, WaitersHaveWork, ImplementsService, LeaveReturns, JoinReturns, DeleteReturns |
| `bridge_safety` | flat bridge, 2 endpoints, 2 external ports, one of them in add_ports, 3 numbers, one of them the mirror port's, 1 failure, 2 commands, 1 restart | 1,516,563 | TypeOK, RecordedPortIsActual, ContainerHasInterface, LeaveIsClean, NoOrphanInterface |
| `bridge_poll` | nat/routed bridge, 1 endpoint, 2 external ports, one of them named like a patch port, 3 numbers, one of them the mirror port's, 1 failure, 4 commands, 1 restart | 58,608 | PollConfigures |
| `restore` | 3 networks, one flat, bridges in any state, mirror bridge, 2 failures, 1 race | 205,634 | TypeOK, ServesRestored, BadBridgesSurvived, HealthyKept, RestartsEnd, RestoreConverges |
| `shared` | 3 networks, one with NAT, mirror or stacking bridge, 5 numbers, 1 failure, 1 death | 718,922 | TypeOK, LinksAgree, MirrorTagged, DeleteIsClean |
| `config` | 2 interfaces in add_ports, 1 coprocessor port, 5 numbers, 1 restart, every combination of the options and pools listed in `MCNetworkConfig` | 700,499 | TypeOK, AcceptedIsConfigured, ExternalPortsConfigured, AclOnItsPort, AddressKept, RestoreIsIdempotent |
| `status` | 2 containers that compete for an address, 2 web clients, notify channel of 1, each container joins at most twice | 216,303 | TypeOK, StatusAddress, RequestsKept, StatusCatchesUp, WebAnswered |

`driver_faults` asks the safety, refinement and liveness questions of one instance. The
safety questions and the refinement were also checked once with two endpoints on one
network, a channel of 2 and one failure (616,577 states), and those of `bridge_safety` on
a nat/routed bridge with one external port (162,362); the theorems below cover every
instance.

Five further runs check a statement the repository makes and find a behaviour of the
code that contradicts it:

| Run | Statement | What happens |
|---|---|---|
| `driver_quit` | "Use waitgroups to synchronize create/delete operations, including on exit." (`CHANGELOG.md:137`) | Quit only queues its message. A create that called Add and sends after it is never handled. |
| `bridge_race` | "fix race condition that could lead to multiple containers with same OFPort" (`CHANGELOG.md:239`) | addInternalPort reports the number it requested. If it is taken between scrape and add-port and freed again, the next container is recorded with the same number. |
| `bridge_restart` | "Ability to restart dovesnap and have it recovering existing networks" (`CHANGELOG.md:261`) | A flat bridge has no address, is taken for a bad one, and is made again without the ports of running containers. |
| `bridge_leak` | "restart/shutdown handling improvements, and network deletes now blocking to avoid leaked veths or other resources." (`CHANGELOG.md:148`) | OFPorts is empty after a restart; the leave of a container that joined before it panics first thing, and its veth stays on the bridge. |
| `restore_down` | "We need to recover from two different scenarios where OVS may be in a bad state." (`driver.go:1139`) | recreatedownbridge calls Done in both handlers for one Add; the counter goes negative and the process dies (restarts then converge: `RestartsEnd`, `RestoreConverges`). |

**Bounds.** Two endpoints, or a container and an external port, are what it takes to
dispute a port number; three numbers leave a gap below and a choice above. Three
networks on a shared bridge let two creations overlap while a third network's number is
freed. A channel of one or two is full in many states, which the 64 of the code seldom
is. One failure, restart or death can fall anywhere; two failures in `restore` let a
recovery fail twice. In `config` five numbers leave OVS another to give, and none, one
or two preallocated ports are what the overlap with numbers in use depends on. Two web
clients in `status` let requests queue behind each other. `MaxPort`, `MaxFaults`,
`MaxChanges`, `MaxRestarts`, `MaxRaces`, `MaxDeaths`, `MaxJoins` are bounds of the
model, not of the code; with no number free a reservation waits. The symmetry of
`shared` exchanges two networks that differ in nothing. Deadlock is not checked: the
process may exit or crash, networks and endpoints come to an end.

**Fairness.** Weak fairness of resourceManager, of the notifier and of every call that
has begun: Go runs every runnable goroutine. None for Docker's decision to make a call,
or for failures. In `bridge_poll` weak fairness of Poll stands for the three idle
seconds: the timer starts anew with every message, so that the claim is for a channel
that falls idle again and again. Poll does not come between the two halves of a
reservation, so that weak fairness of the second half is needed as well. In `restore`,
fairness of Restart is the compose files' `restart: always`; failures and races are
bounded, so convergence is claimed only once they stop. RestoreConverges starts counting
at any start after which nothing fails, whatever the deaths before it left. In `status`
a script that was started goes on and a running udhcpc renews its lease, which is what
leases are for; StatusCatchesUp rests on the latter, because a poll between the touch
and the write misses an address until the next renewal. Nothing in the code keeps a read
from falling between the truncation and the write of a file each time, which leaves no
address shown; the property names that behaviour, and in it claims only that an earlier
address does not stay.

**Conditions in the properties.** RecordedPortIsActual and ContainerHasInterface assume
that nobody took a requested number (`races = 0`), which is what `bridge_race` is about.
LeaveIsClean and NoOrphanInterface assume no failure and no restart (`Undisturbed`),
which is what the code can promise; NoOrphanInterface leaves out add_ports, whose
removal before the first poll is not noticed. ServesRestored excepts a
recreatedownbridge, which `restore_down` is about, and so does BadBridgesSurvived, which
says of the rest what the comment at `driver.go` 1139 says of both scenarios.
RestartsEnd claims nothing once a bridge without an address lacks an end of its patch
port (`Torn`): deleting that port panics at every start. It counts a network whose
create handler failed as seen to; RestoreConverges asks that every network is served, of
a start after which nothing fails and which finds no torn bridge and none with an
address that lacks an end the handler needs (`Unserved`). PollConfigures is about ports
that the last poll did not see under their number; one that it saw is not looked at
again while the dumps are equal. DeleteReturns excepts a network whose own create or
delete handler failed: the code then sends no reply and the call waits for ever.
DeleteIsClean allows one NAT rule for each time the bridge was recreated.
AcceptedIsConfigured names what CreateNetwork does not check: VLANs of add_ports, a
bridge name of the network's own where the name matters (the gateway's port, or
interfaces that are on the old bridge at a restart), interfaces beside two preallocated
ports or more, and a network that needs a gateway when Docker keeps no IPv4 gateway with
its first pool. All else that could stop initBridge, the handler or a restart, a
datapath ID that cannot be read for one, it does check. ExternalPortsConfigured excepts
numbers in the preallocated range and, after a restart, coprocessor ports.
RestoreIsIdempotent excepts a network whose coprocessor ports have ACLs, which may have
replaced another port's and are not sent again. AclOnItsPort assumes that OVS gave the
numbers asked for, since ACLs are kept under those.

## Proofs

For all values of the constants allowed by the modules' assumptions:

| Theorem | States |
|---|---|
| `DriverProofs!TypeCorrect` | []TypeOK: among others, the WaitGroup is never negative |
| `DriverProofs!WaitGroupCorrect` | []WaitGroupExact |
| `DriverProofs!JoinCorrect` | []JoinSeesNetwork |
| `DriverProofs!WaitersCorrect` | []WaitersHaveWork: no wake-up and no reply is lost |
| `DriverOrderProofs!HandlersCorrect` | []HandlersInOrder |
| `DriverOrderProofs!DeleteReplyCorrect` | []DeleteReplyIsClean |
| `DriverOrderProofs!Refinement` | ImplementsService |
| `DriverOrderProofs!ServiceCorrect` | []ServiceKept |
| `BridgeProofs!TypeCorrect` | []TypeOK |
| `BridgeProofs!RecordedCorrect` | []RecordedPortIsActual |
| `BridgeProofs!InterfaceCorrect` | []ContainerHasInterface |
| `BridgeProofs!LeaveCorrect` | []LeaveIsClean |
| `BridgeProofs!OrphanCorrect` | []NoOrphanInterface |
| `BridgeProofs!ApartUnlessRaced` | without failures and races, []ContainersApart before a restart, and after it but for the number 0 |
| `BridgeProofs!LeakNeedsRestart` | [](restarts = 0 => NoLeakedVeths) |
| `SharedBridgeProofs!TypeCorrect` | []TypeOK |
| `SharedBridgeProofs!LinksCorrect` | []LinksAgree |
| `SharedBridgeProofs!MirrorCorrect` | []MirrorTagged |
| `SharedBridgeProofs!DeleteCorrect` | []DeleteIsClean |
| `RestoreProofs!TypeCorrect` | []TypeOK |
| `RestoreProofs!ServesCorrect` | []ServesRestored |
| `RestoreProofs!SurvivedCorrect` | []BadBridgesSurvived |
| `RestoreProofs!HealthyCorrect` | HealthyKept, an action property |
| `NetworkConfigProofs!TypeCorrect` | []TypeOK |
| `NetworkConfigProofs!AddressCorrect` | []AddressKept |
| `NetworkConfigProofs!IdempotentCorrect` | []RestoreIsIdempotent |
| `NetworkConfigProofs!AcceptedCorrect` | []AcceptedIsConfigured |
| `NetworkConfigProofs!ExternalCorrect` | []ExternalPortsConfigured |
| `NetworkConfigProofs!AclCorrect` | []AclOnItsPort |
| `StatusProofs!TypeCorrect` | []TypeOK |
| `StatusProofs!AddressCorrect` | []StatusAddress |
| `StatusProofs!RequestsCorrect` | []RequestsKept |

So every invariant that a passing run checks is a theorem. Three theorems bound what the
contradicting runs show: two containers share a number only after a race or a failure
(or the number 0, when both were reserved before a restart and joined after it), a veth
is leaked only after a restart or a failure, and recovery ends the process only by a
failure, a race or a bridge found down.

*Driver.* None of the first three is inductive. That Done keeps `wg` a natural number
needs the operation being handled to be a ticket of its own, so IInv adds where the
calls of a network are when its messages are queued (`NetPhase`) and that no message is
there twice (`UniqueNetMsgs`). JoinSeesNetwork needs that an endpoint past Wait has a
network that was registered, whose create is finished and which is not being deleted
(`EndpointPhase`). Each action is a step of the proof that IInv is preserved.
WaitersHaveWork adds where the reply or the message of a waiting call is (`Awaited`); that
a held back Join has a Done to come follows from WaitGroupExact, since Done wakes all
waiters when the counter reaches zero. It is the safety half of LeaveReturns, JoinReturns
and DeleteReturns.

*Driver, order and refinement.* HandlersInOrder is about the message at hand, but rests
on the whole queue: OInv says that no message is queued before one that must precede it
(`Order`, `Precedes`), and what each stage of a call has sent and had handled
(`EpStage`, `NetStage`). Every send keeps `Order` because the sender's stage shows that
what must follow has not been sent; every handler finds its state because what precedes
it is neither queued nor at hand. The refinement then goes handler by handler: each
is one step of NetworkService, all else leaves its variables alone. ServiceKept is shown
of NetworkService's steps only and carried over by the refinement.

*Bridge.* IInv adds that no two ports share a number (`Distinct`), that an endpoint
without a reservation has no port or entry (`Unreserved`), that the number of a
reservation under way is free as long as `races = 0` (`ReserveOk`), and that
Containers lists only endpoints whose join was handled (`Unjoined`). The heart of the
argument is that reconcileOvs only removes a number that is gone, and only when the last
poll saw an external port there, so that it never touches a container's number; and that
a leave deletes the interface on its own number, which by `Distinct` is no other's. For
LeaveIsClean and NoOrphanInterface, CInv adds what the handlers have built for an
endpoint at each stage (`Staged`) and that every interface of an administrator's
port in FAUCET is on a number where the last poll saw an external port or a container's
port is now (`Seen`). The last two theorems rest on `Tracked`: Containers and OFPorts agree
on who joined, without a failure or a race a container with a recorded number can be left
properly (RecordedPortIsActual says that its port is there), and without a failure or a
restart every endpoint past its reservation has a recorded number.

*SharedBridge.* IInv adds that no two networks have one number on the shared bridge
(`Apart`), that from FinishInit on the flow of a network's number is the network's
(`Tagged`), and that NAT rules are counted by creation and recreation (`RulesCounted`).
Although the scrape and the add-port of different goroutines interleave, `Apart` holds
because OVS gives no number twice, and the rest because the code reads the number back.

*Restore.* IInv adds that a network is still to come, pending, or seen to (`Seen`), and
that without a recreatedownbridge `wg` is the number of those pending (`Counted`). That
the pending set changes by one with each send, receive and Done is counted with
FiniteSetTheorems. BInv adds that every queued operation, and the one at hand, still
meets a bridge it is for (`Chosen`): a bridge is changed by its own network's operation
only, and no network has two. HealthyKept follows from it step by step. BadBridgesSurvived
needs that without failures a patch port is incomplete only while its bridge is being
made again (`Patched`), and that the operation at hand is counted by `wg`.

*NetworkConfig.* IInv says that the network's state is what was read from the accepted
request or from Docker's record, that the bridge is there, and that every interface
createBridge is done with has a number, no two the same. What the create handler computes
from these is then shown once per property, over its single step. The argument for
AcceptedIsConfigured is that of the reasons for which initBridge, the handler or a restart
stop CreateNetwork has excluded all but the named ones; that an overlap takes two
preallocated ports is because the first has the lowest free number. AddressKept follows
from what is assumed of Docker's record, at the two steps that set `addr`.
RestoreIsIdempotent rests on the two ways of reading the options agreeing wherever the
handler looks (`ReadAlike`), and on merging the same interfaces twice being the same as
merging them once, although the second merge leaves out the coprocessor ports and starts
from what the first one left (`MergedAgain`, `AclsAgain`).

*Status.* AInv follows an address from the script into the file and from the file into the
map: at each point it is one the container was given. WInv says that a client's request
is in the channel at most once, and there or at hand only while the client waits.

`LeastNumberProofs` has the fact that a lowest free number exists, used by Bridge,
SharedBridge and NetworkConfig.

**Assumptions.** Besides finiteness, bounds and disjoint name spaces: the requests of
NetworkConfig have an integer for the number of preallocated ports (-1 when it is absent),
and a gateway that Docker keeps with the first pool is the one it handed over, with the
mask of the pool's subnet (`RequestAssumption`); in Status "none" is the name of no client.

**Only model-checked.** The liveness properties (LeaveReturns, JoinReturns,
DeleteReturns, PollConfigures, RestartsEnd, RestoreConverges, StatusCatchesUp,
WebAnswered), because the prover does not handle fairness; and the properties of the
contradicting runs, which do not hold.

## Not modelled

Command wrappers and logging are pure I/O. The scripts beside the program have no
state of their own. faucetconfrpc, OVS, iptables, udhcpc and Docker are outside the
repository and modelled from their use; that `DeleteEmptyDp` drops a DP with its last
interface is taken from the request's name. Of the rest of the program:

- the loopback pair of stack mirroring, whose ports follow the same code as the patch
  ports of SharedBridge, and the links between hosts, whose other end belongs to no
  dovesnap process modelled here;
- the notifier's unsynchronised reads of the maps in a message: the Go runtime may stop
  the process, as for Join's read of `d.networks` (`JoinReadRace`), and Restore applies;
- adding and removing mirrors in FAUCET, beyond their being able to fail;
- options that are passed on unchanged (MTU, MAC address, controller, userspace
  datapath), the environment of stacking, base conversions for names. Names of bridges
  are taken to be distinct, although they keep only the first characters of an ID;
- the `getnetwork` operation, which no call sends; HTTP, the address filter, TLS.

Behaviours the modules contain and no run asks about, because the repository says
nothing of them:

- Join's unsynchronised read of `d.networks` may end the process (`JoinReadRace`), and so
  may restoreNetworks' write of `stackMirrorConfigs` beside the create handler's
  (`RestoreRace`, which `RestartsEnd` and `RestoreConverges` tolerate);
- on a flat network the leave of the last container drops the DP and the next join's
  minimal merge makes it again without a `dp_id` (`dp = "noid"`), if faucetconfrpc does
  what the request's name says;
- equal port dumps hide a port that went and came back while a container used its
  number, and ExternalPorts keeps the entry of a port replaced under its number;
- a shared bridge whose making was cut short is taken to be complete at the next start
  (`shared = "bare"` in a serving process);
- a CreateNetwork that fails in InitBridge leaves its bridge, NAT rule and patch port
  (`orphan`);
- a patch port with one end on a bridge without an address stops the process at every
  start (`Torn`);
- a nat or routed network without an IPv4 gateway ends the process when it is created, and
  one whose gateway Docker keeps with another pool than the first, at every start
  (`InitBridgeFatal`).

The comment at `driver.go` 869 says that DeleteEndpoint comes before Leave. Driver has
libnetwork's order, Leave first. DeleteEndpoint itself only logs, but Docker deletes a
network only when its endpoints are gone, so that the order matters to HandlersInOrder.

One more is outside the modules: the mirror flow sends to port 1 (`driver.go` 255), which
with `MIRROR_BRIDGE_IN` need not be the output port, because createBridge adds the two
ports in the order of a Go map.
