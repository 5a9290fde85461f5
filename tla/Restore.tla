------------------------------ MODULE Restore ------------------------------
(***************************************************************************)
(* dovesnap's start-up (NewDriver, restoreNetworks in src/ovs/driver.go):  *)
(* the main goroutine queues one operation for every network Docker knows, *)
(* chosen by the state its bridge is in, and waits on                      *)
(* createDeleteNetworkWG before the plugin serves calls; resourceManager   *)
(* carries the operations out at the same time. When the process dies it   *)
(* is started again ("restart: always" in the compose files).              *)
(*                                                                         *)
(* With mirroring or stacking every bridge also has a patch port to a      *)
(* bridge all networks share: a veth pair with one end on each bridge.     *)
(***************************************************************************)
EXTENDS Integers, Sequences, FiniteSets

CONSTANTS
    Networks,    \* Docker's networks that use dovesnap
    Flat,        \* those in flat mode
    Found,       \* the states a bridge may be found in at the first start
    Sharing,     \* the shared bridge in use: "none", "mirror" or "stack"
    MaxFaults,   \* bound on failed external calls
    MaxRaces     \* bound on data races that stop the process

ASSUME RestoreAssumption ==
    /\ IsFiniteSet(Networks)
    /\ Flat \subseteq Networks
    /\ Found \subseteq {"addressed", "bare", "down"}
    /\ Sharing \in {"none", "mirror", "stack"}
    /\ {MaxFaults, MaxRaces} \subseteq Nat

VARIABLES
    bridge,     \* up with an address, up without one, or down
    patch,      \* the ends of a network's patch port that are on their bridges
    main,       \* "restoring", "waiting", "serving"
    todo,       \* networks restoreNetworks has not come to
    opChan,     \* d.dovesnapOpChan
    cur,        \* the operation and the step of it resourceManager is at
    wg,         \* the counter of d.createDeleteNetworkWG
    networks,   \* the keys of d.networks
    failed,     \* networks the create handler failed for (history)
    downs,      \* a recreatedownbridge was carried out (history)
    proc,       \* the process
    faults, races

vars == <<bridge, patch, main, todo, opChan, cur, wg, networks, failed, downs, proc,
          faults, races>>

Op(n, op) == [net |-> n, op |-> op]
Idle == Op("none", "idle")

Ops == {"create", "recreatebadbridge", "recreatedownbridge", "initbridge"}

Up == proc = "up"

Fault == /\ faults < MaxFaults
         /\ faults' = faults + 1

(* The end on the network's bridge, and the one on the shared bridge.      *)
Ends == IF Sharing = "none" THEN {} ELSE {"local", "peer"}

(* A flat network's bridge has no address. The last process made the patch *)
(* ports.                                                                  *)
Init ==
    /\ bridge \in [Networks -> Found]
    /\ \A n \in Flat : bridge[n] # "addressed"
    /\ patch = [n \in Networks |-> Ends]
    /\ main = "restoring"
    /\ todo = Networks
    /\ opChan = <<>>
    /\ cur = Idle
    /\ wg = 0
    /\ networks = {}
    /\ failed = {}
    /\ downs = FALSE
    /\ proc = "up"
    /\ faults = 0
    /\ races = 0

-----------------------------------------------------------------------------
(* restoreNetworks, in the main goroutine.                                 *)

(* Variant: every bridge that is up is made again.                         *)
RestoreOpIgnoresAddress(n) ==
    IF bridge[n] = "down" THEN "recreatedownbridge" ELSE "recreatebadbridge"

(* ifUp and getIfaceAddr decide what has to be done.                       *)
RestoreOp(n) ==
    CASE bridge[n] = "addressed" -> "create"
      [] bridge[n] = "bare"      -> "recreatebadbridge"
      [] bridge[n] = "down"      -> "recreatedownbridge"

(* Variant: Add is called twice.                                           *)
RestoreNetworkAddsTwice(n) ==
    /\ Up
    /\ main = "restoring"
    /\ n \in todo
    /\ todo' = todo \ {n}
    /\ wg' = wg + 2
    /\ opChan' = Append(opChan, Op(n, RestoreOp(n)))
    /\ UNCHANGED <<bridge, patch, main, cur, networks, failed, proc, faults, races, downs>>

RestoreNetwork(n) ==
    /\ Up
    /\ main = "restoring"
    /\ n \in todo
    /\ todo' = todo \ {n}
    /\ wg' = wg + 1
    /\ opChan' = Append(opChan, Op(n, RestoreOp(n)))
    /\ UNCHANGED <<bridge, patch, main, cur, networks, failed, proc, faults, races, downs>>

(* d.stackMirrorConfigs[id] = sc is not synchronised with the create       *)
(* handler, which writes that map too: the Go runtime may stop the process *)
(* ("concurrent map writes").                                              *)
WritesMirrorConfigs(c) == c.op = "create"

RestoreRace ==
    /\ Up
    /\ todo # {}
    /\ WritesMirrorConfigs(cur)
    /\ races < MaxRaces
    /\ races' = races + 1
    /\ proc' = "crashed"
    /\ UNCHANGED <<bridge, patch, main, todo, opChan, cur, wg, networks, failed, faults, downs>>

(* Variant: the plugin serves calls at once.                               *)
RestoreNoWait ==
    /\ Up
    /\ main = "restoring"
    /\ todo = {}
    /\ main' = "serving"
    /\ UNCHANGED <<bridge, patch, todo, opChan, cur, wg, networks, failed, proc, faults, races, downs>>

RestoreWait ==
    /\ Up
    /\ main = "restoring"
    /\ todo = {}
    /\ main' = IF wg = 0 THEN "serving" ELSE "waiting"
    /\ UNCHANGED <<bridge, patch, todo, opChan, cur, wg, networks, failed, proc, faults, races, downs>>

-----------------------------------------------------------------------------
(* resourceManager.                                                        *)

RmReceive ==
    /\ Up
    /\ cur = Idle
    /\ opChan # <<>>
    /\ cur' = Head(opChan)
    /\ opChan' = Tail(opChan)
    /\ UNCHANGED <<bridge, patch, main, todo, wg, networks, failed, proc, faults, races, downs>>

At(n, op) == Up /\ cur = Op(n, op)

(* Variant: Done is called on the way out and again in recovery.           *)
DoneTwice ==
    /\ wg' = wg - 2
    /\ main' = IF wg \in 1..2 /\ main = "waiting" THEN "serving" ELSE main
    /\ proc' = IF wg < 2 THEN "crashed" ELSE proc

(* createDeleteNetworkWG.Done() in the deferred function of both handlers: *)
(* reaching zero wakes the waiting main goroutine; below zero it panics,   *)
(* and nothing recovers a panic of a deferred function.                    *)
Done ==
    /\ wg' = wg - 1
    /\ main' = IF wg = 1 /\ main = "waiting" THEN "serving" ELSE main
    /\ proc' = IF wg = 0 THEN "crashed" ELSE proc

(* The ends whose numbers the create handler asks OVS for; the local end   *)
(* of a mirror's patch port is taken to have the number it asked for.      *)
Needed == IF Sharing = "stack" THEN Ends ELSE Ends \ {"local"}

HandleCreate(n) ==
    /\ At(n, "create")
    /\ Needed \subseteq patch[n]
    /\ cur' = Idle
    /\ networks' = networks \cup {n}
    /\ Done
    /\ UNCHANGED <<bridge, patch, todo, opChan, failed, faults, races, downs>>

(* The handler panics, before or after it has recorded the network: an     *)
(* external call fails, or an end of the patch port is missing.            *)
HandleCreateFail(n) ==
    /\ At(n, "create")
    /\ cur' = Idle
    /\ \/ Fault
       \/ ~ (Needed \subseteq patch[n]) /\ UNCHANGED faults
    /\ networks' \in {networks, networks \cup {n}}
    /\ failed' = failed \cup {n}
    /\ Done
    /\ UNCHANGED <<bridge, patch, todo, opChan, races, downs>>

Crash == proc' = "crashed"

(* recreatebadbridge deletes the patch port, end by end, and the bridge.   *)
DeleteBadBridge(n) ==
    /\ At(n, "recreatebadbridge")
    /\ patch[n] = Ends
    /\ cur' = Op(n, "initbridge")
    /\ bridge' = [bridge EXCEPT ![n] = "down"]
    /\ patch' = [patch EXCEPT ![n] = {}]
    /\ UNCHANGED <<main, todo, opChan, wg, networks, failed, proc, faults, races, downs>>

(* A failure there is not recovered.                                       *)
DeleteBadBridgeFail(n) ==
    /\ At(n, "recreatebadbridge")
    /\ patch[n] = Ends
    /\ Fault
    /\ \E left \in {Ends, Ends \ {"local"}, {}} : patch' = [patch EXCEPT ![n] = left]
    /\ Crash
    /\ UNCHANGED <<bridge, main, todo, opChan, cur, wg, networks, failed, races, downs>>

(* ovs-vsctl del-port, called without --if-exists, fails on a missing end. *)
DeleteBadBridgePanic(n) ==
    /\ At(n, "recreatebadbridge")
    /\ patch[n] # Ends
    /\ patch' = [patch EXCEPT ![n] = @ \ {"local"}]
    /\ Crash
    /\ UNCHANGED <<bridge, main, todo, opChan, cur, wg, networks, failed, faults, races, downs>>

(* recreatedownbridge runs the delete handler first: the network is not in *)
(* d.networks yet, so the zero NetworkState names no bridge and the        *)
(* handler panics; its deferred function calls Done.                       *)
DeleteDownBridge(n) ==
    /\ At(n, "recreatedownbridge")
    /\ cur' = Op(n, "initbridge")
    /\ downs' = TRUE
    /\ Done
    /\ UNCHANGED <<bridge, patch, todo, opChan, networks, failed, faults, races>>

(* What createBridge and the address make of the bridge; a patch port's    *)
(* local end goes with the bridge that addBridge deletes.                  *)
Made(n) == [bridge EXCEPT ![n] = IF n \in Flat THEN "bare" ELSE "addressed"]
Unpatched(n) == [patch EXCEPT ![n] = @ \ {"local"}]

(* Variant: the bridge is created but left down.                           *)
InitBridgeDown(n) ==
    /\ At(n, "initbridge")
    /\ cur' = Op(n, "create")
    /\ patch' = [patch EXCEPT ![n] = Ends]
    /\ UNCHANGED <<bridge, main, todo, opChan, wg, networks, failed, proc, faults, races, downs>>

(* addBridge deletes a bridge that is there; mustAddPatchPort adds both    *)
(* ends, and an end that is on its bridge already stays.                   *)
InitBridge(n) ==
    /\ At(n, "initbridge")
    /\ cur' = Op(n, "create")
    /\ bridge' = Made(n)
    /\ patch' = [patch EXCEPT ![n] = Ends]
    /\ UNCHANGED <<main, todo, opChan, wg, networks, failed, proc, faults, races, downs>>

(* createBridge deletes the bridge when it fails; a later failure leaves   *)
(* it without an address, or without the patch port (which number to ask   *)
(* for could not be read), or complete. None is recovered here.            *)
InitBridgeFail(n) ==
    /\ At(n, "initbridge")
    /\ Fault
    /\ \/ /\ \E s \in {"down", "bare"} : bridge' = [bridge EXCEPT ![n] = s]
          /\ patch' = Unpatched(n)
       \/ /\ bridge' = Made(n)
          /\ patch' \in {Unpatched(n), [patch EXCEPT ![n] = Ends]}
    /\ Crash
    /\ UNCHANGED <<main, todo, opChan, cur, wg, networks, failed, races, downs>>

(* mustAddPatchPort ignores the errors of both add-port commands. Of a     *)
(* mirror's patch port the peer's number is then asked for.                *)
InitBridgeLosesEnd(n) ==
    /\ At(n, "initbridge")
    /\ Fault
    /\ bridge' = Made(n)
    /\ \E lost \in Ends \ Unpatched(n)[n] :
        /\ patch' = [patch EXCEPT ![n] = Ends \ {lost}]
        /\ IF Sharing = "mirror" /\ lost = "peer"
           THEN Crash /\ UNCHANGED cur
           ELSE UNCHANGED proc /\ cur' = Op(n, "create")
    /\ UNCHANGED <<main, todo, opChan, wg, networks, failed, races, downs>>

(* The container runtime starts the process again, with its memory empty.  *)
Restart ==
    /\ proc = "crashed"
    /\ main' = "restoring"
    /\ todo' = Networks
    /\ opChan' = <<>>
    /\ cur' = Idle
    /\ wg' = 0
    /\ networks' = {}
    /\ failed' = {}
    /\ downs' = FALSE
    /\ proc' = "up"
    /\ UNCHANGED <<bridge, patch, faults, races>>

ResourceManager ==
    \/ RmReceive
    \/ \E n \in Networks :
        \/ HandleCreate(n) \/ HandleCreateFail(n)
        \/ DeleteBadBridge(n) \/ DeleteBadBridgeFail(n) \/ DeleteBadBridgePanic(n)
        \/ DeleteDownBridge(n)
        \/ InitBridge(n) \/ InitBridgeFail(n) \/ InitBridgeLosesEnd(n)

Main == (\E n \in Networks : RestoreNetwork(n)) \/ RestoreWait

Next == Main \/ RestoreRace \/ ResourceManager \/ Restart

Spec == Init /\ [][Next]_vars

(* Both goroutines run on, and the process is started again.               *)
Fairness == WF_vars(Main) /\ WF_vars(ResourceManager) /\ WF_vars(Restart)

FairSpec == Spec /\ Fairness

-----------------------------------------------------------------------------
(* Properties.                                                             *)

(* Every variable holds what the code can put there.                       *)
TypeOK ==
    /\ bridge \in [Networks -> {"addressed", "bare", "down"}]
    /\ patch \in [Networks -> SUBSET Ends]
    /\ main \in {"restoring", "waiting", "serving"}
    /\ todo \subseteq Networks
    /\ opChan \in Seq([net : Networks, op : Ops])
    /\ cur \in [net : Networks, op : Ops] \cup {Idle}
    /\ wg \in -1..Cardinality(Networks)
    /\ networks \subseteq Networks
    /\ failed \subseteq Networks
    /\ downs \in BOOLEAN
    /\ proc \in {"up", "crashed"}
    /\ faults \in 0..MaxFaults
    /\ races \in 0..MaxRaces

Restored == networks \cup failed = Networks

(* What restoreNetworks waits for: when the plugin serves Docker's calls,  *)
(* every network is in d.networks or its create handler has failed. (A     *)
(* recreatedownbridge calls Done twice and voids this: RecoverySurvives.)  *)
ServesRestored == main = "serving" => Restored \/ downs

(* A bridge without an address that lacks an end of its patch port: to     *)
(* delete that port panics at every start. And one with an address that    *)
(* lacks an end the create handler asks for: it is left as it is, and the  *)
(* handler panics at every start.                                          *)
Torn(n) == bridge[n] = "bare" /\ patch[n] # Ends
Unserved(n) == bridge[n] = "addressed" /\ ~ (Needed \subseteq patch[n])

(* The process does not go on dying: failures and races may end it in the  *)
(* middle of a recovery, but after enough restarts it stays up, serves     *)
(* calls and has seen to every network, whose create handler succeeded or  *)
(* failed, unless a failure left a torn bridge behind.                     *)
RestartsEnd ==
    [](\A n \in Networks : ~Torn(n)) => <>[](Up /\ main = "serving" /\ Restored)

Starting == Up /\ main = "restoring" /\ todo = Networks /\ cur = Idle

(* "We need to recover from two different scenarios": when no call fails   *)
(* from some start on, and the bridges it finds, in whatever state earlier *)
(* deaths of the process left them, lack no end of a patch port that is    *)
(* needed, then the process in the end serves every network and goes on    *)
(* to, although recreatedownbridge may end it on the way.                  *)
RestoreConverges ==
    \A f \in 0..MaxFaults, r \in 0..MaxRaces :
        [](/\ Starting
           /\ \A n \in Networks : ~Torn(n) /\ ~Unserved(n)
           /\ [](faults = f /\ races = r)
           => <>[](Up /\ main = "serving" /\ networks = Networks))

(* The operation is chosen when restoreNetworks comes to a network and     *)
(* carried out later, after those of other networks, failures and deaths   *)
(* of the process. Still no step takes a bridge that is up and has its     *)
(* address down, or touches the ends of its patch port.                    *)
HealthyKept ==
    [][\A n \in Networks : bridge[n] = "addressed" =>
            bridge'[n] = "addressed" /\ patch'[n] = patch[n]]_vars

(* A bridge that is up without an address is made again, patch port        *)
(* included, without ending the process: with no external failure and no   *)
(* race only a recreatedownbridge ends it (RecoverySurvives).              *)
BadBridgesSurvived == faults = 0 /\ races = 0 => Up \/ downs

(* "We need to recover from two different scenarios where OVS may be in a  *)
(* bad state": with no external failure and no race the process survives   *)
(* the recovery.                                                           *)
RecoverySurvives == faults = 0 /\ races = 0 => Up

=============================================================================
