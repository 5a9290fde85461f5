--------------------------- MODULE NetworkService ---------------------------
(***************************************************************************)
(* What dovesnap promises Docker, without goroutines, channels or          *)
(* WaitGroups: networks that are provisioned and removed once, and         *)
(* endpoints that get a port on a provisioned network, are attached to it  *)
(* and detached from it, once each and in that order. A network goes only  *)
(* when nothing is attached to it. What fails is contained: a failure      *)
(* concerns one network or one endpoint, leaves every other one as it is,  *)
(* and takes the promise away from that one only. Driver implements this   *)
(* specification.                                                          *)
(***************************************************************************)
CONSTANTS Networks, Endpoints, NetOf

VARIABLES
    up,        \* networks that are provisioned
    removed,   \* networks whose removal was confirmed
    att,       \* how far an endpoint is
    broken     \* networks and endpoints something failed for

svars == <<up, removed, att, broken>>

Progress == {"none", "reserved", "joined", "portless", "gone"}

SInit ==
    /\ up = {}
    /\ removed = {}
    /\ att = [e \in Endpoints |-> "none"]
    /\ broken = {}

Provision(n) ==
    /\ n \notin up \cup removed
    /\ up' = up \cup {n}
    /\ UNCHANGED <<removed, att, broken>>

Remove(n) ==
    /\ n \in up
    /\ \A e \in Endpoints \ broken : NetOf[e] = n => att[e] # "joined"
    /\ up' = up \ {n}
    /\ removed' = removed \cup {n}
    /\ UNCHANGED <<att, broken>>

(* A network that failed may have been provisioned all the same.           *)
BreakNetwork(n) ==
    /\ up' \in {up, up \cup {n}}
    /\ broken' = broken \cup {n}
    /\ UNCHANGED <<removed, att>>

Advance(e, from, to) ==
    /\ NetOf[e] \in up
    /\ att[e] = from
    /\ att' = [att EXCEPT ![e] = to]
    /\ UNCHANGED <<up, removed, broken>>

Reserve(e) == Advance(e, "none", "reserved")
Attach(e) == Advance(e, "reserved", "joined")
Detach(e) == Advance(e, "joined", "gone")

(* What becomes of an endpoint that failed is open.                        *)
BreakEndpoint(e) ==
    /\ att' \in {[att EXCEPT ![e] = s] : s \in Progress}
    /\ broken' = broken \cup {e}
    /\ UNCHANGED <<up, removed>>

SNext ==
    \/ \E n \in Networks : Provision(n) \/ Remove(n) \/ BreakNetwork(n)
    \/ \E e \in Endpoints : Reserve(e) \/ Attach(e) \/ Detach(e) \/ BreakEndpoint(e)

SSpec == SInit /\ [][SNext]_svars

(* What a caller can rely on: a container that is attached has its network *)
(* provisioned for as long as it stays, and a network whose removal was    *)
(* confirmed does not come back, unless something failed for that endpoint *)
(* or network itself.                                                      *)
Promise ==
    /\ \A e \in Endpoints \ broken : att[e] = "joined" => NetOf[e] \in up
    /\ up \cap removed \subseteq broken
=============================================================================
