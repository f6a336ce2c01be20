------------------------------- MODULE Balancer -------------------------------
(***************************************************************************)
(* The three algorithms that choose a backend tunnel for a connection      *)
(* (internal/vpn/loadbalancer): least connections, round robin and smooth  *)
(* weighted round robin, with the limits they share.  VPNService leaves    *)
(* the choice open; here it is the state of the balancer that matters, and *)
(* what it adds up to over many connections.                               *)
(*                                                                         *)
(* GetActiveTunnels returns the active tunnels in the order of a Go map,   *)
(* another one at every call.  A tie, which the code gives to the first in *)
(* the list (or, for least connections, to the lower measured latency), is *)
(* therefore anyone's, and so is the counter-th entry of round robin.      *)
(***************************************************************************)
EXTENDS Integers, FiniteSets, Functions

CONSTANTS
    Tunnels,                \* backend tunnels
    WeightMaps,             \* the maps from tunnels to weights a configuration may have
    DefaultWeight,          \* 100: the weight of a tunnel without one
    MaxPeersPerBackend,     \* limit of one tunnel, 0 for none
    MaxTotalPeers,          \* limit of all of them, 0 for none
    MaxTurns,               \* bound: selections in a window
    MaxFlaps                \* bound: changes of status and of configuration

ASSUME BalancerAssumption ==
    /\ IsFiniteSet(Tunnels)
    /\ \A m \in WeightMaps : DOMAIN m \subseteq Tunnels /\ \A t \in DOMAIN m : m[t] \in Nat
    /\ DefaultWeight \in Nat \ {0}
    /\ {MaxPeersPerBackend, MaxTotalPeers, MaxTurns, MaxFlaps} \subseteq Nat

VARIABLES
    algorithm,      \* of the balancer in use
    weights,        \* its weights: WeightedRoundRobinBalancer.weights
    current,        \* its credits: currentWeights
    activeTunnels,  \* the tunnels with status "active"
    connections,    \* ActiveConnections of each tunnel
    flaps,          \* changes so far
    \* What has happened since the algorithm, the weights or the set of
    \* selectable tunnels last changed:
    turns, picks,   \* selections, and those of each tunnel
    fresh,          \* whether nobody had a credit then
    before          \* connections of each tunnel then

lbVars == <<algorithm, weights, current, activeTunnels, connections, flaps,
            turns, picks, fresh, before>>

Algorithms == {"least_connections", "weighted", "round_robin"}
Zero == [t \in Tunnels |-> 0]

\* NewWeightedRoundRobinBalancer keeps the positive weights.
Positive(m) == [t \in {x \in DOMAIN m : m[x] > 0} |-> m[t]]

\* Types.
BalancerTypeOK ==
    /\ algorithm \in Algorithms
    /\ DOMAIN weights \subseteq Tunnels /\ \A t \in DOMAIN weights : weights[t] \in Nat \ {0}
    /\ current \in [Tunnels -> Int] /\ activeTunnels \subseteq Tunnels
    /\ connections \in [Tunnels -> Nat] /\ before \in [Tunnels -> Nat]
    /\ flaps \in 0..MaxFlaps /\ turns \in 0..MaxTurns /\ picks \in [Tunnels -> 0..MaxTurns]
    /\ fresh \in BOOLEAN

-----------------------------------------------------------------------------
(***************************************************************************)
(* FilterHealthy, the limit on all connections, and the choice.            *)
(***************************************************************************)

FilterHealthy(active, conns) ==
    {t \in active : MaxPeersPerBackend = 0 \/ conns[t] < MaxPeersPerBackend}

Healthy == FilterHealthy(activeTunnels, connections)

\* The candidates are the active tunnels, and only their connections count.
UnderTotal ==
    \/ MaxTotalPeers = 0
    \/ FoldFunctionOnSet(+, 0, connections, activeTunnels) < MaxTotalPeers

Weight(t) == IF t \in DOMAIN weights THEN weights[t] ELSE DefaultWeight
TotalWeight(S) == FoldFunctionOnSet(+, 0, [t \in S |-> Weight(t)], S)

\* Every selectable tunnel earns its weight and the richest is chosen ...
Earned(S) == [t \in Tunnels |-> IF t \in S THEN current[t] + Weight(t) ELSE current[t]]
Richest(S) == {t \in S : \A u \in S : Earned(S)[u] <= Earned(S)[t]}

\* Mutant: the tunnel chosen pays its own weight only.
PayOwn(S, best) == [Earned(S) EXCEPT ![best] = @ - Weight(best)]

\* ... and pays for all.
Pay(S, best) == [Earned(S) EXCEPT ![best] = @ - TotalWeight(S)]

LeastConnected(S) == {t \in S : \A u \in S : connections[t] <= connections[u]}

\* SelectBackend of the three balancers.
SelectBackend(t) ==
    LET S == Healthy IN
    /\ S # {} /\ UnderTotal
    /\ \/ algorithm = "least_connections" /\ t \in LeastConnected(S) /\ UNCHANGED current
       \/ algorithm = "round_robin" /\ t \in S /\ UNCHANGED current
       \/ algorithm = "weighted" /\ t \in Richest(S) /\ current' = Pay(S, t)

-----------------------------------------------------------------------------
(***************************************************************************)
(* The window in which the shares of the tunnels are compared.             *)
(***************************************************************************)

NewWindow ==
    /\ turns' = 0 /\ picks' = Zero
    /\ fresh' = (current' = Zero) /\ before' = connections'

SameWindow(t) ==
    /\ turns' = turns + 1 /\ picks' = [picks EXCEPT ![t] = @ + 1]
    /\ UNCHANGED <<fresh, before>>

\* A selection counts in the window unless it fills its tunnel up.
Count(t) ==
    IF FilterHealthy(activeTunnels, connections') = Healthy THEN SameWindow(t) ELSE NewWindow

-----------------------------------------------------------------------------
(***************************************************************************)
(* The steps.                                                              *)
(***************************************************************************)

\* HandleIncomingPeer selects and, the session made, raises the counter; the
\* mutex of the service is held throughout.
Connect(t) ==
    /\ turns < MaxTurns
    /\ SelectBackend(t)
    /\ connections' = [connections EXCEPT ![t] = @ + 1]
    /\ Count(t)
    /\ UNCHANGED <<algorithm, weights, activeTunnels, flaps>>

\* A selection that no counter follows: SelectTunnel, the failover of sticky
\* sessions, or HandleIncomingPeer when the address or the session cannot be
\* had.
Reassign(t) ==
    /\ turns < MaxTurns
    /\ SelectBackend(t)
    /\ UNCHANGED <<algorithm, weights, activeTunnels, connections, flaps>>
    /\ Count(t)

\* SetTunnelStatus by a probe or an administrator.
SetTunnelStatus(t) ==
    /\ flaps < MaxFlaps /\ flaps' = flaps + 1
    /\ activeTunnels' = IF t \in activeTunnels THEN activeTunnels \ {t} ELSE activeTunnels \cup {t}
    /\ UNCHANGED <<algorithm, weights, current, connections>>
    /\ NewWindow

\* UpdateConfig puts a new balancer in the place of the old one.  When the
\* configuration cannot be saved, or names no algorithm, the old one stays.
UpdateConfig(a, m) ==
    /\ flaps < MaxFlaps /\ flaps' = flaps + 1
    /\ algorithm' = a /\ weights' = Positive(m) /\ current' = Zero
    /\ UNCHANGED <<activeTunnels, connections>>
    /\ NewWindow

LBInit ==
    /\ algorithm \in Algorithms /\ weights \in {Positive(m) : m \in WeightMaps}
    /\ current = Zero /\ activeTunnels = Tunnels /\ connections = Zero
    /\ flaps = 0 /\ turns = 0 /\ picks = Zero /\ fresh = TRUE /\ before = Zero

LBNext ==
    \/ \E t \in Tunnels : Connect(t) \/ Reassign(t) \/ SetTunnelStatus(t)
    \/ \E a \in Algorithms, m \in WeightMaps : UpdateConfig(a, m)

LBSpec == LBInit /\ [][LBNext]_lbVars

-----------------------------------------------------------------------------
(***************************************************************************)
(* Properties.                                                             *)
(***************************************************************************)

\* How far a tunnel is, in units of one connection divided by the weight of
\* all, behind the share its weight gives it, or ahead of it when negative.
Deviation(t) == turns * Weight(t) - picks[t] * TotalWeight(Healthy)

\* "Distributes traffic proportionally based on backend weights"
\* (weighted_rr.go): as long as tunnels and weights stay what they are and
\* began without credits, no tunnel is ever a whole connection ahead of the
\* share its weight gives it, and none is further behind than half a
\* connection for each of the others, however ties are decided.
WeightedShare ==
    algorithm = "weighted" /\ fresh =>
        \A t \in Healthy :
            /\ -TotalWeight(Healthy) < Deviation(t)
            /\ 2 * Deviation(t) <= (Cardinality(Healthy) - 1) * TotalWeight(Healthy)

\* Tunnels that come and go take their credits with them.  What a tunnel has
\* too much or too little when it returns stays, however often the set
\* changes, within half the weight of all tunnels for each of the others, so
\* none is starved and none is flooded for long.
CreditsBounded ==
    \A t \in Tunnels :
        /\ -(Cardinality(Tunnels) - 1) * TotalWeight(Tunnels) <= 2 * current[t]
        /\ 2 * current[t] <= (Cardinality(Tunnels) - 1) * TotalWeight(Tunnels)

\* Least connections (least_conn.go): the counters of two tunnels are never
\* further apart than one connection, or than those of some two were when
\* the set of tunnels last changed.
LeastConnectionsLevel ==
    algorithm = "least_connections" =>
        \A t, u \in Healthy :
            \/ connections[t] - connections[u] <= 1
            \/ \E x, y \in Healthy : connections[t] - connections[u] <= before[x] - before[y]

\* What each of the balancers promises of the tunnels it chooses from, types
\* included.
BalancersFair == BalancerTypeOK /\ WeightedShare /\ CreditsBounded /\ LeastConnectionsLevel
=============================================================================
