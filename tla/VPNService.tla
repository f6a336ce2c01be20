----------------------------- MODULE VPNService -----------------------------
(***************************************************************************)
(* The portal VPN service (vpn/vpn.go): it composes the session manager,   *)
(* the address manager, the backend pool, sticky load balancing and the    *)
(* forwarder.  A handler holds s.mu from start to end, so at most one is   *)
(* under way; `op' is the one that is, and where it stands.  The heartbeat *)
(* loop, the health prober, GenerateClientConfig and the administration of *)
(* users and servers do not take s.mu and run between its steps.           *)
(*                                                                         *)
(* Abstractions.  A backend is either active or not ("degraded" and        *)
(* "disabled" are treated alike by this service).  The balancer picks any  *)
(* backend its algorithm may pick.  Pool status and counters are written   *)
(* through to the database and assumed to reach it.  Time is abstract: any *)
(* registered session may have been idle long enough to time out.          *)
(***************************************************************************)
EXTENDS SessionManager, FiniteSetsExt

CONSTANTS Capacities,  \* the CapacityConfigs an administrator may save
          MaxEvents    \* bound: restarts, deletions, administration

\* 0 means unlimited.
ASSUME VPNAssumption ==
    /\ Capacities \subseteq [MaxPeersPerBackend : Nat, MaxTotalPeers : Nat]
    /\ MaxEvents \in Nat

VARIABLES pool,          \* backends in the memory of the pool
          active,        \* those with status "active"
          conns,         \* ActiveConnections of each backend
          caps,          \* the limits of the balancer and the sticky manager
          savedCaps,     \* those of the saved configuration
          userAffinity, peerAffinity,  \* sticky manager
          routesByPeer, routesByIP,    \* forwarder
          keys,          \* client_id of the AWG rows of user_connections
          fresh,         \* keys not generated yet
          eligible,      \* users that are enabled, not expired, within limits
          op,            \* the holder of s.mu
          events

capVars == <<caps, savedCaps>>
poolVars == <<pool, active, conns, capVars>>
stickyVars == <<userAffinity, peerAffinity>>
routeVars == <<routesByPeer, routesByIP>>
accountVars == <<keys, fresh, eligible>>
vpnVars == <<poolVars, stickyVars, routeVars, accountVars, op, events>>
vars == <<smVars, vpnVars>>

Idle == [kind |-> "idle"]
NoRoute == [id |-> 0, peer |-> NoPeer, ip |-> NoIP, tunnel |-> NoTunnel]
Route == [id : 0 .. MaxSessionID, peer : Peers \cup {NoPeer},
          ip : IPs \cup {NoIP}, tunnel : Tunnels \cup {NoTunnel}]

Op == {Idle}
  \cup [kind : {"allocate"}, peer : Peers, tunnel : Tunnels]
  \cup [kind : {"create"}, peer : Peers, tunnel : Tunnels, ip : IPs]
  \cup [kind : {"register"}, peer : Peers, session : VPNSession]
  \cup [kind : {"disable"}, tunnel : Tunnels]
  \cup [kind : {"failover"}, todo : [Peers -> VPNSession], targets : SUBSET Tunnels]
  \cup [kind : {"disconnect"}, todo : SUBSET (IDs \X Peers)]

VPNTypeOK ==
    /\ SMTypeOK
    /\ pool \subseteq Tunnels /\ active \subseteq pool /\ conns \in [Tunnels -> Nat]
    /\ caps \in Capacities /\ savedCaps \in Capacities
    /\ userAffinity \in [Users -> Tunnels \cup {NoTunnel}]
    /\ peerAffinity \in [Peers -> Tunnels \cup {NoTunnel}]
    /\ routesByPeer \in [Peers -> Route] /\ routesByIP \in [IPs -> Route]
    /\ keys \subseteq Peers /\ fresh \subseteq Peers \ keys /\ eligible \subseteq Users
    /\ op \in Op /\ events \in 0 .. MaxEvents

\* Every user starts with a key or more; the pool was filled by AddTunnel.
VPNInit ==
    /\ SMInit
    /\ pool = Tunnels /\ active = Tunnels /\ conns = [t \in Tunnels |-> 0]
    /\ caps \in Capacities /\ savedCaps = caps
    /\ userAffinity = [u \in Users |-> NoTunnel]
    /\ peerAffinity = [p \in Peers |-> NoTunnel]
    /\ routesByPeer = [p \in Peers |-> NoRoute]
    /\ routesByIP = [a \in IPs |-> NoRoute]
    /\ keys \in {K \in SUBSET Peers :
                   \A u \in Users : \E p \in K : Owner[p] = u}
    /\ fresh = Peers \ keys
    /\ eligible = Users /\ op = Idle /\ events = 0

\* An event the run allows a bounded number of.
Event == events < MaxEvents /\ events' = events + 1

-----------------------------------------------------------------------------
(* Load balancing *)

\* Mutant: off by one at the limit.
BelowCapInclusive(t) ==
    caps.MaxPeersPerBackend = 0 \/ conns[t] <= caps.MaxPeersPerBackend

BelowCap(t) == caps.MaxPeersPerBackend = 0 \/ conns[t] < caps.MaxPeersPerBackend

FilterHealthy(C) == {t \in C \cap active : BelowCap(t)}

\* The backends SelectBackend may return for the candidates C.
Selectable(C) ==
    IF caps.MaxTotalPeers > 0 /\ SumFunctionOnSet(conns, C) >= caps.MaxTotalPeers
    THEN {} ELSE FilterHealthy(C)

Affinity(p) ==
    IF peerAffinity[p] # NoTunnel THEN peerAffinity[p] ELSE userAffinity[Owner[p]]

\* The sticky backend is used: it is active and below its own limit.
StickyHit(p) == Affinity(p) \in FilterHealthy(active)

\* GetOrAssignBackend: an affinity is recorded only on a miss.
GetOrAssignBackend(p, t) ==
    \/ /\ StickyHit(p) /\ t = Affinity(p)
       /\ UNCHANGED stickyVars
    \/ /\ ~StickyHit(p) /\ t \in Selectable(active)
       /\ userAffinity' = [userAffinity EXCEPT ![Owner[p]] = t]
       /\ peerAffinity' = [peerAffinity EXCEPT ![p] = t]

-----------------------------------------------------------------------------
(* HandleIncomingPeer: authentication and selection, address, session, then
   the backend's counter and the route. *)

Authenticates(p) == p \in keys /\ Owner[p] \in users \cap eligible

HandleIncomingPeer(p) ==
    /\ op = Idle /\ nextID <= MaxSessionID
    /\ Authenticates(p)
    /\ \E t \in active : /\ GetOrAssignBackend(p, t)
                         /\ op' = [kind |-> "allocate", peer |-> p, tunnel |-> t]
    /\ UNCHANGED <<smVars, poolVars, routeVars, accountVars, events>>

AllocateAddress ==
    /\ op.kind = "allocate"
    /\ \/ /\ AllocateNew(op.peer) \/ AllocateExisting(op.peer)
          /\ op' = [kind |-> "create", peer |-> op.peer, tunnel |-> op.tunnel,
                    ip |-> allocated'[op.peer]]
       \/ /\ AllocateExhausted(op.peer)
          /\ op' = Idle
    /\ UNCHANGED <<dbVars, sessionVars, dbErrors, poolVars, stickyVars, routeVars,
                   accountVars, events>>

\* Mutant: the request retries a failing CreateSession for ever.
PersistSessionRetries ==
    /\ op.kind = "create"
    /\ \/ /\ CreateSession(op.peer, op.ip, op.tunnel)
          /\ op' = [kind |-> "register", peer |-> op.peer,
                    session |-> sessionsByPeer'[op.peer]]
          /\ UNCHANGED ipamVars
       \/ /\ CreateSessionFails(op.peer, op.ip, op.tunnel)
          /\ UNCHANGED <<ipamVars, op>>
    /\ UNCHANGED <<poolVars, stickyVars, routeVars, accountVars, events>>

PersistSession ==
    /\ op.kind = "create"
    /\ \/ /\ CreateSession(op.peer, op.ip, op.tunnel)
          /\ op' = [kind |-> "register", peer |-> op.peer,
                    session |-> sessionsByPeer'[op.peer]]
          /\ UNCHANGED ipamVars
       \/ /\ CreateSessionFails(op.peer, op.ip, op.tunnel)
          /\ Release(op.peer)
          /\ op' = Idle
    /\ UNCHANGED <<poolVars, stickyVars, routeVars, accountVars, events>>

\* Mutant: an existing entry for the address is not overwritten.
RegisterSessionKeepsIP ==
    LET s == op.session
        r == [id |-> s.id, peer |-> op.peer, ip |-> s.ip, tunnel |-> s.tunnel] IN
    /\ op.kind = "register"
    /\ conns' = [conns EXCEPT ![s.tunnel] = @ + 1]
    /\ routesByPeer' = [routesByPeer EXCEPT ![op.peer] = r]
    /\ routesByIP' = [routesByIP EXCEPT ![s.ip] = IF @ = NoRoute THEN r ELSE @]
    /\ op' = Idle
    /\ UNCHANGED <<smVars, pool, active, capVars, stickyVars, accountVars, events>>

RegisterSession ==
    LET s == op.session
        r == [id |-> s.id, peer |-> op.peer, ip |-> s.ip, tunnel |-> s.tunnel] IN
    /\ op.kind = "register"
    /\ conns' = [conns EXCEPT ![s.tunnel] = @ + 1]
    /\ routesByPeer' = [routesByPeer EXCEPT ![op.peer] = r]
    /\ routesByIP' = [routesByIP EXCEPT ![s.ip] = r]
    /\ op' = Idle
    /\ UNCHANGED <<smVars, pool, active, capVars, stickyVars, accountVars, events>>

-----------------------------------------------------------------------------
(* DisconnectUser and DisconnectSession: the sessions are looked up, then each
   is closed, unregistered and forgotten by the sticky manager, also when the
   heartbeat closed it in between. *)

StartDisconnect(todo) ==
    /\ op = Idle /\ todo # {}
    /\ op' = [kind |-> "disconnect", todo |-> todo]
    /\ UNCHANGED <<smVars, poolVars, stickyVars, routeVars, accountVars, events>>

DisconnectUser(u) ==
    StartDisconnect({<<i, sessionsByID[i]>> : i \in
        {j \in LiveIDs : /\ Owner[sessionsByID[j]] = u
                         /\ sessionsByPeer[sessionsByID[j]].status = "connected"}})

DisconnectSession(i) ==
    /\ i \in LiveIDs
    /\ StartDisconnect({<<i, sessionsByID[i]>>})

UnregisterSession(p) ==
    /\ routesByIP' = [a \in IPs |-> IF a = routesByPeer[p].ip THEN NoRoute ELSE routesByIP[a]]
    /\ routesByPeer' = [routesByPeer EXCEPT ![p] = NoRoute]

\* Mutant: the loop ends after the first session.
DisconnectNextBreaks ==
    /\ op.kind = "disconnect"
    /\ \E x \in op.todo :
        /\ IF x[1] \in LiveIDs THEN CloseSession(x[1]) ELSE UNCHANGED smVars
        /\ UnregisterSession(x[2])
        /\ userAffinity' = [userAffinity EXCEPT ![Owner[x[2]]] = NoTunnel]
        /\ peerAffinity' = [peerAffinity EXCEPT ![x[2]] = NoTunnel]
        /\ op' = Idle
    /\ UNCHANGED <<poolVars, accountVars, events>>

DisconnectNext ==
    /\ op.kind = "disconnect"
    /\ \E x \in op.todo :
        /\ IF x[1] \in LiveIDs THEN CloseSession(x[1]) ELSE UNCHANGED smVars
        /\ UnregisterSession(x[2])
        /\ userAffinity' = [userAffinity EXCEPT ![Owner[x[2]]] = NoTunnel]
        /\ peerAffinity' = [peerAffinity EXCEPT ![x[2]] = NoTunnel]
        /\ op' = IF op.todo = {x} THEN Idle ELSE [op EXCEPT !.todo = @ \ {x}]
    /\ UNCHANGED <<poolVars, accountVars, events>>

-----------------------------------------------------------------------------
(* EnableBackend, and DisableBackend with HandleFailover: the status changes,
   then, with the backends active by then, affinities move in memory and the
   connected rows read from the database are written back one by one with a new
   backend.  The counts it balances by are not refreshed. *)

EnableBackend(t) ==
    /\ op = Idle /\ Event /\ t \in pool
    /\ active' = active \cup {t}
    /\ UNCHANGED <<smVars, pool, conns, capVars, stickyVars, routeVars, accountVars, op>>

OnBackend(t) ==
    [p \in Peers |-> IF p \in Restored /\ rows[p].tunnel = t THEN rows[p] ELSE NoSession]

\* The affinities that may result from moving everyone off t.
Moved(aff, t, targets) ==
    {f \in [DOMAIN aff -> targets \cup {aff[x] : x \in DOMAIN aff}] :
        \A x \in DOMAIN aff : IF aff[x] = t THEN f[x] \in targets ELSE f[x] = aff[x]}

DisableBackend(t) ==
    /\ op = Idle /\ Event /\ t \in pool
    /\ active' = active \ {t}
    /\ op' = [kind |-> "disable", tunnel |-> t]
    /\ UNCHANGED <<smVars, pool, conns, capVars, stickyVars, routeVars, accountVars>>

\* Nothing moves when no backend can be selected, and no row when the rows
\* cannot be read.
HandleFailover ==
    LET t == op.tunnel
        targets == Selectable(FilterHealthy(active)) IN
    /\ op.kind = "disable"
    /\ \/ /\ targets = {}
          /\ op' = Idle
          /\ UNCHANGED <<stickyVars, dbErrors>>
       \/ /\ targets # {}
          /\ userAffinity' \in Moved(userAffinity, t, targets)
          /\ peerAffinity' \in Moved(peerAffinity, t, targets)
          /\ \/ /\ op' = IF \A p \in Peers : OnBackend(t)[p] = NoSession THEN Idle
                          ELSE [kind |-> "failover", todo |-> OnBackend(t),
                                targets |-> targets]
                /\ UNCHANGED dbErrors
             \/ DbErrors(1) /\ op' = Idle
    /\ UNCHANGED <<ipamVars, dbVars, sessionVars, poolVars, routeVars, accountVars, events>>

FailoverNext ==
    /\ op.kind = "failover"
    /\ \E p \in Peers, t \in op.targets :
        /\ op.todo[p] # NoSession
        /\ LET s == [op.todo[p] EXCEPT !.tunnel = t] IN
           \/ /\ rows' = IF CanUpsert(p, s) THEN [rows EXCEPT ![p] = s] ELSE rows
              /\ UNCHANGED dbErrors
           \/ /\ DbErrors(1)
              /\ UNCHANGED rows
        /\ LET todo == [op.todo EXCEPT ![p] = NoSession] IN
           op' = IF \A q \in Peers : todo[q] = NoSession THEN Idle
                 ELSE [op EXCEPT !.todo = todo]
    /\ UNCHANGED <<ipamVars, users, tunnels, sessionVars, poolVars, stickyVars, routeVars,
                   accountVars, events>>

\* A new configuration is saved, and brings its limits and an empty sticky manager.
\* When it cannot be saved, or names an algorithm NewLoadBalancer does not know, the
\* balancer stays as it is, in the second case until the next start.
UpdateConfig ==
    /\ op = Idle /\ Event
    /\ \/ /\ savedCaps' \in Capacities
          /\ \/ /\ caps' = savedCaps'
                /\ userAffinity' = [u \in Users |-> NoTunnel]
                /\ peerAffinity' = [p \in Peers |-> NoTunnel]
             \/ UNCHANGED <<caps, stickyVars>>
          /\ UNCHANGED dbErrors
       \/ /\ DbErrors(1)
          /\ UNCHANGED <<capVars, stickyVars>>
    /\ UNCHANGED <<ipamVars, dbVars, sessionVars, pool, active, conns, routeVars,
                   accountVars, op>>

-----------------------------------------------------------------------------
(* Steps that do not take s.mu *)

\* One tick of the heartbeat loop times out the sessions I.  A session just
\* created is not idle before its handler returns.
Heartbeat(I) ==
    /\ op.kind = "register" => op.session.id \notin I
    /\ CheckTimeouts(I)
    /\ UNCHANGED vpnVars

\* The outcome of a probe: active, or degraded or disabled.  A change counts
\* as an event of the run.
ProbeTunnel(t) ==
    /\ t \in pool
    /\ \/ UNCHANGED <<active, events>>
       \/ t \in active /\ active' = active \ {t} /\ Event
       \/ t \notin active /\ active' = active \cup {t} /\ Event
    /\ UNCHANGED <<smVars, pool, conns, capVars, stickyVars, routeVars, accountVars, op>>

\* A fresh key replaces the client_id of an AWG connection of the user, or
\* becomes a new connection, also when the connections cannot be read; errors of
\* the write are ignored.  The fresh key gets a lease if there is one.
GenerateClientConfig(u) ==
    LET mine == {p \in keys : Owner[p] = u} IN
    /\ Event /\ u \in users
    /\ \E k \in {p \in fresh : Owner[p] = u} :
        /\ fresh' = fresh \ {k}
        /\ AllocateNew(k) \/ AllocateExhausted(k)
        /\ \/ /\ \E old \in mine : keys' = (keys \ {old}) \cup {k}
              /\ UNCHANGED dbErrors
           \/ /\ mine = {} /\ keys' = keys \cup {k}
              /\ UNCHANGED dbErrors
           \/ /\ DbErrors(1)
              /\ keys' \in {keys, keys \cup {k}}
    /\ UNCHANGED <<dbVars, sessionVars, poolVars, stickyVars, routeVars, eligible, op>>

\* The listener's flag itself is not read by the operations modelled here.
DrainListener ==
    /\ Event
    /\ Drain
    /\ UNCHANGED <<poolVars, stickyVars, routeVars, accountVars, op>>

\* The panel enables or disables a user, or the user expires or is renewed.
SetEligible(u) ==
    /\ Event
    /\ eligible' \in {eligible \cup {u}, eligible \ {u}}
    /\ UNCHANGED <<smVars, poolVars, stickyVars, routeVars, keys, fresh, op>>

\* A user is deleted with their connections, a server with those on it, or a
\* connection alone.
PanelDeletes ==
    /\ Event
    /\ \/ \E u \in Users : DeleteUser(u) /\ keys' = {p \in keys : Owner[p] # u}
       \/ \E t \in Tunnels : DeleteServer(t) /\ keys' \in SUBSET keys
       \/ \E p \in keys : keys' = keys \ {p} /\ UNCHANGED smVars
    /\ UNCHANGED <<poolVars, stickyVars, routeVars, fresh, eligible, op>>

\* Crash and start of a new process: memory is rebuilt from the database.
RestartService ==
    /\ Event /\ (Restart \/ RestartUnsynced)
    /\ userAffinity' = [u \in Users |-> NoTunnel]
    /\ peerAffinity' = [p \in Peers |-> NoTunnel]
    /\ routesByPeer' = [p \in Peers |-> NoRoute]
    /\ routesByIP' = [a \in IPs |-> NoRoute]
    /\ pool' = tunnels /\ active' = active \cap tunnels
    /\ op' = Idle
    /\ caps' = savedCaps
    /\ UNCHANGED <<conns, savedCaps, accountVars>>

-----------------------------------------------------------------------------
HandlerStep ==
    \/ AllocateAddress \/ PersistSession \/ RegisterSession
    \/ DisconnectNext \/ HandleFailover \/ FailoverNext

VPNNext ==
    \/ \E p \in Peers : HandleIncomingPeer(p)
    \/ HandlerStep
    \/ \E u \in Users : DisconnectUser(u) \/ GenerateClientConfig(u) \/ SetEligible(u)
    \/ \E i \in IDs : DisconnectSession(i)
    \/ \E t \in Tunnels : EnableBackend(t) \/ DisableBackend(t) \/ ProbeTunnel(t)
    \/ \E I \in SUBSET LiveIDs : Heartbeat(I)
    \/ UpdateConfig \/ DrainListener \/ PanelDeletes \/ RestartService

VPNSpec == VPNInit /\ [][VPNNext]_vars

\* The goroutine that holds s.mu keeps running.  The heartbeat ticks forever
\* and times out whatever has not been refreshed; no code path of the service
\* refreshes LastSeen, so each session is eventually in an expired set.
VPNFairness ==
    /\ WF_vars(HandlerStep)
    /\ \A i \in IDs : WF_vars(\E I \in SUBSET LiveIDs : i \in I /\ Heartbeat(I))

VPNFairSpec == VPNSpec /\ VPNFairness

-----------------------------------------------------------------------------
(* A registered session is reached through its address: the forwarder's entry
   for the address of a session is the session's own route whenever the peer's
   entry is.  Routes of timed-out sessions stay behind in both maps and
   addresses move between peers, so the two maps could disagree.  Deleting a
   user or a server takes away the rows this rests on. *)
RouteDelivers ==
    (users = Users /\ tunnels = Tunnels)
        => \A p \in Live : routesByPeer[p].id = sessionsByPeer[p].id
                => routesByIP[sessionsByPeer[p].ip] = routesByPeer[p]

(* No backend gets a connection beyond the max_peers_per_backend in force when it
   gets it.  The limit is tested when the backend is selected, by the sticky
   manager or by the balancer, and the counter goes up three steps later, after the
   address and the session; UpdateConfig may lower the limit below a counter, which
   then stays where it is and must not go up any more. *)
CapacityRespected ==
    [][\A t \in Tunnels : conns'[t] > conns[t] =>
          caps.MaxPeersPerBackend = 0 \/ conns[t] < caps.MaxPeersPerBackend]_vars

(* As long as no server is deleted, two live sessions of existing users never
   have one address, although HandleFailover writes back rows it read before the
   heartbeat released their addresses.  Deleting a server is left out: HandleFailover
   moves rows to a backend the sessions in memory do not know of, so the deletion can
   take the row, and with it the address, of a session on another backend. *)
SessionsApart == tunnels = Tunnels => NoSharedAddress

(* However handlers, loops and the panel interleave, both session maps describe
   the same sessions, every value keeps its type, and sessions have addresses of
   their own (SessionsApart). *)
ServiceConsistent == VPNTypeOK /\ SessionIndexesAgree /\ SessionsApart

(* DisconnectUser and DisconnectSession close every session they set out to close:
   each stays on the list until it is no longer live, though the heartbeat may have
   closed it first, and a closed session does not come back before the process
   restarts; so none of them is live when the handler returns. *)
DisconnectCompletes ==
    [][events' = events =>
        /\ op.kind = "disconnect" =>
             \A x \in op.todo : x[1] \in LiveIDs' =>
                                 op'.kind = "disconnect" /\ x \in op'.todo
        /\ \A i \in IDs \ LiveIDs : i < nextID => i \notin LiveIDs']_vars

(* No handler keeps s.mu forever: every request of any kind comes to an end,
   on its error paths too. *)
HandlersReturn == (op # Idle) ~> (op = Idle)

(* A peer that stays unauthorised (its key replaced, its user disabled, expired
   or deleted) eventually loses its session for good, although none of those
   operations tells the VPN service: the heartbeat does it, and neither a
   request in flight nor a restart brings the session back. *)
UnauthorisedSessionsEnd ==
    \A p \in Peers : <>[](~Authenticates(p)) => <>[](p \notin Live)

=============================================================================
