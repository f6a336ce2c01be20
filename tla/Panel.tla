------------------------------- MODULE Panel -------------------------------
(***************************************************************************)
(* The panel as a whole: requests of users and administrators, background  *)
(* operations, restarts and reconciliation, over the same tables and       *)
(* hosts.                                                                  *)
(***************************************************************************)
EXTENDS PanelUsers, PanelServers

\* What a request to add a connection carries; client is set only for a known client.
Wanted(us, cs) == [user : us, server : Servers, proto : Protocols, name : Names, client : cs]

Clients(s, p) == IF There(s, p) THEN DOMAIN host[s][p] ELSE {}
Bound(s) == {rows[i].client : i \in RowsAt(s)}
\* GetProtocolClients offers the clients of the host that no row claims.
Unbound(s, p) == Clients(s, p) \ Bound(s)

UserRequest(r) ==
    \/ \E q \in Wanted(DOMAIN users, {None}) : SelfAdd(r, q)
    \/ \E i \in DOMAIN rows : SelfDelete(r, i) \/ \E n \in Names : SelfRename(r, i, n)

AdminRequest(r) ==
    \/ \E q \in Wanted(DOMAIN users \cup {None}, {None}) : AddServerConnection(r, q)
    \/ \E q \in Wanted(DOMAIN users, {None}) : AddUserConnection(r, q)
    \/ \E q \in Wanted(Users, {None}) : AddUser(r, q)
    \/ \E s \in Servers, p \in Protocols :
          \/ \E q \in Wanted(DOMAIN users, Unbound(s, p)) :
                q.server = s /\ q.proto = p /\ AddUserConnection(r, q)
          \/ \E c \in Clients(s, p) : RemoveConnection(r, s, p, c)
          \/ \E q \in Wanted(DOMAIN users \cup {None, "same"}, Clients(s, p)) :
                q.server = s /\ q.proto = p /\ EditConnection(r, q)
          \/ Install(r, s, p) \/ Uninstall(r, s, p)
    \/ \E s \in Servers :
          \/ DeleteServer(r, s) \/ ClearServer(r, s) \/ SetSpeedLimits(r, s)
          \/ \E c \in Clients(s, "awg"), on \in BOOLEAN : ToggleConnection(r, s, c, on)
    \/ \E u \in DOMAIN users :
          DeleteUser(r, u) \/ \E on \in BOOLEAN : ToggleUser(r, u, on)

Background(r) ==
    \/ \E u \in DOMAIN users : MassDelete(r, u) \/ \E on \in BOOLEAN : MassToggle(r, u, on)
    \/ \E S \in SUBSET Users : \E act \in [S -> BOOLEAN] : Sync(r, act)

\* The window of the creation log moves on.
LogAges(u) ==
    /\ log[u] > 0 /\ log' = [log EXCEPT ![u] = @ - 1]
    /\ UNCHANGED <<servers, hostVars, users, rows, lock, req, next, runVars>>

Step(r) ==
    \/ ConnectionStep(r) \/ UserStep(r) \/ ServerStep(r)
    \/ \E new \in {{}} \cup {{x} : x \in [user : {None}, server : Servers, proto : {"awg"},
                                         name : Names, client : {None}]} : SyncUser(r, new)

PanelNext ==
    \/ \E r \in Reqs : UserRequest(r) \/ AdminRequest(r) \/ Background(r) \/ Step(r)
    \/ \E u \in Users : LogAges(u)
    \/ \E s \in Servers, p \in Protocols : Restart(s, p)
    \/ CleanupPhase1 \/ CleanupPhase2

PanelFairness == WF_panelVars(CleanupPhase1 \/ CleanupPhase2) /\ \A r \in Reqs : WF_panelVars(Step(r))
PanelSpec == PanelInit /\ [][PanelNext]_panelVars /\ PanelFairness

-----------------------------------------------------------------------------

(* UserAddConnectionHandler keeps its limits however many requests of a user run at once:
   a user has at most MaxConnections connections of their own making and at most RateCount
   creations in a window, unless a statement failed. *)
SelfServiceLimits ==
    "db" \notin failed =>
       \A u \in Users : /\ Cardinality({i \in RowsOf(u) : rows[i].self}) <= MaxConnections
                        /\ log[u] <= RateCount

(* Every return of UserAddConnectionHandler gives the user's mutex back: only a request that
   is past the lock holds it. *)
NoLeakedLock ==
    \A u \in Users : lock[u] # None =>
       /\ req[lock[u]].op = "selfadd" /\ req[lock[u]].user = u
       /\ req[lock[u]].pc \in {"add", "save"}

(* UserAddConnectionHandler counts and creates under the user's mutex: the limits hold, and
   the mutex is given back. *)
SelfServiceKept == PanelTypeOK /\ SelfServiceLimits /\ NoLeakedLock

Deleting == {"selfdelete", "remove", "deluser", "mass"}
Removes(r) ==
    /\ ~overlap /\ req[r].op \in Deleting /\ req'[r] # req[r] /\ phase' # "boot"
    /\ "db" \notin failed' /\ (req[r].op \in {"mass", "remove"} \/ "remote" \notin failed')
NoClientLost == \A i \in DOMAIN rows \ DOMAIN rows' : ~HasClient(rows[i])

(* With one operation at a time, removing connections or users leaves no client behind on
   the host: whenever such an operation deletes a row, its client is gone.  The mass
   operations promise this even when remote calls fail; a restart in between does not
   break it either. *)
DeletedRowsLeaveNoClient == [][(\E r \in Reqs : Removes(r)) => NoClientLost]_panelVars

(* A row has its client on the host unless the installation was replaced or lost, as long
   as one operation ran at a time and none was cut short. *)
RowsHaveClients ==
    Busy = {} /\ failed = {} /\ ~overlap =>
       \A i \in DOMAIN rows : HasClient(rows[i]) \/ rows[i].client \in wiped

(* Whatever was interrupted or overlapped before, after CleanupStaleProtocols no row names
   a protocol that its server does not list, unless one of its own statements failed. *)
StartupConsistent ==
    phase = "phase2" /\ phase' = "serving" /\ room' = room => Unlisted' = {}

(* The remote phase deletes no row of a client that exists: a server that cannot be reached
   is not taken for one without the container. *)
ReconcileSparesClients ==
    phase \in {"phase2", "phase2 partly"} => NoClientLost

(* Every step of CleanupStaleProtocols takes the rows it should and no other. *)
ReconcileExact == [][StartupConsistent /\ ReconcileSparesClients]_panelVars

(* Every request ends, and a restarted panel serves again: no request waits for a mutex
   that is never released. *)
RequestsEnd == \A r \in Reqs : (r \in Busy) ~> (r \notin Busy)
=============================================================================
