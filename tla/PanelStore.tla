---------------------------- MODULE PanelStore ----------------------------
(***************************************************************************)
(* What the handlers and services of the panel share: the rows of users,   *)
(* servers and connections, the VPN hosts those rows describe, and the     *)
(* requests being served.                                                  *)
(*                                                                         *)
(* A request is a record in req that walks through the statements and      *)
(* remote calls of its handler.  Every database statement is atomic, so is *)
(* every call of a protocol manager (module AWGManager has its inside).    *)
(* Reads at the start of a handler that nothing separates from each other  *)
(* are one step; one that fails ends the handler, which changes nothing,   *)
(* or counts as empty, which is modelled where clients or limits depend on *)
(* it.  Names, keys and settings are opaque, and a user deleted and        *)
(* created again is the same element.                                      *)
(***************************************************************************)
EXTENDS Naturals, FiniteSets, Functions

CONSTANTS Users, Servers, Names,
          Reqs,                \* slots for concurrent requests, 1 .. n
          MaxConnections,      \* connections a user may create
          RateCount,           \* creations a user may make in a window
          PanelScenarios,      \* where the runs start, and how much happens in them
          None

ASSUME PanelAssumption ==
    /\ Reqs \subseteq Nat
    /\ MaxConnections \in Nat /\ RateCount \in Nat
    /\ None \notin Users \cup Servers \cup Nat /\ "same" \notin Users \cup {None}
    /\ \A sc \in PanelScenarios :
          /\ sc.user \in Users /\ sc.server \in Servers /\ sc.name \in Names
          /\ sc.linked \in BOOLEAN /\ (sc.connected => MaxConnections > 0)
          /\ {sc.ops, sc.faults, sc.restarts, sc.slots} \subseteq Nat

\* AmneziaWG runs in a container; MTProxyL, called telemt, is a program of the host.
Protocols == {"awg", "telemt"}

VARIABLES
    servers,   \* servers: the keys of the protocols column, per row
    host,      \* per server: installed protocol -> client -> enabled
    wiped,     \* history: clients lost with their installation
    users,     \* users: enabled, and linked to RemnaWave, per row
    rows,      \* user_connections
    log,       \* entries of connection_creation_log inside the window
    lock,      \* userConnLocks: the request that holds a user's mutex
    req,       \* requests and background operations under way
    next,      \* next unused row or client
    phase,     \* "boot", "phase2", "phase2 partly", "serving"
    room,      \* operations, failures, restarts still to come; requests at a time
    failed,    \* history: "remote" calls, "db" statements failed, a "restart" cut work short
    overlap    \* history: a request ran next to another one

hostVars == <<host, wiped>>
connVars == <<rows, log>>
runVars == <<phase, room, failed, overlap>>
panelVars == <<servers, hostVars, users, connVars, lock, req, next, runVars>>

Idle == [op |-> "idle"]
Without(f, S) == Restrict(f, DOMAIN f \ S)
Put(f, k, v) == [x \in DOMAIN f \cup {k} |-> IF x = k THEN v ELSE f[x]]
Empty == [x \in {} |-> None]

Row == [user : Users, server : Servers, proto : Protocols, client : Nat, name : Names,
        self : BOOLEAN]

(* Types; a connection row belongs to an existing user (the foreign key), whatever
   happened to the server it names. *)
PanelTypeOK ==
    /\ DOMAIN servers \subseteq Servers
    /\ \A s \in DOMAIN servers : servers[s] \subseteq Protocols
    /\ \A s \in Servers : DOMAIN host[s] \subseteq Protocols
    /\ DOMAIN users \subseteq Users
    /\ \A u \in DOMAIN users : users[u] \in [enabled : BOOLEAN, linked : BOOLEAN]
    /\ \A i \in DOMAIN rows : rows[i] \in Row /\ rows[i].user \in DOMAIN users
    /\ log \in [Users -> 0 .. next] /\ lock \in [Users -> Reqs \cup {None}]
    /\ DOMAIN req = Reqs /\ next \in Nat
    /\ phase \in {"boot", "phase2", "phase2 partly", "serving"}
    /\ failed \subseteq {"remote", "db", "restart"} /\ overlap \in BOOLEAN

\* One server with AmneziaWG installed, one user with or without a connection on it.
PanelInit ==
    \E sc \in PanelScenarios :
       /\ servers = Put(Empty, sc.server, {"awg"}) /\ wiped = {}
       /\ users = Put(Empty, sc.user, [enabled |-> TRUE, linked |-> sc.linked])
       /\ rows = IF sc.connected
                 THEN Put(Empty, 1, [user |-> sc.user, server |-> sc.server, proto |-> "awg",
                                     client |-> 2, name |-> sc.name, self |-> TRUE])
                 ELSE Empty
       /\ host = [s \in Servers |->
                    IF s # sc.server THEN Empty
                    ELSE Put(Empty, "awg", IF sc.connected THEN Put(Empty, 2, TRUE) ELSE Empty)]
       /\ next = 3
       /\ log = [u \in Users |-> 0] /\ lock = [u \in Users |-> None]
       /\ req = [r \in Reqs |-> Idle] /\ phase = "serving"
       /\ room = [ops |-> sc.ops, faults |-> sc.faults, restarts |-> sc.restarts,
                  slots |-> sc.slots]
       /\ failed = {} /\ overlap = FALSE

-----------------------------------------------------------------------------
(* Requests *)

Busy == {r \in Reqs : req[r].op # "idle"}

Begin(r, rec) ==
    /\ phase = "serving" /\ r \notin Busy /\ \A t \in Reqs : t < r => t \in Busy
    /\ Cardinality(Busy) < room.slots /\ room.ops > 0
    /\ req' = [req EXCEPT ![r] = rec]
    /\ room' = [room EXCEPT !.ops = @ - 1]
    /\ overlap' = (overlap \/ Busy # {})
    /\ UNCHANGED <<phase, failed>>

At(r, op, pc) == req[r].op = op /\ req[r].pc = pc
Goto(r, rec) == req' = [req EXCEPT ![r] = rec]
End(r) == req' = [req EXCEPT ![r] = Idle]

\* A remote call or a database statement fails.
Fault(kind) ==
    /\ room.faults > 0 /\ room' = [room EXCEPT !.faults = @ - 1]
    /\ failed' = failed \cup {kind} /\ UNCHANGED <<phase, overlap>>
NoFault == UNCHANGED runVars

-----------------------------------------------------------------------------
(* The tables *)

RowsOf(u) == {i \in DOMAIN rows : rows[i].user = u}
RowsAt(s) == {i \in DOMAIN rows : rows[i].server = s}
RowsOn(s, p) == {i \in RowsAt(s) : rows[i].proto = p}
RowsWith(s, c) == {i \in RowsAt(s) : rows[i].client = c}

\* CreateConnection: refused by the foreign key when the user is gone.
CreateConnection(u, q, self) ==
    /\ u \in DOMAIN users
    /\ rows' = Put(rows, next, [user |-> u, server |-> q.server, proto |-> q.proto,
                                client |-> q.client, name |-> q.name, self |-> self])
    /\ next' = next + 1

\* DeleteUser: one transaction for the row and everything that refers to it.
DeleteUserRow(u) ==
    /\ users' = Without(users, {u}) /\ rows' = Without(rows, RowsOf(u))
    /\ log' = [log EXCEPT ![u] = 0]

\* UpdateServerProtocols overwrites the whole column, if the server still exists.
UpdateServerProtocols(s, ps) ==
    servers' = IF s \in DOMAIN servers THEN [servers EXCEPT ![s] = ps] ELSE servers

-----------------------------------------------------------------------------
(* The hosts *)

There(s, p) == p \in DOMAIN host[s]
HasClient(row) ==
    There(row.server, row.proto) /\ row.client \in DOMAIN host[row.server][row.proto]

AddClient(s, p) ==
    /\ There(s, p)
    /\ host' = [host EXCEPT ![s][p] = Put(@, next, TRUE)]
    /\ next' = next + 1 /\ UNCHANGED wiped

\* Removing a peer that is not there succeeds; removing such a secret does not.
RemoveClient(s, p, c) ==
    /\ There(s, p) /\ (p = "awg" \/ c \in DOMAIN host[s][p])
    /\ host' = [host EXCEPT ![s][p] = Without(@, {c})] /\ UNCHANGED wiped

RemoveFails(s, p, c) ==
    /\ \/ (~There(s, p) \/ (p # "awg" /\ c \notin DOMAIN host[s][p])) /\ NoFault
       \/ Fault("remote")
    /\ UNCHANGED hostVars

SetClient(s, p, c, on) ==
    IF There(s, p) /\ c \in DOMAIN host[s][p]
    THEN host' = [host EXCEPT ![s][p][c] = on] /\ UNCHANGED wiped
    ELSE UNCHANGED hostVars

\* The clients of an installation that goes away or starts afresh.
Lost(s, p) == IF There(s, p) THEN DOMAIN host[s][p] ELSE {}
Wipe(s, ps) ==
    /\ host' = [host EXCEPT ![s] = Without(@, ps)]
    /\ wiped' = wiped \cup UNION {Lost(s, p) : p \in ps}
=============================================================================
