------------------------- MODULE PanelConnections -------------------------
(***************************************************************************)
(* The connection handlers: a user's own (handlers/connections.go) and the *)
(* administrator's (handlers/server_connections.go, the connection part of *)
(* handlers/users.go).                                                     *)
(***************************************************************************)
EXTENDS PanelStore

\* The limits of a user who passed the first checks, as the handler reads them.
WithinLimits(u) == Cardinality(RowsOf(u)) < MaxConnections /\ log[u] < RateCount
NameFree(u, n) == \A i \in RowsOf(u) : rows[i].name # n

(* UserAddConnectionHandler.  It holds the user's mutex from the start to every return. *)
SelfAdd(r, q) ==
    /\ Begin(r, [op |-> "selfadd", pc |-> "lock", user |-> q.user, server |-> q.server,
                 proto |-> q.proto, name |-> q.name, client |-> None])
    /\ UNCHANGED <<servers, hostVars, users, connVars, lock, next>>

\* A failed read of the connections counts as none, of the log as no creations.
SelfAddChecks(q) ==
    /\ q.user \in DOMAIN users /\ users[q.user].enabled
    /\ q.server \in DOMAIN servers /\ q.proto \in servers[q.server]

\* Mutant: the limits are checked without the lock of the user.
SelfAddLockUnlocked(r) ==
    LET q == req[r] IN
    /\ At(r, "selfadd", "lock")
    /\ SelfAddChecks(q) /\ WithinLimits(q.user) /\ NameFree(q.user, q.name)
    /\ Goto(r, [q EXCEPT !.pc = "add"]) /\ NoFault
    /\ UNCHANGED <<servers, hostVars, users, connVars, lock, next>>

SelfAddLock(r) ==
    LET q == req[r] IN
    /\ At(r, "selfadd", "lock") /\ lock[q.user] = None
    /\ \/ SelfAddChecks(q) /\ WithinLimits(q.user) /\ NameFree(q.user, q.name) /\ NoFault
          /\ lock' = [lock EXCEPT ![q.user] = r] /\ Goto(r, [q EXCEPT !.pc = "add"])
       \/ SelfAddChecks(q) /\ Fault("db")
          /\ lock' = [lock EXCEPT ![q.user] = r] /\ Goto(r, [q EXCEPT !.pc = "add"])
       \/ ~(SelfAddChecks(q) /\ WithinLimits(q.user) /\ NameFree(q.user, q.name))
          /\ NoFault /\ UNCHANGED lock /\ End(r)
    /\ UNCHANGED <<servers, hostVars, users, connVars, next>>

Unlock(u) == lock' = [lock EXCEPT ![u] = None]

\* The remote call; its failure ends the request.
SelfAddClient(r) ==
    LET q == req[r] IN
    /\ At(r, "selfadd", "add")
    /\ \/ AddClient(q.server, q.proto) /\ NoFault /\ UNCHANGED lock
          /\ Goto(r, [q EXCEPT !.pc = "save", !.client = next])
       \/ (\/ ~There(q.server, q.proto) /\ NoFault
           \/ Fault("remote"))
          /\ End(r) /\ Unlock(q.user) /\ UNCHANGED <<hostVars, next>>
    /\ UNCHANGED <<servers, users, connVars>>

\* CreateConnection and LogConnectionCreation; the second may fail alone.
SelfAddSave(r) ==
    LET q == req[r] IN
    /\ At(r, "selfadd", "save") /\ End(r) /\ Unlock(q.user)
    /\ \/ CreateConnection(q.user, q, TRUE)
          /\ \/ NoFault /\ log' = [log EXCEPT ![q.user] = @ + 1]
             \/ Fault("db") /\ UNCHANGED log
       \/ (\/ q.user \notin DOMAIN users /\ NoFault
           \/ Fault("db"))
          /\ UNCHANGED <<connVars, next>>
    /\ UNCHANGED <<servers, hostVars, users>>

\* UserRenameConnectionHandler: ownership and duplicates are read, then the row written.
SelfRename(r, i, n) ==
    /\ i \in DOMAIN rows /\ \A j \in RowsOf(rows[i].user) \ {i} : rows[j].name # n
    /\ Begin(r, [op |-> "rename", pc |-> "write", row |-> i, name |-> n])
    /\ UNCHANGED <<servers, hostVars, users, connVars, lock, next>>

SelfRenameWrite(r) ==
    LET q == req[r] IN
    /\ At(r, "rename", "write") /\ End(r)
    /\ \/ NoFault /\ rows' = IF q.row \in DOMAIN rows
                              THEN [rows EXCEPT ![q.row].name = q.name] ELSE rows
       \/ Fault("db") /\ UNCHANGED rows
    /\ UNCHANGED <<servers, hostVars, users, log, lock, next>>

-----------------------------------------------------------------------------
(* Removal: the user's own handler ignores a failed remote call, the administrator's
   keeps the row. *)

\* UserDeleteConnectionHandler
SelfDelete(r, i) ==
    /\ i \in DOMAIN rows
    /\ Begin(r, [op |-> "selfdelete", pc |-> "remote", row |-> i, conn |-> rows[i]])
    /\ UNCHANGED <<servers, hostVars, users, connVars, lock, next>>

SelfDeleteRemote(r) ==
    LET q == req[r]
        c == q.conn IN
    /\ At(r, "selfdelete", "remote") /\ Goto(r, [q EXCEPT !.pc = "row"])
    /\ \/ c.server \notin DOMAIN servers /\ NoFault /\ UNCHANGED hostVars
       \/ c.server \in DOMAIN servers /\ RemoveClient(c.server, c.proto, c.client) /\ NoFault
       \/ c.server \in DOMAIN servers /\ RemoveFails(c.server, c.proto, c.client)
    /\ UNCHANGED <<servers, users, connVars, lock, next>>

SelfDeleteRow(r) ==
    /\ At(r, "selfdelete", "row") /\ End(r)
    /\ \/ NoFault /\ rows' = Without(rows, {req[r].row})
       \/ Fault("db") /\ UNCHANGED rows
    /\ UNCHANGED <<servers, hostVars, users, log, lock, next>>

\* RemoveServerConnectionHandler
RemoveConnection(r, s, p, c) ==
    /\ s \in DOMAIN servers
    /\ Begin(r, [op |-> "remove", pc |-> "remote", server |-> s, proto |-> p, client |-> c])
    /\ UNCHANGED <<servers, hostVars, users, connVars, lock, next>>

RemoveConnectionRemote(r) ==
    LET q == req[r] IN
    /\ At(r, "remove", "remote")
    /\ \/ RemoveClient(q.server, q.proto, q.client) /\ NoFault
          /\ Goto(r, [q EXCEPT !.pc = "row"])
       \/ RemoveFails(q.server, q.proto, q.client) /\ End(r)
    /\ UNCHANGED <<servers, users, connVars, lock, next>>

\* Mutant: the row stays.
RemoveConnectionRowKept(r) ==
    /\ At(r, "remove", "row") /\ End(r) /\ NoFault
    /\ UNCHANGED <<rows, servers, hostVars, users, log, lock, next>>

RemoveConnectionRow(r) ==
    LET q == req[r] IN
    /\ At(r, "remove", "row") /\ End(r)
    /\ \/ NoFault /\ rows' = Without(rows, RowsWith(q.server, q.client))
       \/ Fault("db") /\ UNCHANGED rows
    /\ UNCHANGED <<servers, hostVars, users, log, lock, next>>

-----------------------------------------------------------------------------
(* The administrator's additions: none looks at the limits, only the first two handlers'
   server rows are consulted, and a row that cannot be written leaves its client behind. *)

Adding(u, q, at) ==
    [op |-> "adminadd", pc |-> at, user |-> u, server |-> q.server, proto |-> q.proto,
     name |-> q.name, client |-> q.client]

\* AddServerConnectionHandler, for a user or for nobody (q.user = None).
AddServerConnection(r, q) ==
    /\ q.server \in DOMAIN servers /\ q.proto \in servers[q.server]
    /\ Begin(r, Adding(q.user, q, "add"))
    /\ UNCHANGED <<servers, hostVars, users, connVars, lock, next>>

\* AddUserConnectionHandler, for a new client or for one the host already has.
AddUserConnection(r, q) ==
    /\ q.user \in DOMAIN users /\ q.server \in DOMAIN servers
    /\ Begin(r, Adding(q.user, q, IF q.client = None THEN "add" ELSE "save"))
    /\ UNCHANGED <<servers, hostVars, users, connVars, lock, next>>

AdminAddClient(r) ==
    LET q == req[r] IN
    /\ At(r, "adminadd", "add")
    /\ \/ AddClient(q.server, q.proto) /\ NoFault
          /\ Goto(r, [q EXCEPT !.pc = "save", !.client = next])
       \/ (\/ ~There(q.server, q.proto) /\ NoFault
           \/ Fault("remote"))
          /\ End(r) /\ UNCHANGED <<hostVars, next>>
    /\ UNCHANGED <<servers, users, connVars, lock>>

AdminAddSave(r) ==
    LET q == req[r] IN
    /\ At(r, "adminadd", "save") /\ End(r)
    /\ \/ CreateConnection(q.user, q, FALSE) /\ NoFault
       \/ (\/ q.user \notin DOMAIN users /\ NoFault
           \/ q.user # None /\ Fault("db"))
          /\ UNCHANGED <<rows, next>>
    /\ UNCHANGED <<servers, hostVars, users, log, lock>>

-----------------------------------------------------------------------------
(* EditServerConnectionHandler: the row of the client is looked up, then bound to a user,
   released (q.user = None) or renamed (q.user = "same").  ToggleServerConnectionHandler:
   one remote call, for AmneziaWG only. *)

EditConnection(r, q) ==
    /\ q.server \in DOMAIN servers
    /\ LET match == {i \in RowsOn(q.server, q.proto) : rows[i].client = q.client} IN
       \E m \in IF match = {} THEN {None} ELSE match :
          Begin(r, [op |-> "edit", pc |-> "write", match |-> m, user |-> q.user, server |-> q.server,
                    proto |-> q.proto, client |-> q.client, name |-> q.name])
    /\ UNCHANGED <<servers, hostVars, users, connVars, lock, next>>

EditBinding(q) ==
    CASE q.user = None -> rows' = Without(rows, {q.match}) /\ UNCHANGED next
      [] q.user = "same" -> /\ rows' = IF q.match \in DOMAIN rows
                                       THEN [rows EXCEPT ![q.match].name = q.name] ELSE rows
                            /\ UNCHANGED next
      [] q.user \in Users /\ q.match = None -> CreateConnection(q.user, q, FALSE)
      [] q.user \in Users /\ q.match # None ->
            /\ q.match \in DOMAIN rows => q.user \in DOMAIN users
            /\ rows' = IF q.match \in DOMAIN rows
                       THEN [rows EXCEPT ![q.match].user = q.user, ![q.match].name = q.name,
                                         ![q.match].self = FALSE]
                       ELSE rows
            /\ UNCHANGED next

EditWrite(r) ==
    LET q == req[r] IN
    /\ At(r, "edit", "write") /\ End(r)
    /\ \/ EditBinding(q) /\ NoFault
       \/ (\/ q.user \in Users \ DOMAIN users /\ NoFault
           \/ Fault("db"))
          /\ UNCHANGED <<rows, next>>
    /\ UNCHANGED <<servers, hostVars, users, log, lock>>

ToggleConnection(r, s, c, on) ==
    /\ s \in DOMAIN servers
    /\ Begin(r, [op |-> "toggle", pc |-> "remote", todo |-> {[server |-> s, client |-> c]},
                 on |-> on])
    /\ UNCHANGED <<servers, hostVars, users, connVars, lock, next>>

\* ToggleClient for one AmneziaWG client; errors are ignored.
ToggleRemote(r) ==
    LET q == req[r] IN
    /\ At(r, "toggle", "remote")
    /\ \E x \in q.todo :
          /\ Goto(r, [q EXCEPT !.todo = @ \ {x}])
          /\ \/ NoFault /\ IF x.server \in DOMAIN servers
                            THEN SetClient(x.server, "awg", x.client, q.on)
                            ELSE UNCHANGED hostVars
             \/ Fault("remote") /\ UNCHANGED hostVars
    /\ UNCHANGED <<servers, users, connVars, lock, next>>

ToggleDone(r) ==
    /\ At(r, "toggle", "remote") /\ req[r].todo = {} /\ End(r) /\ NoFault
    /\ UNCHANGED <<servers, hostVars, users, connVars, lock, next>>

ConnectionStep(r) ==
    \/ SelfAddLock(r) \/ SelfAddClient(r) \/ SelfAddSave(r)
    \/ SelfRenameWrite(r) \/ SelfDeleteRemote(r) \/ SelfDeleteRow(r)
    \/ RemoveConnectionRemote(r) \/ RemoveConnectionRow(r)
    \/ AdminAddClient(r) \/ AdminAddSave(r) \/ EditWrite(r)
    \/ ToggleRemote(r) \/ ToggleDone(r)
=============================================================================
