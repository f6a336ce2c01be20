---------------------------- MODULE PanelUsers ----------------------------
(***************************************************************************)
(* The administrator's user handlers (handlers/users.go), the mass         *)
(* operations behind background work (service/userops) and the RemnaWave   *)
(* synchronisation that calls them (service/remnawave).                    *)
(***************************************************************************)
EXTENDS PanelConnections

\* provisionInitialConnection gives up without the server's row, and does not ask whether
\* the protocol is installed.
Provision(q) == IF q.server \in DOMAIN servers THEN Adding(q.user, q, "add") ELSE Idle

\* AddUserHandler: CreateUser's unique index decides between two of the same name.
AddUser(r, q) ==
    /\ q.user \in Users \ DOMAIN users
    /\ Begin(r, Provision(q))
    /\ users' = Put(users, q.user, [enabled |-> TRUE, linked |-> FALSE])
    /\ UNCHANGED <<servers, hostVars, connVars, lock, next>>

\* ToggleUserHandler: the row first, then the AmneziaWG clients found after it.
ToggleUser(r, u, on) ==
    /\ u \in DOMAIN users
    /\ users' = [users EXCEPT ![u].enabled = on]
    /\ Begin(r, [op |-> "toggle", pc |-> "remote", on |-> on,
                 todo |-> {[server |-> rows[i].server, client |-> rows[i].client] :
                             i \in {j \in RowsOf(u) : rows[j].proto = "awg"}}])
    /\ UNCHANGED <<servers, hostVars, connVars, lock, next>>

\* DeleteUserHandler: every client in turn with errors ignored, then two statements.  A
\* failed read of the connections counts as none.
DeleteUser(r, u) ==
    /\ u \in DOMAIN users
    /\ Begin(r, [op |-> "deluser", pc |-> "read", user |-> u, todo |-> {}])
    /\ UNCHANGED <<servers, hostVars, users, connVars, lock, next>>

DeleteUserRead(r) ==
    LET q == req[r] IN
    /\ At(r, "deluser", "read")
    /\ \/ NoFault /\ Goto(r, [q EXCEPT !.pc = "remote",
                                       !.todo = {rows[i] : i \in RowsOf(q.user)}])
       \/ Fault("db") /\ Goto(r, [q EXCEPT !.pc = "remote"])
    /\ UNCHANGED <<servers, hostVars, users, connVars, lock, next>>

DeleteUserRemote(r) ==
    LET q == req[r] IN
    /\ At(r, "deluser", "remote")
    /\ \E c \in q.todo :
          /\ Goto(r, [q EXCEPT !.todo = @ \ {c}])
          /\ \/ c.server \notin DOMAIN servers /\ NoFault /\ UNCHANGED hostVars
             \/ c.server \in DOMAIN servers /\ RemoveClient(c.server, c.proto, c.client)
                /\ NoFault
             \/ c.server \in DOMAIN servers /\ RemoveFails(c.server, c.proto, c.client)
    /\ UNCHANGED <<servers, users, connVars, lock, next>>

DeleteUserConnections(r) ==
    LET q == req[r] IN
    /\ At(r, "deluser", "remote") /\ q.todo = {}
    /\ \/ NoFault /\ rows' = Without(rows, RowsOf(q.user)) /\ Goto(r, [q EXCEPT !.pc = "user"])
       \/ Fault("db") /\ UNCHANGED rows /\ End(r)
    /\ UNCHANGED <<servers, hostVars, users, log, lock, next>>

DeleteUserLast(r) ==
    /\ At(r, "deluser", "user") /\ End(r)
    /\ \/ NoFault /\ DeleteUserRow(req[r].user)
       \/ Fault("db") /\ UNCHANGED <<users, connVars>>
    /\ UNCHANGED <<servers, hostVars, lock, next>>

-----------------------------------------------------------------------------
(* PerformMassOperations.  del: users to delete; tog: users to switch; dels, togs, news:
   what is left to do per server, in this order within a server; act: what RemnaWave said
   of the users still to be synchronised, and then says what to do next; row, new and user
   are what the statement that follows is about. *)

Mass(del, tog, news, act, then) ==
    [op |-> "mass", pc |-> "group", del |-> del, tog |-> tog, dels |-> Empty, togs |-> {},
     news |-> news, act |-> act, then |-> then, row |-> None, new |-> None, user |-> None]

DelsAt(q, s) == {i \in DOMAIN q.dels : q.dels[i].server = s}
TogsAt(q, s) == {t \in q.togs : t.server = s}

\* UserOps: DeleteUser and ToggleUser, called by the traffic enforcement and background work.
MassDelete(r, u) ==
    /\ u \in DOMAIN users
    /\ Begin(r, Mass({u}, Empty, {}, Empty, "end"))
    /\ UNCHANGED <<servers, hostVars, users, connVars, lock, next>>

MassToggle(r, u, on) ==
    /\ u \in DOMAIN users
    /\ Begin(r, Mass({}, Put(Empty, u, on), {}, Empty, "end"))
    /\ UNCHANGED <<servers, hostVars, users, connVars, lock, next>>

\* The connections are read once; those of users that cannot be read are left out.
MassGroup(r) ==
    LET q == req[r]
        Of(S) == {i \in DOMAIN rows : rows[i].user \in S} IN
    /\ At(r, "mass", "group")
    /\ \/ NoFault
          /\ Goto(r, [q EXCEPT !.pc = "servers", !.dels = [i \in Of(q.del) |-> rows[i]],
                 !.togs = {[server |-> rows[i].server, proto |-> rows[i].proto,
                            client |-> rows[i].client, on |-> q.tog[rows[i].user]] :
                              i \in Of(DOMAIN q.tog)}])
       \/ Fault("db") /\ Goto(r, [q EXCEPT !.pc = "servers"])
    /\ UNCHANGED <<servers, hostVars, users, connVars, lock, next>>

\* Mutant: the worker skips the deletions only.
MassNoServerDeletes(r) ==
    LET q == req[r] IN
    /\ At(r, "mass", "servers")
    /\ \E s \in Servers \ DOMAIN servers :
          /\ DelsAt(q, s) # {} /\ Goto(r, [q EXCEPT !.dels = Without(@, DelsAt(q, s))])
    /\ NoFault /\ UNCHANGED <<servers, hostVars, users, connVars, lock, next>>

\* A server that is gone or cannot be read: the worker returns, and its connections stay
\* as they are.
MassNoServer(r) ==
    LET q == req[r] IN
    /\ At(r, "mass", "servers")
    /\ \E s \in Servers :
          /\ \/ DelsAt(q, s) # {} \/ TogsAt(q, s) # {} \/ \E x \in q.news : x.server = s
          /\ \/ s \notin DOMAIN servers /\ NoFault
             \/ s \in DOMAIN servers /\ Fault("db")
          /\ Goto(r, [q EXCEPT !.dels = Without(@, DelsAt(q, s)), !.togs = @ \ TogsAt(q, s),
                               !.news = {x \in @ : x.server # s}])
    /\ UNCHANGED <<servers, hostVars, users, connVars, lock, next>>

\* Mutant: the row goes even if the client could not be removed.
MassRemoveLax(r) ==
    LET q == req[r] IN
    /\ At(r, "mass", "servers")
    /\ \E i \in DOMAIN q.dels :
          LET c == q.dels[i] IN
          /\ c.server \in DOMAIN servers
          /\ Goto(r, [q EXCEPT !.pc = "row", !.row = i, !.dels = Without(@, {i})])
          /\ \/ RemoveClient(c.server, c.proto, c.client) /\ NoFault
             \/ RemoveFails(c.server, c.proto, c.client)
    /\ UNCHANGED <<servers, users, connVars, lock, next>>

\* RemoveClient; only its success is followed by DeleteConnection.
MassRemove(r) ==
    LET q == req[r] IN
    /\ At(r, "mass", "servers")
    /\ \E i \in DOMAIN q.dels :
          LET c == q.dels[i] IN
          /\ c.server \in DOMAIN servers
          /\ \/ RemoveClient(c.server, c.proto, c.client) /\ NoFault
                /\ Goto(r, [q EXCEPT !.pc = "row", !.row = i, !.dels = Without(@, {i})])
             \/ RemoveFails(c.server, c.proto, c.client)
                /\ Goto(r, [q EXCEPT !.dels = Without(@, {i})])
    /\ UNCHANGED <<servers, users, connVars, lock, next>>

MassDeleteRow(r) ==
    LET q == req[r] IN
    /\ At(r, "mass", "row") /\ Goto(r, [q EXCEPT !.pc = "servers", !.row = None])
    /\ \/ NoFault /\ rows' = Without(rows, {q.row})
       \/ Fault("db") /\ UNCHANGED rows
    /\ UNCHANGED <<servers, hostVars, users, log, lock, next>>

MassSetClient(r) ==
    LET q == req[r] IN
    /\ At(r, "mass", "servers")
    /\ \E t \in q.togs :
          /\ t.server \in DOMAIN servers /\ DelsAt(q, t.server) = {}
          /\ Goto(r, [q EXCEPT !.togs = @ \ {t}])
          /\ \/ SetClient(t.server, t.proto, t.client, t.on) /\ NoFault
             \/ Fault("remote") /\ UNCHANGED hostVars
    /\ UNCHANGED <<servers, users, connVars, lock, next>>

MassAddClient(r) ==
    LET q == req[r] IN
    /\ At(r, "mass", "servers")
    /\ \E x \in q.news :
          /\ x.server \in DOMAIN servers
          /\ DelsAt(q, x.server) = {} /\ TogsAt(q, x.server) = {}
          /\ \/ AddClient(x.server, x.proto) /\ NoFault
                /\ Goto(r, [q EXCEPT !.pc = "save", !.new = [x EXCEPT !.client = next],
                                     !.news = @ \ {x}])
             \/ (\/ ~There(x.server, x.proto) /\ NoFault
                 \/ Fault("remote"))
                /\ UNCHANGED <<hostVars, next>> /\ Goto(r, [q EXCEPT !.news = @ \ {x}])
    /\ UNCHANGED <<servers, users, connVars, lock>>

MassSaveClient(r) ==
    LET q == req[r] IN
    /\ At(r, "mass", "save") /\ Goto(r, [q EXCEPT !.pc = "servers", !.new = None])
    /\ \/ CreateConnection(q.new.user, q.new, FALSE) /\ NoFault
       \/ (\/ q.new.user \notin DOMAIN users /\ NoFault
           \/ Fault("db"))
          /\ UNCHANGED <<rows, next>>
    /\ UNCHANGED <<servers, hostVars, users, log, lock>>

\* The user level: a user with connections left is kept.  A failed read shows none.
MassCheckUser(r) ==
    LET q == req[r] IN
    /\ At(r, "mass", "servers") /\ DOMAIN q.dels = {} /\ q.togs = {} /\ q.news = {}
    /\ \E u \in q.del :
          \/ RowsOf(u) # {} /\ NoFault /\ Goto(r, [q EXCEPT !.del = @ \ {u}])
          \/ RowsOf(u) = {} /\ NoFault
             /\ Goto(r, [q EXCEPT !.pc = "user", !.user = u, !.del = @ \ {u}])
          \/ RowsOf(u) # {} /\ Fault("db")
             /\ Goto(r, [q EXCEPT !.pc = "user", !.user = u, !.del = @ \ {u}])
    /\ UNCHANGED <<servers, hostVars, users, connVars, lock, next>>

MassDeleteUser(r) ==
    LET q == req[r] IN
    /\ At(r, "mass", "user") /\ Goto(r, [q EXCEPT !.pc = "servers", !.user = None])
    /\ \/ NoFault /\ DeleteUserRow(q.user)
       \/ Fault("db") /\ UNCHANGED <<users, connVars>>
    /\ UNCHANGED <<servers, hostVars, lock, next>>

MassSwitchUser(r) ==
    LET q == req[r] IN
    /\ At(r, "mass", "servers") /\ DOMAIN q.dels = {} /\ q.togs = {} /\ q.news = {} /\ q.del = {}
    /\ \E u \in DOMAIN q.tog :
          /\ Goto(r, [q EXCEPT !.tog = Without(@, {u})])
          /\ \/ NoFault /\ users' = IF u \in DOMAIN users
                                     THEN [users EXCEPT ![u].enabled = q.tog[u]] ELSE users
             \/ Fault("db") /\ UNCHANGED users
    /\ UNCHANGED <<servers, hostVars, connVars, lock, next>>

MassDone(r) ==
    LET q == req[r] IN
    /\ At(r, "mass", "servers") /\ DOMAIN q.dels = {} /\ q.togs = {} /\ q.news = {}
    /\ q.del = {} /\ DOMAIN q.tog = {}
    /\ IF q.then = "end" THEN End(r) ELSE Goto(r, [q EXCEPT !.pc = "sync"])
    /\ NoFault /\ UNCHANGED <<servers, hostVars, users, connVars, lock, next>>

-----------------------------------------------------------------------------
(* Syncer.Sync.  act is RemnaWave's answer: the users it has, and whether each is active.
   First the linked users it no longer has are deleted, then each of its users is updated
   or created, then the collected switches and new connections are carried out. *)

reconcileDeletedUsers(act) == {u \in DOMAIN users : users[u].linked /\ u \notin DOMAIN act}

Sync(r, act) ==
    /\ Begin(r, Mass(reconcileDeletedUsers(act), Empty, {}, act, "sync"))
    /\ UNCHANGED <<servers, hostVars, users, connVars, lock, next>>

\* syncExistingUser and createNewUser, for one user; q.tog and q.news collect the rest.
\* new: the connection the settings ask for, if they do.
SyncUser(r, new) ==
    LET q == req[r] IN
    /\ At(r, "mass", "sync")
    /\ \E u \in DOMAIN q.act :
          \/ /\ u \in DOMAIN users
             /\ Goto(r, [q EXCEPT !.act = Without(@, {u}),
                                  !.tog = IF users[u].enabled # q.act[u]
                                          THEN Put(@, u, q.act[u]) ELSE @])
             /\ \/ NoFault /\ users' = [users EXCEPT ![u].linked = TRUE]
                \/ Fault("db") /\ UNCHANGED users
          \/ /\ u \notin DOMAIN users /\ NoFault
             /\ users' = Put(users, u, [enabled |-> q.act[u], linked |-> TRUE])
             /\ Goto(r, [q EXCEPT !.act = Without(@, {u}),
                                  !.news = @ \cup {[x EXCEPT !.user = u] : x \in new}])
          \/ /\ u \notin DOMAIN users /\ Fault("db") /\ UNCHANGED users
             /\ Goto(r, [q EXCEPT !.act = Without(@, {u})])
    /\ UNCHANGED <<servers, hostVars, connVars, lock, next>>

SyncMass(r) ==
    LET q == req[r] IN
    /\ At(r, "mass", "sync") /\ DOMAIN q.act = {}
    /\ Goto(r, Mass({}, q.tog, q.news, q.act, "end")) /\ NoFault
    /\ UNCHANGED <<servers, hostVars, users, connVars, lock, next>>

UserStep(r) ==
    \/ DeleteUserRead(r) \/ DeleteUserRemote(r) \/ DeleteUserConnections(r) \/ DeleteUserLast(r)
    \/ MassGroup(r) \/ MassNoServer(r) \/ MassRemove(r) \/ MassDeleteRow(r) \/ MassSetClient(r)
    \/ MassAddClient(r) \/ MassSaveClient(r)
    \/ MassCheckUser(r) \/ MassDeleteUser(r) \/ MassSwitchUser(r) \/ MassDone(r)
    \/ SyncMass(r)
=============================================================================
