--------------------------- MODULE PanelServers ---------------------------
(***************************************************************************)
(* The server handlers that change rows or hosts (handlers/servers.go) and *)
(* the reconciliation at startup (service/reconciliation).  A handler      *)
(* reads the server's row, works on the host, and writes the protocols it  *)
(* read, changed, back as a whole.                                         *)
(***************************************************************************)
EXTENDS PanelStore

\* DeleteServerHandler leaves the host alone; DeleteServer deletes the rows once more.
DeleteServer(r, s) ==
    /\ s \in DOMAIN servers
    /\ Begin(r, [op |-> "delserver", pc |-> "rows", server |-> s])
    /\ UNCHANGED <<servers, hostVars, users, connVars, lock, next>>

DeleteServerConnections(r) ==
    LET q == req[r] IN
    /\ At(r, "delserver", "rows")
    /\ \/ NoFault /\ rows' = Without(rows, RowsAt(q.server)) /\ Goto(r, [q EXCEPT !.pc = "server"])
       \/ Fault("db") /\ UNCHANGED rows /\ End(r)
    /\ UNCHANGED <<servers, hostVars, users, log, lock, next>>

DeleteServerLast(r) ==
    LET s == req[r].server IN
    /\ At(r, "delserver", "server") /\ End(r)
    /\ \/ NoFault /\ servers' = Without(servers, {s}) /\ rows' = Without(rows, RowsAt(s))
       \/ Fault("db") /\ UNCHANGED <<servers, rows>>
    /\ UNCHANGED <<hostVars, users, log, lock, next>>

\* ClearServerHandler removes containers and /opt/amnezia; MTProxyL lives elsewhere.
ClearServer(r, s) ==
    /\ s \in DOMAIN servers
    /\ Begin(r, [op |-> "clear", pc |-> "remote", server |-> s])
    /\ UNCHANGED <<servers, hostVars, users, connVars, lock, next>>

ClearRemote(r) ==
    LET q == req[r] IN
    /\ At(r, "clear", "remote")
    /\ \/ Wipe(q.server, {"awg"}) /\ NoFault /\ Goto(r, [q EXCEPT !.pc = "rows"])
       \/ (Wipe(q.server, {"awg"}) \/ UNCHANGED hostVars) /\ Fault("remote") /\ End(r)
    /\ UNCHANGED <<servers, users, connVars, lock, next>>

ClearConnections(r) ==
    LET q == req[r] IN
    /\ At(r, "clear", "rows")
    /\ \/ NoFault /\ rows' = Without(rows, RowsAt(q.server)) /\ Goto(r, [q EXCEPT !.pc = "write"])
       \/ Fault("db") /\ UNCHANGED rows /\ End(r)
    /\ UNCHANGED <<servers, hostVars, users, log, lock, next>>

ClearProtocols(r) ==
    /\ At(r, "clear", "write") /\ End(r)
    /\ \/ NoFault /\ UpdateServerProtocols(req[r].server, {})
       \/ Fault("db") /\ UNCHANGED servers
    /\ UNCHANGED <<hostVars, users, connVars, lock, next>>

\* InstallProtocolHandler.  AmneziaWG starts from an empty container, whatever was there;
\* MTProxyL keeps its secrets.  A failure may come before or after the old one is gone.
Install(r, s, p) ==
    /\ s \in DOMAIN servers
    /\ Begin(r, [op |-> "install", pc |-> "remote", server |-> s, proto |-> p,
                 copy |-> servers[s]])
    /\ UNCHANGED <<servers, hostVars, users, connVars, lock, next>>

InstallRemote(r) ==
    LET q == req[r]
        kept == IF q.proto = "awg" \/ ~There(q.server, q.proto)
                THEN Empty ELSE host[q.server][q.proto] IN
    /\ At(r, "install", "remote")
    /\ \/ /\ host' = [host EXCEPT ![q.server] = Put(@, q.proto, kept)]
          /\ wiped' = wiped \cup (Lost(q.server, q.proto) \ DOMAIN kept)
          /\ Goto(r, [q EXCEPT !.pc = "write"]) /\ NoFault
       \/ /\ (q.proto = "awg" /\ Wipe(q.server, {"awg"})) \/ UNCHANGED hostVars
          /\ Fault("remote") /\ End(r)
    /\ UNCHANGED <<servers, users, connVars, lock, next>>

InstallWrite(r) ==
    LET q == req[r] IN
    /\ At(r, "install", "write") /\ End(r)
    /\ \/ NoFault /\ UpdateServerProtocols(q.server, q.copy \cup {q.proto})
       \/ Fault("db") /\ UNCHANGED servers
    /\ UNCHANGED <<hostVars, users, connVars, lock, next>>

\* UninstallProtocolHandler ignores every error.  MTProxyL is only stopped.
Uninstall(r, s, p) ==
    /\ s \in DOMAIN servers
    /\ Begin(r, [op |-> "uninstall", pc |-> "remote", server |-> s, proto |-> p,
                 copy |-> servers[s]])
    /\ UNCHANGED <<servers, hostVars, users, connVars, lock, next>>

UninstallRemote(r) ==
    LET q == req[r] IN
    /\ At(r, "uninstall", "remote") /\ Goto(r, [q EXCEPT !.pc = "write"])
    /\ \/ NoFault /\ Wipe(q.server, {q.proto} \cap {"awg"})
       \/ Fault("remote") /\ UNCHANGED hostVars
    /\ UNCHANGED <<servers, users, connVars, lock, next>>

UninstallWrite(r) ==
    LET q == req[r] IN
    /\ At(r, "uninstall", "write") /\ Goto(r, [q EXCEPT !.pc = "rows"])
    /\ \/ NoFault /\ UpdateServerProtocols(q.server, q.copy \ {q.proto})
       \/ Fault("db") /\ UNCHANGED servers
    /\ UNCHANGED <<hostVars, users, connVars, lock, next>>

UninstallConnections(r) ==
    LET q == req[r] IN
    /\ At(r, "uninstall", "rows") /\ End(r)
    /\ \/ NoFault /\ rows' = Without(rows, RowsOn(q.server, q.proto))
       \/ Fault("db") /\ UNCHANGED rows
    /\ UNCHANGED <<servers, hostVars, users, log, lock, next>>

\* SetAWGSpeedLimitConfigHandler: an entry of the protocols it read changes, none is added.
SetSpeedLimits(r, s) ==
    /\ s \in DOMAIN servers /\ "awg" \in servers[s]
    /\ Begin(r, [op |-> "install", pc |-> "write", server |-> s, proto |-> "awg",
                 copy |-> servers[s]])
    /\ UNCHANGED <<servers, hostVars, users, connVars, lock, next>>

ServerStep(r) ==
    \/ DeleteServerConnections(r) \/ DeleteServerLast(r)
    \/ ClearRemote(r) \/ ClearConnections(r) \/ ClearProtocols(r)
    \/ InstallRemote(r) \/ InstallWrite(r)
    \/ UninstallRemote(r) \/ UninstallWrite(r) \/ UninstallConnections(r)

-----------------------------------------------------------------------------
(* The process ends, in order or not, and starts again: CleanupStaleProtocols runs before
   anything is served.  A host may meanwhile lose an installation. *)

Restart(s, p) ==
    /\ room.restarts > 0 /\ room' = [room EXCEPT !.restarts = @ - 1]
    /\ phase' = "boot" /\ req' = [r \in Reqs |-> Idle] /\ lock' = [u \in Users |-> None]
    /\ failed' = IF Busy = {} THEN failed ELSE failed \cup {"restart"}
    /\ Wipe(s, {p}) \/ UNCHANGED hostVars
    /\ UNCHANGED <<servers, users, connVars, next, overlap>>

Unlisted == {i \in DOMAIN rows : /\ rows[i].server \in DOMAIN servers
                                 /\ rows[i].proto \notin servers[rows[i].server]}

\* cleanupPhase1DBOnly; a failing statement skips a server or a protocol.
CleanupPhase1 ==
    /\ phase = "boot"
    /\ \/ rows' = Without(rows, Unlisted) /\ phase' = "phase2" /\ UNCHANGED <<room, failed>>
       \/ /\ room.faults > 0 /\ room' = [room EXCEPT !.faults = @ - 1]
          /\ failed' = failed \cup {"db"} /\ phase' = "phase2 partly"
          /\ \E S \in SUBSET Unlisted : rows' = Without(rows, S)
    /\ UNCHANGED <<servers, hostVars, users, log, lock, req, next, overlap>>

\* Only a status that says the installation is missing makes a protocol stale; a server
\* that does not answer (one not in up) keeps everything.
isProtocolStale(s, p, up) == s \in up /\ ~There(s, p)

\* Mutant: a server that does not answer counts as one without clients.
CleanupPhase2Silent ==
    /\ phase \in {"phase2", "phase2 partly"} /\ phase' = "serving"
    /\ rows' = Empty /\ servers' = [s \in DOMAIN servers |-> {}]
    /\ UNCHANGED <<hostVars, users, log, lock, req, next, room, failed, overlap>>

\* cleanupPhase2Remote.  Errors of its two statements are ignored.
CleanupPhase2 ==
    /\ phase \in {"phase2", "phase2 partly"} /\ phase' = "serving"
    /\ \E up \in SUBSET DOMAIN servers :
         LET stale == [s \in DOMAIN servers |-> {p \in servers[s] : isProtocolStale(s, p, up)}]
             gone == {i \in DOMAIN rows : /\ rows[i].server \in DOMAIN servers
                                          /\ rows[i].proto \in stale[rows[i].server]}
             listed == [s \in DOMAIN servers |-> servers[s] \ stale[s]]
         IN \/ /\ rows' = Without(rows, gone) /\ servers' = listed
               /\ UNCHANGED <<room, failed>>
            \/ /\ listed # servers /\ room.faults > 0
               /\ room' = [room EXCEPT !.faults = @ - 1] /\ failed' = failed \cup {"db"}
               /\ \/ UNCHANGED rows /\ servers' = listed
                  \/ rows' = Without(rows, gone) /\ UNCHANGED servers
    /\ UNCHANGED <<hostVars, users, log, lock, req, next, overlap>>
=============================================================================
