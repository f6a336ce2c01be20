----------------------------- MODULE Reachability -----------------------------
(***************************************************************************)
(* Two tasks of the background orchestrator that look at one server:       *)
(* check_server_reachability (reachability.go), which probes it with an    *)
(* AmneziaWG handshake and then with a TCP connection and keeps a client   *)
(* of its own there for the handshake, and check_auto_trial_handshakes     *)
(* (autotrial.go), which gives a client without handshakes another mimicry *)
(* profile.  RunAll runs them one after the other; servers do not meet.    *)
(*                                                                         *)
(* An operation of the AWG manager is one step; its commands, and two      *)
(* managers at a time, are the subject of AWGManager.                      *)
(***************************************************************************)
EXTENDS Naturals, FiniteSets

CONSTANTS
    MaxFailures,    \* bound: operations that fail by chance
    MaxEvents       \* bound: events of the network, the operator and the panel

ASSUME ReachabilityAssumption ==
    {MaxFailures, MaxEvents} \subseteq Nat

\* The clients AddClient makes for the probe are numbered; 0 is none.
NoClient == 0
Profiles == {"auto", "tls", "quic", "dns", "sip"}

VARIABLES
    tcpOpen, udpOpen,   \* whether the ports for SSH and AmneziaWG can be reached
    stalled,            \* whether the latest handshake of the client is over 180 s old, or none
    made,               \* the last probe client made
    peers,              \* probe clients in awg0.conf of the server
    listed,             \* those that clientsTable has too
    profile,            \* of the client in clientsTable, "none" without it
    rowProfile,         \* user_connections.awg_mimicry of its row
    keys,               \* healthProbeKeys of the server
    reachStatus,        \* DB.reachabilityCache of the server
    results,            \* Orchestrator.reachabilityCache: the protocol that answered
    task,               \* where RunAll stands, and its local variables
    excess,             \* history: additions without sight of the table, or cut short
    rotation,           \* RotateMimicryHandler: "idle", or the profile to be saved
    failures, events

probeVars == <<made, peers, listed, excess>>
serverVars == <<probeVars, profile>>
envVars == <<tcpOpen, udpOpen, stalled, events>>
reachVars == <<envVars, serverVars, rowProfile, keys, reachStatus, results, task,
               rotation, failures>>

NoKeys == [priv |-> NoClient, pub |-> FALSE, psk |-> FALSE]
Idle == [at |-> "idle", keys |-> NoKeys, blind |-> FALSE, next |-> "none"]

Steps == {"keys", "pub", "psk", "client", "add", "cache", "handshake", "tcp",
          "conns", "ages", "rotate", "row"}

\* Types.
ReachTypeOK ==
    /\ {tcpOpen, udpOpen, stalled} \subseteq BOOLEAN
    /\ listed \subseteq peers /\ peers \subseteq 1 .. made /\ made \in Nat
    /\ {profile, rowProfile} \subseteq Profiles \cup {"none"}
    /\ {keys, task.keys} \subseteq [priv : 0 .. made, pub : BOOLEAN, psk : BOOLEAN]
    /\ reachStatus \in {"unknown", "online", "offline"}
    /\ results \in {"none", "awg", "tcp", "unreachable", "panicked"}
    /\ task.at \in {"idle"} \cup Steps /\ task.blind \in BOOLEAN
    /\ task.next \in Profiles \cup {"none"} /\ excess \in Nat
    /\ rotation \in Profiles \cup {"idle"}
    /\ failures \in 0 .. MaxFailures /\ events \in 0 .. MaxEvents

ReachInit ==
    /\ tcpOpen \in BOOLEAN /\ udpOpen \in BOOLEAN /\ stalled \in BOOLEAN
    /\ made = 0 /\ peers = {} /\ listed = {} /\ excess = 0 /\ profile = "auto" /\ rowProfile = "auto"
    /\ keys = NoKeys /\ reachStatus = "unknown" /\ results = "none"
    /\ task = Idle /\ rotation = "idle" /\ failures = 0 /\ events = 0

\* An operation fails for want of a connection, or by chance.
OneFailure == failures < MaxFailures /\ failures' = failures + 1
Fails == \/ ~ tcpOpen /\ UNCHANGED failures
         \/ OneFailure
Works == tcpOpen /\ UNCHANGED failures

TaskAt(p) == task.at = p
TaskGoto(p) == task' = [task EXCEPT !.at = p]
Learn(p, k) == task' = [task EXCEPT !.at = p, !.keys = k]

-----------------------------------------------------------------------------
(***************************************************************************)
(* probeSingleServer: the keys.                                            *)
(***************************************************************************)

\* GetAllServers; without the list the task ends and the next one begins.
CheckServerReachability ==
    /\ TaskAt("idle")
    /\ \/ TaskGoto("keys") /\ UNCHANGED failures
       \/ OneFailure /\ TaskGoto("conns")
    /\ UNCHANGED <<envVars, serverVars, rowProfile, keys, reachStatus, results, rotation>>

\* resolveAWGProbeKeys: what the row of the server or the cache has.  The
\* row may have the public key and never the secrets.
ResolveAWGProbeKeys ==
    /\ TaskAt("keys")
    /\ \E inRow \in BOOLEAN :
         LET k == [keys EXCEPT !.pub = @ \/ inRow] IN
         Learn(IF ~ k.pub \/ k.priv = NoClient THEN "pub" ELSE "handshake", k)
    /\ UNCHANGED <<envVars, serverVars, rowProfile, keys, reachStatus, results, rotation, failures>>

\* provisionMissingProbeKeys: GetServerPublicKey and GetServerPSK, each only
\* for what is missing.
GetServerPublicKey ==
    /\ TaskAt("pub")
    /\ \/ task.keys.pub /\ TaskGoto("psk") /\ UNCHANGED failures
       \/ ~ task.keys.pub /\ Works /\ Learn("psk", [task.keys EXCEPT !.pub = TRUE])
       \/ ~ task.keys.pub /\ Fails /\ TaskGoto("psk")
    /\ UNCHANGED <<envVars, serverVars, rowProfile, keys, reachStatus, results, rotation>>

GetServerPSK ==
    /\ TaskAt("psk")
    /\ LET p == IF task.keys.priv = NoClient THEN "client" ELSE "cache" IN
       \/ task.keys.psk /\ TaskGoto(p) /\ UNCHANGED failures
       \/ ~ task.keys.psk /\ Works /\ Learn(p, [task.keys EXCEPT !.psk = TRUE])
       \/ ~ task.keys.psk /\ Fails /\ TaskGoto(p)
    /\ UNCHANGED <<envVars, serverVars, rowProfile, keys, reachStatus, results, rotation>>

\* resolveOrCreateHealthProbeClient: a client of that name is used.  A table
\* that cannot be read counts as an empty one.
FindHealthProbeClient ==
    /\ TaskAt("client")
    /\ \/ \E c \in listed : Works /\ Learn("cache", [task.keys EXCEPT !.priv = c])
       \/ listed = {} /\ Works /\ TaskGoto("add")
       \/ Fails /\ task' = [task EXCEPT !.at = "add", !.blind = TRUE]
    /\ UNCHANGED <<envVars, serverVars, rowProfile, keys, reachStatus, results, rotation>>

\* AddClient writes the configuration and then the table; it may fail before
\* the first, between them, and after both.
AddHealthProbeClient ==
    /\ TaskAt("add")
    /\ \/ /\ made' = made + 1 /\ peers' = peers \cup {made'}
          /\ \/ /\ Works /\ listed' = listed \cup {made'}
                /\ Learn("cache", [task.keys EXCEPT !.priv = made'])
             \/ /\ tcpOpen /\ OneFailure /\ listed' \in {listed, listed \cup {made'}}
                /\ TaskGoto("cache")
          /\ excess' = IF task.blind \/ listed' = listed THEN excess + 1 ELSE excess
       \/ Fails /\ UNCHANGED probeVars /\ TaskGoto("cache")
    /\ UNCHANGED <<envVars, profile, rowProfile, keys, reachStatus, results, rotation>>

\* Whatever is known now is kept for the next pass.
CacheProbeKeys ==
    /\ TaskAt("cache")
    /\ keys' = IF task.keys = NoKeys THEN keys ELSE task.keys
    /\ TaskGoto("handshake")
    /\ UNCHANGED <<envVars, serverVars, rowProfile, reachStatus, results, rotation, failures>>

-----------------------------------------------------------------------------
(***************************************************************************)
(* probeSingleServer: the probes.                                          *)
(***************************************************************************)

\* The server answers a client it knows with the right keys.
Handshakes(k) == udpOpen /\ k.pub /\ k.psk /\ k.priv \in peers

\* probeAWGHealth, skipped without a public key.  The result of the pass is
\* stored when all goroutines are done, with the next step of this one.
ProbeAWGHealth ==
    /\ TaskAt("handshake")
    /\ \/ Handshakes(task.keys) /\ reachStatus' = "online" /\ results' = "awg" /\ TaskGoto("conns")
       \/ ~ Handshakes(task.keys) /\ TaskGoto("tcp") /\ UNCHANGED <<reachStatus, results>>
    /\ UNCHANGED <<envVars, serverVars, rowProfile, keys, rotation, failures>>

\* Mutant: a failing dial returns its result without the status.
FallbackKeepsStatus ==
    /\ TaskAt("tcp")
    /\ \/ tcpOpen /\ reachStatus' = "online" /\ results' = "tcp"
       \/ ~ tcpOpen /\ results' = "unreachable" /\ UNCHANGED reachStatus
    /\ TaskGoto("conns")
    /\ UNCHANGED <<envVars, serverVars, rowProfile, keys, rotation, failures>>

ProbeTCPFallback ==
    /\ TaskAt("tcp")
    /\ \/ tcpOpen /\ reachStatus' = "online" /\ results' = "tcp"
       \/ ~ tcpOpen /\ reachStatus' = "offline" /\ results' = "unreachable"
    /\ TaskGoto("conns")
    /\ UNCHANGED <<envVars, serverVars, rowProfile, keys, rotation, failures>>

\* A panic of the probe is recovered in its goroutine.
ProbePanics ==
    /\ task.at \in {"keys", "pub", "psk", "client", "add", "cache", "handshake", "tcp"}
    /\ OneFailure /\ results' = "panicked" /\ TaskGoto("conns")
    /\ UNCHANGED <<envVars, serverVars, rowProfile, keys, reachStatus, rotation>>

-----------------------------------------------------------------------------
(***************************************************************************)
(* CheckAutoTrialHandshakes, and the handler that rotates on request.      *)
(***************************************************************************)

EndTask == task' = Idle

\* GetAllConnections and filterAutoTrialConns: the rows that still say auto.
FilterAutoTrialConns ==
    /\ TaskAt("conns")
    /\ \/ rowProfile = "auto" /\ TaskGoto("ages") /\ UNCHANGED failures
       \/ rowProfile # "auto" /\ EndTask /\ UNCHANGED failures
       \/ OneFailure /\ EndTask
    /\ UNCHANGED <<envVars, serverVars, rowProfile, keys, reachStatus, results, rotation>>

\* GetClients and extractHandshakes; without the list no client has one.
ExtractHandshakes ==
    /\ TaskAt("ages")
    /\ \/ Works /\ IF stalled THEN TaskGoto("rotate") ELSE EndTask
       \/ Fails /\ TaskGoto("rotate")
    /\ UNCHANGED <<envVars, serverVars, rowProfile, keys, reachStatus, results, rotation>>

NextMimicryProfile(p) ==
    CASE p = "auto" -> "tls" [] p = "tls" -> "quic" [] p = "quic" -> "dns"
      [] p = "dns" -> "sip" [] p = "sip" -> "tls"

\* RotateMimicry of a client that is in the table.  A failure to save may
\* have saved.
Rotated == profile # "none" /\ Works /\ profile' = NextMimicryProfile(profile)
NotRotated ==
    \/ Fails /\ UNCHANGED profile
    \/ profile = "none" /\ UNCHANGED <<profile, failures>>
    \/ profile # "none" /\ tcpOpen /\ OneFailure /\ profile' = NextMimicryProfile(profile)

\* Mutant: the row is updated whatever became of the client.
RotateAnyway ==
    /\ TaskAt("rotate")
    /\ Rotated \/ NotRotated
    /\ task' = [task EXCEPT !.at = "row", !.next = NextMimicryProfile(rowProfile)]
    /\ UNCHANGED <<envVars, probeVars, rowProfile, keys, reachStatus, results, rotation>>

\* Without a rotation the row is preserved.
RotateStalledClient ==
    /\ TaskAt("rotate")
    /\ \/ Rotated /\ task' = [task EXCEPT !.at = "row", !.next = profile']
       \/ NotRotated /\ EndTask
    /\ UNCHANGED <<envVars, probeVars, rowProfile, keys, reachStatus, results, rotation>>

\* UpdateConnection, whose error is ignored.
SaveRotation ==
    /\ TaskAt("row")
    /\ \/ rowProfile' = task.next /\ UNCHANGED failures
       \/ OneFailure /\ UNCHANGED rowProfile
    /\ EndTask
    /\ UNCHANGED <<envVars, serverVars, keys, reachStatus, results, rotation>>

TaskStep ==
    \/ CheckServerReachability \/ ResolveAWGProbeKeys \/ GetServerPublicKey \/ GetServerPSK
    \/ FindHealthProbeClient \/ AddHealthProbeClient \/ CacheProbeKeys
    \/ ProbeAWGHealth \/ ProbeTCPFallback \/ ProbePanics
    \/ FilterAutoTrialConns \/ ExtractHandshakes \/ RotateStalledClient \/ SaveRotation

Event == events < MaxEvents /\ events' = events + 1

\* RotateMimicryHandler: the client, then its rows.
RotateMimicryHandler ==
    /\ rotation = "idle" /\ Event
    /\ \/ Rotated /\ rotation' = profile'
       \/ NotRotated /\ UNCHANGED rotation
    /\ UNCHANGED <<tcpOpen, udpOpen, stalled, probeVars, rowProfile, keys,
                   reachStatus, results, task>>

RotateMimicryRows ==
    /\ rotation # "idle" /\ rotation' = "idle"
    /\ \/ rowProfile' = rotation /\ UNCHANGED failures
       \/ OneFailure /\ UNCHANGED rowProfile
    /\ UNCHANGED <<envVars, serverVars, keys, reachStatus, results, task>>

-----------------------------------------------------------------------------
(***************************************************************************)
(* The rest of the world.                                                  *)
(***************************************************************************)

\* Ports open and close, and the client shakes hands or does not.
NetworkChanges ==
    /\ Event
    /\ \/ tcpOpen' = ~ tcpOpen /\ UNCHANGED <<udpOpen, stalled>>
       \/ udpOpen' = ~ udpOpen /\ UNCHANGED <<tcpOpen, stalled>>
       \/ stalled' = ~ stalled /\ UNCHANGED <<tcpOpen, udpOpen>>
    /\ UNCHANGED <<serverVars, rowProfile, keys, reachStatus, results, task, rotation, failures>>

\* AmneziaWG is installed again, with no clients; the rows stay.
Reinstalled ==
    /\ Event /\ peers' = {} /\ listed' = {} /\ profile' = "none"
    /\ UNCHANGED <<tcpOpen, udpOpen, stalled, made, excess, rowProfile, keys, reachStatus, results,
                   task, rotation, failures>>

\* The panel ends and starts again: what it had in memory is gone.
PanelRestarts ==
    /\ Event /\ keys' = NoKeys /\ reachStatus' = "unknown" /\ results' = "none"
    /\ task' = Idle /\ rotation' = "idle"
    /\ UNCHANGED <<tcpOpen, udpOpen, stalled, serverVars, rowProfile, failures>>

ReachNext ==
    \/ TaskStep \/ RotateMimicryHandler \/ RotateMimicryRows
    \/ NetworkChanges \/ Reinstalled \/ PanelRestarts

\* The orchestrator runs its tasks again and again (see Background).
ReachSpec == ReachInit /\ [][ReachNext]_reachVars /\ WF_reachVars(TaskStep)

-----------------------------------------------------------------------------
(***************************************************************************)
(* Properties.                                                             *)
(***************************************************************************)

\* The probe does not fill the server with clients of its own
\* (resolveOrCreateHealthProbeClient): passes, panics, restarts and answers
\* that got lost leave one.  Only an addition that could not see the table,
\* or stopped before it wrote it, may leave another.
OneProbeClient == Cardinality(peers) <= 1 + excess

\* Rotation (autotrial.go, "preserving database record"; RotateMimicry and
\* its handler): a row that has left "auto" belongs to a client that has, in
\* whatever order task and handler write and whichever of the writes fails.
RowNotAhead == rowProfile # "auto" /\ profile # "none" => profile # "auto"

\* What the tasks leave behind at any time: one client of the probe, and no
\* row ahead of its client.
TasksLeaveOrder == OneProbeClient /\ RowNotAhead

\* Once a server stays reachable, by SSH or by a handshake with good keys,
\* or stays unreachable, its status becomes right and stays so
\* (CheckServerReachability).
StatusSettles ==
    /\ <>[] tcpOpen => <>[] (reachStatus = "online")
    /\ <>[] (~ tcpOpen /\ Handshakes(keys)) => <>[] (reachStatus = "online")
    /\ <>[] ~ (tcpOpen \/ udpOpen) => <>[] (reachStatus = "offline")

\* A client without handshakes does not stay with "auto" as long as its
\* server can be reached (CheckAutoTrialHandshakes).
TrialEnds ==
    <>[] (tcpOpen /\ stalled /\ profile # "none") => <> (rowProfile # "auto")

\* The tasks reach their goal: the status settles and a trial ends.
TasksSettle == StatusSettles /\ TrialEnds
=============================================================================
