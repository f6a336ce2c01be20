------------------------------ MODULE VPNTasks ------------------------------
(***************************************************************************)
(* The two VPN tasks of the orchestrator (service/orchestrator/            *)
(* vpn_tasks.go), which RunAll runs one after the other:                   *)
(* CheckBackendTunnelHealth probes the tunnels of the database and moves   *)
(* session rows off the bad ones, RebalanceVPNSessions moves session rows  *)
(* off the crowded ones.  Both read rows first and write them back later,  *)
(* while the service, the panel and the prober write them as well.         *)
(*                                                                         *)
(* A peer has at most one row of vpn_sessions.  The rows are read in the   *)
(* order of connected_at, which is any order here.                         *)
(***************************************************************************)
EXTENDS Naturals, FiniteSets, Sequences, Functions

CONSTANTS TunnelIDs,     \* the identifiers of backend_tunnels
          SessionPeers,
          MaxPasses,     \* bound: runs of the orchestrator
          MaxWrites      \* bound: writes of the others, and writes that fail

ASSUME VPNTasksAssumption ==
    /\ TunnelIDs \subseteq Nat \ {0} /\ IsFiniteSet(TunnelIDs) /\ IsFiniteSet(SessionPeers)
    /\ MaxPasses \in Nat /\ MaxWrites \in Nat

VARIABLES
    tunnelStatus,   \* backend_tunnels
    sessionRow,     \* vpn_sessions, by peer_public_key
    accounts,       \* the peers whose user exists
    task,           \* the local variables of the task that runs
    passes, writes

tasksVars == <<tunnelStatus, sessionRow, accounts, task, passes, writes>>

None == [x \in {} |-> 0]
IdleTask == [pc |-> "idle", todo |-> {}, bad |-> {}, good |-> {}, moves |-> <<>>, next |-> 0,
             counts |-> None, at |-> None, excess |-> 0, avg |-> 0, limit |-> 0, top |-> 0,
             alone |-> TRUE]

Status == {"active", "degraded", "disabled"}
SessionStatus == {"connected", "draining", "disconnected"}
Where == [on : TunnelIDs, status : SessionStatus]

(* Types of the rows and of the tasks; a session row refers to a user and to a row of     *)
(* backend_tunnels.                                                                       *)
TasksTypeOK ==
    /\ DOMAIN tunnelStatus \subseteq TunnelIDs
    /\ \A t \in DOMAIN tunnelStatus : tunnelStatus[t] \in Status
    /\ DOMAIN sessionRow \subseteq accounts /\ accounts \subseteq SessionPeers
    /\ \A p \in DOMAIN sessionRow :
          sessionRow[p] \in Where /\ sessionRow[p].on \in DOMAIN tunnelStatus
    /\ task.pc \in {"idle", "probe", "failover", "move", "rebalance", "count", "drain"}
    /\ task.bad \cap task.good = {} /\ DOMAIN task.counts \subseteq TunnelIDs
    /\ passes \in 0 .. MaxPasses /\ writes \in 0 .. MaxWrites

TasksInit ==
    /\ tunnelStatus = [t \in TunnelIDs |-> "active"]
    /\ sessionRow \in [SessionPeers -> [on : TunnelIDs, status : {"connected"}]]
    /\ accounts = SessionPeers /\ task = IdleTask /\ passes = 0 /\ writes = 0

Connected == {p \in DOMAIN sessionRow : sessionRow[p].status = "connected"}
\* The orders in which the rows of these sessions can be read.
Orders(S) == Injection(1 .. Cardinality(S), S)
Lowest(S) == CHOOSE t \in S : \A u \in S : t <= u
Upd(f, k, v) == [x \in DOMAIN f \cup {k} |-> IF x = k THEN v ELSE f[x]]

\* CreateVPNSession inserts or updates the row of the peer; a user or a tunnel that is gone
\* is an error, as is a database that does not write.
Refused(p, on) == p \notin accounts \/ on \notin DOMAIN tunnelStatus
CreateVPNSession(p, on, status) ==
    /\ ~Refused(p, on)
    /\ sessionRow' = Upd(sessionRow, p, [on |-> on, status |-> status])
Write == writes < MaxWrites /\ writes' = writes + 1

\* The same in a task, which goes on to done or, when it failed, to skipped.
TaskWrites(p, on, status, done, skipped) ==
    \/ CreateVPNSession(p, on, status) /\ task' = done /\ UNCHANGED writes
    \/ Refused(p, on) /\ task' = skipped /\ UNCHANGED <<sessionRow, writes>>
    \/ Write /\ task' = [skipped EXCEPT !.alone = FALSE] /\ UNCHANGED sessionRow

-----------------------------------------------------------------------------
(* CheckBackendTunnelHealth *)

GetBackendTunnels ==
    /\ task.pc = "idle" /\ passes < MaxPasses /\ passes' = passes + 1
    /\ task' = [IdleTask EXCEPT !.pc = "probe",
                  !.todo = {t \in DOMAIN tunnelStatus : tunnelStatus[t] # "disabled"}]
    /\ UNCHANGED <<tunnelStatus, sessionRow, writes>>

\* The probe of one tunnel, and its row, if it is still there.
ProbeTunnel ==
    LET t == Lowest(task.todo) IN
    /\ task.pc = "probe" /\ task.todo # {}
    /\ \E healthy \in BOOLEAN :
          /\ task' = [task EXCEPT !.todo = @ \ {t},
                        !.good = IF healthy THEN @ \cup {t} ELSE @,
                        !.bad = IF healthy THEN @ ELSE @ \cup {t}]
          /\ tunnelStatus' = [u \in DOMAIN tunnelStatus |->
                IF u = t THEN (IF healthy THEN "active" ELSE "degraded") ELSE tunnelStatus[u]]
    /\ UNCHANGED <<sessionRow, passes, writes>>

\* The sessions, if there is a tunnel to leave and one to go to.
GetActiveVPNSessions ==
    /\ task.pc = "probe" /\ task.todo = {}
    /\ \/ /\ task.bad # {} /\ task.good # {}
          /\ \E order \in Orders({p \in Connected : sessionRow[p].on \in task.bad}) :
                task' = [task EXCEPT !.pc = "move", !.moves = order]
       \/ (task.bad = {} \/ task.good = {}) /\ task' = [IdleTask EXCEPT !.pc = "rebalance"]
    /\ UNCHANGED <<tunnelStatus, sessionRow, passes, writes>>

Nth(S, n) == CHOOSE t \in S : Cardinality({u \in S : u < t}) = n % Cardinality(S)

\* Mutant: to a tunnel that is not healthy.
MoveSessionBack ==
    /\ task.pc = "move" /\ task.moves # <<>>
    /\ task' = [task EXCEPT !.moves = Tail(@), !.next = @ + 1]
    /\ CreateVPNSession(Head(task.moves), Lowest(task.bad), "connected")
    /\ UNCHANGED <<tunnelStatus, passes, writes>>

\* One session after the other, to the healthy tunnels in turn.
MoveSession ==
    LET moved == [task EXCEPT !.moves = Tail(@), !.next = @ + 1] IN
    /\ task.pc = "move" /\ task.moves # <<>>
    /\ TaskWrites(Head(task.moves), Nth(task.good, task.next), "connected", moved, moved)
    /\ UNCHANGED <<tunnelStatus, passes>>

MoveDone ==
    /\ task.pc = "move" /\ task.moves = <<>>
    /\ task' = [IdleTask EXCEPT !.pc = "rebalance"]
    /\ UNCHANGED <<tunnelStatus, sessionRow, passes, writes>>

-----------------------------------------------------------------------------
(* RebalanceVPNSessions *)

ActiveTunnels ==
    LET active == {t \in DOMAIN tunnelStatus : tunnelStatus[t] = "active"} IN
    /\ task.pc = "rebalance"
    /\ task' = IF Cardinality(active) < 2 THEN IdleTask
               ELSE [IdleTask EXCEPT !.pc = "count", !.good = active]
    /\ UNCHANGED <<tunnelStatus, sessionRow, passes, writes>>

On(t, S) == Cardinality({p \in S : sessionRow[p].on = t})
Highest(f) == CHOOSE n \in {f[t] : t \in DOMAIN f} : \A t \in DOMAIN f : f[t] <= n

\* The load of each active tunnel, the average and 1.4 times the average, both rounded down.
CountSessions ==
    LET counts == [t \in task.good |-> On(t, Connected)]
        all == Cardinality(Connected)
        n == Cardinality(task.good)
    IN
    /\ task.pc = "count"
    /\ task' = IF all = 0 THEN IdleTask
               ELSE [task EXCEPT !.pc = "drain", !.todo = task.good, !.counts = counts,
                       !.at = [p \in Connected |-> sessionRow[p].on],
                       !.avg = all \div n, !.limit = (7 * all) \div (5 * n),
                       !.top = Highest(counts)]
    /\ UNCHANGED <<tunnelStatus, sessionRow, passes, writes>>

Overloaded(t) == task.counts[t] > task.limit /\ task.counts[t] > task.avg

\* The next tunnel, and the sessions it had when they were read.
NextTunnel ==
    LET t == Lowest(task.todo) IN
    /\ task.pc = "drain" /\ task.next = 0 /\ task.todo # {}
    /\ \/ /\ Overloaded(t)
          /\ \E order \in Orders({p \in DOMAIN task.at : task.at[p] = t}) :
                task' = [task EXCEPT !.todo = @ \ {t}, !.next = t, !.moves = order,
                                     !.excess = task.counts[t] - task.avg]
       \/ ~Overloaded(t) /\ task' = [task EXCEPT !.todo = @ \ {t}]
    /\ UNCHANGED <<tunnelStatus, sessionRow, passes, writes>>

Lightest(t) ==
    LET others == task.good \ {t} IN
    Lowest({u \in others : \A v \in others : task.counts[u] <= task.counts[v]})

\* One session to the lightest other tunnel; the loads are those of the plan, and are
\* changed even if the row cannot be written.
DrainSession ==
    LET t == task.next
        u == Lightest(t)
        planned == [task EXCEPT !.moves = Tail(@),
                                !.counts = [task.counts EXCEPT ![t] = @ - 1, ![u] = @ + 1]]
    IN
    /\ task.pc = "drain" /\ t # 0 /\ task.moves # <<>> /\ task.excess > 0
    /\ TaskWrites(Head(task.moves), u, "draining", [planned EXCEPT !.excess = @ - 1], planned)
    /\ UNCHANGED <<tunnelStatus, passes>>

DrainDone ==
    /\ task.pc = "drain"
    /\ \/ /\ task.next # 0 /\ (task.moves = <<>> \/ task.excess = 0)
          /\ task' = [task EXCEPT !.next = 0, !.moves = <<>>, !.excess = 0]
       \/ task.next = 0 /\ task.todo = {} /\ task' = IdleTask
    /\ UNCHANGED <<tunnelStatus, sessionRow, passes, writes>>

-----------------------------------------------------------------------------
(* The others: the session manager, the failover of the service, the panel. *)

Other ==
    /\ Write
    /\ task' = [task EXCEPT !.alone = FALSE] /\ UNCHANGED passes

SessionWritten(p, on, status) ==
    /\ Other /\ CreateVPNSession(p, on, status) /\ UNCHANGED <<tunnelStatus, accounts>>

UserDeleted(p) ==
    /\ p \in accounts /\ Other /\ UNCHANGED tunnelStatus
    /\ accounts' = accounts \ {p}
    /\ sessionRow' = [q \in DOMAIN sessionRow \ {p} |-> sessionRow[q]]

StatusWritten(t, status) ==
    /\ t \in DOMAIN tunnelStatus /\ Other
    /\ tunnelStatus' = [tunnelStatus EXCEPT ![t] = status] /\ UNCHANGED <<sessionRow, accounts>>

\* The rows of the sessions go with the row of their tunnel.
TunnelDeleted(t) ==
    /\ t \in DOMAIN tunnelStatus /\ Other
    /\ tunnelStatus' = [u \in DOMAIN tunnelStatus \ {t} |-> tunnelStatus[u]]
    /\ sessionRow' = [p \in {q \in DOMAIN sessionRow : sessionRow[q].on # t} |-> sessionRow[p]]
    /\ UNCHANGED accounts

OthersStep ==
    \/ \E p \in SessionPeers, t \in TunnelIDs, status \in {"connected", "disconnected"} :
          SessionWritten(p, t, status)
    \/ \E p \in SessionPeers : UserDeleted(p)
    \/ \E t \in TunnelIDs : TunnelDeleted(t) \/ \E status \in Status : StatusWritten(t, status)

TaskStep ==
    \/ GetBackendTunnels \/ ProbeTunnel \/ GetActiveVPNSessions \/ MoveSession \/ MoveDone
    \/ ActiveTunnels \/ CountSessions \/ NextTunnel \/ DrainSession \/ DrainDone

TasksNext == (TaskStep /\ UNCHANGED accounts) \/ OthersStep
TasksSpec == TasksInit /\ [][TasksNext]_tasksVars

-----------------------------------------------------------------------------
(* Rebalancing flattens: when no one else has written and no write has failed since the  *)
(* tunnels were read, each active tunnel holds as many of the sessions that were counted *)
(* as planned, and no more than the fullest one held at first (RebalanceVPNSessions).    *)
RebalanceFlattens ==
    task.pc = "drain" /\ task.alone =>
        \A t \in task.good : On(t, DOMAIN task.at) = task.counts[t] /\ task.counts[t] <= task.top

(* Migration is complete: when no one else has written and no write has failed since the *)
(* tunnels were read, the monitor ends with no connected session on a tunnel whose probe *)
(* was bad, if there was a good one (CheckBackendTunnelHealth).                          *)
MigrationComplete ==
    task.pc = "move" /\ task.moves = <<>> /\ task.alone
        => \A p \in Connected : sessionRow[p].on \notin task.bad

(* A pass of the tasks that nothing disturbs brings about what it is for                 *)
(* (RebalanceVPNSessions, CheckBackendTunnelHealth).                                     *)
PassesComplete == TasksTypeOK /\ RebalanceFlattens /\ MigrationComplete
=============================================================================
