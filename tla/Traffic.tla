------------------------------ MODULE Traffic ------------------------------
(***************************************************************************)
(* Byte accounting.  Two writers share the rows of connections and users:  *)
(*                                                                         *)
(*  - the accountant of the portal (vpn/forwarder/accounting.go), which    *)
(*    buffers what the forwarder records and flushes it as increments;     *)
(*  - SyncTraffic of the orchestrator (service/orchestrator/traffic.go),   *)
(*    which reads the counters of the servers, rolls the month over,       *)
(*    writes absolute totals computed from what it read, and disables      *)
(*    users over quota or past their expiry.                               *)
(*                                                                         *)
(* Received and sent bytes are treated alike by all of this code: one      *)
(* counter stands for the pair.  Time is a day number; a week and a month  *)
(* have a fixed number of days.  The mass operation that disables users is *)
(* one step here; module Panel has its steps.                              *)
(***************************************************************************)
EXTENDS Integers, FiniteSets, Functions

CONSTANTS Users, Conns, Owner,   \* Owner[c]: the user of connection c
          Portal,                \* connections used through the portal
          Remote,                \* connections with a client on a server
          Limit, Expiry,         \* quota (0: none) and last valid day, per user
          DaysPerWeek, DaysPerMonth,
          MaxDay, MaxBytes,
          Scenarios,             \* rows, reset strategies, failures and panel operations
          None

ASSUME TrafficAssumption ==
    /\ IsFiniteSet(Conns) /\ IsFiniteSet(Users)
    /\ Owner \in [Conns -> Users]
    /\ Portal \subseteq Conns /\ Remote \subseteq Conns
    /\ Limit \in [Users -> Nat] /\ Expiry \in [Users -> Nat]
    /\ DaysPerWeek \in Nat \ {0} /\ DaysPerMonth \in Nat \ {0}
    /\ Scenarios \subseteq [rows : SUBSET Conns, faults : Nat, events : Nat,
                           strategy : [Users -> {"never", "daily", "weekly", "monthly"}]]
    /\ MaxDay \in Nat /\ MaxBytes \in Nat /\ None \notin Nat \cup Conns

VARIABLES
    counter,     \* the byte counter a server keeps for a connection
    carried,     \* history: bytes a server has carried for it
    recorded,    \* history: bytes the portal has carried for it
    buffer,      \* TrafficAccountant: the counters not flushed yet
    acct,        \* "stopped", "running", "stopping" (Stop waits), "final"
    flush,       \* Flush: deltas still to be written, and where it stands
    promised,    \* history: what was recorded when Stop was called
    cut,         \* connections whose client is disabled on its server
    sess,        \* vpn_sessions: the bytes in the session row
    conn,        \* user_connections: last and total, per existing row
    user,        \* users: one record per existing row
    boards,      \* leaderboard_snapshots: month -> user -> bytes
    sync,        \* SyncTraffic: its local variables
    day,
    room,        \* failures and panel operations that may still happen
    failed       \* history: something has failed

acctVars == <<buffer, acct, flush, promised, sess>>
netVars == <<counter, carried, recorded, cut>>
rowVars == <<conn, user, boards>>
boundVars == <<day, room, failed>>
trafficVars == <<acctVars, netVars, rowVars, sync, boundVars>>

Put(f, k, v) == [x \in DOMAIN f \cup {k} |-> IF x = k THEN v ELSE f[x]]
Drop(f, S) == Restrict(f, DOMAIN f \ S)
Empty == [x \in {} |-> 0]
Partial(f, D, R) == DOMAIN f \subseteq D /\ \A x \in DOMAIN f : f[x] \in R

Bytes == Nat
Days == 0 .. MaxDay
Month(d) == d \div DaysPerMonth
UserRow == [enabled : BOOLEAN, used : Bytes, total : Bytes, monthly : Bytes,
            strategy : {"never", "daily", "weekly", "monthly"},
            lastReset : Days, monthlyReset : Days \cup {None}]

(* Types of the rows and of what the two writers hold in memory. *)
TrafficTypeOK ==
    /\ counter \in [Conns -> 0 .. MaxBytes] /\ carried \in [Conns -> 0 .. MaxBytes]
    /\ recorded \in [Conns -> 0 .. MaxBytes] /\ cut \subseteq Remote
    /\ buffer \in [Conns -> Bytes] /\ sess \in [Conns -> Bytes]
    /\ acct \in {"stopped", "running", "stopping", "final"}
    /\ flush.pc \in {"idle", "conn", "user"}
    /\ Partial(flush.delta, Conns, Bytes \ {0})
    /\ Partial(conn, Conns, [last : Bytes, total : Bytes])
    /\ Partial(user, Users, UserRow)
    /\ DOMAIN boards \subseteq 0 .. Month(MaxDay)
    /\ \A m \in DOMAIN boards : Partial(boards[m], Users, Bytes)
    /\ sync.pc \in {"idle", "query", "users", "board", "month", "apply", "write",
                    "account", "enforce"}
    /\ day \in Days /\ room \in [faults : Nat, events : Nat] /\ failed \in BOOLEAN

IdleSync == [pc |-> "idle", rows |-> Empty, todo |-> Empty, users |-> Empty, now |-> 0,
             at |-> None, row |-> None, disable |-> {}, counted |-> Empty,
             toggled |-> {}]

TrafficInit ==
    /\ counter = [c \in Conns |-> 0] /\ carried = counter /\ recorded = counter
    /\ cut = {} /\ buffer = counter /\ sess = counter /\ promised = counter
    /\ acct = "stopped" /\ flush = [pc |-> "idle", delta |-> Empty, at |-> None]
    /\ \E s \in Scenarios :
          /\ conn = [c \in s.rows |-> [last |-> 0, total |-> 0]]
          /\ room = [faults |-> s.faults, events |-> s.events]
          /\ user = [u \in Users |-> [enabled |-> TRUE, used |-> 0, total |-> 0,
                                      monthly |-> 0, strategy |-> s.strategy[u],
                                      lastReset |-> 0, monthlyReset |-> None]]
    /\ boards = Empty /\ sync = IdleSync
    /\ day = 0 /\ failed = FALSE

\* A database statement or remote call may fail while there is room for failures.
Fault ==
    /\ room.faults > 0 /\ room' = [room EXCEPT !.faults = @ - 1] /\ failed' = TRUE
NoFault == UNCHANGED <<room, failed>>

-----------------------------------------------------------------------------
(* The network, and the accountant of the portal *)

\* A server carries a byte for a client it has not disabled.
Carry(c) ==
    /\ c \in (Remote \cap DOMAIN conn) \ cut /\ carried[c] < MaxBytes
    /\ counter' = [counter EXCEPT ![c] = @ + 1]
    /\ carried' = [carried EXCEPT ![c] = @ + 1]
    /\ UNCHANGED <<acctVars, recorded, cut, rowVars, sync, boundVars>>

\* A container restarts or a host reboots: its counters start again.
CounterReset(c) ==
    /\ counter[c] > 0
    /\ counter' = [counter EXCEPT ![c] = 0]
    /\ UNCHANGED <<acctVars, carried, recorded, cut, rowVars, sync, boundVars>>

\* The forwarder records whatever it routes, whether the loop runs or not.
Record(c) ==
    /\ c \in Portal \cap DOMAIN conn /\ recorded[c] < MaxBytes
    /\ recorded' = [recorded EXCEPT ![c] = @ + 1]
    /\ buffer' = [buffer EXCEPT ![c] = @ + 1]
    /\ UNCHANGED <<counter, carried, cut, acct, flush, promised, sess, rowVars, sync,
                   boundVars>>

Buffered == {c \in Conns : buffer[c] > 0}

\* Flush takes the buffered bytes and overwrites the session rows with them.
Drain(next) ==
    /\ flush' = [pc |-> IF Buffered = {} THEN "idle" ELSE "conn",
                 delta |-> [c \in Buffered |-> buffer[c]], at |-> None]
    /\ buffer' = [c \in Conns |-> 0]
    /\ acct' = IF Buffered = {} /\ next = "final" THEN "stopped" ELSE next
    /\ \/ /\ sess' = [c \in Conns |-> IF c \in Buffered THEN buffer[c] ELSE sess[c]]
          /\ NoFault
       \/ Buffered # {} /\ Fault /\ UNCHANGED sess

\* Start; an accountant with nothing to record is of no interest.
AcctStart ==
    /\ acct = "stopped" /\ acct' = "running" /\ Portal \cap DOMAIN conn # {}
    /\ UNCHANGED <<netVars, buffer, flush, promised, sess, rowVars, sync, boundVars>>

\* The ticker of loop fires.
FlushTick ==
    /\ acct = "running" /\ flush.pc = "idle" /\ Buffered # {}
    /\ Drain("running")
    /\ UNCHANGED <<netVars, promised, rowVars, sync, day>>

AcctStop ==
    /\ acct = "running" /\ acct' = "stopping" /\ promised' = recorded
    /\ UNCHANGED <<netVars, buffer, flush, sess, rowVars, sync, boundVars>>

\* Mutant: Stop without the last flush.
NoFinalFlush ==
    /\ acct = "stopping" /\ flush.pc = "idle" /\ acct' = "stopped"
    /\ UNCHANGED <<netVars, buffer, flush, promised, sess, rowVars, sync, boundVars>>

\* The loop has returned, wg.Wait is over: Stop flushes once more.
FinalFlush ==
    /\ acct = "stopping" /\ flush.pc = "idle"
    /\ Drain("final")
    /\ UNCHANGED <<netVars, promised, rowVars, sync, day>>

\* UpdateConnectionTraffic: the totals grow, last_rx and last_tx become the delta.
FlushConn(c) ==
    LET d == flush.delta[c] IN
    /\ flush.pc = "conn" /\ c \in DOMAIN flush.delta
    /\ \/ c \in DOMAIN conn /\ NoFault
          /\ conn' = [conn EXCEPT ![c] = [last |-> d, total |-> @.total + d]]
       \/ c \notin DOMAIN conn /\ NoFault /\ UNCHANGED conn
       \/ Fault /\ UNCHANGED conn
    /\ flush' = [flush EXCEPT !.pc = "user", !.at = c]
    /\ UNCHANGED <<netVars, buffer, acct, promised, sess, user, boards, sync, day>>

\* Mutant: the total grows twice.
AddBytesTwice(row, d) ==
    [row EXCEPT !.used = @ + d, !.total = @ + d + d, !.monthly = @ + d]

AddBytes(row, d) ==
    [row EXCEPT !.used = @ + d, !.total = @ + d, !.monthly = @ + d]

\* GetConnection and UpdateUserTraffic, then the next connection.
FlushUser ==
    LET c == flush.at
        u == Owner[c]
        left == Drop(flush.delta, {c})
    IN
    /\ flush.pc = "user"
    /\ \/ c \in DOMAIN conn /\ NoFault
          /\ user' = [user EXCEPT ![u] = AddBytes(@, flush.delta[c])]
       \/ c \notin DOMAIN conn /\ NoFault /\ UNCHANGED user
       \/ c \in DOMAIN conn /\ Fault /\ UNCHANGED user
    /\ flush' = [pc |-> IF left = Empty THEN "idle" ELSE "conn", delta |-> left,
                 at |-> None]
    /\ acct' = IF left = Empty /\ acct = "final" THEN "stopped" ELSE acct
    /\ UNCHANGED <<netVars, buffer, promised, sess, conn, boards, sync, day>>

Accountant ==
    \/ AcctStart \/ AcctStop \/ FlushTick \/ FinalFlush \/ FlushUser
    \/ \E c \in Conns : Record(c) \/ FlushConn(c)

-----------------------------------------------------------------------------
(* SyncTraffic *)

\* A counter below the last one seen was reset in between.
computeDelta(current, last) == IF current < last THEN current ELSE current - last

isTrafficResetNeeded(u, now) ==
    CASE u.strategy = "daily" -> now # u.lastReset
      [] u.strategy = "weekly" -> now \div DaysPerWeek # u.lastReset \div DaysPerWeek
      [] u.strategy = "monthly" -> Month(now) # Month(u.lastReset)
      [] OTHER -> FALSE

isUserExpired(u, now) == now > Expiry[u]

\* Mutant: the limit itself may still be used up.
OverLimitBeyond(u, row) == Limit[u] > 0 /\ row.used > Limit[u]

OverLimit(u, row) == Limit[u] > 0 /\ row.used >= Limit[u]

MustDisable(u, row, now) == row.enabled /\ (OverLimit(u, row) \/ isUserExpired(u, now))

SyncBegin ==
    /\ sync.pc = "idle"
    /\ sync' = [IdleSync EXCEPT !.pc = "query", !.rows = conn]
    /\ UNCHANGED <<acctVars, netVars, rowVars, boundVars>>

\* syncServerTraffic: any server, protocol or client may be missing from the answers.
SyncQuery ==
    /\ sync.pc = "query"
    /\ \E ok \in SUBSET (Remote \cap DOMAIN sync.rows) :
         sync' = [sync EXCEPT
           !.pc = "users", !.rows = Empty,
           !.todo = [c \in ok |-> [curr |-> counter[c],
                        delta |-> computeDelta(counter[c], sync.rows[c].last)]]]
    /\ UNCHANGED <<acctVars, netVars, rowVars, boundVars>>

SyncUsers ==
    /\ sync.pc = "users"
    /\ \/ sync' = [sync EXCEPT !.pc = "board", !.users = user, !.now = day] /\ NoFault
       \/ sync' = IdleSync /\ Fault
    /\ UNCHANGED <<acctVars, netVars, rowVars, day>>

MonthPassed(row) == row.monthlyReset # None /\ Month(row.monthlyReset) # Month(sync.now)
NeedsReset(row) == row.monthlyReset = None \/ MonthPassed(row)
Stale == {u \in DOMAIN sync.users : MonthPassed(sync.users[u])}

\* GetLeaderboard: enabled users with traffic this month.
Leaderboard ==
    [v \in {v \in DOMAIN user : user[v].enabled /\ user[v].monthly > 0} |-> user[v].monthly]

\* SaveLeaderboardSnapshot: INSERT OR REPLACE, nothing when there is no entry.
SaveLeaderboardSnapshot(m) ==
    LET old == IF m \in DOMAIN boards THEN boards[m] ELSE Empty IN
    IF Leaderboard = Empty THEN boards
    ELSE Put(boards, m, [v \in DOMAIN old \cup DOMAIN Leaderboard |->
                           IF v \in DOMAIN Leaderboard THEN Leaderboard[v] ELSE old[v]])

\* Mutant: the board is written in every cycle.
SyncBoardEveryCycle ==
    LET seen == {u \in DOMAIN sync.users : sync.users[u].monthlyReset # None} IN
    /\ sync.pc = "board" /\ sync' = [sync EXCEPT !.pc = "month"]
    /\ \/ seen = {} /\ UNCHANGED boards
       \/ \E u \in seen : boards' = Put(boards, Month(sync.users[u].monthlyReset),
                                        [v \in DOMAIN user |-> user[v].monthly])
    /\ UNCHANGED <<acctVars, netVars, conn, user, boundVars>>

\* The first half of handleMonthlyRollover: some user whose month has passed names it.
SyncBoard ==
    /\ sync.pc = "board" /\ sync' = [sync EXCEPT !.pc = "month"]
    /\ \/ Stale = {} /\ UNCHANGED boards /\ NoFault
       \/ /\ NoFault
          /\ \E u \in Stale :
               boards' = SaveLeaderboardSnapshot(Month(sync.users[u].monthlyReset))
       \/ Stale # {} /\ UNCHANGED boards /\ Fault
    /\ UNCHANGED <<acctVars, netVars, conn, user, day>>

RollOver(row) ==
    IF row.strategy = "monthly"
    THEN [row EXCEPT !.monthly = 0, !.monthlyReset = sync.now, !.used = 0,
                     !.lastReset = sync.now]
    ELSE [row EXCEPT !.monthly = 0, !.monthlyReset = sync.now]

\* The second half, for one user; the copy is rolled over whatever the write did.
SyncMonth(u) ==
    /\ sync.pc = "month" /\ u \in DOMAIN sync.users /\ NeedsReset(sync.users[u])
    /\ sync' = [sync EXCEPT !.users[u] = RollOver(@)]
    /\ \/ u \in DOMAIN user /\ NoFault /\ user' = [user EXCEPT ![u] = RollOver(@)]
       \/ u \notin DOMAIN user /\ NoFault /\ UNCHANGED user
       \/ u \in DOMAIN user /\ Fault /\ UNCHANGED user
    /\ UNCHANGED <<acctVars, netVars, conn, boards, day>>

SyncMonthDone ==
    /\ sync.pc = "month" /\ \A u \in DOMAIN sync.users : ~NeedsReset(sync.users[u])
    /\ sync' = [sync EXCEPT !.pc = "apply"]
    /\ UNCHANGED <<acctVars, netVars, rowVars, boundVars>>

\* applyConnectionUpdates: GetConnection.
SyncRead(c) ==
    /\ sync.pc = "apply" /\ c \in DOMAIN sync.todo
    /\ \/ c \in DOMAIN conn /\ NoFault
          /\ sync' = [sync EXCEPT !.pc = "write", !.at = c, !.row = conn[c]]
       \/ c \notin DOMAIN conn /\ NoFault
          /\ sync' = [sync EXCEPT !.todo = Drop(@, {c})]
       \/ Fault /\ sync' = [sync EXCEPT !.todo = Drop(@, {c})]
    /\ UNCHANGED <<acctVars, netVars, rowVars, day>>

\* UpdateConnection with absolute values; its result is ignored.
SyncWrite ==
    LET c == sync.at IN
    /\ sync.pc = "write" /\ sync' = [sync EXCEPT !.pc = "account"]
    /\ \/ c \in DOMAIN conn /\ NoFault
          /\ conn' = [conn EXCEPT ![c] = [last |-> sync.todo[c].curr,
                                          total |-> sync.row.total + sync.todo[c].delta]]
       \/ c \notin DOMAIN conn /\ NoFault /\ UNCHANGED conn
       \/ c \in DOMAIN conn /\ Fault /\ UNCHANGED conn
    /\ UNCHANGED <<acctVars, netVars, user, boards, day>>

Counted(u, d) == Put(sync.counted, u, d + IF u \in DOMAIN sync.counted THEN sync.counted[u] ELSE 0)

\* Mutant: the date of the reset is not saved.
ResetUsedKeepsDate(row, now) ==
    IF isTrafficResetNeeded(row, now) THEN [row EXCEPT !.used = 0] ELSE row

ResetUsed(row, now) ==
    IF isTrafficResetNeeded(row, now) THEN [row EXCEPT !.used = 0, !.lastReset = now] ELSE row

\* The user's half of an update: reset if the period is over, then absolute totals
\* from the copy.  Either of the two writes may fail, and the copy does not notice.
SyncAccount ==
    LET c == sync.at
        u == Owner[c]
        d == sync.todo[c].delta
        reset == ResetUsed(sync.users[u], sync.now)
        new == AddBytes(reset, d)
        Write(date) == [user EXCEPT ![u].used = new.used, ![u].total = new.total,
                                    ![u].monthly = new.monthly, ![u].lastReset = date]
        known == u \in DOMAIN sync.users
    IN
    /\ sync.pc = "account"
    /\ sync' = [sync EXCEPT
         !.pc = "apply", !.todo = Drop(@, {c}), !.at = None, !.row = None,
         !.users = IF known THEN Put(@, u, new) ELSE @,
         !.counted = IF known THEN Counted(u, d) ELSE @,
         !.disable = IF known /\ new.enabled /\ OverLimit(u, new) THEN @ \cup {u} ELSE @]
    /\ \/ known /\ u \in DOMAIN user /\ NoFault
          /\ user' = Write(IF reset = sync.users[u] THEN user[u].lastReset ELSE sync.now)
       \/ known /\ u \in DOMAIN user /\ Fault /\ user' = Write(user[u].lastReset)
       \/ known /\ u \in DOMAIN user /\ Fault
          /\ user' = IF reset = sync.users[u] THEN user
                     ELSE [user EXCEPT ![u].used = 0, ![u].lastReset = sync.now]
       \/ (~known \/ u \notin DOMAIN user) /\ NoFault /\ UNCHANGED user
    /\ UNCHANGED <<acctVars, netVars, conn, boards, day>>

ConnsOf(us) == {c \in DOMAIN conn : Owner[c] \in us}
ToDisable == sync.disable \cup {u \in DOMAIN sync.users : MustDisable(u, sync.users[u], sync.now)}

\* The limit check of all users, then PerformMassOperations: the clients on their
\* servers first, the rows afterwards.  A failing client changes nothing else.
SyncEnforce ==
    /\ sync.pc = "apply" /\ sync.todo = Empty
    /\ sync' = IdleSync
    /\ \E deaf \in SUBSET (ConnsOf(ToDisable) \cap Remote), kept \in SUBSET ToDisable :
         /\ cut' = cut \cup ((ConnsOf(ToDisable) \cap Remote) \ deaf)
         /\ user' = [u \in DOMAIN user |->
                       IF u \in ToDisable \ kept THEN [user[u] EXCEPT !.enabled = FALSE]
                       ELSE user[u]]
         /\ IF deaf \cup kept = {} THEN NoFault ELSE Fault
    /\ UNCHANGED <<acctVars, counter, carried, recorded, conn, boards, day>>

SyncStep ==
    \/ SyncBegin \/ SyncQuery \/ SyncUsers \/ SyncBoard \/ SyncMonthDone
    \/ \E u \in Users : SyncMonth(u)
    \/ \E c \in Conns : SyncRead(c)
    \/ SyncWrite \/ SyncAccount \/ SyncEnforce

-----------------------------------------------------------------------------
(* The panel, the calendar and crashes *)

Event == room.events > 0 /\ room' = [room EXCEPT !.events = @ - 1] /\ UNCHANGED failed

\* ToggleUser of the panel: the row, then the clients of the user.
Toggle(u, on) ==
    /\ Event /\ u \in DOMAIN user /\ user[u].enabled # on
    /\ user' = [user EXCEPT ![u].enabled = on]
    /\ cut' = IF on THEN cut \ ConnsOf({u}) ELSE cut \cup (ConnsOf({u}) \cap Remote)
    /\ sync' = [sync EXCEPT !.toggled = @ \cup {u}]
    /\ UNCHANGED <<acctVars, counter, carried, recorded, conn, boards, day>>

DeleteConnection(c) ==
    /\ Event /\ c \in DOMAIN conn
    /\ conn' = Drop(conn, {c})
    /\ UNCHANGED <<acctVars, netVars, user, boards, sync, day>>

\* DeleteUser: one transaction for the user and its connections.
DeleteUser(u) ==
    /\ Event /\ u \in DOMAIN user
    /\ user' = Drop(user, {u}) /\ conn' = Drop(conn, ConnsOf({u}))
    /\ UNCHANGED <<acctVars, netVars, boards, sync, day>>

NextDay ==
    /\ day < MaxDay /\ day' = day + 1
    /\ UNCHANGED <<acctVars, netVars, rowVars, sync, room, failed>>

\* The process is killed and starts again; buffered bytes and the cycle are gone.
Crash ==
    /\ Fault
    /\ buffer' = [c \in Conns |-> 0] /\ acct' = "stopped"
    /\ flush' = [pc |-> "idle", delta |-> Empty, at |-> None]
    /\ sync' = IdleSync
    /\ UNCHANGED <<netVars, promised, sess, rowVars, day>>

Outside ==
    \/ \E c \in Conns : Carry(c) \/ CounterReset(c) \/ DeleteConnection(c)
    \/ \E u \in Users : DeleteUser(u) \/ \E on \in BOOLEAN : Toggle(u, on)
    \/ NextDay \/ Crash

TrafficNext == Accountant \/ SyncStep \/ Outside

\* The orchestrator's loop comes back to SyncTraffic and its calls return.
TrafficFairness == WF_trafficVars(SyncStep)

TrafficSpec == TrafficInit /\ [][TrafficNext]_trafficVars /\ TrafficFairness

-----------------------------------------------------------------------------
(* Properties *)

InFlight(c) ==
    IF c \in DOMAIN flush.delta /\ ~(flush.pc = "user" /\ flush.at = c)
    THEN flush.delta[c] ELSE 0

(* A connection with one writer is never charged for a byte twice, whatever counters
   reset, writes fail or processes die; and without a failure the portal's bytes are
   all in the row, in the flush or in the buffer. *)
ConnBytesCountedOnce ==
    \A c \in DOMAIN conn \ (Portal \cap Remote) :
       IF c \in Portal
       THEN LET all == conn[c].total + buffer[c] + InFlight(c)
            IN  all <= recorded[c] /\ (~failed => all = recorded[c])
       ELSE conn[c].total <= carried[c]

\* All connections of u ever had are written by the same writer.
OneWriter(u) ==
    LET own == {c \in Conns : Owner[c] = u} IN own \subseteq Portal \/ own \subseteq Remote
Unmixed(u) == OneWriter(u) /\ {c \in Conns : Owner[c] = u} \cap Portal \cap Remote = {}

(* A user's total covers the totals of the user's connections, and never exceeds the
   traffic there was: between two cycles nothing is lost or invented by the copies
   SyncTraffic works on, as long as one writer serves the user and no call fails. *)
UserTotalsAgree ==
    ~failed => \A u \in DOMAIN user : Unmixed(u) =>
       LET own == {c \in Conns : Owner[c] = u} IN
       /\ user[u].total <= FoldFunctionOnSet(+, 0, [c \in Conns |-> carried[c] + recorded[c]], own)
       /\ (sync.pc = "idle" /\ flush.pc = "idle") =>
             user[u].total >= FoldFunctionOnSet(+, 0, [c \in DOMAIN conn |-> conn[c].total],
                                                own \cap DOMAIN conn)

(* The totals of connections and users are the bytes there were, each once
   (SyncTraffic, TrafficAccountant.Flush). *)
TotalsExact == TrafficTypeOK /\ ConnBytesCountedOnce /\ UserTotalsAgree

(* A period that ends in the middle of a cycle is reset once: the bytes this cycle has
   already charged to the user stay charged. *)
ResetKeepsThisCycle ==
    ~failed => \A u \in DOMAIN sync.counted \cap DOMAIN user :
       Unmixed(u) => user[u].used >= sync.counted[u]

(* Stop returns with every byte recorded before the call in the rows. *)
StopLosesNothing ==
    (acct \in {"stopped", "running"} /\ ~failed) =>
       \A c \in DOMAIN conn \cap (Portal \ Remote) : conn[c].total >= promised[c]

(* A month's counter is cleared only after the leaderboard of that month was saved with
   at least what the cycle knew of, for users that stayed enabled. *)
BoardBeforeReset ==
    \A u \in DOMAIN sync.users :
         LET row == sync.users[u] IN
         (/\ sync.pc = "month" /\ sync'.pc = "month" /\ MonthPassed(row)
          /\ sync'.users[u] # row /\ row.enabled /\ row.monthly > 0
          /\ u \notin sync.toggled /\ u \in DOMAIN user /\ ~failed)
         => LET m == Month(row.monthlyReset) IN
            m \in DOMAIN boards /\ u \in DOMAIN boards[m] /\ boards[m][u] >= row.monthly

(* A saved leaderboard entry is not replaced later by another month's traffic, as long
   as no write of a rollover failed and no process died in the middle of one. *)
BoardsAreFinal ==
    ~failed => \A m \in DOMAIN boards : \A u \in DOMAIN boards[m] :
         m \in DOMAIN boards' /\ u \in DOMAIN boards'[m] /\ boards'[m][u] = boards[m][u]

(* Every step of the rollover (SaveLeaderboardSnapshot, then the reset of the month) keeps the
   leaderboards complete and final. *)
BoardsKept == [][BoardBeforeReset /\ BoardsAreFinal]_trafficVars

Violates(u) ==
    /\ u \in DOMAIN user /\ user[u].enabled
    /\ (Limit[u] > 0 /\ user[u].used >= Limit[u]) \/ day > Expiry[u]

(* A user over quota or past expiry is disabled by a later cycle, or comes under the
   limit again, or is deleted. *)
LimitsAreEnforced == \A u \in Users : Violates(u) ~> ~Violates(u)
=============================================================================
