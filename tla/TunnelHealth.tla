---------------------------- MODULE TunnelHealth ----------------------------
(***************************************************************************)
(* The backend tunnels in memory: the pool (vpn/tunnel/pool.go), the       *)
(* prober that rates them (health.go), the manager that retries the bad    *)
(* ones (reconnect.go), and what Service does with the three: Start, Stop  *)
(* and the administrator's switch (vpn.go).                                *)
(*                                                                         *)
(* A backend has at most one tunnel, so the three maps of the pool are     *)
(* one.  A probe is two steps, its answer and what is made of it under the *)
(* lock of the prober, as other writers may come in between.               *)
(***************************************************************************)
EXTENDS Naturals, FiniteSets, Functions, TLC

CONSTANTS Backends, NoBackend,
          FailureThreshold, MaxRetries,
          InitialBackoff, MaxBackoff, Multiplier,
          MaxClock,       \* bound: time
          MaxChanges      \* bound: events of the network and of the administrator

ASSUME TunnelHealthAssumption ==
    /\ FailureThreshold \in Nat \ {0} /\ MaxRetries \in Nat \ {0}
    /\ InitialBackoff \in Nat \ {0} /\ MaxBackoff \in Nat /\ Multiplier \in Nat
    /\ MaxClock \in Nat /\ MaxChanges \in Nat
    /\ NoBackend \notin Backends

Answers == {"fast", "slow", "down"}     \* below, above the latency threshold, no answer

VARIABLES
    reach,      \* how the endpoint of a backend answers a probe
    tunnelPool,       \* Pool: the status of each tunnel
    tunnelRow,  \* backend_tunnels: the status of each tunnel
    fails,      \* HealthProber.failCounts, not followed beyond the threshold
    ping,       \* the goroutines of ProbeAll: sent, or an answer to be applied
    service,    \* Service.running, and where Stop stands
    proberOn, reconnectOn,      \* their loops
    closed,     \* Pool.closed
    rm,         \* CheckAndReconnect: its local variables
    retries, backoffs, nextAttempt,
    clock, changes

rmVars == <<rm, retries, backoffs, nextAttempt>>
loopVars == <<service, proberOn, reconnectOn, closed>>
netVars == <<reach, clock, changes>>
healthVars == <<reach, tunnelPool, tunnelRow, fails, ping, loopVars, rmVars, clock, changes>>

IdleRm == [pc |-> "idle", todo |-> <<>>, at |-> NoBackend, ans |-> "none", now |-> 0,
           tries |-> 0, backoff |-> 0]

HealthInit ==
    /\ reach \in [Backends -> Answers]
    /\ tunnelPool = <<>> /\ tunnelRow \in [Backends -> {"active", "disabled"}]
    /\ fails = [b \in Backends |-> 0] /\ ping = [b \in Backends |-> "none"]
    /\ service = "stopped" /\ proberOn = FALSE /\ reconnectOn = FALSE
    /\ closed = FALSE
    /\ rm = IdleRm /\ retries = fails /\ backoffs = fails /\ nextAttempt = fails
    /\ clock = 0 /\ changes = 0

Change == changes < MaxChanges /\ changes' = changes + 1

\* Under the lock of the pool: the copy in memory, then the row, if they are there.
SetTunnelStatus(b, status) ==
    /\ tunnelPool' = [c \in DOMAIN tunnelPool |-> IF c = b THEN status ELSE tunnelPool[c]]
    /\ tunnelRow' = [c \in DOMAIN tunnelRow |->
                        IF c = b /\ b \in DOMAIN tunnelPool THEN status ELSE tunnelRow[c]]

-----------------------------------------------------------------------------
(* HealthProber *)

Failed(b) == fails' = [fails EXCEPT ![b] = IF @ < FailureThreshold THEN @ + 1 ELSE @]
Rating(answer) == IF answer = "fast" THEN "active" ELSE "degraded"

\* Mutant: a good probe does not bring a disabled tunnel back.
ProbeResultKeepsDisabled(b, answer) ==
    IF answer = "down"
    THEN /\ Failed(b)
         /\ SetTunnelStatus(b, IF fails'[b] = FailureThreshold THEN "disabled" ELSE "degraded")
    ELSE /\ fails' = [fails EXCEPT ![b] = 0]
         /\ \/ b \in DOMAIN tunnelPool /\ tunnelPool[b] = "disabled" /\ UNCHANGED <<tunnelPool, tunnelRow>>
            \/ ~ (b \in DOMAIN tunnelPool /\ tunnelPool[b] = "disabled") /\ SetTunnelStatus(b, Rating(answer))

\* The second half of ProbeTunnel, under the lock of the prober.
ProbeResult(b, answer) ==
    IF answer = "down"
    THEN /\ Failed(b)
         /\ SetTunnelStatus(b, IF fails'[b] = FailureThreshold THEN "disabled" ELSE "degraded")
    ELSE /\ fails' = [fails EXCEPT ![b] = 0]
         /\ SetTunnelStatus(b, Rating(answer))

\* At the start of the loop and on each tick: one goroutine for each tunnel.
ProbeAll ==
    /\ proberOn /\ \A b \in Backends : ping[b] = "none"
    /\ ping' = [b \in Backends |-> IF b \in DOMAIN tunnelPool THEN "sent" ELSE "none"]
    /\ UNCHANGED <<netVars, tunnelPool, tunnelRow, fails, loopVars, rmVars>>

ProbeAnswer(b) ==
    /\ ping[b] = "sent" /\ ping' = [ping EXCEPT ![b] = reach[b]]
    /\ UNCHANGED <<netVars, tunnelPool, tunnelRow, fails, loopVars, rmVars>>

ProbeApply(b) ==
    /\ ping[b] \in Answers /\ ping' = [ping EXCEPT ![b] = "none"]
    /\ ProbeResult(b, ping[b])
    /\ UNCHANGED <<netVars, loopVars, rmVars>>

ProberStep == ProbeAll \/ \E b \in Backends : ProbeAnswer(b) \/ ProbeApply(b)

-----------------------------------------------------------------------------
(* ReconnectManager *)

Forgotten(b) ==
    /\ retries' = [retries EXCEPT ![b] = 0] /\ backoffs' = [backoffs EXCEPT ![b] = 0]
    /\ nextAttempt' = [nextAttempt EXCEPT ![b] = 0]

Rest(b) == Restrict(rm.todo, DOMAIN rm.todo \ {b})

\* A pass over a copy of the tunnels; it notes the time once.
Reconnect ==
    /\ reconnectOn /\ rm.pc = "idle"
    /\ rm' = [IdleRm EXCEPT !.pc = "next", !.todo = tunnelPool, !.now = clock]
    /\ UNCHANGED <<netVars, tunnelPool, tunnelRow, fails, ping, loopVars, retries, backoffs,
                   nextAttempt>>

GivenUp(b) == retries[b] >= MaxRetries
TooEarly(b) == rm.now < nextAttempt[b]

\* The next tunnel: active in the copy, given up, waiting, or to be probed.
ReconnectNext(b) ==
    /\ rm.pc = "next" /\ b \in DOMAIN rm.todo
    /\ \/ /\ rm.todo[b] = "active"
          /\ Forgotten(b) /\ rm' = [rm EXCEPT !.todo = Rest(b)]
       \/ /\ rm.todo[b] # "active" /\ (GivenUp(b) \/ TooEarly(b))
          /\ rm' = [rm EXCEPT !.todo = Rest(b)]
          /\ UNCHANGED <<retries, backoffs, nextAttempt>>
       \/ /\ rm.todo[b] # "active" /\ ~GivenUp(b) /\ ~TooEarly(b)
          /\ rm' = [rm EXCEPT !.pc = "sent", !.todo = Rest(b), !.at = b, !.tries = retries[b],
                      !.backoff = IF backoffs[b] = 0 THEN InitialBackoff ELSE backoffs[b]]
          /\ UNCHANGED <<retries, backoffs, nextAttempt>>
    /\ UNCHANGED <<netVars, tunnelPool, tunnelRow, fails, ping, loopVars>>

ReconnectAnswer ==
    /\ rm.pc = "sent" /\ rm' = [rm EXCEPT !.pc = "answered", !.ans = reach[rm.at]]
    /\ UNCHANGED <<netVars, tunnelPool, tunnelRow, fails, ping, loopVars, retries, backoffs,
                   nextAttempt>>

ReconnectApply ==
    /\ rm.pc = "answered" /\ rm' = [rm EXCEPT !.pc = "written"]
    /\ ProbeResult(rm.at, rm.ans)
    /\ UNCHANGED <<netVars, ping, loopVars, retries, backoffs, nextAttempt>>

NextBackoff(w) == IF w * Multiplier > MaxBackoff THEN MaxBackoff ELSE w * Multiplier

\* Back under its own lock: a good answer makes the tunnel active once more, another one
\* raises the back-off, counted from the start of the pass.
ReconnectDone ==
    LET wait == NextBackoff(rm.backoff) IN
    /\ rm.pc = "written"
    /\ rm' = [rm EXCEPT !.pc = "next", !.at = NoBackend, !.ans = "none", !.tries = 0,
                        !.backoff = 0]
    /\ \/ rm.ans = "fast" /\ Forgotten(rm.at) /\ SetTunnelStatus(rm.at, "active")
       \/ /\ rm.ans # "fast" /\ UNCHANGED <<tunnelPool, tunnelRow>>
          /\ retries' = [retries EXCEPT ![rm.at] = rm.tries + 1]
          /\ backoffs' = [backoffs EXCEPT ![rm.at] = wait]
          /\ nextAttempt' = [nextAttempt EXCEPT ![rm.at] = rm.now + wait]
    /\ UNCHANGED <<netVars, fails, ping, loopVars>>

ReconnectEnd ==
    /\ rm.pc = "next" /\ DOMAIN rm.todo = {} /\ rm' = IdleRm
    /\ UNCHANGED <<netVars, tunnelPool, tunnelRow, fails, ping, loopVars, retries, backoffs,
                   nextAttempt>>

ReconnectStep ==
    \/ Reconnect \/ ReconnectAnswer \/ ReconnectApply \/ ReconnectDone \/ ReconnectEnd
    \/ \E b \in Backends : ReconnectNext(b)

-----------------------------------------------------------------------------
(* Service *)

\* The rows into the pool, the loops, then the listener, which may fail: then the service
\* is not running, and what has been started stays.
ServiceStart ==
    /\ service = "stopped" /\ Change
    /\ tunnelPool' = tunnelRow @@ tunnelPool
    /\ proberOn' = TRUE /\ reconnectOn' = TRUE
    /\ service' \in {"running", "stopped"}
    /\ UNCHANGED <<reach, clock, tunnelRow, fails, ping, closed, rmVars>>

ServiceStop ==
    /\ service = "running" /\ Change /\ service' = "stopping"
    /\ UNCHANGED <<reach, clock, tunnelPool, tunnelRow, fails, ping, proberOn, reconnectOn, closed,
                   rmVars>>

\* Mutant: the probes on their way are not awaited.
ProberStoppedEarly ==
    /\ service = "stopping" /\ proberOn
    /\ proberOn' = FALSE
    /\ UNCHANGED <<netVars, tunnelPool, tunnelRow, fails, ping, service, reconnectOn, closed,
                   rmVars>>

\* Stop waits for the loop of the prober, then for that of the manager, and closes the pool.
\* A loop may still take a tick that is due when it is told to stop.
ProberStopped ==
    /\ service = "stopping" /\ proberOn /\ \A b \in Backends : ping[b] = "none"
    /\ proberOn' = FALSE
    /\ UNCHANGED <<netVars, tunnelPool, tunnelRow, fails, ping, service, reconnectOn, closed,
                   rmVars>>
ReconnectStopped ==
    /\ service = "stopping" /\ ~proberOn /\ rm.pc = "idle"
    /\ reconnectOn' = FALSE /\ service' = "stopped" /\ closed' = TRUE
    /\ UNCHANGED <<netVars, tunnelPool, tunnelRow, fails, ping, proberOn, rmVars>>

SetBackend(b, status) ==
    /\ b \in DOMAIN tunnelPool /\ Change /\ SetTunnelStatus(b, status)
    /\ UNCHANGED <<reach, clock, fails, ping, loopVars, rmVars>>
EnableTunnel(b) == SetBackend(b, "active")
DisableTunnel(b) == SetBackend(b, "disabled")

AddTunnel(b) ==
    /\ ~closed /\ b \notin DOMAIN tunnelPool \cup DOMAIN tunnelRow /\ Change
    /\ tunnelPool' = (b :> "active") @@ tunnelPool /\ tunnelRow' = (b :> "active") @@ tunnelRow
    /\ UNCHANGED <<reach, clock, fails, ping, loopVars, rmVars>>

RemoveTunnel(b) ==
    /\ b \in DOMAIN tunnelPool /\ Change
    /\ tunnelPool' = Restrict(tunnelPool, DOMAIN tunnelPool \ {b})
    /\ tunnelRow' = Restrict(tunnelRow, DOMAIN tunnelRow \ {b})
    /\ UNCHANGED <<reach, clock, fails, ping, loopVars, rmVars>>

\* The panel deletes the server: its row goes, the pool is not told.
ServerDeleted(b) ==
    /\ b \in DOMAIN tunnelRow /\ Change
    /\ tunnelRow' = Restrict(tunnelRow, DOMAIN tunnelRow \ {b})
    /\ UNCHANGED <<reach, clock, tunnelPool, fails, ping, loopVars, rmVars>>

\* The orchestrator's monitor writes rows only.
MonitorWrites(b, status) ==
    /\ b \in DOMAIN tunnelRow /\ tunnelRow[b] # "disabled" /\ Change
    /\ tunnelRow' = [tunnelRow EXCEPT ![b] = status]
    /\ UNCHANGED <<reach, clock, tunnelPool, fails, ping, loopVars, rmVars>>

Network(b) ==
    /\ Change /\ \E a \in Answers : reach' = [reach EXCEPT ![b] = a]
    /\ UNCHANGED <<clock, tunnelPool, tunnelRow, fails, ping, loopVars, rmVars>>

ClockTick ==
    /\ clock < MaxClock /\ clock' = clock + 1
    /\ UNCHANGED <<reach, changes, tunnelPool, tunnelRow, fails, ping, loopVars, rmVars>>

ServiceStep ==
    \/ ServiceStart \/ ServiceStop \/ ProberStopped \/ ReconnectStopped
    \/ \E b \in Backends :
          \/ EnableTunnel(b) \/ DisableTunnel(b) \/ AddTunnel(b) \/ RemoveTunnel(b)
          \/ ServerDeleted(b) \/ Network(b)
          \/ \E status \in {"active", "degraded"} : MonitorWrites(b, status)

HealthNext == ProberStep \/ ReconnectStep \/ ServiceStep \/ ClockTick

\* Tickers fire, probes have a timeout, no lock is held for ever, and select is fair
\* between a tick and the stop channel.
HealthFairness ==
    /\ WF_healthVars(ProbeAll)
    /\ \A b \in Backends : WF_healthVars(ProbeAnswer(b)) /\ WF_healthVars(ProbeApply(b))
    /\ WF_healthVars(ReconnectStep) /\ SF_healthVars(ProberStopped)
    /\ SF_healthVars(ReconnectStopped)

HealthSpec == HealthInit /\ [][HealthNext]_healthVars /\ HealthFairness

-----------------------------------------------------------------------------
(* When Stop returns no probe is in flight and no loop is left to start one, so nothing  *)
(* writes the status of a tunnel after it (Service.Stop, HealthProber.Stop).             *)
StopIsQuiet ==
    [][(service = "stopping" /\ service' = "stopped") =>
          /\ \A b \in Backends : ping'[b] = "none"
          /\ rm'.pc = "idle" /\ ~proberOn' /\ ~reconnectOn']_healthVars

HasStatus(b, status) == b \in DOMAIN tunnelPool /\ tunnelPool[b] = status
Settled(b, answer) == <>[](reach[b] = answer /\ b \in DOMAIN tunnelPool /\ proberOn)

(* While the prober runs, a backend that answers well for good ends up active for good,  *)
(* even if the reconnect manager has given it up, and one that answers no more ends up   *)
(* disabled, whatever late answer was written after newer ones (ProbeTunnel).            *)
StatusConverges ==
    \A b \in Backends :
        /\ Settled(b, "fast") => <>[]HasStatus(b, "active")
        /\ Settled(b, "down") => <>[]HasStatus(b, "disabled")

(* Stop returns: the sweep it waits for ends, and so does the pass of the manager.       *)
StopReturns == service = "stopping" ~> service = "stopped"

(* The loops reach their goal: the status of every tunnel settles on what its backend    *)
(* answers, and Stop ends them.                                                          *)
HealthSettles == StatusConverges /\ StopReturns
=============================================================================
