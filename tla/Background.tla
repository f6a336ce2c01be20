----------------------------- MODULE Background -----------------------------
(***************************************************************************)
(* The background half of the panel process: cmd/panel/main.go starts the  *)
(* supervisor, whose only worker is the orchestrator's Start.  Three       *)
(* goroutines interleave: main, the loop of the worker (which also runs    *)
(* the orchestrator) and the supervisor's Start waiting for it.            *)
(*                                                                         *)
(* Time passes in Ticks.  A restart is known by its age, which stops       *)
(* growing at restartWindow: the sliding window tells no more apart.  What *)
(* RunAll does is left out, except that it may panic.                      *)
(***************************************************************************)
EXTENDS Naturals, Sequences

CONSTANTS maxRestarts, restartWindow, restartDelay

ASSUME BackgroundAssumption ==
    /\ maxRestarts \in Nat /\ restartDelay \in Nat
    /\ restartWindow \in Nat \ {0}

VARIABLES signalled,      \* the context of main is done
          main,           \* where main stands
          supervisor,     \* where Supervisor.Start stands
          running,        \* Supervisor.running
          cancelled,      \* the context Supervisor.Start made is cancelled
          worker,         \* where runWorkerLoop stands
          tripped,        \* the worker's circuit breaker
          restarts,       \* ages of the recorded restarts, oldest first
          waited,         \* time spent in the restart delay
          orchestrator,   \* where Orchestrator.Start stands, "out" outside it
          orchRunning,    \* Orchestrator.running
          stopClosed,     \* Orchestrator.stopCh is closed and its context cancelled
          granted         \* history: ages below restartWindow of all restarts

mainVars == <<signalled, main>>
supVars == <<supervisor, running, cancelled>>
workerVars == <<worker, tripped, restarts, waited, granted>>
orchVars == <<orchestrator, orchRunning, stopClosed>>
bgVars == <<mainVars, supVars, workerVars, orchVars>>

Ages == 0 .. restartWindow

(* Types, and how the goroutines stand to each other: the orchestrator runs
   inside its worker, and Supervisor.Start returns after it. *)
BgTypeOK ==
    /\ signalled \in BOOLEAN
    /\ main \in {"serving", "shutdown", "stopping", "exited"}
    /\ supervisor \in {"new", "waiting", "returned"}
    /\ running \in BOOLEAN /\ cancelled \in BOOLEAN
    /\ worker \in {"idle", "top", "exec", "failed", "delay", "ended"}
    /\ tripped \in BOOLEAN /\ waited \in 0 .. restartDelay
    /\ restarts \in Seq(Ages) /\ granted \in Seq(Ages)
    /\ orchestrator \in {"out", "boot", "run", "loop"}
    /\ orchRunning \in BOOLEAN /\ stopClosed \in BOOLEAN
    /\ worker = "idle" <=> supervisor = "new"
    /\ supervisor = "returned" => worker = "ended"
    /\ orchestrator # "out" => worker = "exec"

BgInit ==
    /\ signalled = FALSE /\ main = "serving"
    /\ supervisor = "new" /\ running = FALSE /\ cancelled = FALSE
    /\ worker = "idle" /\ tripped = FALSE /\ restarts = <<>> /\ waited = 0
    /\ granted = <<>>
    /\ orchestrator = "out" /\ orchRunning = FALSE /\ stopClosed = FALSE

Alive == main # "exited"
Done == signalled \/ cancelled

\* The restarts inside the window, in their order.
Recent(s) ==
    LET recent[i \in 0 .. Len(s)] ==
            IF i = 0 THEN <<>>
            ELSE IF s[i] < restartWindow THEN Append(recent[i - 1], s[i]) ELSE recent[i - 1]
    IN recent[Len(s)]

-----------------------------------------------------------------------------
(* Supervisor *)

Start ==
    /\ Alive /\ supervisor = "new"
    /\ running' = TRUE /\ supervisor' = "waiting" /\ worker' = "top"
    /\ UNCHANGED <<mainVars, cancelled, tripped, restarts, waited, granted, orchVars>>

\* g.Wait returns once the worker loop has ended, always without an error.
StartReturns ==
    /\ Alive /\ supervisor = "waiting" /\ worker = "ended"
    /\ running' = FALSE /\ supervisor' = "returned"
    /\ UNCHANGED <<mainVars, cancelled, workerVars, orchVars>>

LoopTop ==
    /\ Alive /\ worker = "top"
    /\ worker' = IF Done THEN "ended" ELSE "exec"
    /\ UNCHANGED <<mainVars, supVars, tripped, restarts, waited, granted, orchVars>>

\* Mutant: the limit itself still restarts.
WorkerFailedLate ==
    LET recent == Recent(restarts) IN
    /\ Alive /\ worker = "failed"
    /\ IF Len(recent) > maxRestarts
       THEN /\ worker' = "ended" /\ tripped' = TRUE /\ restarts' = recent
            /\ UNCHANGED <<waited, granted>>
       ELSE /\ worker' = "delay" /\ waited' = 0
            /\ restarts' = Append(recent, 0)
            /\ granted' = Append(granted, 0)
            /\ UNCHANGED tripped
    /\ UNCHANGED <<mainVars, supVars, orchVars>>

\* An error or a panic: prune the window, then trip or schedule a restart.
WorkerFailed ==
    LET recent == Recent(restarts) IN
    /\ Alive /\ worker = "failed"
    /\ IF Len(recent) >= maxRestarts
       THEN /\ worker' = "ended" /\ tripped' = TRUE /\ restarts' = recent
            /\ UNCHANGED <<waited, granted>>
       ELSE /\ worker' = "delay" /\ waited' = 0
            /\ restarts' = Append(recent, 0)
            /\ granted' = Append(granted, 0)
            /\ UNCHANGED tripped
    /\ UNCHANGED <<mainVars, supVars, orchVars>>

RestartDelay ==
    /\ Alive /\ worker = "delay"
    /\ \/ Done /\ worker' = "ended"
       \/ waited = restartDelay /\ worker' = "top"
    /\ UNCHANGED <<mainVars, supVars, tripped, restarts, waited, granted, orchVars>>

IsHealthy == ~tripped /\ Len(Recent(restarts)) <= maxRestarts

-----------------------------------------------------------------------------
(* Orchestrator.Start, inside executeSafely *)

OrchStop == Done \/ stopClosed

\* Leaving on the context or on stopCh is a clean exit of the worker.
Leave ==
    /\ orchestrator' = "out" /\ orchRunning' = FALSE /\ worker' = "ended"
    /\ UNCHANGED stopClosed

OrchestratorStart ==
    /\ Alive /\ worker = "exec" /\ orchestrator = "out"
    /\ IF orchRunning
       THEN worker' = "failed" /\ UNCHANGED orchVars
       ELSE /\ orchestrator' = "boot" /\ orchRunning' = TRUE /\ stopClosed' = FALSE
            /\ UNCHANGED worker
    /\ UNCHANGED <<mainVars, supVars, tripped, restarts, waited, granted>>

\* The boot delay has elapsed, or the ticker fires.
RunDue ==
    /\ Alive /\ orchestrator \in {"boot", "loop"}
    /\ orchestrator' = "run"
    /\ UNCHANGED <<mainVars, supVars, workerVars, orchRunning, stopClosed>>

\* Mutant: only the boot delay listens.
StopObservedAtBoot ==
    /\ Alive /\ orchestrator = "boot"
    /\ OrchStop /\ Leave
    /\ UNCHANGED <<mainVars, supVars, tripped, restarts, waited, granted>>

StopObserved ==
    /\ Alive /\ orchestrator \in {"boot", "loop"}
    /\ OrchStop /\ Leave
    /\ UNCHANGED <<mainVars, supVars, tripped, restarts, waited, granted>>

\* A panic passes through Start without setStopped.
RunAll ==
    /\ Alive /\ orchestrator = "run"
    /\ \/ orchestrator' = "loop" /\ UNCHANGED worker
       \/ orchestrator' = "out" /\ worker' = "failed"
    /\ UNCHANGED <<mainVars, supVars, tripped, restarts, waited, granted,
                   orchRunning, stopClosed>>

-----------------------------------------------------------------------------
(* main *)

Signal ==
    /\ Alive /\ ~signalled
    /\ signalled' = TRUE
    /\ UNCHANGED <<main, supVars, workerVars, orchVars>>

ServerError ==
    /\ main = "serving"
    /\ main' = "exited"
    /\ UNCHANGED <<signalled, supVars, workerVars, orchVars>>

LeaveServing ==
    /\ main = "serving" /\ (signalled \/ supervisor = "returned")
    /\ main' = "shutdown"
    /\ UNCHANGED <<signalled, supVars, workerVars, orchVars>>

\* Supervisor.Stop; the services are stopped after s.mu is released.
StopSupervisor ==
    /\ main = "shutdown"
    /\ IF running
       THEN cancelled' = TRUE /\ running' = FALSE /\ main' = "stopping"
       ELSE main' = "exited" /\ UNCHANGED <<cancelled, running>>
    /\ UNCHANGED <<signalled, supervisor, workerVars, orchVars>>

StopOrchestrator ==
    /\ main = "stopping"
    /\ main' = "exited"
    /\ orchRunning' = FALSE
    /\ stopClosed' = (stopClosed \/ orchRunning)
    /\ UNCHANGED <<signalled, supVars, workerVars, orchestrator>>

Older(s) == [i \in DOMAIN s |-> IF s[i] < restartWindow THEN s[i] + 1 ELSE s[i]]

Tick ==
    /\ Alive
    /\ restarts' = Older(restarts) /\ granted' = Recent(Older(granted))
    /\ waited' = IF waited < restartDelay THEN waited + 1 ELSE waited
    /\ UNCHANGED <<mainVars, supVars, worker, tripped, orchVars>>

-----------------------------------------------------------------------------
WorkerStep ==
    Start \/ LoopTop \/ WorkerFailed \/ RestartDelay \/ OrchestratorStart \/ RunAll

BgNext ==
    \/ WorkerStep \/ RunDue \/ StopObserved \/ StartReturns
    \/ Signal \/ ServerError \/ LeaveServing \/ StopSupervisor \/ StopOrchestrator
    \/ Tick

BgSpec == BgInit /\ [][BgNext]_bgVars

\* The worker's goroutine keeps running and RunAll returns or panics.  A select
\* with several cases ready picks one at random, so it does not ignore a closed
\* channel for ever.  Nothing is assumed about main or about time.
BgFairSpec == BgSpec /\ WF_bgVars(WorkerStep) /\ SF_bgVars(StopObserved)

-----------------------------------------------------------------------------
(* "Sliding window restarts": in any window of restartWindow the worker is
   granted at most maxRestarts restarts.  `granted' follows the restarts by
   itself, without the pruning runWorkerLoop does on each failure. *)
RestartsBounded == Len(granted) <= maxRestarts

(* A dead background is visible: when the worker has ended and nobody asked it
   to stop, IsHealthy reports it, whatever made the worker end. *)
DeathIsReported == (worker = "ended" /\ ~Done) => ~IsHealthy

(* The supervisor restarts a failing worker only so often, and says so when it
   has given up (runWorkerLoop, IsHealthy). *)
RestartsAccounted == BgTypeOK /\ RestartsBounded /\ DeathIsReported

(* After a signal or Supervisor.Stop the worker comes to an end wherever it is:
   not started, booting, in a run, waiting for a tick or for a restart. *)
StopReachesWorker == Done ~> (worker = "ended" \/ main = "exited")

(* "panic recovery and sliding window restarts": when the supervisor starts the
   orchestrator again after a failure, the orchestrator can start. *)
RestartFindsStopped == (worker = "exec" /\ orchestrator = "out") => ~orchRunning

=============================================================================
