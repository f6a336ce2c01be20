----------------------------- MODULE MC_Lifecycle -----------------------------
(***************************************************************************)
(* Processes that have to start, to stop and to come to rest: the          *)
(* supervised background worker, two of its tasks that probe servers and   *)
(* clients, the loops that probe the backend tunnels, and the start-up of  *)
(* the panel.  They share no state here; a behaviour is one of one of them *)
(* (part), and the others stay where they begin.                           *)
(***************************************************************************)
EXTENDS Background, TunnelHealth, Boot, Reachability

VARIABLE part

lifeVars == <<part, bgVars, healthVars, bootVars, reachVars>>

\* One initial state of each part for the others; a start-up that is not the
\* part looked at waits for its directory, and a server that is not has a
\* closed SSH port.
OthersAtRest ==
    /\ part # "boot" => env = NoKey /\ writable = {} /\ json = "absent" /\ file = "absent"
    /\ part # "tunnels" => \A b \in Backends : tunnelRow[b] = "active" /\ reach[b] = "fast"
    /\ part # "servers" => ~ tcpOpen /\ udpOpen /\ ~ stalled

LifeInit ==
    /\ part \in {"worker", "tunnels", "boot", "servers"}
    /\ BgInit /\ HealthInit /\ BootInit /\ ReachInit
    /\ OthersAtRest

Worker(A) == A /\ part = "worker" /\ UNCHANGED <<part, healthVars, bootVars, reachVars>>
Probing(A) == A /\ part = "tunnels" /\ UNCHANGED <<part, bgVars, bootVars, reachVars>>
Booting(A) == A /\ part = "boot" /\ UNCHANGED <<part, bgVars, healthVars, reachVars>>
Looking(A) == A /\ part = "servers" /\ UNCHANGED <<part, bgVars, healthVars, bootVars>>

LifeNext == Worker(BgNext) \/ Probing(HealthNext) \/ Booting(BootNext)
            \/ Looking(ReachNext)

\* The fairness of each part, as in BgFairSpec, HealthFairness, BootSpec and
\* ReachSpec.
LifeFairness ==
    /\ WF_lifeVars(Worker(WorkerStep)) /\ SF_lifeVars(Worker(StopObserved))
    /\ WF_lifeVars(Probing(ProbeAll))
    /\ \A b \in Backends :
         WF_lifeVars(Probing(ProbeAnswer(b))) /\ WF_lifeVars(Probing(ProbeApply(b)))
    /\ WF_lifeVars(Probing(ReconnectStep)) /\ SF_lifeVars(Probing(ProberStopped))
    /\ SF_lifeVars(Probing(ReconnectStopped))
    /\ WF_lifeVars(Booting(BootStep))
    /\ WF_lifeVars(Looking(TaskStep))

LifeSpec == LifeInit /\ [][LifeNext]_lifeVars /\ LifeFairness
=============================================================================
