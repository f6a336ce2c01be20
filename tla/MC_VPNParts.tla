----------------------------- MODULE MC_VPNParts -----------------------------
(***************************************************************************)
(* Four parts of the VPN side, each on its own: the session manager with   *)
(* free callers, the packet forwarder, the background tasks that move      *)
(* sessions between tunnels, and the AWG manager of a server.  They share  *)
(* no state here; a behaviour is one of one of them (part), and the others *)
(* stay where they begin.                                                  *)
(***************************************************************************)
EXTENDS SessionManager, PacketForwarder, VPNTasks, AWGManager, TLC

CONSTANTS k1, k2, u1, u2, t1, t2, f1, f2

\* Two users with a key each share two addresses and two backends.
MCOwner == k1 :> u1 @@ k2 :> u2

\* The two peers of the forwarder are interchangeable, and so are the backends.
PartsSymmetry == Permutations({f1, f2}) \cup Permutations({t1, t2})

VARIABLE part

\* The tasks visit peers in any order, so that it does not matter which of
\* them begins on which tunnel, only how many do.
InOrder == \A p, q \in SessionPeers : p < q => sessionRow[p].on <= sessionRow[q].on

\* Where the tasks are not the part looked at, every session is on tunnel 1.
TasksAtRest == \A p \in SessionPeers : sessionRow[p].on = 1

PartsInit ==
    /\ part \in {"sessions", "forwarder", "tasks", "awg"}
    /\ SMInit /\ ForwarderInit /\ TasksInit /\ AWGInit
    /\ IF part = "tasks" THEN InOrder ELSE TasksAtRest

\* The third session comes only where no statement has failed.
SessionBudget == dbErrors = 0 \/ nextID <= MaxSessionID

Only(p) == part = p /\ UNCHANGED part

PartsNext ==
    \/ Only("sessions") /\ SMNext /\ UNCHANGED <<forwarderVars, tasksVars, awgVars>>
       /\ SessionBudget'
    \/ Only("forwarder") /\ ForwarderNext /\ UNCHANGED <<smVars, tasksVars, awgVars>>
    \/ Only("tasks") /\ TasksNext /\ UNCHANGED <<smVars, forwarderVars, awgVars>>
    \/ Only("awg") /\ AWGNext /\ UNCHANGED <<smVars, forwarderVars, tasksVars>>

partsVars == <<part, smVars, forwarderVars, tasksVars, awgVars>>

PartsSpec == PartsInit /\ [][PartsNext]_partsVars
=============================================================================
