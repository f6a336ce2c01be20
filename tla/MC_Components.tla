---------------------------- MODULE MC_Components ----------------------------
(***************************************************************************)
(* The components that work on a state of their own: the address manager   *)
(* and the arithmetic of its range, the SSH pool, sign-in and session      *)
(* cookies, backup and settings, the rate limiter, and the load balancers. *)
(* A behaviour is one of one of them (part), and the others stay where     *)
(* they begin.                                                             *)
(***************************************************************************)
EXTENDS IPAM, IPAMRange, SSHPool, Access, Backup, RateLimiter, Balancer, TLC

CONSTANTS h1, t1, t2, t3

\* A server is known by nothing or by a fingerprint of the old format.
MCKnown0 == {NoKey, [alg |-> "md5", key |-> h1]}

\* A weight for each tunnel, or one of zero and one left to the default.
MCWeightMaps == {t1 :> 1 @@ t2 :> 3 @@ t3 :> 2, t1 :> 60 @@ t2 :> 0}

\* The two callers of the pool are alike, and no property is a liveness one.
CallerSymmetry == Permutations(Callers)

VARIABLE part

\* One initial state of each part that has several, for the others.
OthersAtRest ==
    /\ part # "range" => addr = 0 /\ prefix = 0
    /\ part # "ssh" => \A k \in Targets : server[k].pc = "new"
    /\ part # "access" => DOMAIN people = {}
    /\ part # "balancer" => algorithm = "round_robin" /\ DOMAIN weights = {t1}

PartInit ==
    /\ part \in {"ipam", "range", "ssh", "access", "backup", "limiter",
                 "balancer"}
    /\ IPAMInit /\ RangeInit /\ PoolInit /\ AccessInit /\ BackupInit
    /\ LimiterInit /\ LBInit /\ OthersAtRest

\* The other parts, for each part.
NotIPAM == <<lbVars, rangeVars, poolVars, accessVars, backupVars, limiterVars>>
NotRange == <<lbVars, ipamVars, poolVars, accessVars, backupVars, limiterVars>>
NotSSH == <<lbVars, ipamVars, rangeVars, accessVars, backupVars, limiterVars>>
NotAccess == <<lbVars, ipamVars, rangeVars, poolVars, backupVars, limiterVars>>
NotBackup == <<lbVars, ipamVars, rangeVars, poolVars, accessVars, limiterVars>>
NotLimiter == <<lbVars, ipamVars, rangeVars, poolVars, accessVars, backupVars>>
NotBalancer == <<ipamVars, rangeVars, poolVars, accessVars, backupVars, limiterVars>>

\* The last request comes only where nothing has failed.
BackupBudget == ops < MaxOps \/ faults = 0

\* After the last change four selections show what a tunnel brought back with it.
BalancerBudget == flaps < MaxFlaps \/ turns <= 4

Only(p) == part = p /\ UNCHANGED part

PartNext ==
    \/ Only("ipam") /\ IPAMNext /\ UNCHANGED NotIPAM
    \/ Only("range") /\ RangeNext /\ UNCHANGED NotRange
    \/ Only("ssh") /\ PoolNext /\ UNCHANGED NotSSH
    \/ Only("access") /\ AccessNext /\ UNCHANGED NotAccess
    \/ Only("backup") /\ BackupNext /\ UNCHANGED NotBackup /\ BackupBudget'
    \/ Only("limiter") /\ LimiterNext /\ UNCHANGED NotLimiter
    \/ Only("balancer") /\ LBNext /\ UNCHANGED NotBalancer /\ BalancerBudget'

PartSpec == PartInit /\ [][PartNext]_<<part, ipamVars, NotIPAM>>
=============================================================================
