--------------------------- MODULE MC_VPNService ---------------------------
(* One user with up to two keys and one with a single key share two          *)
(* addresses and two backends.                                               *)
EXTENDS VPNClaims, TLC

CONSTANTS k1, k2, k3, u1, u2, t1, t2

Symmetry == Permutations({t1, t2}) \cup Permutations({k1, k2})

MCOwner == k1 :> u1 @@ k2 :> u1 @@ k3 :> u2

\* For liveness: one user with two keys.
MCOneOwner == k1 :> u1 @@ k2 :> u1

\* The limits before and after an administrator changes them.
MCCapacities == {[MaxPeersPerBackend |-> 2, MaxTotalPeers |-> 3],
                 [MaxPeersPerBackend |-> 1, MaxTotalPeers |-> 0]}

\* For liveness: unlimited.
MCUnlimited == {[MaxPeersPerBackend |-> 0, MaxTotalPeers |-> 0]}

=============================================================================
