---------------------------- MODULE MC_Traffic ----------------------------
(* Byte accounting: one user with two connections on servers, one on the portal. *)
EXTENDS Traffic, TLC
CONSTANTS u1, u2, r1, r2, p1
MCOwner == (r1 :> u1) @@ (r2 :> u1) @@ (p1 :> u2)
MCLimit == (u1 :> 2) @@ (u2 :> 0)
MCExpiry == (u1 :> 9) @@ (u2 :> 0)
Resets(s) == (u1 :> s) @@ (u2 :> "never")
MCScenarios ==
    {[rows |-> {r1, r2}, faults |-> 0, events |-> 0, strategy |-> Resets("monthly")],
     [rows |-> {r1, r2}, faults |-> 0, events |-> 0, strategy |-> Resets("daily")],
     [rows |-> {r1, p1}, faults |-> 1, events |-> 0, strategy |-> Resets("daily")],
     [rows |-> {r1, p1}, faults |-> 0, events |-> 1, strategy |-> Resets("monthly")]}
=============================================================================
