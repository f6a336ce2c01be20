------------------------------ MODULE MC_Panel ------------------------------
(* Two users, one server, both protocols.  The scenarios: one operation after another, two at
   a time, and single operations with a failing call or restarts. *)
EXTENDS Panel

CONSTANTS u1, u2, s1, n1, n2

MCUsers == {u1, u2}
MCServers == {s1}
MCNames == {n1, n2}
MCReqs == 1 .. 2

Scenario(connected, linked, ops, slots, faults, restarts) ==
    [user |-> u1, server |-> s1, name |-> n1, connected |-> connected, linked |-> linked,
     ops |-> ops, slots |-> slots, faults |-> faults, restarts |-> restarts]

MCScenarios ==
    {Scenario(TRUE, FALSE, 2, 1, 0, 0),
     Scenario(FALSE, FALSE, 2, 2, 0, 0),
     Scenario(TRUE, TRUE, 2, 2, 0, 1),
     Scenario(TRUE, TRUE, 1, 1, 1, 1)}
=============================================================================
