--------------------------- MODULE MC_VPNScenarios ---------------------------
(* The VPN service in three scenarios, of which a behaviour is one.          *)
(*   sessions: three sessions, three keys in use, an administrative event or *)
(*             a failing statement;                                          *)
(*   failures: three sessions, two keys in use and a spare one, an event and *)
(*             a failing statement;                                          *)
(*   events:   two sessions, two events.                                     *)
(* The first two begin with the wider limits, the third with the narrower    *)
(* ones; UpdateConfig goes from one to the other.                            *)
EXTENDS MC_VPNService

VARIABLE scenario

Within ==
    \/ scenario = "sessions" /\ events + dbErrors <= 1
    \/ scenario = "failures" /\ events <= 1
    \/ /\ scenario = "events" /\ dbErrors = 0
       /\ nextID <= 3 /\ (nextID = 3 => op.kind \notin {"allocate", "create"})

BudgetInit ==
    /\ VPNInit
    /\ \/ scenario = "sessions" /\ caps.MaxPeersPerBackend > 1 /\ fresh = {}
       \/ scenario = "failures" /\ caps.MaxPeersPerBackend > 1 /\ fresh # {}
       \/ scenario = "events" /\ caps.MaxPeersPerBackend = 1
BudgetNext == VPNNext /\ UNCHANGED scenario /\ Within'
BudgetSpec == BudgetInit /\ [][BudgetNext]_<<vars, scenario>>
=============================================================================
