--------------------------- MODULE MC_VPNLiveness ---------------------------
(* The VPN service under its fairness, with two sessions and one             *)
(* administrative event, or with one session and three events: a behaviour   *)
(* is one of the two scenarios.  No step of a handler is cut off.            *)
EXTENDS MC_VPNService

VARIABLE scenario

WithinLive ==
    \/ scenario = "sessions" /\ events <= 1
    \/ /\ scenario = "events"
       /\ nextID <= 2 /\ (nextID = 2 => op.kind \notin {"allocate", "create"})

LiveInit == VPNInit /\ scenario \in {"sessions", "events"}
LiveNext == VPNNext /\ UNCHANGED scenario /\ WithinLive'
LiveSpec == LiveInit /\ [][LiveNext]_<<vars, scenario>> /\ VPNFairness
=============================================================================
