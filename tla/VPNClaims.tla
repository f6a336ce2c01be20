------------------------------ MODULE VPNClaims ------------------------------
(***************************************************************************)
(* A statement of tasks/issue-377-vpn-loadbalancer/TASK.md about the       *)
(* portal VPN service, as a property of VPNService.  The code does not     *)
(* meet it; the counterexample is described in the README.                 *)
(***************************************************************************)
EXTENDS VPNService

(* "Release IP back to pool on session termination": an address handed out
   again by Allocate is not claimed by the row of an ended session, which would
   make CreateSession fail on the UNIQUE assigned_ip. *)
ReleasedAddressUsable ==
    op.kind = "create"
        => \A q \in Peers \ {op.peer} : rows[q].ip = op.ip => q \in Live

=============================================================================
