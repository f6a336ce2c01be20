----------------------------- MODULE LeaseTable -----------------------------
(***************************************************************************)
(* What the address manager of the VPN endpoint promises to its callers: a *)
(* table of leases in which no address is held by two peers, changed one   *)
(* peer at a time.  IPAM implements this table with two maps and a cursor. *)
(***************************************************************************)
CONSTANTS Peers,  \* peer public keys
          IPs,    \* assignable addresses
          NoIP    \* the value of a peer without a lease

VARIABLE lease

TypeOK == lease \in [Peers -> IPs \cup {NoIP}]

Init == lease = [p \in Peers |-> NoIP]

\* A peer obtains (or moves to) an address that no other peer holds.
Grant(p) == \E ip \in IPs :
    /\ \A q \in Peers \ {p} : lease[q] # ip
    /\ lease' = [lease EXCEPT ![p] = ip]

Drop(p) == lease' = [lease EXCEPT ![p] = NoIP]

Next == \E p \in Peers : Grant(p) \/ Drop(p)

Spec == Init /\ [][Next]_lease

=============================================================================
