-------------------------------- MODULE IPAM --------------------------------
(***************************************************************************)
(* The IP address manager of the VPN endpoint (vpn/endpoint/ipam.go): a    *)
(* round-robin allocator over the usable range startIP..endIP.  Each       *)
(* method runs under i.mu and is one action.  The two Go maps are total    *)
(* functions whose absent entries are NoIP and NoPeer; a call that returns *)
(* an error without touching the maps is a stuttering step.                *)
(***************************************************************************)
EXTENDS Integers, FiniteSets

CONSTANTS Peers,    \* peer public keys
          NoPeer,   \* "no entry" in the reverse map
          startIP,  \* first usable address, netInt + 2
          endIP     \* last usable address, bcastInt - 1

\* NewIPAM refuses a subnet with bcastInt <= netInt + 2, so the range is not
\* empty; netInt >= 0, so no usable address is 0.
ASSUME IPAMAssumption ==
    /\ startIP \in Nat \ {0} /\ endIP \in Nat /\ startIP <= endIP
    /\ NoPeer \notin Peers
    /\ IsFiniteSet(Peers)

IPs == startIP .. endIP
NoIP == 0

VARIABLES cursor,     \* next candidate address
          allocated,  \* peer -> address
          reverse     \* address -> peer

ipamVars == <<cursor, allocated, reverse>>

IPAMTypeOK ==
    /\ cursor \in IPs
    /\ allocated \in [Peers -> IPs \cup {NoIP}]
    /\ reverse \in [IPs -> Peers \cup {NoPeer}]

IPAMInit ==
    /\ cursor = startIP
    /\ allocated = [p \in Peers |-> NoIP]
    /\ reverse = [ip \in IPs |-> NoPeer]

-----------------------------------------------------------------------------
Total == endIP - startIP + 1
Leased == {p \in Peers : allocated[p] # NoIP}

\* The candidate after k increments of the cursor, wrapping at endIP.
Candidate(k) == IF cursor + k > endIP THEN cursor + k - Total ELSE cursor + k

\* Mutant: the scan does not consult the reverse map.
FreeStepsUnchecked == 0 .. Total - 1

\* Positions of the scan whose candidate no peer holds.
FreeSteps == {k \in 0 .. Total - 1 : reverse[Candidate(k)] = NoPeer}

\* A fresh lease for p: the count check passes and the scan stops at the
\* first free candidate, the cursor one past it.
AllocateNew(p) ==
    /\ allocated[p] = NoIP
    /\ Cardinality(Leased) < Total
    /\ \E k \in FreeSteps :
        /\ \A j \in FreeSteps : k <= j
        /\ allocated' = [allocated EXCEPT ![p] = Candidate(k)]
        /\ reverse' = [reverse EXCEPT ![Candidate(k)] = p]
        /\ cursor' = Candidate(k + 1)

\* The peer's existing lease is returned unchanged.
AllocateExisting(p) ==
    /\ allocated[p] # NoIP
    /\ UNCHANGED ipamVars

\* ErrSubnetExhausted from the count check.
AllocateExhausted(p) ==
    /\ allocated[p] = NoIP
    /\ Cardinality(Leased) >= Total
    /\ UNCHANGED ipamVars

\* A previous address of the peer leaves the reverse map first.
Reserve(ip, p) ==
    /\ reverse[ip] = NoPeer
    /\ reverse' = [a \in IPs |-> IF a = ip THEN p
                                 ELSE IF a = allocated[p] THEN NoPeer
                                 ELSE reverse[a]]
    /\ allocated' = [allocated EXCEPT ![p] = ip]
    /\ UNCHANGED cursor

\* Mutant: only one of the two maps is cleaned up.
ReleaseHalf(p) ==
    /\ allocated' = [allocated EXCEPT ![p] = NoIP]
    /\ UNCHANGED <<reverse, cursor>>

\* No effect when the peer holds no lease (ErrPeerNotFoundInIPAM).
Release(p) ==
    /\ allocated' = [allocated EXCEPT ![p] = NoIP]
    /\ reverse' = [a \in IPs |-> IF a = allocated[p] THEN NoPeer ELSE reverse[a]]
    /\ UNCHANGED cursor

ReleaseIP(ip) ==
    /\ reverse[ip] # NoPeer
    /\ allocated' = [allocated EXCEPT ![reverse[ip]] = NoIP]
    /\ reverse' = [reverse EXCEPT ![ip] = NoPeer]
    /\ UNCHANGED cursor

IPAMNext ==
    \/ \E p \in Peers : AllocateNew(p) \/ Release(p)
    \/ \E ip \in IPs : ReleaseIP(ip) \/ \E p \in Peers : Reserve(ip, p)

IPAMSpec == IPAMInit /\ [][IPAMNext]_ipamVars

-----------------------------------------------------------------------------
(* The two maps are inverse to each other: a lease found by peer is found by
   address and back, so Allocate, Reserve, Release and ReleaseIP, which each
   look in only one of them, never double-book or strand an address. *)
LeaseBijection ==
    /\ \A p \in Peers : allocated[p] # NoIP => reverse[allocated[p]] = p
    /\ \A ip \in IPs : reverse[ip] # NoPeer => allocated[reverse[ip]] = ip

(* The count check of Allocate (len(allocated) >= total) is exact: when it
   passes the scan reaches a free address, so the ErrSubnetExhausted after the
   loop is unreachable and no address of the range is ever lost. *)
ScanFindsFree ==
    Cardinality(Leased) < Total => FreeSteps # {}

(* The book-keeping of the address manager is exact: its two maps mirror each
   other, and it refuses only when every address of the range is leased. *)
LeasesExact == LeaseBijection /\ ScanFindsFree

LT == INSTANCE LeaseTable WITH lease <- allocated

(* The allocator implements the abstract lease table: each call changes the
   lease of one peer, to an address no other peer holds. *)
ImplementsLeaseTable == LT!Spec

=============================================================================
