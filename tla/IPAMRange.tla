------------------------------ MODULE IPAMRange ------------------------------
(***************************************************************************)
(* The range arithmetic of NewIPAM (vpn/endpoint/ipam.go), on words of     *)
(* Width bits instead of 32.  A subnet is a base address and a prefix      *)
(* length, as ParseCIDR delivers them; the constructor runs once.          *)
(***************************************************************************)
EXTENDS Integers

CONSTANT Width  \* bits of an address; 32 in the code

ASSUME WidthAssumption == Width \in Nat /\ Width >= 3

\* Powers of two.
Pow2[n \in Nat] == IF n = 0 THEN 1 ELSE 2 * Pow2[n - 1]

Word == Pow2[Width]
Addresses == 0 .. Word - 1

VARIABLES addr, prefix,  \* the CIDR
          ipam           \* the constructed manager's range

Unbuilt == [ok |-> FALSE, gateway |-> 0, startIP |-> 0, endIP |-> 0]

RangeInit == addr \in Addresses /\ prefix \in 0 .. Width /\ ipam = Unbuilt

Size == Pow2[Width - prefix]
netInt == addr - (addr % Size)
bcastInt == netInt + Size - 1

Plus(a, n) == (a + n) % Word

TooSmall == bcastInt <= Plus(netInt, 2)

\* Mutant: the gateway address is leased out.
NewIPAMWithGateway ==
    /\ ipam = Unbuilt
    /\ ~TooSmall
    /\ ipam' = [ok |-> TRUE, gateway |-> Plus(netInt, 1),
                startIP |-> Plus(netInt, 1), endIP |-> Plus(bcastInt, Word - 1)]
    /\ UNCHANGED <<addr, prefix>>

\* A subnet that is too small leaves an error and no manager.
NewIPAM ==
    /\ ipam = Unbuilt
    /\ ~TooSmall
    /\ ipam' = [ok |-> TRUE, gateway |-> Plus(netInt, 1),
                startIP |-> Plus(netInt, 2), endIP |-> Plus(bcastInt, Word - 1)]
    /\ UNCHANGED <<addr, prefix>>

RangeNext == NewIPAM

rangeVars == <<addr, prefix, ipam>>
RangeSpec == RangeInit /\ [][RangeNext]_rangeVars

\* netInt + 2 overflows: the /31 and the two /32s at the top of the address space.
Wraps == netInt + 2 >= Word

(* Of the subnets NewIPAM accepts, whatever their prefix, all have the range the
   comment in it says: inside the subnet, not empty, without the network, gateway and
   broadcast addresses, and with Size - 3 addresses; only where netInt+2 overflows is
   a subnet without any usable address accepted. *)
RangeInsideSubnet ==
    /\ (ipam.ok /\ ~Wraps) =>
         /\ netInt < ipam.gateway /\ ipam.gateway < ipam.startIP
         /\ ipam.startIP <= ipam.endIP /\ ipam.endIP < bcastInt
         /\ ipam.endIP - ipam.startIP + 1 = Size - 3
    /\ (ipam.ok /\ Wraps) => Size <= 2

=============================================================================
