--------------------------- MODULE Balancer_proofs ---------------------------
(***************************************************************************)
(* Three calculations, for any constants: the range the address manager    *)
(* computes from a subnet, the token buckets of the rate limiter, and the  *)
(* shares and counters of the balancers.                                   *)
(***************************************************************************)
EXTENDS IPAMRange, RateLimiter, Balancer, Sums

-----------------------------------------------------------------------------
(* The address range *)

(* The powers of two up to 2^n. *)
Doubles(F, n) == F = [i \in 0 .. n |-> IF i = 0 THEN 1 ELSE 2 * F[i - 1]]

(* They exist. *)
LEMMA DoublesExist ==
  ASSUME NEW m \in Nat
  PROVE  \E F : Doubles(F, m)
<1> DEFINE Body(F, i) == IF i = 0 THEN 1 ELSE 2 * F[i - 1]
           Q(n) == \E F : F = [i \in 0 .. n |-> Body(F, i)]
           T == {n \in Nat : Q(n)}
<1>1. 0 \in T
  <2> DEFINE F == [i \in 0 .. 0 |-> 1]
  <2>1. F = [i \in 0 .. 0 |-> Body(F, i)]
    OBVIOUS
  <2>2. QED
    BY <2>1, Zenon
<1>2. ASSUME NEW n \in Nat, n \in T PROVE n + 1 \in T
  <2>1. PICK F : F = [i \in 0 .. n |-> Body(F, i)]
    BY <1>2, Zenon
  <2> DEFINE G == [i \in 0 .. n + 1 |-> Body(F, i)]
  <2>2. ASSUME NEW i \in 0 .. n + 1 PROVE G[i] = Body(G, i)
    <3>1. CASE i = 0
      BY <3>1
    <3>2. CASE i # 0
      <4>1. i - 1 \in 0 .. n /\ i - 1 \in 0 .. n + 1
        BY <3>2
      <4>2. G[i - 1] = Body(F, i - 1)
        BY <4>1
      <4>3. F[i - 1] = Body(F, i - 1)
        BY <2>1, <4>1, Zenon
      <4>4. G[i] = Body(F, i)
        OBVIOUS
      <4>5. QED
        BY ONLY <4>2, <4>3, <4>4
    <3>3. QED
      BY <3>1, <3>2
  <2>3. G = [i \in 0 .. n + 1 |-> Body(G, i)]
    BY <2>2, Zenon
  <2> HIDE DEF G
  <2>4. Q(n + 1)
    BY <2>3, Zenon
  <2> HIDE DEF Q
  <2>5. QED
    BY <2>4
<1> HIDE DEF T
<1>3. m \in T
  BY <1>1, <1>2, NatSetInduction
<1> USE DEF T
<1>4. QED
  BY <1>3 DEF Doubles

(* Two tables of powers agree as far as both go. *)
LEMMA DoublesAgree ==
  ASSUME NEW F, NEW G, NEW m \in Nat, NEW n \in Nat, Doubles(F, m), Doubles(G, n), m <= n
  PROVE  F[m] = G[m]
<1>1. ASSUME NEW i \in 0 .. m PROVE F[i] = IF i = 0 THEN 1 ELSE 2 * F[i - 1]
  BY Zenon DEF Doubles
<1>2. ASSUME NEW i \in 0 .. n PROVE G[i] = IF i = 0 THEN 1 ELSE 2 * G[i - 1]
  BY Zenon DEF Doubles
<1> DEFINE T == {k \in Nat : k <= m => F[k] = G[k]}
<1>3. 0 \in T
  <2>1. F[0] = 1 /\ G[0] = 1
    BY <1>1, <1>2
  <2>2. QED
    BY <2>1
<1>4. ASSUME NEW k \in Nat, k \in T PROVE k + 1 \in T
  <2> SUFFICES ASSUME k + 1 <= m PROVE F[k + 1] = G[k + 1]
    OBVIOUS
  <2>1. F[k] = G[k]
    BY <1>4
  <2>2. k + 1 \in 0 .. m /\ k + 1 \in 0 .. n /\ k + 1 # 0 /\ (k + 1) - 1 = k
    OBVIOUS
  <2>3. F[k + 1] = 2 * F[k] /\ G[k + 1] = 2 * G[k]
    BY <1>1, <1>2, <2>2
  <2>4. QED
    BY <2>1, <2>3
<1> HIDE DEF T
<1>5. m \in T
  BY <1>3, <1>4, NatSetInduction
<1>6. QED
  BY <1>5 DEF T

(* The recursion of Pow2 has a solution, so its equation holds. *)
LEMMA Pow2Def ==
  \A n \in Nat : Pow2[n] = IF n = 0 THEN 1 ELSE 2 * Pow2[n - 1]
<1> DEFINE Rec(F) == F = [n \in Nat |-> IF n = 0 THEN 1 ELSE 2 * F[n - 1]]
           Tab(n) == CHOOSE F : Doubles(F, n)
           P == [n \in Nat |-> Tab(n)[n]]
<1>1. \A n \in Nat : Doubles(Tab(n), n)
  BY DoublesExist, Zenon
<1> HIDE DEF Tab
<1>2. ASSUME NEW n \in Nat PROVE P[n] = IF n = 0 THEN 1 ELSE 2 * P[n - 1]
  <2>1. Tab(n)[n] = IF n = 0 THEN 1 ELSE 2 * Tab(n)[n - 1]
    <3>1. n \in 0 .. n
      OBVIOUS
    <3>2. QED
      BY <1>1, <3>1, Zenon DEF Doubles
  <2>2. CASE n = 0
    BY <2>1, <2>2
  <2>3. CASE n # 0
    <3>1. n - 1 \in Nat /\ n - 1 <= n
      BY <2>3
    <3>2. Tab(n - 1)[n - 1] = Tab(n)[n - 1]
      BY <1>1, <3>1, DoublesAgree
    <3>3. P[n] = Tab(n)[n] /\ P[n - 1] = Tab(n - 1)[n - 1]
      BY <3>1
    <3>4. QED
      BY ONLY <2>1, <2>3, <3>2, <3>3
  <2>4. QED
    BY <2>2, <2>3
<1>3. Rec(P)
  BY <1>2, Zenon
<1> HIDE DEF P
<1>4. Pow2 = CHOOSE F : Rec(F)
  BY DEF Pow2
<1>5. Rec(Pow2)
  BY <1>3, <1>4, Zenon
<1>6. QED
  BY <1>5, Zenon

(* Powers of two are positive. *)
LEMMA Pow2Type == \A n \in Nat : Pow2[n] \in Nat /\ Pow2[n] >= 1
<1> DEFINE T == {n \in Nat : Pow2[n] \in Nat /\ Pow2[n] >= 1}
<1>1. 0 \in T
  <2>1. Pow2[0] = 1
    BY Pow2Def
  <2>2. QED
    BY <2>1
<1>2. ASSUME NEW n \in Nat, n \in T PROVE n + 1 \in T
  <2>1. n + 1 \in Nat /\ n + 1 # 0 /\ (n + 1) - 1 = n
    OBVIOUS
  <2>2. Pow2[n + 1] = 2 * Pow2[n]
    BY Pow2Def, <2>1
  <2>3. QED
    BY <1>2, <2>2
<1> HIDE DEF T
<1>3. \A n \in Nat : n \in T
  BY <1>1, <1>2, NatSetInduction
<1>4. QED
  BY <1>3 DEF T

(* The size of a subnet times the number of subnets is the number of addresses. *)
LEMMA Pow2Sum == ASSUME NEW a \in Nat PROVE \A b \in Nat : Pow2[a + b] = Pow2[a] * Pow2[b]
<1> DEFINE T == {b \in Nat : Pow2[a + b] = Pow2[a] * Pow2[b]}
<1>0. Pow2[a] \in Nat
  BY Pow2Type
<1>1. 0 \in T
  <2>1. Pow2[0] = 1 /\ a + 0 = a
    BY Pow2Def
  <2>2. QED
    BY <1>0, <2>1
<1>2. ASSUME NEW b \in Nat, b \in T PROVE b + 1 \in T
  <2>1. b + 1 \in Nat /\ b + 1 # 0 /\ (b + 1) - 1 = b
    OBVIOUS
  <2>2. Pow2[b + 1] = 2 * Pow2[b]
    BY Pow2Def, <2>1
  <2>3. a + (b + 1) \in Nat /\ a + (b + 1) # 0 /\ (a + (b + 1)) - 1 = a + b
    OBVIOUS
  <2>4. Pow2[a + (b + 1)] = 2 * Pow2[a + b]
    BY Pow2Def, <2>3
  <2>5. Pow2[a + b] = Pow2[a] * Pow2[b] /\ Pow2[b] \in Nat
    BY <1>2, Pow2Type
  <2>6. 2 * (Pow2[a] * Pow2[b]) = Pow2[a] * (2 * Pow2[b])
    BY <1>0, <2>5
  <2>7. QED
    BY <2>2, <2>4, <2>5, <2>6
<1> HIDE DEF T
<1>3. \A b \in Nat : b \in T
  BY <1>1, <1>2, NatSetInduction
<1>4. QED
  BY <1>3 DEF T

(* What is below the modulus is its own remainder. *)
LEMMA SmallRemainder ==
  ASSUME NEW m \in Nat, m >= 1, NEW x \in Nat, x < m
  PROVE  x % m = x /\ (x + m) % m = x
<1> DEFINE q == (x + m) \div m
           r == (x + m) % m
<1>1. q \in Int /\ r \in 0 .. m - 1 /\ x + m = m * q + r
  OBVIOUS
<1> HIDE DEF q, r
<1>2. q = 1
  <2>1. ASSUME q <= 0 PROVE FALSE
    <3>1. m * q <= 0
      BY <1>1, <2>1
    <3>2. QED
      BY <1>1, <3>1
  <2>2. ASSUME q >= 2 PROVE FALSE
    <3>1. m * q >= m * 2
      BY <1>1, <2>2
    <3>2. QED
      BY <1>1, <3>1
  <2>3. QED
    BY <1>1, <2>1, <2>2
<1>3. r = x
  BY <1>1, <1>2
<1> DEFINE d == x \div m
           e == x % m
<1>4. d \in Int /\ e \in 0 .. m - 1 /\ x = m * d + e
  OBVIOUS
<1> HIDE DEF d, e
<1>5. d = 0
  <2>1. ASSUME d <= -1 PROVE FALSE
    <3>1. m * d <= m * (-1)
      BY <1>4, <2>1
    <3>2. QED
      BY <1>4, <3>1
  <2>2. ASSUME d >= 1 PROVE FALSE
    <3>1. m * d >= m
      BY <1>4, <2>2
    <3>2. QED
      BY <1>4, <3>1
  <2>3. QED
    BY <1>4, <2>1, <2>2
<1>6. e = x
  BY <1>4, <1>5
<1>7. QED
  BY <1>3, <1>6 DEF r, e

(* A subnet lies inside the address space. *)
LEMMA SubnetFits ==
  ASSUME NEW s \in Nat, s >= 1, NEW k \in Nat, k >= 1, NEW a \in Nat, a < s * k
  PROVE  a - (a % s) \in Nat /\ (a - (a % s)) + s <= s * k
<1> DEFINE q == a \div s
           r == a % s
<1>1. q \in Int /\ r \in 0 .. s - 1 /\ a = s * q + r
  OBVIOUS
<1> HIDE DEF q, r
<1>2. q >= 0
  <2>1. ASSUME q <= -1 PROVE FALSE
    <3>1. s * q <= s * (-1)
      BY <1>1, <2>1
    <3>2. QED
      BY <1>1, <3>1
  <2>2. QED
    BY <1>1, <2>1
<1>3. q + 1 <= k
  <2>1. ASSUME q >= k PROVE FALSE
    <3>1. s * q >= s * k
      BY <1>1, <2>1
    <3>2. QED
      BY <1>1, <3>1
  <2>2. QED
    BY <1>1, <2>1
<1>4. s * (q + 1) <= s * k
  BY <1>1, <1>2, <1>3
<1>5. s * (q + 1) = s * q + s
  BY <1>1
<1>6. s * q \in Nat
  BY <1>1, <1>2
<1>7. QED
  BY <1>1, <1>4, <1>5, <1>6 DEF r

(* The inductive invariant: the range is the one NewIPAM computes, of a subnet
   that passed its check. *)
RangeInv ==
  /\ addr \in Addresses /\ prefix \in 0 .. Width
  /\ ipam.ok => /\ ~TooSmall
                /\ ipam = [ok |-> TRUE, gateway |-> Plus(netInt, 1),
                           startIP |-> Plus(netInt, 2), endIP |-> Plus(bcastInt, Word - 1)]

(* It is what the comment says wherever netInt + 2 does not overflow, and only
   the smallest subnets reach that far. *)
LEMMA RangeInvInside == RangeInv => RangeInsideSubnet
<1> SUFFICES ASSUME RangeInv, ipam.ok PROVE RangeInsideSubnet
  BY DEF RangeInsideSubnet
<1>1. prefix \in Nat /\ Width - prefix \in Nat /\ Width \in Nat
  BY WidthAssumption DEF RangeInv
<1>2. Size \in Nat /\ Size >= 1
  BY <1>1, Pow2Type DEF Size
<1>3. Pow2[prefix] \in Nat /\ Pow2[prefix] >= 1
  BY <1>1, Pow2Type
<1>4. Word = Size * Pow2[prefix]
  <2>1. (Width - prefix) + prefix = Width
    BY <1>1
  <2>2. Pow2[(Width - prefix) + prefix] = Pow2[Width - prefix] * Pow2[prefix]
    BY <1>1, Pow2Sum
  <2>3. QED
    BY <2>1, <2>2 DEF Word, Size
<1>5. Word \in Nat /\ Word >= 1
  BY <1>1, Pow2Type DEF Word
<1>6. addr \in Nat /\ addr < Size * Pow2[prefix]
  BY <1>4, <1>5 DEF RangeInv, Addresses
<1>7. netInt \in Nat /\ netInt + Size <= Word
  <2>1. addr - (addr % Size) \in Nat /\ (addr - (addr % Size)) + Size <= Size * Pow2[prefix]
    <3>1. \A s, k, a \in Nat : s >= 1 /\ k >= 1 /\ a < s * k
             => a - (a % s) \in Nat /\ (a - (a % s)) + s <= s * k
      BY SubnetFits, Zenon
    <3>2. Size >= 1
      BY <1>2
    <3>3. QED
      BY ONLY <1>2, <1>3, <1>6, <3>1, <3>2, Zenon
  <2>2. QED
    BY <1>4, <2>1 DEF netInt
<1>8. bcastInt = netInt + Size - 1
  BY DEF bcastInt
<1>9. (ipam.ok /\ Wraps) => Size <= 2
  BY <1>2, <1>5, <1>7 DEF Wraps
<1>10. ASSUME ~Wraps
       PROVE  /\ netInt < ipam.gateway /\ ipam.gateway < ipam.startIP
              /\ ipam.startIP <= ipam.endIP /\ ipam.endIP < bcastInt
              /\ ipam.endIP - ipam.startIP + 1 = Size - 3
  <2>1. netInt + 1 \in Nat /\ netInt + 1 < Word /\ netInt + 2 \in Nat /\ netInt + 2 < Word
    BY <1>5, <1>7, <1>10 DEF Wraps
  <2>2. Plus(netInt, 1) = netInt + 1 /\ Plus(netInt, 2) = netInt + 2
    BY <1>5, <2>1, SmallRemainder DEF Plus
  <2>3. bcastInt > netInt + 2
    BY <1>2, <1>7, <1>8, <2>2 DEF RangeInv, TooSmall
  <2>4. /\ bcastInt - 1 \in Nat /\ bcastInt - 1 < Word
        /\ bcastInt + (Word - 1) = (bcastInt - 1) + Word
    BY <1>2, <1>5, <1>7, <1>8, <2>3
  <2>5. ((bcastInt - 1) + Word) % Word = bcastInt - 1
    BY <1>5, <2>4, SmallRemainder
  <2>6. Plus(bcastInt, Word - 1) = bcastInt - 1
    BY <2>4, <2>5 DEF Plus
  <2>7. ipam.gateway = netInt + 1 /\ ipam.startIP = netInt + 2 /\ ipam.endIP = bcastInt - 1
    BY <2>2, <2>6 DEF RangeInv
  <2>8. QED
    BY <1>2, <1>7, <1>8, <2>3, <2>7
<1>11. QED
  BY <1>9, <1>10, Zenon DEF RangeInsideSubnet

(* The range NewIPAM leases from lies inside the subnet, without the network,
   gateway and broadcast addresses, for words of any width and every prefix, unless
   netInt + 2 overflows, which it does only for subnets of one or two addresses. *)
THEOREM RangesAreInside == RangeSpec => []RangeInsideSubnet
<1>1. RangeInit => RangeInv
  BY DEF RangeInit, RangeInv, Unbuilt
<1>2. RangeInv /\ [RangeNext]_rangeVars => RangeInv'
  <2> SUFFICES ASSUME RangeInv, [RangeNext]_rangeVars PROVE RangeInv'
    OBVIOUS
  <2>1. UNCHANGED <<addr, prefix>>
    BY DEF RangeNext, NewIPAM, rangeVars
  <2>2. /\ netInt' = netInt /\ bcastInt' = bcastInt /\ TooSmall' = TooSmall
        /\ \A a, n : Plus(a, n)' = Plus(a, n)
    BY <2>1 DEF netInt, bcastInt, Size, TooSmall, Plus
  <2>3. CASE NewIPAM
    <3>1. /\ ~TooSmall
          /\ ipam' = [ok |-> TRUE, gateway |-> Plus(netInt, 1),
                      startIP |-> Plus(netInt, 2), endIP |-> Plus(bcastInt, Word - 1)]
      BY <2>3 DEF NewIPAM
    <3>2. QED
      BY <2>1, <2>2, <3>1 DEF RangeInv
  <2>4. CASE UNCHANGED rangeVars
    <3>1. ipam' = ipam
      BY <2>4 DEF rangeVars
    <3>2. QED
      BY <2>1, <2>2, <3>1 DEF RangeInv
  <2>5. QED
    BY <2>3, <2>4 DEF RangeNext
<1>3. QED
  BY <1>1, <1>2, RangeInvInside, PTL DEF RangeSpec

-----------------------------------------------------------------------------
(* The rate limiter *)

(* A bucket with its tokens. *)
Buckets == [tokens : Int, lastRefill : Int]

(* All types; nothing is allowed in the future. *)
LimiterTypes ==
  /\ now \in 0 .. MaxTicks /\ allowed \in [0 .. MaxTicks -> Nat] /\ retryAt \in Int
  /\ \A t \in now + 1 .. MaxTicks : allowed[t] = 0
  /\ bucket # NoBucket => /\ bucket \in Buckets /\ 0 <= bucket.tokens /\ bucket.tokens <= Capacity
                          /\ bucket.lastRefill <= now /\ 0 <= bucket.lastRefill

(* What was allowed since tick a and what is left of it. *)
SpentSince(a) == AllowedIn(a, now) * Cost + Refilled(Current)

(* The inductive invariant: what was allowed since any tick, with what is left, is within the limit. *)
LimiterInv ==
  /\ LimiterTypes
  /\ \A a \in 0 .. now : SpentSince(a) <= Capacity + (now - a) * Refills
  /\ WindowBounded
  /\ retryAt >= 0 /\ bucket # NoBucket =>
       Cost <= bucket.tokens + (retryAt - bucket.lastRefill) * Refills

(* Rounding a division up: the quotient covers the dividend. *)
LEMMA RoundUp ==
  ASSUME NEW m \in Nat, NEW r \in Nat \ {0}
  PROVE  (m + r - 1) \div r \in Nat /\ m <= ((m + r - 1) \div r) * r
<1> DEFINE x == m + r - 1
<1>1. x \in Nat /\ x \div r \in Int /\ x % r \in 0..(r-1) /\ x = r * (x \div r) + (x % r)
  OBVIOUS
<1> DEFINE q == x \div r
<1>2. q \in Int /\ r * q = q * r
  BY <1>1
<1>3. m <= q * r
  BY <1>1, <1>2
<1>4. q >= 0
  <2>1. ASSUME q <= -1 PROVE FALSE
    <3>1. r * q <= r * (-1)
      BY <1>2, <2>1, TimesMonotonic
    <3>2. r * (-1) = -r
      OBVIOUS
    <3>3. QED
      BY <1>1, <3>1, <3>2
  <2>2. QED
    BY <1>2, <2>1
<1>5. QED
  BY <1>2, <1>3, <1>4

(* The requests allowed in a window, as a sum. *)
Counted == \A a, b \in Int : AllowedIn(a, b) = Total(allowed, a .. b)

(* AllowedIn is such a sum. *)
LEMMA AllowedCounted == Counted
BY Zenon DEF Counted, AllowedIn, Total

(* What is in the bucket, as a number between nothing and the capacity. *)
LEMMA TokensBounded ==
  ASSUME LimiterTypes
  PROVE  /\ Capacity \in Nat /\ Cost <= Capacity /\ Capacity <= EntryTTL * Refills
         /\ Refilled(Current) \in 0 .. Capacity
         /\ bucket = NoBucket => Refilled(Current) = Capacity
         /\ bucket # NoBucket =>
              Refilled(Current) = Least(Capacity, bucket.tokens + (now - bucket.lastRefill) * Refills)
<1>1. Capacity \in Nat /\ Cost <= Capacity /\ Capacity <= EntryTTL * Refills
  <2>1. \A n \in Nat \ {0} : n * Cost \in Nat /\ Cost * 1 <= Cost * n
    BY LimiterAssumption, TimesMonotonic
  <2>2. BurstSize * Cost \in Nat /\ Cost <= BurstSize * Cost
    BY <2>1, LimiterAssumption
  <2>3. QED
    BY <2>2, LimiterAssumption DEF Capacity
<1>2. CASE bucket = NoBucket
  <2>1. Current = [tokens |-> Capacity, lastRefill |-> now]
    BY <1>2 DEF Current
  <2>2. now \in Int /\ Refills \in Int
    BY LimiterAssumption DEF LimiterTypes
  <2>3. Refilled(Current) = Capacity
    BY <1>1, <2>1, <2>2 DEF Refilled, Least
  <2>4. QED
    BY <1>1, <1>2, <2>3
<1>3. CASE bucket # NoBucket
  <2>1. Refilled(Current) = Least(Capacity, bucket.tokens + (now - bucket.lastRefill) * Refills)
    BY <1>3 DEF Current, Refilled
  <2>2. bucket.tokens \in Nat /\ now - bucket.lastRefill \in Nat /\ Refills \in Nat
    BY <1>3, LimiterAssumption DEF LimiterTypes, Buckets
  <2>3. (now - bucket.lastRefill) * Refills \in Nat
    BY <2>2
  <2>4. QED
    BY <1>1, <1>3, <2>1, <2>2, <2>3 DEF Least
<1>4. QED
  BY <1>1, <1>2, <1>3

(* A bucket refills up to the capacity. *)
LEMMA TokensBoundedNow ==
  LimiterTypes =>
    (bucket # NoBucket =>
       Refilled(Current) = Least(Capacity, bucket.tokens + (now - bucket.lastRefill) * Refills))
BY TokensBounded

(* An address without a bucket would get a full one. *)
LEMMA TokensFull == LimiterTypes => (bucket = NoBucket => Refilled(Current) = Capacity)
BY TokensBounded

(* So there is always a number of tokens within the capacity. *)
LEMMA TokensIn == LimiterTypes => Refilled(Current) \in 0 .. Capacity
BY TokensBounded

(* Windows of which nothing changed count the same. *)
LEMMA WindowSame ==
  ASSUME NEW f, NEW g, NEW a \in Int, NEW b \in Int,
         \A t \in a .. b : f[t] \in Int /\ g[t] = f[t]
  PROVE  Total(g, a .. b) = Total(f, a .. b)
BY FS_Interval, TotalSame, Zenon

(* A request is answered. *)
LEMMA AllowInv ==
  ASSUME LimiterInv, Allow
  PROVE  LimiterInv'
<1> DEFINE tokens == Refilled(Current)
<1>0. LimiterTypes
  BY DEF LimiterInv
<1>1. Counted /\ Counted'
  BY AllowedCounted, PTL
<1>2. Capacity \in Nat /\ Cost <= Capacity /\ tokens \in 0 .. Capacity
  BY <1>0, TokensBounded
<1>3. Cost \in Nat \ {0} /\ Refills \in Nat \ {0} /\ MaxTicks \in Nat
  BY LimiterAssumption
<1>4. now' = now /\ now \in 0 .. MaxTicks /\ now \in Int /\ allowed \in [0 .. MaxTicks -> Nat]
  BY <1>0 DEF Allow, LimiterTypes
<1> HIDE DEF tokens
<1>5. CASE tokens >= Cost
  <2>1. /\ bucket' = [tokens |-> tokens - Cost, lastRefill |-> now]
        /\ allowed' = [allowed EXCEPT ![now] = @ + 1] /\ retryAt' = -1
    BY <1>5 DEF Allow, tokens
  <2>2. /\ allowed' \in [0 .. MaxTicks -> Nat] /\ allowed'[now] = allowed[now] + 1
        /\ \A t \in 0 .. MaxTicks : t # now => allowed'[t] = allowed[t]
    BY <1>4, <2>1
  <2>3. LimiterTypes'
    <3>1. \A t \in now + 1 .. MaxTicks : allowed'[t] = 0
      <4>1. \A t \in now + 1 .. MaxTicks : t \in 0 .. MaxTicks /\ t # now
        BY <1>3, <1>4
      <4>2. QED
        BY <1>0, <2>2, <4>1 DEF LimiterTypes
    <3>2. /\ bucket' \in Buckets /\ 0 <= bucket'.tokens /\ bucket'.tokens <= Capacity
          /\ bucket'.lastRefill <= now' /\ 0 <= bucket'.lastRefill
      BY <1>2, <1>3, <1>4, <1>5, <2>1 DEF Buckets
    <3>3. QED
      BY <1>4, <2>1, <2>2, <3>1, <3>2 DEF LimiterTypes, Capacity
  <2>4. Refilled(Current)' = tokens - Cost
    <3>1. bucket' # NoBucket
      BY <1>2, <1>3, <1>4, <2>1, LimiterAssumption
    <3>2. (bucket # NoBucket => Refilled(Current) = Least(Capacity, bucket.tokens + (now - bucket.lastRefill) * Refills))'
      BY <2>3, TokensBoundedNow, PTL
    <3>3. Refilled(Current)' = Least(Capacity, (tokens - Cost) + (now - now) * Refills)
      BY <1>4, <2>1, <3>1, <3>2 DEF Capacity
    <3>4. (now - now) * Refills = 0
      BY <1>3, <1>4
    <3>5. QED
      BY <1>2, <1>3, <3>3, <3>4 DEF Least
  <2>5. ASSUME NEW a \in 0 .. now PROVE AllowedIn(a, now)' = AllowedIn(a, now) + 1 /\ AllowedIn(a, now) \in Nat
    <3>0. now \in a .. now /\ a .. now \subseteq 0 .. MaxTicks /\ a \in Int
      BY <1>3, <1>4
    <3>1. IsFiniteSet(a .. now) /\ now \in a .. now /\ a .. now \subseteq 0 .. MaxTicks
      BY <1>4, <3>0, FS_Interval
    <3>2. \A t \in a .. now : allowed[t] \in Int /\ allowed[t] \in Nat
      BY <1>4, <3>1
    <3>3. \A t \in (a .. now) \ {now} : allowed'[t] = allowed[t]
      BY <2>2, <3>1
    <3>4. Total(allowed', a .. now) = Total(allowed, a .. now) + (allowed'[now] - allowed[now])
      <4>1. allowed'[now] \in Int
        BY <1>4, <2>2
      <4>2. QED
        BY <3>1, <3>2, <3>3, <4>1, TotalUpdate
    <3>5. Total(allowed, a .. now) \in Nat
      BY <3>1, <3>2, TotalNat
    <3>6. AllowedIn(a, now) = Total(allowed, a .. now) /\ AllowedIn(a, now)' = Total(allowed', a .. now)
      BY <1>1, <1>4 DEF Counted
    <3>7. QED
      BY <1>4, <2>2, <3>1, <3>2, <3>4, <3>5, <3>6
  <2>6. ASSUME NEW a \in 0 .. now PROVE SpentSince(a)' <= Capacity + (now - a) * Refills
    <3>1. SpentSince(a) <= Capacity + (now - a) * Refills
      BY DEF LimiterInv
    <3>2. SpentSince(a) = AllowedIn(a, now) * Cost + tokens
      BY DEF SpentSince, tokens
    <3>3. SpentSince(a)' = AllowedIn(a, now)' * Cost + Refilled(Current)'
      BY DEF SpentSince
    <3>4. (AllowedIn(a, now) + 1) * Cost = AllowedIn(a, now) * Cost + Cost /\ AllowedIn(a, now) * Cost \in Int
      BY <1>3, <2>5
    <3>5. SpentSince(a)' = SpentSince(a)
      BY <1>2, <1>3, <2>4, <2>5, <3>2, <3>3, <3>4
    <3>6. QED
      BY <3>1, <3>5
  <2>7. ASSUME NEW a \in 0 .. now, NEW b \in a .. now
        PROVE AllowedIn(a, b)' * Cost <= Capacity + (b - a) * Refills
    <3>1. CASE b = now
      <4>1. SpentSince(a)' = AllowedIn(a, now)' * Cost + (tokens - Cost)
        BY <2>4 DEF SpentSince
      <4>2. AllowedIn(a, now)' \in Nat /\ AllowedIn(a, now)' * Cost \in Int /\ (now - a) * Refills \in Int
        BY <1>3, <1>4, <2>5
      <4>3. AllowedIn(a, now)' * Cost <= Capacity + (now - a) * Refills
        BY <1>2, <1>3, <1>5, <2>6, <4>1, <4>2
      <4>4. QED
        BY <1>4, <3>1, <4>3
    <3>2. CASE b # now
      <4>0. \A t \in a .. b : t \in 0 .. MaxTicks /\ t # now
        BY <1>3, <1>4, <3>2
      <4>1. \A t \in a .. b : allowed[t] \in Int /\ allowed'[t] = allowed[t]
        BY <1>4, <2>2, <4>0
      <4>2. Total(allowed', a .. b) = Total(allowed, a .. b)
        BY <4>1, WindowSame
      <4>3. AllowedIn(a, b)' = AllowedIn(a, b)
        BY <1>1, <4>2 DEF Counted
      <4>4. QED
        BY <4>3 DEF LimiterInv, WindowBounded
    <3>3. QED
      BY <3>1, <3>2
  <2>8. QED
    BY <1>4, <2>1, <2>3, <2>6, <2>7 DEF LimiterInv, WindowBounded, Capacity
<1>6. CASE ~(tokens >= Cost)
  <2>1. /\ bucket' = [tokens |-> tokens, lastRefill |-> now] /\ allowed' = allowed
        /\ retryAt' = now + Wait(Cost - tokens)
    BY <1>6 DEF Allow, tokens
  <2>2. Cost - tokens \in Nat
    BY <1>2, <1>3, <1>6
  <2>3. Wait(Cost - tokens) \in Nat /\ Cost - tokens <= Wait(Cost - tokens) * Refills
    BY <1>3, <2>2, RoundUp DEF Wait
  <2>4. LimiterTypes'
    BY <1>0, <1>2, <1>3, <1>4, <2>1, <2>3 DEF LimiterTypes, Buckets, Capacity
  <2>5. Refilled(Current)' = tokens
    <3>1. bucket' # NoBucket
      BY <1>2, <1>3, <1>4, <2>1, LimiterAssumption
    <3>2. (bucket # NoBucket => Refilled(Current) = Least(Capacity, bucket.tokens + (now - bucket.lastRefill) * Refills))'
      BY <2>4, TokensBoundedNow, PTL
    <3>3. Refilled(Current)' = Least(Capacity, tokens + (now - now) * Refills)
      BY <1>4, <2>1, <3>1, <3>2 DEF Capacity
    <3>4. (now - now) * Refills = 0
      BY <1>3, <1>4
    <3>5. QED
      BY <1>2, <1>3, <3>3, <3>4 DEF Least
  <2>6. \A a, b \in Int : AllowedIn(a, b)' = AllowedIn(a, b)
    BY <1>1, <2>1 DEF Counted
  <2>7. ASSUME NEW a \in 0 .. now PROVE SpentSince(a)' <= Capacity + (now - a) * Refills
    <3>1. SpentSince(a) <= Capacity + (now - a) * Refills
      BY DEF LimiterInv
    <3>2. SpentSince(a)' = AllowedIn(a, now)' * Cost + Refilled(Current)'
      BY DEF SpentSince
    <3>3. AllowedIn(a, now)' = AllowedIn(a, now)
      BY <1>1, <1>4, <2>1 DEF Counted
    <3>4. QED
      BY <2>5, <3>1, <3>2, <3>3 DEF SpentSince, tokens
  <2>8. Cost <= bucket'.tokens + (retryAt' - bucket'.lastRefill) * Refills
    <3>1. retryAt' - now = Wait(Cost - tokens)
      BY <1>4, <2>1, <2>3
    <3>2. QED
      BY <1>2, <1>3, <2>1, <2>3, <3>1
  <2>9. WindowBounded'
    BY <1>4, <2>6 DEF LimiterInv, WindowBounded, Capacity
  <2>10. QED
    BY <1>4, <2>4, <2>7, <2>8, <2>9 DEF LimiterInv, Capacity
<1>7. QED
  BY <1>5, <1>6

(* A bucket that is dropped was full. *)
LEMMA CleanupInv ==
  ASSUME LimiterInv, Cleanup
  PROVE  LimiterInv'
<1>0. LimiterTypes /\ now \in Int /\ Refills \in Nat /\ EntryTTL \in Nat /\ Capacity' = Capacity
  BY LimiterAssumption DEF LimiterInv, LimiterTypes, Capacity
<1>1. Counted /\ Counted'
  BY AllowedCounted, PTL
<1>2. UNCHANGED <<now, allowed, retryAt>> /\ bucket # NoBucket /\ bucket' = NoBucket /\ now - bucket.lastRefill > EntryTTL
  BY DEF Cleanup
<1>3. LimiterTypes'
  BY <1>0, <1>2 DEF LimiterTypes
<1>4. Refilled(Current) = Capacity
  <2>1. bucket.tokens \in Nat /\ now - bucket.lastRefill \in Int
    BY <1>0, <1>2 DEF LimiterTypes, Buckets
  <2>2. Refills * EntryTTL <= Refills * (now - bucket.lastRefill)
    BY <1>0, <1>2, <2>1, TimesMonotonic
  <2>3. Refills * EntryTTL = EntryTTL * Refills /\ Refills * (now - bucket.lastRefill) = (now - bucket.lastRefill) * Refills
    BY <1>0, <2>1
  <2>4. Capacity \in Nat /\ Capacity <= EntryTTL * Refills
        /\ Refilled(Current) = Least(Capacity, bucket.tokens + (now - bucket.lastRefill) * Refills)
    BY <1>0, <1>2, TokensBounded
  <2>5. (now - bucket.lastRefill) * Refills \in Int /\ EntryTTL * Refills \in Int
    BY <1>0, <2>1
  <2>6. QED
    BY <2>1, <2>2, <2>3, <2>4, <2>5 DEF Least
<1>5. Refilled(Current)' = Capacity
  <2>1. (LimiterTypes => (bucket = NoBucket => Refilled(Current) = Capacity))'
    BY TokensFull, PTL
  <2>2. QED
    BY <1>0, <1>2, <1>3, <2>1
<1>6. \A a, b \in Int : AllowedIn(a, b)' = AllowedIn(a, b)
  BY <1>1, <1>2 DEF Counted
<1>7. ASSUME NEW a \in 0 .. now PROVE SpentSince(a)' = SpentSince(a)
  <2>1. SpentSince(a)' = AllowedIn(a, now)' * Cost + Refilled(Current)'
    BY DEF SpentSince
  <2>2. AllowedIn(a, now)' = AllowedIn(a, now)
    BY <1>0, <1>1, <1>2 DEF Counted
  <2>3. QED
    BY <1>4, <1>5, <2>1, <2>2 DEF SpentSince
<1>8. \A a \in 0 .. now' : SpentSince(a)' <= Capacity' + (now' - a) * Refills
  BY <1>0, <1>2, <1>7 DEF LimiterInv
<1>9. WindowBounded'
  BY <1>0, <1>2, <1>6 DEF LimiterInv, WindowBounded
<1>10. QED
  BY <1>2, <1>3, <1>8, <1>9 DEF LimiterInv

(* Time passes. *)
LEMMA TickInv ==
  ASSUME LimiterInv, Tick
  PROVE  LimiterInv'
<1>0. /\ LimiterTypes /\ now \in 0 .. MaxTicks /\ MaxTicks \in Nat /\ Refills \in Nat /\ Capacity' = Capacity
      /\ Cost \in Nat /\ allowed \in [0 .. MaxTicks -> Nat]
  BY LimiterAssumption DEF LimiterInv, LimiterTypes, Capacity
<1>1. Counted /\ Counted'
  BY AllowedCounted, PTL
<1>2. UNCHANGED <<bucket, allowed, retryAt>> /\ now < MaxTicks /\ now' = now + 1
  BY DEF Tick
<1>a. now' \in 0 .. MaxTicks /\ now' \in Int /\ now \in Int /\ now <= now'
  BY <1>0, <1>2
<1>3. LimiterTypes'
  <2>1. \A t \in now' + 1 .. MaxTicks : t \in now + 1 .. MaxTicks
    BY <1>0, <1>2, <1>a
  <2>2. \A t \in now' + 1 .. MaxTicks : allowed'[t] = 0
    BY <1>0, <1>2, <2>1 DEF LimiterTypes
  <2>3. bucket' # NoBucket => bucket'.lastRefill <= now'
    <3>1. bucket # NoBucket => bucket.lastRefill \in Int /\ bucket.lastRefill <= now
      BY <1>0 DEF LimiterTypes, Buckets
    <3>2. QED
      BY <1>2, <1>a, <3>1
  <2>4. QED
    BY <1>0, <1>2, <1>a, <2>2, <2>3 DEF LimiterTypes
<1>4. Capacity \in Nat /\ Refilled(Current) \in 0 .. Capacity
  BY <1>0, TokensBounded
<1>5. Refilled(Current)' \in 0 .. Capacity /\ Refilled(Current)' <= Refilled(Current) + Refills
  <2>1. /\ (LimiterTypes => Refilled(Current) \in 0 .. Capacity)'
        /\ (LimiterTypes => (bucket = NoBucket => Refilled(Current) = Capacity))'
        /\ (LimiterTypes => (bucket # NoBucket =>
               Refilled(Current) = Least(Capacity, bucket.tokens + (now - bucket.lastRefill) * Refills)))'
    BY TokensFull, TokensIn, TokensBoundedNow, PTL
  <2>2. Refilled(Current)' \in 0 .. Capacity
    BY <1>0, <1>3, <2>1
  <2>3. CASE bucket = NoBucket
    <3>1. Refilled(Current) = Capacity
      BY <1>0, <2>3, TokensBounded
    <3>2. QED
      BY <1>0, <1>4, <2>2, <3>1
  <2>4. CASE bucket # NoBucket
    <3>1. Refilled(Current) = Least(Capacity, bucket.tokens + (now - bucket.lastRefill) * Refills)
      BY <1>0, <2>4, TokensBounded
    <3>2. Refilled(Current)' = Least(Capacity, bucket.tokens + (now' - bucket.lastRefill) * Refills)
      BY <1>0, <1>2, <1>3, <2>1, <2>4 DEF Least
    <3>3. bucket.tokens \in Int /\ bucket.lastRefill \in Int /\ now \in Int
      BY <1>0, <2>4 DEF LimiterTypes, Buckets
    <3>4. (now' - bucket.lastRefill) * Refills = (now - bucket.lastRefill) * Refills + Refills
          /\ (now - bucket.lastRefill) * Refills \in Int
      BY <1>0, <1>2, <3>3
    <3>5. (now' - bucket.lastRefill) * Refills \in Int
      BY <1>0, <1>a, <3>3
    <3> DEFINE x == (now - bucket.lastRefill) * Refills
               y == (now' - bucket.lastRefill) * Refills
    <3>6. x \in Int /\ y = x + Refills /\ Refilled(Current) = Least(Capacity, bucket.tokens + x)
          /\ Refilled(Current)' = Least(Capacity, bucket.tokens + y)
      BY <3>1, <3>2, <3>4
    <3> HIDE DEF x, y
    <3>7. Refilled(Current)' <= Refilled(Current) + Refills
      BY <1>0, <1>4, <3>3, <3>6 DEF Least
    <3>8. QED
      BY <2>2, <3>7
  <2>5. QED
    BY <2>3, <2>4
<1>6. \A a, b \in Int : AllowedIn(a, b)' = AllowedIn(a, b)
  BY <1>1, <1>2 DEF Counted
<1>7. ASSUME NEW a \in 0 .. now'
      PROVE  /\ AllowedIn(a, now') \in Nat
             /\ a = now' => AllowedIn(a, now') = 0
             /\ a # now' => AllowedIn(a, now') = AllowedIn(a, now)
  <2>1. /\ a .. now' \subseteq 0 .. MaxTicks /\ now' \in a .. now' /\ a \in Int
        /\ (a .. now') \ {now'} = a .. now /\ now \in Int /\ now' \in Int /\ now' \in now + 1 .. MaxTicks
    BY <1>0, <1>2
  <2>2. IsFiniteSet(a .. now') /\ \A t \in a .. now' : allowed[t] \in Int /\ allowed[t] \in Nat
    <3>1. IsFiniteSet(a .. now')
      BY <2>1, FS_Interval
    <3>2. QED
      BY <1>0, <2>1, <3>1
  <2>3. Total(allowed, a .. now') = allowed[now'] + Total(allowed, (a .. now') \ {now'})
    BY <2>1, <2>2, TotalRemove
  <2>4. allowed[now'] = 0
    BY <1>0, <2>1 DEF LimiterTypes
  <2>5. IsFiniteSet(a .. now) /\ \A t \in a .. now : allowed[t] \in Nat
    BY <1>0, <2>1, FS_Interval, Zenon
  <2>6. Total(allowed, a .. now) \in Nat
    BY <2>5, TotalNat, Zenon
  <2>7. Total(allowed, a .. now') = Total(allowed, a .. now)
    <3>1. Total(allowed, (a .. now') \ {now'}) = Total(allowed, a .. now)
      BY <2>1, Zenon
    <3>2. QED
      BY <2>3, <2>4, <2>6, <3>1
  <2>8. AllowedIn(a, now') = Total(allowed, a .. now') /\ AllowedIn(a, now) = Total(allowed, a .. now)
    BY <1>1, <2>1 DEF Counted
  <2>9. CASE a = now'
    <3>1. a .. now = {}
      BY <2>1, <2>9
    <3>2. Total(allowed, a .. now) = 0
      BY <3>1, TotalEmpty, Zenon
    <3>3. QED
      BY <2>6, <2>7, <2>8, <2>9, <3>2
  <2>10. CASE a # now'
    BY <2>6, <2>7, <2>8, <2>10
  <2>11. QED
    BY <2>9, <2>10
<1>8. ASSUME NEW a \in 0 .. now' PROVE SpentSince(a)' <= Capacity + (now' - a) * Refills
  <2>1. SpentSince(a)' = AllowedIn(a, now)' * Cost + Refilled(Current)'
    BY DEF SpentSince
  <2>2. AllowedIn(a, now)' = AllowedIn(a, now')
    BY <1>0, <1>1, <1>2 DEF Counted
  <2>3. CASE a = now'
    <3>1. AllowedIn(a, now') * Cost = 0 /\ (now' - a) * Refills = 0
      <4>1. AllowedIn(a, now') = 0 /\ now' - a = 0
        <5>1. AllowedIn(a, now') = 0
          BY <1>7, <2>3
        <5>2. now' - a = 0
          <6>1. \A x, y \in Int : x = y => y - x = 0
            OBVIOUS
          <6>2. a \in Int
            BY <1>a, <2>3
          <6>3. QED
            BY <1>a, <2>3, <6>1, <6>2, Zenon
        <5>3. QED
          BY <5>1, <5>2
      <4>2. QED
        BY <1>0, <4>1
    <3>2. QED
      BY <1>0, <1>4, <1>5, <2>1, <2>2, <3>1
  <2>4. CASE a # now'
    <3>1. a \in 0 .. now
      BY <1>2, <1>a, <2>4
    <3>2. SpentSince(a) <= Capacity + (now - a) * Refills
      BY <3>1 DEF LimiterInv
    <3>3. SpentSince(a) = AllowedIn(a, now') * Cost + Refilled(Current)
      BY <1>7, <2>4 DEF SpentSince
    <3>4. AllowedIn(a, now') * Cost \in Int /\ (now - a) * Refills \in Int
          /\ (now' - a) * Refills = (now - a) * Refills + Refills
      <4>1. AllowedIn(a, now') \in Int /\ now - a \in Int /\ now' - a = now - a + 1
        BY <1>2, <1>7, <1>a
      <4>2. \A x \in Int : x * Refills \in Int /\ (x + 1) * Refills = x * Refills + Refills
        BY <1>0
      <4>3. QED
        BY <1>0, <4>1, <4>2
    <3>5. QED
      BY <1>0, <1>4, <1>5, <2>1, <2>2, <3>2, <3>3, <3>4
  <2>5. QED
    BY <2>3, <2>4
<1>9. ASSUME NEW a \in 0 .. now', NEW b \in a .. now'
      PROVE AllowedIn(a, b)' * Cost <= Capacity + (b - a) * Refills
  <2>1. AllowedIn(a, b)' = AllowedIn(a, b)
    BY <1>6
  <2>2. CASE b = now'
    <3>1. AllowedIn(a, now') * Cost \in Int /\ (now' - a) * Refills \in Int
      <4>1. AllowedIn(a, now') \in Int /\ now' - a \in Int
        BY <1>7, <1>a
      <4>2. QED
        BY <1>0, <4>1
    <3>2. SpentSince(a)' = AllowedIn(a, now') * Cost + Refilled(Current)'
      BY <1>0, <1>1, <1>2 DEF SpentSince, Counted
    <3>3. AllowedIn(a, now') * Cost <= Capacity + (now' - a) * Refills
      BY <1>4, <1>5, <1>8, <3>1, <3>2
    <3>4. QED
      BY <2>1, <2>2, <3>3
  <2>3. CASE b # now'
    <3>1. a \in 0 .. now /\ b \in a .. now
      BY <1>2, <1>a, <2>3
    <3>2. QED
      BY <2>1, <3>1 DEF LimiterInv, WindowBounded
  <2>4. QED
    BY <2>2, <2>3
<1>10. WindowBounded'
  BY <1>0, <1>2, <1>9 DEF WindowBounded
<1>11. QED
  BY <1>0, <1>2, <1>3, <1>8, <1>10 DEF LimiterInv

(* The limiter keeps its invariant. *)
THEOREM LimiterInvHolds == LimiterSpec => []LimiterInv
<1>1. LimiterInit => LimiterInv
  <2> SUFFICES ASSUME LimiterInit PROVE LimiterInv
    OBVIOUS
  <2>1. LimiterTypes
    BY LimiterAssumption DEF LimiterInit, LimiterTypes
  <2>2. Counted
    BY AllowedCounted
  <2>3. now = 0 /\ bucket = NoBucket /\ retryAt = -1
    BY DEF LimiterInit
  <2>4. AllowedIn(0, 0) = 0
    <3>1. AllowedIn(0, 0) = Total(allowed, 0 .. 0) /\ 0 .. 0 = {0}
      BY <2>2 DEF Counted
    <3>2. allowed[0] = 0
      BY LimiterAssumption DEF LimiterInit
    <3>3. QED
      BY <3>1, <3>2, TotalOne
  <2>5. Capacity \in Nat /\ Refilled(Current) = Capacity
    BY <2>1, <2>3, TokensBounded
  <2>6. \A a \in 0 .. now : a = 0 /\ \A b \in a .. now : b = 0
    BY <2>3
  <2>7. Cost \in Nat /\ Refills \in Nat
    BY LimiterAssumption
  <2>8. WindowBounded
    BY <2>3, <2>4, <2>5, <2>6, <2>7 DEF WindowBounded
  <2>9. \A a \in 0 .. now : SpentSince(a) <= Capacity + (now - a) * Refills
    BY <2>3, <2>4, <2>5, <2>6, <2>7 DEF SpentSince
  <2>10. QED
    BY <2>1, <2>3, <2>8, <2>9 DEF LimiterInv
<1>2. LimiterInv /\ [LimiterNext]_limiterVars => LimiterInv'
  <2> SUFFICES ASSUME LimiterInv, [LimiterNext]_limiterVars PROVE LimiterInv'
    OBVIOUS
  <2>1. CASE UNCHANGED limiterVars
    <3>1. Counted /\ Counted'
      BY AllowedCounted, PTL
    <3>2. UNCHANGED <<now, bucket, allowed, retryAt>>
      BY <2>1 DEF limiterVars
    <3>3. \A a, b \in Int : AllowedIn(a, b)' = AllowedIn(a, b)
      BY <3>1, <3>2 DEF Counted
    <3>4. now \in Int /\ LimiterTypes
      BY LimiterAssumption DEF LimiterInv, LimiterTypes
    <3>5. LimiterTypes' /\ Refilled(Current)' = Refilled(Current)
      BY <3>2, <3>4 DEF LimiterTypes, Refilled, Current
    <3>6. \A a \in 0 .. now : SpentSince(a)' = SpentSince(a)
      <4> SUFFICES ASSUME NEW a \in 0 .. now PROVE SpentSince(a)' = SpentSince(a)
        OBVIOUS
      <4>1. AllowedIn(a, now)' = AllowedIn(a, now)
        BY <3>1, <3>2, <3>4 DEF Counted
      <4>2. QED
        BY <3>5, <4>1 DEF SpentSince
    <3>7. WindowBounded'
      BY <3>2, <3>3, <3>4 DEF LimiterInv, WindowBounded
    <3>8. QED
      BY <3>2, <3>5, <3>6, <3>7 DEF LimiterInv
  <2>2. QED
    BY <2>1, AllowInv, CleanupInv, TickInv DEF LimiterNext
<1>3. QED
  BY <1>1, <1>2, PTL DEF LimiterSpec

(* For every burst, rate, cost and time-to-live, Allow never lets more pass in a
   window than the burst and what was refilled meanwhile, although the cleanup
   forgets idle buckets, and a client that waits for as long as Retry-After says
   is let in. The invariant adds what is left in the bucket to what was allowed
   since any earlier tick. *)
THEOREM LimiterKeepsItsWord == LimiterSpec => []RateLimitKept
<1>1. LimiterInv => RateLimitKept
  <2> SUFFICES ASSUME LimiterInv PROVE RateLimitKept
    OBVIOUS
  <2>1. LimiterTypes /\ now \in Int /\ retryAt \in Int /\ Cost \in Nat /\ Refills \in Nat
    BY LimiterAssumption DEF LimiterInv, LimiterTypes
  <2>2. /\ Capacity \in Nat /\ Cost <= Capacity
        /\ bucket = NoBucket => Refilled(Current) = Capacity
        /\ bucket # NoBucket =>
              Refilled(Current) = Least(Capacity, bucket.tokens + (now - bucket.lastRefill) * Refills)
    BY <2>1, TokensBounded
  <2>3. RetryAfterSuffices
    <3> SUFFICES ASSUME retryAt >= 0, now >= retryAt, bucket # NoBucket PROVE Refilled(Current) >= Cost
      BY <2>1, <2>2 DEF RetryAfterSuffices
    <3>1. Cost <= bucket.tokens + (retryAt - bucket.lastRefill) * Refills
      BY DEF LimiterInv
    <3>2. bucket.tokens \in Int /\ bucket.lastRefill \in Int
      BY <2>1 DEF LimiterTypes, Buckets
    <3> DEFINE x == retryAt - bucket.lastRefill
               y == now - bucket.lastRefill
    <3>3. x \in Int /\ y \in Int /\ x <= y
      BY <2>1, <3>2
    <3> HIDE DEF x, y
    <3>4. Refills * x <= Refills * y /\ Refills * x = x * Refills /\ Refills * y = y * Refills /\ y * Refills \in Int /\ x * Refills \in Int
      BY <2>1, <3>3, TimesMonotonic
    <3>5. Cost <= bucket.tokens + x * Refills /\ Refilled(Current) = Least(Capacity, bucket.tokens + y * Refills)
      BY <2>2, <3>1 DEF x, y
    <3>6. QED
      BY <2>1, <2>2, <3>2, <3>4, <3>5 DEF Least
  <2>4. QED
    BY <2>3 DEF RateLimitKept, LimiterInv
<1>2. QED
  BY <1>1, LimiterInvHolds, PTL

-----------------------------------------------------------------------------
(* The balancers *)

(* For every set of tunnels A: together they owe at most W for every pair  *)
(* of one of them and one of the others, halved.                           *)
Parabola(A, U) == Cardinality(A) * (Cardinality(U) - Cardinality(A))
Balanced(c, U, W) == \A A \in SUBSET U : -(Parabola(A, U) * W) <= 2 * Total(c, A)

(* What a selection from S does to credits c: everyone of S earns and b pays. *)
Paid(c, w, S, b) ==
  [t \in DOMAIN c |-> (IF t \in S THEN c[t] + w[t] ELSE c[t]) - (IF t = b THEN Total(w, S) ELSE 0)]

(* Tunnels U with weights w and credits c, of which b is chosen out of S. *)
Selection(U, S, w, c, b) ==
  /\ IsFiniteSet(U) /\ S \in SUBSET U /\ b \in S
  /\ \A t \in U : w[t] \in Nat
  /\ U \subseteq DOMAIN c /\ \A t \in U : c[t] \in Int

(* What a selection does to the credits of the tunnels A together. *)
LEMMA PaidTotal ==
  ASSUME NEW U, NEW S, NEW w, NEW c, NEW b, Selection(U, S, w, c, b), NEW A \in SUBSET U
  PROVE  /\ \A t \in U : Paid(c, w, S, b)[t] \in Int
         /\ b \in A => Total(Paid(c, w, S, b), A) = Total(c, A) + Total(w, A \cap S) - Total(w, S)
         /\ b \notin A => Total(Paid(c, w, S, b), A) = Total(c, A) + Total(w, A \cap S)
<1> DEFINE e == [t \in U |-> IF t \in S THEN c[t] + w[t] ELSE c[t]]
           d == Paid(c, w, S, b)
           In == A \cap S
           Out == A \ S
<1> USE DEF Selection
<1>1. IsFiniteSet(A) /\ IsFiniteSet(S) /\ IsFiniteSet(In) /\ IsFiniteSet(Out)
  BY FS_Subset
<1>2. In \cap Out = {} /\ In \cup Out = A /\ In \subseteq U /\ Out \subseteq U
  OBVIOUS
<1>3. Total(w, S) \in Int /\ Total(w, In) \in Int /\ Total(c, In) \in Int /\ Total(c, Out) \in Int
  BY <1>1, <1>2, TotalInt
<1>4. Total(c, A) = Total(c, In) + Total(c, Out)
  BY <1>1, <1>2, TotalUnion
<1>5. \A t \in U : e[t] \in Int
  OBVIOUS
<1>6. Total(e, A) = Total(e, In) + Total(e, Out)
  BY <1>1, <1>2, <1>5, TotalUnion
<1>7. Total(e, In) = Total(c, In) + Total(w, In)
  <2>1. \A t \in In : c[t] \in Int /\ w[t] \in Int /\ e[t] = c[t] + w[t]
    OBVIOUS
  <2>2. QED
    BY <1>1, <2>1, TotalPlus
<1>8. Total(e, Out) = Total(c, Out)
  <2>1. \A t \in Out : c[t] \in Int /\ e[t] = c[t]
    OBVIOUS
  <2>2. QED
    BY <1>1, <2>1, TotalSame
<1>9. Total(e, A) = Total(c, A) + Total(w, In)
  BY <1>3, <1>4, <1>6, <1>7, <1>8
<1>10. \A t \in U : d[t] \in Int /\ d[t] = e[t] - (IF t = b THEN Total(w, S) ELSE 0)
  BY <1>3, <1>5 DEF Paid
<1>11. Total(c, A) \in Int
  BY <1>1, TotalInt
<1> HIDE DEF d, e
<1>12. CASE b \in A
  <2>1. d[b] \in Int /\ d[b] - e[b] = -Total(w, S)
    BY <1>3, <1>5, <1>10
  <2>2. \A y \in A : e[y] \in Int
    BY <1>5
  <2>3. \A y \in A \ {b} : d[y] = e[y]
    BY <1>5, <1>10
  <2>4. Total(d, A) = Total(e, A) + (d[b] - e[b])
    BY <1>1, <1>12, <2>1, <2>2, <2>3, TotalUpdate
  <2>5. Total(d, A) = Total(c, A) + Total(w, In) - Total(w, S)
    BY <1>3, <1>9, <1>11, <2>1, <2>4
  <2>6. QED
    BY <1>10, <1>12, <2>5 DEF d
<1>13. CASE b \notin A
  <2>1. \A y \in A : e[y] \in Int /\ d[y] = e[y]
    BY <1>5, <1>10, <1>13
  <2>2. Total(d, A) = Total(e, A)
    BY <1>1, <2>1, TotalSame
  <2>3. Total(d, A) = Total(c, A) + Total(w, In)
    BY <1>3, <1>9, <1>11, <2>2
  <2>4. QED
    BY <1>10, <1>13, <2>3 DEF d
<1>14. QED
  BY <1>12, <1>13

(* The richest pays: no set of tunnels owes more than it may. *)
LEMMA PaidBalanced ==
  ASSUME NEW U, NEW S, NEW w, NEW c, NEW b, Selection(U, S, w, c, b),
         \A u \in S : c[u] + w[u] <= c[b] + w[b],
         Balanced(c, U, Total(w, U))
  PROVE  Balanced(Paid(c, w, S, b), U, Total(w, U))
<1> DEFINE d == Paid(c, w, S, b)
           W == Total(w, U)
<1> SUFFICES ASSUME NEW A \in SUBSET U
             PROVE  -(Parabola(A, U) * W) <= 2 * Total(d, A)
  BY DEF Balanced
<1>0. IsFiniteSet(U) /\ S \in SUBSET U /\ b \in S
  BY DEF Selection
<1>2. /\ b \in A => Total(d, A) = Total(c, A) + Total(w, A \cap S) - Total(w, S)
      /\ b \notin A => Total(d, A) = Total(c, A) + Total(w, A \cap S)
  <2> HIDE DEF W
  <2>1. A \in SUBSET U
    OBVIOUS
  <2>2. Selection(U, S, w, c, b)
    OBVIOUS
  <2>3. QED
    BY ONLY <2>1, <2>2, PaidTotal
<1> USE DEF Selection
<1>1. IsFiniteSet(A) /\ IsFiniteSet(S) /\ IsFiniteSet(A \cap S) /\ IsFiniteSet(S \ A)
  BY FS_Subset
<1>3. /\ W \in Nat /\ Total(w, S) \in Nat /\ Total(w, A \cap S) \in Nat /\ Total(w, S \ A) \in Nat
      /\ Total(c, A) \in Int
  <2>1. \A R \in SUBSET U : Total(w, R) \in Nat
    BY TotalNat
  <2>2. A \cap S \in SUBSET U /\ S \ A \in SUBSET U /\ U \in SUBSET U /\ \A t \in A : c[t] \in Int
    OBVIOUS
  <2>3. Total(c, A) \in Int
    BY <1>1, <2>2, TotalInt
  <2>4. QED
    BY <2>1, <2>2, <2>3
<1>4. Cardinality(A) \in Nat /\ Cardinality(U) \in Nat /\ Parabola(A, U) \in Int /\ Parabola(A, U) * W \in Int
  BY <1>1, <1>3, FS_CardinalityType DEF Parabola
<1>5. -(Parabola(A, U) * W) <= 2 * Total(c, A)
  BY DEF Balanced
<1>6. CASE b \notin A
  BY <1>2, <1>3, <1>4, <1>5, <1>6
<1>7. CASE b \in A
  <2>1. Total(w, S) = Total(w, A \cap S) + Total(w, S \ A)
    <3>1. (A \cap S) \cap (S \ A) = {} /\ (A \cap S) \cup (S \ A) = S
      OBVIOUS
    <3>2. \A t \in (A \cap S) \cup (S \ A) : w[t] \in Int
      OBVIOUS
    <3>3. Total(w, (A \cap S) \cup (S \ A)) = Total(w, A \cap S) + Total(w, S \ A)
      BY <1>1, <3>1, <3>2, TotalUnion
    <3>4. QED
      BY <3>1, <3>3, Zenon
  <2>2. Total(d, A) = Total(c, A) - Total(w, S \ A)
    BY <1>2, <1>3, <1>7, <2>1
  <2>3. CASE S \ A = {}
    <3>1. Total(w, S \ A) = 0
      BY <2>3, TotalEmpty, Zenon
    <3>2. QED
      BY <1>3, <1>4, <1>5, <2>2, <3>1
  <2>4. CASE S \ A # {}
    <3> DEFINE X == S \ A
               M == A \ {b}
               B == A \cup X
               k == Cardinality(A)
               m == Cardinality(X)
               r == Cardinality(U) - Cardinality(A)
    <3>1. IsFiniteSet(X) /\ IsFiniteSet(M) /\ IsFiniteSet(B) /\ A \cap X = {} /\ M \subseteq U /\ B \subseteq U
      <4>1. A \cap X = {} /\ M \subseteq U /\ B \subseteq U
        OBVIOUS
      <4>2. QED
        BY <1>1, <4>1, FS_Subset
    <3>2. m \in Nat /\ m >= 1
      <4>1. m \in Nat
        BY <3>1, FS_CardinalityType
      <4>2. m # 0
        BY <2>4, <3>1, FS_EmptySet
      <4>3. QED
        BY <4>1, <4>2
    <3>3. Cardinality(M) = k - 1
      BY <1>1, <1>7, FS_RemoveElement, Zenon
    <3>4. Cardinality(B) = k + m
      <4>1. Cardinality(A \cap X) = 0
        BY <3>1, FS_EmptySet, Zenon
      <4>2. Cardinality(B) = k + m - Cardinality(A \cap X)
        BY <1>1, <3>1, FS_Union
      <4>3. QED
        BY <1>4, <3>2, <4>1, <4>2
    <3>5. Total(c, A) = c[b] + Total(c, M)
      BY <1>1, <1>7, TotalRemove
    <3>6. Total(c, B) = Total(c, A) + Total(c, X)
      BY <1>1, <3>1, TotalUnion
    <3>7. Total(c, M) \in Int /\ Total(c, X) \in Int /\ Total(c, B) \in Int /\ c[b] \in Int /\ w[b] \in Int
      BY <3>1, TotalInt
    <3>8. -(Parabola(M, U) * W) <= 2 * Total(c, M) /\ -(Parabola(B, U) * W) <= 2 * Total(c, B)
      BY <3>1 DEF Balanced
    <3>9. Parabola(M, U) = (k - 1) * (r + 1) /\ Parabola(B, U) = (k + m) * (r - m) /\ Parabola(A, U) = k * r
      BY <1>4, <3>2, <3>3, <3>4 DEF Parabola
    <3>10. Total(c, X) + Total(w, X) <= m * (c[b] + w[b])
      <4> DEFINE e == [t \in X |-> c[t] + w[t]]
                 f == [t \in X |-> c[b] + w[b]]
      <4>1. Total(e, X) = Total(c, X) + Total(w, X)
        <5>1. \A t \in X : c[t] \in Int /\ w[t] \in Int /\ e[t] = c[t] + w[t]
          OBVIOUS
        <5>2. QED
          BY <3>1, <5>1, TotalPlus
      <4>2. Total(f, X) = Cardinality(X) * (c[b] + w[b])
        BY <3>1, <3>7, TotalConstant
      <4>3. \A t \in X : e[t] \in Int /\ f[t] \in Int /\ e[t] <= f[t]
        BY <3>7
      <4> HIDE DEF e, f
      <4>4. Total(e, X) <= Total(f, X)
        BY <3>1, <4>3, TotalLeq
      <4>5. QED
        BY <4>1, <4>2, <4>4
    <3>11. w[b] + Total(w, X) <= W
      <4>1. {b} \cup X \in SUBSET U /\ {b} \cap X = {} /\ IsFiniteSet({b})
        <5>1. IsFiniteSet({b})
          BY FS_Singleton, Zenon
        <5>2. QED
          BY <1>7, <5>1
      <4>2. Total(w, {b} \cup X) <= W
        BY <4>1, TotalNat
      <4>3. Total(w, {b} \cup X) = Total(w, {b}) + Total(w, X)
        BY <3>1, <4>1, TotalUnion
      <4>6. Total(w, {b}) = w[b]
        BY <3>7, TotalOne, Zenon
      <4>7. QED
        BY <4>2, <4>3, <4>6
    <3> HIDE DEF X, M, B, k, m, r
    <3>12. k \in Int /\ r \in Int /\ Total(w, X) \in Int
      BY <1>3, <1>4 DEF k, r, X
    <3>13. -((k * r) * W) <= 2 * (Total(c, A) - Total(w, X))
      <4>1. -(((k - 1) * (r + 1)) * W) <= 2 * Total(c, M)
        BY <3>8, <3>9
      <4>2. -(((k + m) * (r - m)) * W) <= 2 * Total(c, B)
        BY <3>8, <3>9
      <4> HIDE DEF W
      <4>3. QED
        BY <1>3, <3>2, <3>5, <3>6, <3>7, <3>10, <3>11, <3>12, <4>1, <4>2, CreditArithmetic, Zenon
    <3>14. QED
      BY <2>2, <3>9, <3>13 DEF X
  <2>5. QED
    BY <2>3, <2>4
<1>8. QED
  BY <1>6, <1>7

(* The weights as a function. *)
WeightOf == [t \in Tunnels |-> Weight(t)]

(* Weights are positive numbers, and those of all the heavier. *)
LEMMA WeightFacts ==
  ASSUME BalancerTypeOK, NEW S \in SUBSET Tunnels
  PROVE  /\ IsFiniteSet(S) /\ \A t \in Tunnels : WeightOf[t] = Weight(t) /\ Weight(t) \in Nat \ {0}
         /\ TotalWeight(S) = Total(WeightOf, S) /\ TotalWeight(S) \in Nat
         /\ \A t \in S : Weight(t) <= TotalWeight(S)
<1>1. IsFiniteSet(S)
  BY BalancerAssumption, FS_Subset
<1>2. \A t \in Tunnels : WeightOf[t] = Weight(t) /\ Weight(t) \in Nat \ {0}
  BY BalancerAssumption DEF WeightOf, Weight, BalancerTypeOK
<1> DEFINE w == [t \in S |-> Weight(t)]
<1>3. \A t \in S : WeightOf[t] \in Int /\ w[t] = WeightOf[t] /\ WeightOf[t] \in Nat
  BY <1>2
<1>4. TotalWeight(S) = Total(w, S)
  BY Zenon DEF TotalWeight, Total
<1> HIDE DEF w
<1>5. Total(w, S) = Total(WeightOf, S)
  BY <1>1, <1>3, TotalSame
<1>6. Total(WeightOf, S) \in Nat /\ \A R \in SUBSET S : Total(WeightOf, R) <= Total(WeightOf, S)
  BY <1>1, <1>3, TotalNat
<1>7. ASSUME NEW t \in S PROVE Weight(t) <= TotalWeight(S)
  <2>1. Total(WeightOf, {t}) = WeightOf[t]
    BY <1>3, TotalOne, Zenon
  <2>2. {t} \in SUBSET S
    OBVIOUS
  <2>3. QED
    BY <1>2, <1>4, <1>5, <1>6, <2>1, <2>2
<1>8. QED
  BY <1>1, <1>2, <1>4, <1>5, <1>6, <1>7

(* Pay, as a function of the credits. *)
LEMMA PayIsPaid ==
  ASSUME BalancerTypeOK, NEW S \in SUBSET Tunnels, NEW b \in S
  PROVE  Pay(S, b) = Paid(current, WeightOf, S, b)
<1>1. TotalWeight(S) = Total(WeightOf, S) /\ TotalWeight(S) \in Nat
  BY WeightFacts
<1>2. current \in [Tunnels -> Int] /\ DOMAIN current = Tunnels /\ b \in Tunnels
  BY DEF BalancerTypeOK
<1>3. \A t \in Tunnels : WeightOf[t] = Weight(t) /\ Weight(t) \in Int
  BY WeightFacts
<1> DEFINE E == Earned(S)
<1>4. DOMAIN E = Tunnels /\ \A t \in Tunnels : E[t] = (IF t \in S THEN current[t] + WeightOf[t] ELSE current[t]) /\ E[t] \in Int
  BY <1>2, <1>3 DEF Earned
<1>5. Pay(S, b) = [E EXCEPT ![b] = @ - TotalWeight(S)]
  BY DEF Pay
<1> HIDE DEF E
<1>6. Pay(S, b) = [t \in Tunnels |-> IF t = b THEN E[t] - TotalWeight(S) ELSE E[t]]
  BY <1>4, <1>5, Zenon
<1>7. \A t \in Tunnels : (IF t = b THEN E[t] - TotalWeight(S) ELSE E[t]) = E[t] - (IF t = b THEN Total(WeightOf, S) ELSE 0)
  BY <1>1, <1>4
<1>8. QED
  BY <1>2, <1>4, <1>6, <1>7 DEF Paid

(* The credits of U add up to nothing and are balanced. *)
Settled(c, U, W) == Total(c, U) = 0 /\ Balanced(c, U, W)

(* Smooth weighted round robin keeps the credits of every set of tunnels   *)
(* it chooses from, and of every larger one, settled.                      *)
LEMMA PaySettled ==
  ASSUME BalancerTypeOK, NEW U \in SUBSET Tunnels, NEW S \in SUBSET U, NEW b \in Richest(S),
         Settled(current, U, TotalWeight(U))
  PROVE  Settled(Pay(S, b), U, TotalWeight(U))
<1>1. b \in S /\ \A u \in S : Earned(S)[u] <= Earned(S)[b]
  BY DEF Richest
<1>2. S \in SUBSET Tunnels /\ \A t \in Tunnels : WeightOf[t] = Weight(t) /\ WeightOf[t] \in Nat
  BY WeightFacts
<1>3. IsFiniteSet(U) /\ TotalWeight(U) = Total(WeightOf, U)
  BY WeightFacts
<1>4. Selection(U, S, WeightOf, current, b)
  BY <1>1, <1>2, <1>3 DEF Selection, BalancerTypeOK
<1>5. \A u \in S : current[u] + WeightOf[u] <= current[b] + WeightOf[b]
  BY <1>1, <1>2, Zenon DEF Earned
<1>6. Pay(S, b) = Paid(current, WeightOf, S, b)
  BY <1>1, <1>2, PayIsPaid
<1>7. Balanced(Pay(S, b), U, TotalWeight(U))
  <2>1. Balanced(current, U, Total(WeightOf, U))
    BY <1>3 DEF Settled
  <2>2. Balanced(Paid(current, WeightOf, S, b), U, Total(WeightOf, U))
    BY ONLY <1>4, <1>5, <2>1, PaidBalanced
  <2>3. QED
    BY <1>3, <1>6, <2>2
<1>8. Total(Pay(S, b), U) = 0
  <2>1. U \in SUBSET U /\ b \in U /\ U \cap S = S
    BY <1>1
  <2>2. b \in U => Total(Paid(current, WeightOf, S, b), U) = Total(current, U) + Total(WeightOf, U \cap S) - Total(WeightOf, S)
    BY ONLY <1>4, <2>1, PaidTotal
  <2>3. Total(current, U) = 0
    BY DEF Settled
  <2>4. Total(WeightOf, S) \in Nat
    BY <1>2, WeightFacts
  <2>5. QED
    BY <1>6, <2>1, <2>2, <2>3, <2>4
<1>9. QED
  BY <1>7, <1>8 DEF Settled

(* Settled credits of one tunnel are half the weight of all for each of    *)
(* the others, at most, either way.                                        *)
LEMMA SettledBounds ==
  ASSUME NEW c, NEW U, IsFiniteSet(U), \A t \in U : c[t] \in Int, NEW W \in Nat, Settled(c, U, W), NEW t \in U
  PROVE  /\ -(Cardinality(U) - 1) * W <= 2 * c[t]
         /\ 2 * c[t] <= (Cardinality(U) - 1) * W
<1>1. {t} \in SUBSET U /\ U \ {t} \in SUBSET U /\ IsFiniteSet(U \ {t})
  BY FS_Subset
<1>2. Cardinality(U) \in Nat /\ Cardinality({t}) = 1 /\ Cardinality(U \ {t}) = Cardinality(U) - 1
  BY FS_CardinalityType, FS_Singleton, FS_RemoveElement, Zenon
<1>3. Total(c, {t}) = c[t]
  BY TotalOne, Zenon
<1>4. Total(c, U) = c[t] + Total(c, U \ {t}) /\ Total(c, U \ {t}) \in Int
  BY <1>1, TotalRemove, TotalInt
<1>5. Parabola({t}, U) = Cardinality(U) - 1 /\ Parabola(U \ {t}, U) = Cardinality(U) - 1
  BY <1>2 DEF Parabola
<1>6. -((Cardinality(U) - 1) * W) <= 2 * c[t]
  BY <1>1, <1>3, <1>5 DEF Settled, Balanced
<1>7. -((Cardinality(U) - 1) * W) <= 2 * Total(c, U \ {t})
  BY <1>1, <1>5 DEF Settled, Balanced
<1>8. Total(c, U) = 0
  BY DEF Settled
<1> DEFINE n == Cardinality(U) - 1
<1>9. n \in Int /\ n * W \in Int /\ (-n) * W = -(n * W)
  BY <1>2
<1> HIDE DEF n
<1>10. -(n * W) <= 2 * c[t] /\ 2 * c[t] <= n * W
  BY <1>4, <1>6, <1>7, <1>8, <1>9 DEF n
<1>11. QED
  BY <1>9, <1>10 DEF n

(* In a window that began without credits a tunnel's credit is its         *)
(* deviation, and never a whole connection below zero.                     *)
WindowInv ==
  algorithm = "weighted" /\ fresh =>
    /\ Settled(current, Healthy, TotalWeight(Healthy))
    /\ \A t \in Healthy : current[t] = Deviation(t) /\ -TotalWeight(Healthy) < current[t]

(* The inductive invariant. *)
BalancerInv ==
  /\ BalancerTypeOK /\ \A t \in Tunnels : picks[t] <= turns
  /\ Settled(current, Tunnels, TotalWeight(Tunnels))
  /\ WindowInv /\ LeastConnectionsLevel

(* Without credits everything is settled. *)
LEMMA ZeroSettled ==
  ASSUME NEW U \in SUBSET Tunnels, NEW W \in Nat
  PROVE  Settled(Zero, U, W)
<1>1. IsFiniteSet(U)
  BY BalancerAssumption, FS_Subset
<1>2. ASSUME NEW A \in SUBSET U PROVE Total(Zero, A) = 0 /\ 0 <= Parabola(A, U) * W /\ Parabola(A, U) * W \in Int
  <2>1. IsFiniteSet(A) /\ \A t \in A : Zero[t] = 0
    BY <1>1, FS_Subset DEF Zero
  <2>2. Cardinality(A) \in Nat /\ Cardinality(U) \in Nat /\ Cardinality(A) <= Cardinality(U)
    BY <1>1, <2>1, FS_CardinalityType, FS_Subset
  <2>3. Total(Zero, A) = Cardinality(A) * 0
    BY <2>1, TotalConstant
  <2>4. \A a, b \in Nat : a * b \in Nat
    OBVIOUS
  <2>5. Cardinality(U) - Cardinality(A) \in Nat
    BY <2>2
  <2>6. Parabola(A, U) \in Nat
    BY <2>2, <2>4, <2>5 DEF Parabola
  <2>7. Parabola(A, U) * W \in Nat
    BY <2>4, <2>6
  <2>8. QED
    BY <2>2, <2>3, <2>7
<1>3. QED
  BY <1>2 DEF Settled, Balanced

(* Every tunnel chosen from has a healthy weight below the weight of all. *)
LEMMA HealthyFacts ==
  ASSUME BalancerTypeOK
  PROVE  /\ Healthy \in SUBSET Tunnels /\ TotalWeight(Healthy) \in Nat
         /\ \A t \in Healthy : Weight(t) \in Nat \ {0} /\ Weight(t) <= TotalWeight(Healthy)
<1>1. Healthy \in SUBSET Tunnels
  BY DEF Healthy, FilterHealthy, BalancerTypeOK
<1>2. QED
  BY <1>1, WeightFacts

(* The richest tunnel has earned something when the credits are settled. *)
LEMMA RichestPositive ==
  ASSUME BalancerTypeOK, NEW S \in SUBSET Tunnels, NEW b \in Richest(S), Total(current, S) = 0
  PROVE  current[b] + Weight(b) > 0
<1> DEFINE e == [t \in S |-> current[t] + Weight(t)]
<1>1. b \in S /\ \A u \in S : Earned(S)[u] <= Earned(S)[b]
  BY DEF Richest
<1>2. IsFiniteSet(S) /\ \A t \in S : WeightOf[t] = Weight(t) /\ WeightOf[t] \in Int /\ Weight(t) \in Nat \ {0}
  BY WeightFacts
<1>3. \A t \in S : current[t] \in Int /\ WeightOf[t] \in Int /\ e[t] = current[t] + WeightOf[t]
  BY <1>2 DEF BalancerTypeOK
<1>4. Total(e, S) = Total(current, S) + Total(WeightOf, S)
  BY <1>2, <1>3, TotalPlus
<1>5. TotalWeight(S) = Total(WeightOf, S) /\ TotalWeight(S) \in Nat /\ Weight(b) <= TotalWeight(S)
  BY <1>1, WeightFacts
<1>6. Total(e, S) >= 1
  BY <1>1, <1>2, <1>4, <1>5
<1>7. ASSUME e[b] <= 0 PROVE FALSE
  <2> DEFINE z == [t \in S |-> 0]
  <2>1. \A t \in S : Earned(S)[t] = e[t] /\ e[t] \in Int
    BY <1>3 DEF Earned, BalancerTypeOK
  <2>2. \A t \in S : e[t] \in Int /\ z[t] \in Int /\ e[t] <= z[t]
    BY <1>1, <1>7, <2>1
  <2>3. Total(z, S) = Cardinality(S) * 0
    BY <1>2, TotalConstant
  <2> HIDE DEF e, z
  <2>4. Total(e, S) <= Total(z, S) /\ Total(e, S) \in Int
    BY <1>2, <2>2, TotalLeq, TotalInt
  <2>5. Cardinality(S) * 0 = 0
    BY <1>2, FS_CardinalityType
  <2>6. QED
    BY <1>6, <2>3, <2>4, <2>5
<1>8. QED
  BY <1>1, <1>3, <1>7

(* The facts a new window needs. *)
SetsWeighed ==
  /\ Healthy \in SUBSET Tunnels /\ TotalWeight(Healthy) \in Nat /\ TotalWeight(Tunnels) \in Nat
  /\ \A t \in Healthy : Weight(t) \in Nat \ {0} /\ Weight(t) <= TotalWeight(Healthy)

(* The types give those facts. *)
LEMMA TypesWeigh == BalancerTypeOK => SetsWeighed
<1> SUFFICES ASSUME BalancerTypeOK PROVE SetsWeighed
  OBVIOUS
<1>1. Tunnels \in SUBSET Tunnels
  OBVIOUS
<1>2. TotalWeight(Tunnels) \in Nat
  BY <1>1, WeightFacts
<1>3. QED
  BY <1>2, HealthyFacts DEF SetsWeighed

(* A window that has just begun. *)
LEMMA NewWindowInv ==
  ASSUME BalancerTypeOK', NewWindow
  PROVE  WindowInv' /\ LeastConnectionsLevel' /\ \A t \in Tunnels : picks'[t] <= turns'
<1>1. SetsWeighed'
  BY TypesWeigh, PTL
<1>2. \A t \in Tunnels : picks'[t] = 0 /\ turns' = 0
  BY DEF NewWindow, Zero
<1>3. LeastConnectionsLevel'
  <2>1. SUFFICES ASSUME NEW t \in Healthy', NEW u \in Healthy'
                 PROVE connections'[t] - connections'[u] <= before'[t] - before'[u]
    BY DEF LeastConnectionsLevel
  <2>2. t \in Tunnels /\ u \in Tunnels /\ connections' \in [Tunnels -> Nat] /\ before' = connections'
    BY <1>1 DEF NewWindow, SetsWeighed, BalancerTypeOK
  <2>3. connections'[t] \in Nat /\ connections'[u] \in Nat
    BY <2>2
  <2>4. QED
    BY <2>2, <2>3
<1>4. WindowInv'
  <2>1. SUFFICES ASSUME fresh'
                 PROVE /\ Settled(current', Healthy', TotalWeight(Healthy)')
                       /\ \A t \in Healthy' : current'[t] = Deviation(t)' /\ -TotalWeight(Healthy)' < current'[t]
    BY DEF WindowInv
  <2>2. current' = Zero
    BY <2>1, Zenon DEF NewWindow
  <2>3. Healthy' \in SUBSET Tunnels /\ TotalWeight(Healthy)' \in Nat
    BY <1>1 DEF SetsWeighed
  <2>4. Settled(Zero, Healthy', TotalWeight(Healthy)')
    BY <2>3, ZeroSettled
  <2>5. ASSUME NEW t \in Healthy' PROVE current'[t] = Deviation(t)' /\ -TotalWeight(Healthy)' < current'[t]
    <3>1. Weight(t)' \in Nat \ {0} /\ Weight(t)' <= TotalWeight(Healthy)'
      BY <1>1 DEF SetsWeighed
    <3>2. Deviation(t)' = turns' * Weight(t)' - picks'[t] * TotalWeight(Healthy)'
      BY DEF Deviation
    <3>3. t \in Tunnels /\ picks'[t] = 0 /\ turns' = 0 /\ current'[t] = 0
      BY <1>2, <2>2, <2>3 DEF Zero
    <3>4. QED
      BY <2>3, <3>1, <3>2, <3>3
  <2>6. QED
    BY <2>2, <2>4, <2>5
<1>5. QED
  BY <1>2, <1>3, <1>4

(* The weight of a set of tunnels as a sum. *)
Summed ==
  /\ TotalWeight(Tunnels) = Total([t \in Tunnels |-> Weight(t)], Tunnels)
  /\ TotalWeight(Healthy) = Total([t \in Healthy |-> Weight(t)], Healthy)

(* The weights of a set of tunnels are such a sum. *)
LEMMA WeightsSummed == Summed
BY Zenon DEF Summed, TotalWeight, Total

(* Tunnels weigh the same as long as the weights do. *)
LEMMA WeightsStay ==
  ASSUME weights' = weights
  PROVE  /\ TotalWeight(Tunnels)' = TotalWeight(Tunnels)
         /\ Healthy' = Healthy => TotalWeight(Healthy)' = TotalWeight(Healthy)
<1>1. Summed /\ Summed'
  BY WeightsSummed, PTL
<1>3. [t \in Tunnels |-> Weight(t)'] = [t \in Tunnels |-> Weight(t)]
  BY DEF Weight
<1>4. [t \in Healthy |-> Weight(t)'] = [t \in Healthy |-> Weight(t)]
  BY DEF Weight
<1>5. QED
  BY <1>1, <1>3, <1>4 DEF Summed

(* A selection that the window counts keeps the shares. *)
LEMMA SameWindowShares ==
  ASSUME BalancerInv, NEW b \in Tunnels, SelectBackend(b), SameWindow(b),
         Healthy' = Healthy, weights' = weights, algorithm' = algorithm,
         Settled(current, Tunnels, TotalWeight(Tunnels))
  PROVE  WindowInv'
<1> DEFINE S == Healthy
           W == TotalWeight(S)
<1>0. BalancerTypeOK /\ WindowInv
  BY DEF BalancerInv
<1>1. S \in SUBSET Tunnels /\ W \in Nat /\ \A t \in S : Weight(t) \in Nat \ {0} /\ Weight(t) <= W
  BY <1>0, HealthyFacts
<1>2. TotalWeight(Healthy)' = W
  BY WeightsStay
<1>3. \A t \in Tunnels : Weight(t)' = Weight(t)
  BY DEF Weight
<1>4. SUFFICES ASSUME algorithm = "weighted", fresh
               PROVE  /\ Settled(current', S, W)
                      /\ \A t \in S : current'[t] = Deviation(t)' /\ -W < current'[t]
  BY <1>2 DEF WindowInv, SameWindow
<1>5. Settled(current, S, W) /\ \A t \in S : current[t] = Deviation(t) /\ -W < current[t]
  BY <1>0, <1>4 DEF WindowInv
<1>6. b \in Richest(S) /\ current' = Pay(S, b)
  BY <1>4 DEF SelectBackend
<1>7. Settled(current', S, W)
  BY <1>0, <1>1, <1>5, <1>6, PaySettled
<1>8. b \in S /\ current[b] + Weight(b) > 0
  <2>1. Total(current, S) = 0
    BY <1>5 DEF Settled
  <2>2. QED
    BY <1>0, <1>1, <1>6, <2>1, RichestPositive DEF Richest
<1>9. ASSUME NEW t \in S PROVE current'[t] = Deviation(t)' /\ -W < current'[t]
  <2>1. t \in Tunnels /\ current[t] \in Int /\ Weight(t) \in Nat \ {0} /\ turns \in Int /\ picks[t] \in Int
    BY <1>0, <1>1 DEF BalancerTypeOK
  <2>2. current'[t] = current[t] + Weight(t) - (IF t = b THEN W ELSE 0)
    BY <1>1, <1>6, <1>8, <2>1 DEF Pay, Earned
  <2>3. Deviation(t) = turns * Weight(t) - picks[t] * W
    BY DEF Deviation
  <2>4. Deviation(t)' = turns' * Weight(t) - picks'[t] * W
    BY <1>2, <1>3, <2>1 DEF Deviation
  <2>5. turns' = turns + 1 /\ picks'[t] = picks[t] + (IF t = b THEN 1 ELSE 0)
    BY <1>0, <2>1 DEF SameWindow, BalancerTypeOK
  <2>6. (turns + 1) * Weight(t) = turns * Weight(t) + Weight(t) /\ (picks[t] + 1) * W = picks[t] * W + W
    BY <1>1, <2>1
  <2>7. turns * Weight(t) \in Int /\ picks[t] * W \in Int
    BY <1>1, <2>1
  <2> HIDE DEF W, S
  <2>8. current'[t] = Deviation(t)'
    <3>1. CASE t = b
      BY <1>1, <1>5, <2>1, <2>2, <2>3, <2>4, <2>5, <2>6, <2>7, <3>1
    <3>2. CASE t # b
      BY <1>1, <1>5, <2>1, <2>2, <2>3, <2>4, <2>5, <2>6, <2>7, <3>2
    <3>3. QED
      BY <3>1, <3>2
  <2>9. -W < current'[t]
    <3>1. CASE t = b
      BY <1>1, <1>8, <2>1, <2>2, <3>1
    <3>2. CASE t # b
      BY <1>1, <1>5, <2>1, <2>2, <3>2
    <3>3. QED
      BY <3>1, <3>2
  <2>10. QED
    BY <2>8, <2>9
<1>10. QED
  BY <1>7, <1>9

(* Selections keep the counters level. *)
LEMMA SameWindowLevel ==
  ASSUME BalancerInv, NEW b \in Tunnels, SelectBackend(b), UNCHANGED <<algorithm, before>>,
         Healthy' = Healthy,
         connections' = [connections EXCEPT ![b] = @ + 1] \/ connections' = connections
  PROVE  LeastConnectionsLevel'
<1>0. BalancerTypeOK /\ LeastConnectionsLevel
  BY DEF BalancerInv
<1>1. SUFFICES ASSUME algorithm = "least_connections", NEW t \in Healthy, NEW u \in Healthy
               PROVE \/ connections'[t] - connections'[u] <= 1
                     \/ \E x, y \in Healthy : connections'[t] - connections'[u] <= before[x] - before[y]
  BY DEF LeastConnectionsLevel
<1>2. Healthy \in SUBSET Tunnels
  BY <1>0, HealthyFacts
<1>3. connections \in [Tunnels -> Nat] /\ before \in [Tunnels -> Nat] /\ t \in Tunnels /\ u \in Tunnels
  BY <1>0, <1>2 DEF BalancerTypeOK
<1>4. b \in Healthy /\ \A x \in Healthy : connections[b] <= connections[x]
  BY <1>1, Zenon DEF SelectBackend, LeastConnected
<1>5. \/ connections[t] - connections[u] <= 1
      \/ \E x, y \in Healthy : connections[t] - connections[u] <= before[x] - before[y]
  BY <1>0, <1>1 DEF LeastConnectionsLevel
<1>6. CASE connections' = connections
  BY <1>5, <1>6
<1>7. CASE connections' = [connections EXCEPT ![b] = @ + 1]
  <2>1. \A x \in Tunnels : connections'[x] = IF x = b THEN connections[x] + 1 ELSE connections[x]
    BY <1>3, <1>7
  <2>2. CASE t = b
    BY <1>3, <1>4, <2>1, <2>2
  <2>3. CASE t # b
    <3>1. connections'[t] - connections'[u] <= connections[t] - connections[u]
      BY <1>3, <2>1, <2>3
    <3>2. connections'[t] \in Nat /\ connections'[u] \in Nat /\ connections[t] \in Nat /\ connections[u] \in Nat
      BY <1>3, <2>1
    <3>3. \A x \in Healthy : before[x] \in Nat
      BY <1>2, <1>3
    <3>4. QED
      BY <1>5, <3>1, <3>2, <3>3
  <2>4. QED
    BY <2>2, <2>3
<1>8. QED
  BY <1>6, <1>7

(* The two steps that select a tunnel, whether or not it then counts one   *)
(* connection more.                                                        *)
LEMMA SelectionInv ==
  ASSUME BalancerInv, NEW b \in Tunnels, turns < MaxTurns, SelectBackend(b), Count(b),
         connections' = [connections EXCEPT ![b] = @ + 1] \/ connections' = connections,
         UNCHANGED <<algorithm, weights, activeTunnels, flaps>>
  PROVE  BalancerInv'
<1>0. BalancerTypeOK /\ (\A t \in Tunnels : picks[t] <= turns) /\ Settled(current, Tunnels, TotalWeight(Tunnels))
  BY DEF BalancerInv
<1>1. Healthy \in SUBSET Tunnels /\ TotalWeight(Healthy) \in Nat
  BY <1>0, HealthyFacts
<1>2. current' \in [Tunnels -> Int] /\ Settled(current', Tunnels, TotalWeight(Tunnels))
  <2>1. CASE current' = current
    BY <1>0, <2>1 DEF BalancerTypeOK
  <2>2. CASE b \in Richest(Healthy) /\ current' = Pay(Healthy, b)
    <3>1. Tunnels \in SUBSET Tunnels /\ \A t \in Tunnels : Weight(t) \in Int
      BY <1>0, <1>1, WeightFacts
    <3>2. current' \in [Tunnels -> Int]
      BY <1>0, <1>1, <2>2, <3>1 DEF Pay, Earned, BalancerTypeOK
    <3>3. QED
      BY <1>0, <1>1, <2>2, <3>1, <3>2, PaySettled
  <2>3. QED
    BY <2>1, <2>2 DEF SelectBackend
<1>3. Settled(current', Tunnels, TotalWeight(Tunnels)')
  BY <1>2, WeightsStay
<1>4. Healthy' = FilterHealthy(activeTunnels, connections')
  BY DEF Healthy
<1>5. connections' \in [Tunnels -> Nat]
  BY <1>0 DEF BalancerTypeOK
<1>6. CASE SameWindow(b) /\ Healthy' = Healthy
  <2>1. WindowInv'
    BY <1>0, <1>6, SameWindowShares
  <2>2. LeastConnectionsLevel'
    BY <1>6, SameWindowLevel DEF SameWindow
  <2>3. \A t \in Tunnels : picks'[t] <= turns' /\ picks'[t] \in Nat /\ turns' \in 0..MaxTurns
    BY <1>0, <1>6, BalancerAssumption DEF SameWindow, BalancerTypeOK
  <2>4. BalancerTypeOK'
    <3>1. picks' \in [Tunnels -> 0..MaxTurns]
      BY <1>0, <1>6, <2>3, BalancerAssumption DEF SameWindow, BalancerTypeOK
    <3>2. QED
      BY <1>0, <1>2, <1>5, <1>6, <2>3, <3>1 DEF SameWindow, BalancerTypeOK
  <2>5. QED
    BY <1>3, <2>1, <2>2, <2>3, <2>4 DEF BalancerInv
<1>7. CASE NewWindow
  <2>1. BalancerTypeOK'
    BY <1>0, <1>2, <1>5, <1>7, BalancerAssumption DEF NewWindow, BalancerTypeOK, Zero
  <2>2. QED
    BY <1>3, <1>7, <2>1, NewWindowInv DEF BalancerInv
<1>8. QED
  BY <1>4, <1>6, <1>7 DEF Count

(* The balancer keeps its invariant. *)
THEOREM BalancerInvHolds == LBSpec => []BalancerInv
<1>1. LBInit => BalancerInv
  <2> SUFFICES ASSUME LBInit PROVE BalancerInv
    OBVIOUS
  <2>1. BalancerTypeOK
    <3>1. PICK m \in WeightMaps : weights = Positive(m)
      BY DEF LBInit
    <3>2. DOMAIN weights \subseteq Tunnels /\ \A t \in DOMAIN weights : weights[t] \in Nat \ {0}
      BY <3>1, BalancerAssumption DEF Positive
    <3>3. QED
      BY <3>2, BalancerAssumption DEF LBInit, BalancerTypeOK, Zero
  <2>2. SetsWeighed
    BY <2>1, TypesWeigh
  <2>3. Settled(current, Tunnels, TotalWeight(Tunnels)) /\ Settled(current, Healthy, TotalWeight(Healthy))
    BY <2>2, ZeroSettled DEF LBInit, SetsWeighed
  <2>4. ASSUME NEW t \in Healthy PROVE current[t] = Deviation(t) /\ -TotalWeight(Healthy) < current[t]
    <3>1. t \in Tunnels /\ current[t] = 0 /\ picks[t] = 0 /\ turns = 0
      BY <2>2 DEF LBInit, Zero, SetsWeighed
    <3>2. QED
      BY <2>2, <3>1 DEF Deviation, SetsWeighed
  <2>5. LeastConnectionsLevel
    <3>1. \A t \in Healthy : connections[t] = 0
      BY <2>2 DEF LBInit, Zero, SetsWeighed
    <3>2. QED
      BY <3>1 DEF LeastConnectionsLevel
  <2>6. QED
    BY <2>1, <2>3, <2>4, <2>5 DEF BalancerInv, WindowInv, LBInit, Zero
<1>2. BalancerInv /\ [LBNext]_lbVars => BalancerInv'
  <2> SUFFICES ASSUME BalancerInv, [LBNext]_lbVars PROVE BalancerInv'
    OBVIOUS
  <2>0. BalancerTypeOK /\ Settled(current, Tunnels, TotalWeight(Tunnels))
    BY DEF BalancerInv
  <2>1. ASSUME NEW t \in Tunnels, Connect(t) PROVE BalancerInv'
    BY <2>1, SelectionInv DEF Connect
  <2>2. ASSUME NEW t \in Tunnels, Reassign(t) PROVE BalancerInv'
    BY <2>2, SelectionInv DEF Reassign
  <2>3. ASSUME NEW t \in Tunnels, SetTunnelStatus(t) PROVE BalancerInv'
    <3>1. BalancerTypeOK'
      BY <2>0, <2>3, BalancerAssumption DEF SetTunnelStatus, NewWindow, BalancerTypeOK, Zero
    <3>2. Settled(current', Tunnels, TotalWeight(Tunnels)')
      BY <2>0, <2>3, WeightsStay DEF SetTunnelStatus
    <3>3. QED
      BY <2>3, <3>1, <3>2, NewWindowInv DEF SetTunnelStatus, BalancerInv
  <2>4. ASSUME NEW a \in Algorithms, NEW m \in WeightMaps, UpdateConfig(a, m) PROVE BalancerInv'
    <3>1. DOMAIN weights' \subseteq Tunnels /\ \A t \in DOMAIN weights' : weights'[t] \in Nat \ {0}
      BY <2>4, BalancerAssumption DEF UpdateConfig, Positive
    <3>2. BalancerTypeOK'
      BY <2>0, <2>4, <3>1, BalancerAssumption DEF UpdateConfig, NewWindow, BalancerTypeOK, Zero
    <3>3. SetsWeighed'
      BY <3>2, TypesWeigh, PTL
    <3>4. Settled(current', Tunnels, TotalWeight(Tunnels)')
      BY <2>4, <3>3, ZeroSettled DEF UpdateConfig, SetsWeighed
    <3>5. QED
      BY <2>4, <3>2, <3>4, NewWindowInv DEF UpdateConfig, BalancerInv
  <2>5. CASE UNCHANGED lbVars
    BY <2>5, WeightsStay DEF lbVars, BalancerInv, BalancerTypeOK, WindowInv, LeastConnectionsLevel, Healthy, Deviation, Weight
  <2>6. QED
    BY <2>1, <2>2, <2>3, <2>4, <2>5 DEF LBNext
<1>3. QED
  BY <1>1, <1>2, PTL DEF LBSpec

(* The balancers promise what they say. *)
THEOREM BalancersAreFair == LBSpec => []BalancersFair
<1>1. BalancerInv => BalancersFair
  <2> SUFFICES ASSUME BalancerInv PROVE BalancersFair
    OBVIOUS
  <2>1. BalancerTypeOK /\ LeastConnectionsLevel /\ WindowInv /\ Settled(current, Tunnels, TotalWeight(Tunnels))
    BY DEF BalancerInv
  <2>2. /\ Healthy \in SUBSET Tunnels /\ TotalWeight(Healthy) \in Nat /\ TotalWeight(Tunnels) \in Nat
        /\ current \in [Tunnels -> Int] /\ IsFiniteSet(Tunnels) /\ IsFiniteSet(Healthy)
    <3>1. SetsWeighed
      BY <2>1, TypesWeigh
    <3>2. QED
      BY <2>1, <3>1, BalancerAssumption, FS_Subset DEF BalancerTypeOK, SetsWeighed
  <2>3. CreditsBounded
    BY <2>1, <2>2, SettledBounds DEF CreditsBounded
  <2>4. WeightedShare
    <3> SUFFICES ASSUME algorithm = "weighted", fresh, NEW t \in Healthy
                 PROVE /\ -TotalWeight(Healthy) < Deviation(t)
                       /\ 2 * Deviation(t) <= (Cardinality(Healthy) - 1) * TotalWeight(Healthy)
      BY DEF WeightedShare
    <3>1. /\ Settled(current, Healthy, TotalWeight(Healthy))
          /\ current[t] = Deviation(t) /\ -TotalWeight(Healthy) < current[t]
      BY <2>1 DEF WindowInv
    <3>2. \A u \in Healthy : current[u] \in Int
      BY <2>2
    <3>3. 2 * current[t] <= (Cardinality(Healthy) - 1) * TotalWeight(Healthy)
      BY <2>2, <3>1, <3>2, SettledBounds
    <3>4. QED
      BY <3>1, <3>3
  <2>5. QED
    BY <2>1, <2>3, <2>4 DEF BalancersFair
<1>2. QED
  BY <1>1, BalancerInvHolds, PTL
=============================================================================
