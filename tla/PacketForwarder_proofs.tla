----------------------- MODULE PacketForwarder_proofs -----------------------
(***************************************************************************)
(* The packet forwarder, for any peers, routes, packets and calls: a       *)
(* packet goes to the route it came in for, and rates are respected.       *)
(***************************************************************************)
EXTENDS PacketForwarder, SequenceTheorems, Sums

-----------------------------------------------------------------------------
(* The packet forwarder *)

Packet == [pkt : Nat, route : Nat, bucket : Nat, queue : FwdBackends \cup {0},
           for : FwdPeers \cup {0}]
PacketFor(p) == {x \in Packet : x.for \in {0, p}}

\* A route queues the packets of its own peer, and no more than fit.
Route == {x \in [peer : FwdPeers, ip : FwdIPs, backend : FwdBackends, queue : Seq(Packet),
                 down : Nat, up : Nat] :
             x.queue \in Seq(PacketFor(x.peer)) /\ Len(x.queue) <= BufSize}

\* From the packet it let pass as the i-th on, a bucket has let pass, and can
\* still let pass at once, no more than its capacity and what it earned since.
Spent(b) ==
    /\ \A i \in 1 .. Len(b.log) :
          /\ b.log[i] <= b.last
          /\ (Len(b.log) - i + 1) + b.tokens <= b.rate * (1 + b.last - b.log[i])
    /\ \A i, j \in 1 .. Len(b.log) : i <= j => j - i + 1 <= b.rate * (1 + b.log[j] - b.log[i])

Bucket(t) == {b \in [rate : Nat, tokens : Nat, last : Nat, log : Seq(Nat)] :
                 b.tokens <= b.rate /\ b.last <= t /\ Spent(b)}

PathWrite == {w \in [f : Packet, to : Devices \cup FwdPeers \cup {"default"}] :
             w.f.for # 0 => w.to \in {w.f.for, "default"}}

RoutesOK == /\ routes \in Seq(Route)
            /\ \A r \in RouteIDs : routes[r].backend \in DOMAIN backendQueues
TablesOK == /\ DOMAIN byPeer \subseteq FwdPeers /\ \A p \in DOMAIN byPeer : byPeer[p] \in RouteIDs
            /\ DOMAIN byIP \subseteq FwdIPs /\ \A i \in DOMAIN byIP : byIP[i] \in RouteIDs
QueuesOK == /\ backendQueues \in [DOMAIN backendQueues -> Seq(PacketFor(0))]
            /\ DOMAIN backendQueues \subseteq FwdBackends
            /\ \A b \in DOMAIN backendQueues : Len(backendQueues[b]) <= BufSize
BucketsOK == now \in Nat /\ buckets \in Seq(Bucket(now))
DevicesOK == /\ clientDevices \subseteq FwdPeers /\ DOMAIN backendDevices \subseteq DOMAIN backendQueues
             /\ \A b \in DOMAIN backendDevices : backendDevices[b] \in Devices
PumpsOK == /\ pumping \in {"off", "on", "stopping"} /\ clientPumps \subseteq RouteIDs
           /\ \A m \in backendPumps : m[1] \in DOMAIN backendQueues /\ m[2] \in Devices
           /\ PumpsMatchRoutes
FlightOK == /\ inflight \in [{"up", "down"} -> Packet] /\ packets \in Nat
            /\ inflight["up"].for = 0
            /\ inflight["up"] # NoPacket => inflight["up"].queue \in DOMAIN backendQueues
            /\ inflight["down"] # NoPacket =>
                  /\ inflight["down"].route \in RouteIDs
                  /\ inflight["down"].for = routes[inflight["down"].route].peer
WritesOK == written \in Seq(PathWrite)

ForwarderInv ==
    /\ RoutesOK /\ TablesOK /\ QueuesOK /\ BucketsOK
    /\ DevicesOK /\ PumpsOK /\ FlightOK /\ WritesOK

-----------------------------------------------------------------------------
\* A second earns a bucket its rate.
LEMMA Products ==
  ASSUME NEW rate \in Nat, NEW last \in Nat, NEW t \in Nat, NEW x \in Int
  PROVE  /\ rate * (1 + last - x) \in Int /\ (t - last) * rate \in Int /\ rate * (1 + t - x) \in Int
         /\ rate * (1 + last - x) + (t - last) * rate = rate * (1 + t - x)
<1>1. rate * (1 + last - x) + (t - last) * rate = rate * (1 + t - x)
  OBVIOUS
<1>2. (1 + last - x) \in Int /\ (t - last) \in Int /\ (1 + t - x) \in Int
  OBVIOUS
<1>3. \A y \in Int : rate * y \in Int /\ y * rate \in Int
  OBVIOUS
<1> QED
  BY <1>1, <1>2, <1>3, Zenon

\* What a bucket may hold after its refill.
LEMMA RefillFits ==
  ASSUME BucketsOK, NEW k \in 1 .. Len(buckets)
  PROVE  /\ buckets[k] \in Bucket(now)
         /\ Refill(k) \in Nat /\ Refill(k) <= buckets[k].rate
         /\ Refill(k) <= buckets[k].tokens + (now - buckets[k].last) * buckets[k].rate
<1> DEFINE b == buckets[k]
           more == b.tokens + (now - b.last) * b.rate
<1>1. b \in Bucket(now)
  BY DEF BucketsOK
<1>2. /\ b.tokens \in Nat /\ b.rate \in Nat /\ b.last \in Nat /\ now \in Nat /\ b.last <= now
  BY <1>1 DEF Bucket, BucketsOK
<1>3. (now - b.last) \in Nat
  BY <1>2
<1>4. (now - b.last) * b.rate \in Nat
  BY <1>2, <1>3
<1>5. more \in Nat
  BY <1>2, <1>4
<1>6. Refill(k) = IF more > b.rate THEN b.rate ELSE more
  BY DEF Refill
<1> HIDE DEF more
<1>7. Refill(k) \in Nat /\ Refill(k) <= b.rate /\ Refill(k) <= more
  BY <1>2, <1>5, <1>6
<1> QED
  BY <1>1, <1>7 DEF more

\* A bucket that is asked at instant t, with n tokens after its refill, keeps its
\* bound: when it lets the packet pass and when it does not.
LEMMA AllowFits ==
  ASSUME NEW t \in Nat, NEW b \in Bucket(t), NEW n \in Nat, n <= b.rate,
         n <= b.tokens + (t - b.last) * b.rate
  PROVE  /\ [b EXCEPT !.last = t, !.tokens = n] \in Bucket(t)
         /\ n >= 1 => [b EXCEPT !.last = t, !.tokens = n - 1, !.log = Append(@, t)] \in Bucket(t)
<1>1. /\ b \in [rate : Nat, tokens : Nat, last : Nat, log : Seq(Nat)]
      /\ b.tokens <= b.rate /\ b.last <= t /\ Spent(b)
      /\ b.rate \in Nat /\ b.tokens \in Nat /\ b.last \in Nat /\ b.log \in Seq(Nat)
      /\ Len(b.log) \in Nat
  BY DEF Bucket
<1>2. \A i \in 1 .. Len(b.log) :
        b.log[i] \in Nat /\ b.log[i] <= t /\ (Len(b.log) - i + 1) + n <= b.rate * (1 + t - b.log[i])
  <2> SUFFICES ASSUME NEW i \in 1 .. Len(b.log)
               PROVE  /\ b.log[i] \in Nat /\ b.log[i] <= t
                      /\ (Len(b.log) - i + 1) + n <= b.rate * (1 + t - b.log[i])
    OBVIOUS
  <2>1. b.log[i] \in Nat /\ b.log[i] <= b.last
        /\ (Len(b.log) - i + 1) + b.tokens <= b.rate * (1 + b.last - b.log[i])
    <3>1. b.log[i] \in Nat
      BY <1>1, ElementOfSeq
    <3>2. \A h \in 1 .. Len(b.log) :
            /\ b.log[h] <= b.last
            /\ (Len(b.log) - h + 1) + b.tokens <= b.rate * (1 + b.last - b.log[h])
      BY <1>1, Zenon DEF Spent
    <3> QED
      BY <3>1, <3>2, Zenon
  <2>2. /\ b.rate * (1 + b.last - b.log[i]) \in Int /\ (t - b.last) * b.rate \in Int
        /\ b.rate * (1 + t - b.log[i]) \in Int
        /\ b.rate * (1 + b.last - b.log[i]) + (t - b.last) * b.rate = b.rate * (1 + t - b.log[i])
    <3> DEFINE rate == b.rate
               last == b.last
               x == b.log[i]
    <3>1. rate \in Nat /\ last \in Nat /\ x \in Int
      BY <1>1, <2>1
    <3> HIDE DEF rate, last, x
    <3>2. /\ rate * (1 + last - x) \in Int /\ (t - last) * rate \in Int /\ rate * (1 + t - x) \in Int
          /\ rate * (1 + last - x) + (t - last) * rate = rate * (1 + t - x)
      BY <3>1, Products
    <3> QED
      BY <3>2 DEF rate, last, x
  <2> DEFINE x == b.rate * (1 + b.last - b.log[i])
             y == (t - b.last) * b.rate
             z == b.rate * (1 + t - b.log[i])
  <2>4. x \in Int /\ y \in Int /\ z \in Int /\ x + y = z
        /\ (Len(b.log) - i + 1) + b.tokens <= x /\ n <= b.tokens + y
    BY <2>1, <2>2, Zenon
  <2> HIDE DEF x, y, z
  <2>5. (Len(b.log) - i + 1) + n <= z
    BY <1>1, <2>4
  <2> QED
    BY <1>1, <2>1, <2>5 DEF z
<1>3. \A i, j \in 1 .. Len(b.log) : i <= j => j - i + 1 <= b.rate * (1 + b.log[j] - b.log[i])
  BY <1>1 DEF Spent
<1>4. [b EXCEPT !.last = t, !.tokens = n] \in Bucket(t)
  <2> DEFINE c == [b EXCEPT !.last = t, !.tokens = n]
  <2>1. /\ c \in [rate : Nat, tokens : Nat, last : Nat, log : Seq(Nat)]
        /\ c.rate = b.rate /\ c.tokens = n /\ c.last = t /\ c.log = b.log
    BY <1>1, Zenon
  <2> HIDE DEF c
  <2>2. Spent(c)
    BY <1>2, <1>3, <2>1 DEF Spent
  <2>3. c \in Bucket(t)
    BY <2>1, <2>2 DEF Bucket
  <2> QED
    BY <2>3 DEF c
<1>5. ASSUME n >= 1
      PROVE  [b EXCEPT !.last = t, !.tokens = n - 1, !.log = Append(@, t)] \in Bucket(t)
  <2> DEFINE c == [b EXCEPT !.last = t, !.tokens = n - 1, !.log = Append(@, t)]
             N == Len(b.log)
  <2>1. /\ c \in [rate : Nat, tokens : Nat, last : Nat, log : Seq(Nat)]
        /\ c.rate = b.rate /\ c.tokens = n - 1 /\ c.last = t /\ c.log = Append(b.log, t)
    <3>1. n - 1 \in Nat /\ Append(b.log, t) \in Seq(Nat)
      BY <1>1, <1>5
    <3> QED
      BY <1>1, <3>1, Zenon
  <2>2. /\ Len(c.log) = N + 1 /\ c.log[N + 1] = t
        /\ \A i \in 1 .. N : c.log[i] = b.log[i]
    BY <1>1, <2>1
  <2>3. N \in Nat
    BY <1>1
  <2>4. b.rate * (1 + t - t) = b.rate
    BY <1>1
  <2> HIDE DEF c, N
  <2>5. ASSUME NEW i \in 1 .. N + 1
        PROVE  /\ c.log[i] <= t
               /\ (N + 1 - i + 1) + (n - 1) <= b.rate * (1 + t - c.log[i])
    <3>1. CASE i = N + 1
      <4>1. c.log[i] = t /\ c.log[i] <= t
        BY <2>2, <3>1
      <4>2. (N + 1 - i + 1) + (n - 1) = n
        BY <2>3, <3>1
      <4>3. b.rate * (1 + t - c.log[i]) = b.rate
        BY <2>4, <4>1, Zenon
      <4> QED
        BY <4>1, <4>2, <4>3, Zenon
    <3>2. CASE i \in 1 .. N
      <4>1. c.log[i] = b.log[i] /\ b.log[i] <= t /\ (N - i + 1) + n <= b.rate * (1 + t - c.log[i])
        BY <1>2, <2>2, <3>2, Zenon DEF N
      <4>2. (N + 1 - i + 1) + (n - 1) = (N - i + 1) + n
        BY <2>3
      <4> QED
        BY <4>1, <4>2, Zenon
    <3>3. i = N + 1 \/ i \in 1 .. N
      BY <2>3
    <3> QED
      BY <3>1, <3>2, <3>3, Zenon
  <2>6. ASSUME NEW i \in 1 .. N + 1, NEW j \in 1 .. N + 1, i <= j
        PROVE  j - i + 1 <= b.rate * (1 + c.log[j] - c.log[i])
    <3>1. CASE j = N + 1
      <4>0. c.log[i] \in Nat
        BY <2>1, <2>2, ElementOfSeq, Zenon
      <4>1. c.log[j] = t /\ c.log[i] \in Nat
        BY <2>2, <3>1, <4>0
      <4>2. (N + 1 - i + 1) + (n - 1) <= b.rate * (1 + t - c.log[i])
        BY <2>5
      <4>3. b.rate * (1 + t - c.log[i]) \in Int
        <5>1. b.rate \in Nat /\ c.log[i] \in Int
          BY <1>1, <4>1
        <5> QED
          BY <5>1, Products
      <4>4. j - i + 1 <= b.rate * (1 + t - c.log[i])
        BY <1>5, <2>3, <3>1, <4>2, <4>3
      <4> QED
        BY <4>1, <4>4
    <3>2. CASE j \in 1 .. N
      <4>1. i \in 1 .. N
        BY <2>3, <2>6, <3>2
      <4>2. c.log[i] = b.log[i] /\ c.log[j] = b.log[j]
        BY <2>2, <3>2, <4>1
      <4>3. j - i + 1 <= b.rate * (1 + b.log[j] - b.log[i])
        BY <1>3, <2>6, <3>2, <4>1, Zenon DEF N
      <4> QED
        BY <4>2, <4>3, Zenon
    <3>3. j = N + 1 \/ j \in 1 .. N
      BY <2>3
    <3> QED
      BY <3>1, <3>2, <3>3, Zenon
  <2>7. Spent(c)
    <3>1. \A i \in 1 .. Len(c.log) :
            /\ c.log[i] <= c.last
            /\ (Len(c.log) - i + 1) + c.tokens <= c.rate * (1 + c.last - c.log[i])
      <4> SUFFICES ASSUME NEW i \in 1 .. N + 1
                   PROVE  /\ c.log[i] <= c.last
                          /\ (Len(c.log) - i + 1) + c.tokens <= c.rate * (1 + c.last - c.log[i])
        BY <2>2
      <4>1. /\ c.log[i] <= t
            /\ (N + 1 - i + 1) + (n - 1) <= b.rate * (1 + t - c.log[i])
        BY <2>5
      <4>2. Len(c.log) = N + 1 /\ c.tokens = n - 1 /\ c.rate = b.rate /\ c.last = t
        BY <2>1, <2>2
      <4>3. (Len(c.log) - i + 1) + c.tokens = (N + 1 - i + 1) + (n - 1)
        BY <2>3, <4>2
      <4>4. c.rate * (1 + c.last - c.log[i]) = b.rate * (1 + t - c.log[i])
        BY <4>2, Zenon
      <4> QED
        BY <4>1, <4>2, <4>3, <4>4, Zenon
    <3>2. \A i, j \in 1 .. Len(c.log) : i <= j => j - i + 1 <= c.rate * (1 + c.log[j] - c.log[i])
      BY <2>1, <2>2, <2>6, Zenon
    <3> QED
      BY <3>1, <3>2, Zenon DEF Spent
  <2>8. c.tokens <= c.rate /\ c.last <= t
    BY <1>1, <1>5, <2>1
  <2>9. c \in Bucket(t)
    BY <2>1, <2>7, <2>8 DEF Bucket
  <2> QED
    BY <2>9 DEF c
<1> QED
  BY <1>4, <1>5

\* A packet asks one bucket and leaves the others alone.
LEMMA AfterAllowFits ==
  ASSUME BucketsOK, NEW k
  PROVE  AfterAllow(k) \in Seq(Bucket(now))
<1>1. DOMAIN buckets = 1 .. Len(buckets) /\ Len(buckets) \in Nat /\ now \in Nat
  BY LenProperties DEF BucketsOK
<1> DEFINE new(j) == IF j # k THEN buckets[j]
                     ELSE [buckets[j] EXCEPT !.last = now,
                             !.tokens = IF Allow(k) THEN Refill(k) - 1 ELSE Refill(k),
                             !.log = IF Allow(k) THEN Append(@, now) ELSE @]
<1>2. ASSUME NEW j \in 1 .. Len(buckets) PROVE new(j) \in Bucket(now)
  <2>1. CASE j # k
    BY <2>1 DEF BucketsOK
  <2>2. CASE j = k
    <3>1. /\ buckets[k] \in Bucket(now) /\ Refill(k) \in Nat /\ Refill(k) <= buckets[k].rate
          /\ Refill(k) <= buckets[k].tokens + (now - buckets[k].last) * buckets[k].rate
      BY <2>2, RefillFits
    <3>2. Allow(k) <=> Refill(k) >= 1
      BY <1>2, <2>2 DEF Allow
    <3>3. CASE Allow(k)
      <4>1. new(j) = [buckets[k] EXCEPT !.last = now, !.tokens = Refill(k) - 1, !.log = Append(@, now)]
        BY <2>2, <3>3
      <4> HIDE DEF new
      <4>2. [buckets[k] EXCEPT !.last = now, !.tokens = Refill(k) - 1, !.log = Append(@, now)] \in Bucket(now)
        BY <1>1, <3>1, <3>2, <3>3, AllowFits, Zenon
      <4> QED
        BY <4>1, <4>2
    <3>4. CASE ~Allow(k)
      <4>1. new(j) = [buckets[k] EXCEPT !.last = now, !.tokens = Refill(k)]
        BY <2>2, <3>1, <3>4, Zenon DEF Bucket
      <4> HIDE DEF new
      <4>2. [buckets[k] EXCEPT !.last = now, !.tokens = Refill(k)] \in Bucket(now)
        BY <1>1, <3>1, AllowFits, Zenon
      <4> QED
        BY <4>1, <4>2
    <3> QED
      BY <3>3, <3>4
  <2> QED
    BY <2>1, <2>2
<1>3. AfterAllow(k) = [j \in 1 .. Len(buckets) |-> new(j)]
  BY <1>1 DEF AfterAllow
<1> HIDE DEF new
<1> QED
  BY <1>1, <1>2, <1>3

\* A new bucket is full and has let nothing pass.
LEMMA NewBucketFits ==
  ASSUME BucketsOK, NEW rate \in Nat
  PROVE  NewTokenBucket(rate) \in Seq(Bucket(now)) /\ Len(NewTokenBucket(rate)) \in Nat
<1> DEFINE b == [rate |-> rate, tokens |-> rate, last |-> now, log |-> <<>>]
<1>1. /\ b \in [rate : Nat, tokens : Nat, last : Nat, log : Seq(Nat)]
      /\ b.tokens <= b.rate /\ b.last <= now /\ Len(b.log) = 0
  BY DEF BucketsOK
<1>2. NewTokenBucket(rate) = IF rate = 0 THEN <<>> ELSE <<b>>
  BY DEF NewTokenBucket
<1> HIDE DEF b
<1>3. Spent(b)
  BY <1>1 DEF Spent
<1>4. b \in Bucket(now)
  BY <1>1, <1>3 DEF Bucket
<1> QED
  BY <1>2, <1>4

\* Time passes: what was bounded stays bounded.
LEMMA BucketsGrow ==
  ASSUME BucketsOK, now' = now + 1, buckets' = buckets
  PROVE  BucketsOK'
<1>1. Bucket(now) \subseteq Bucket(now + 1)
  BY DEF Bucket, BucketsOK
<1> QED
  BY <1>1, SeqMonotonic DEF BucketsOK

\* A route is replaced by one of the same peer.
LEMMA RouteReplaced ==
  ASSUME ForwarderInv, NEW r \in RouteIDs, NEW x \in Route, x.peer = routes[r].peer,
         routes' = [routes EXCEPT ![r] = x]
  PROVE  /\ routes' \in Seq(Route) /\ Len(routes') = Len(routes)
         /\ \A j \in RouteIDs : /\ routes'[j].peer = routes[j].peer
                               /\ routes'[j].backend = IF j = r THEN x.backend ELSE routes[j].backend
<1>1. routes \in Seq(Route) /\ r \in 1 .. Len(routes)
  BY DEF ForwarderInv, RoutesOK, RouteIDs
<1>2. /\ routes' \in Seq(Route) /\ Len(routes') = Len(routes)
      /\ \A j \in 1 .. Len(routes) : routes'[j] = IF j = r THEN x ELSE routes[j]
  BY <1>1, ExceptSeq
<1> QED
  BY <1>2 DEF RouteIDs

\* What a step that makes no route and drops no queue leaves in order.
LEMMA RoutesKept ==
  ASSUME ForwarderInv, routes' \in Seq(Route), Len(routes') = Len(routes),
         \A j \in RouteIDs : routes'[j].peer = routes[j].peer
                              /\ routes'[j].backend \in DOMAIN backendQueues',
         DOMAIN backendQueues \subseteq DOMAIN backendQueues'
  PROVE  /\ RoutesOK'
         /\ UNCHANGED <<byPeer, byIP>> => TablesOK'
         /\ UNCHANGED <<backendDevices, clientDevices>> => DevicesOK'
         /\ UNCHANGED <<byPeer, pumping, clientPumps, backendPumps>> => PumpsOK'
         /\ UNCHANGED <<inflight, packets>> => FlightOK'
<1>1. /\ RoutesOK /\ TablesOK /\ DevicesOK /\ PumpsOK /\ FlightOK
      /\ RouteIDs' = RouteIDs
  BY DEF ForwarderInv, RouteIDs
<1>2. RoutesOK'
  BY <1>1 DEF RoutesOK
<1>3. UNCHANGED <<byPeer, byIP>> => TablesOK'
  BY <1>1 DEF TablesOK
<1>4. UNCHANGED <<backendDevices, clientDevices>> => DevicesOK'
  BY <1>1 DEF DevicesOK
<1>5. UNCHANGED <<byPeer, pumping, clientPumps, backendPumps>> => PumpsOK'
  BY <1>1 DEF PumpsOK, PumpsMatchRoutes
<1>6. UNCHANGED <<inflight, packets>> => FlightOK'
  BY <1>1 DEF FlightOK
<1> QED
  BY <1>2, <1>3, <1>4, <1>5, <1>6

\* A backend gets its queue.
LEMMA QueueAdded ==
  ASSUME ForwarderInv, NEW b \in FwdBackends, backendQueues' = WithQueue(b)
  PROVE  QueuesOK' /\ DOMAIN backendQueues' = DOMAIN backendQueues \cup {b}
<1>1. QueuesOK
  BY DEF ForwarderInv
<1>2. CASE b \in DOMAIN backendQueues
  <2>1. backendQueues' = backendQueues
    BY <1>2 DEF WithQueue
  <2> QED
    BY <1>1, <1>2, <2>1, Zenon DEF QueuesOK
<1>3. CASE b \notin DOMAIN backendQueues
  <2>1. /\ DOMAIN backendQueues' = DOMAIN backendQueues \cup {b}
        /\ backendQueues' = [c \in DOMAIN backendQueues \cup {b} |->
                               IF c = b THEN <<>> ELSE backendQueues[c]]
    BY <1>3 DEF WithQueue, Put
  <2>2. <<>> \in Seq(PacketFor(0)) /\ Len(<<>>) <= BufSize
    BY ForwarderAssumption
  <2> QED
    BY <1>1, <2>1, <2>2 DEF QueuesOK
<1> QED
  BY <1>2, <1>3

\* A session is registered: a route, its buckets and, while the pumps run, its pump.
LEMMA RegisterKeepsInv ==
  ASSUME ForwarderInv, NEW p \in FwdPeers, NEW ip \in FwdIPs, NEW b \in FwdBackends,
         NEW down \in Nat, NEW up \in Nat, RegisterSessionWithLimit(p, ip, b, down, up)
  PROVE  ForwarderInv'
<1> DEFINE r == Len(routes) + 1
           made == NewTokenBucket(down) \o NewTokenBucket(up)
           x == [peer |-> p, ip |-> ip, backend |-> b, queue |-> <<>>,
                 down |-> IF down = 0 THEN 0 ELSE Len(buckets) + 1,
                 up |-> IF up = 0 THEN 0 ELSE Len(buckets) + Len(made)]
<1>1. /\ RoutesOK /\ TablesOK /\ BucketsOK /\ DevicesOK /\ PumpsOK /\ FlightOK /\ WritesOK
      /\ routes \in Seq(Route) /\ Len(routes) \in Nat
  BY DEF ForwarderInv, RoutesOK
<1>2. /\ backendQueues' = WithQueue(b) /\ buckets' = buckets \o made /\ routes' = Append(routes, x)
      /\ byPeer' = Put(byPeer, p, r) /\ byIP' = Put(byIP, ip, r)
      /\ clientPumps' = IF pumping = "on" THEN clientPumps \cup {r} ELSE clientPumps
      /\ UNCHANGED <<backendDevices, clientDevices, pumping, backendPumps, inflight, written, packets,
                     now>>
  BY Zenon DEF RegisterSessionWithLimit, deviceVars, pathVars
<1>3. made \in Seq(Bucket(now)) /\ Len(made) \in Nat
  <2>1. NewTokenBucket(down) \in Seq(Bucket(now)) /\ NewTokenBucket(up) \in Seq(Bucket(now))
    BY <1>1, NewBucketFits
  <2> QED
    BY <2>1, ConcatProperties, LenProperties
<1>4. BucketsOK'
  BY <1>1, <1>2, <1>3, ConcatProperties, Zenon DEF BucketsOK
<1>5. x \in Route /\ x.peer = p /\ x.backend = b
  <2>1. <<>> \in Seq(Packet) /\ <<>> \in Seq(PacketFor(p)) /\ Len(<<>>) <= BufSize
    BY ForwarderAssumption
  <2>2. Len(buckets) \in Nat
    BY <1>1 DEF BucketsOK
  <2> DEFINE d == IF down = 0 THEN 0 ELSE Len(buckets) + 1
             u == IF up = 0 THEN 0 ELSE Len(buckets) + Len(made)
  <2> HIDE DEF made
  <2>3. d \in Nat /\ u \in Nat
    BY <1>3, <2>2
  <2>4. x = [peer |-> p, ip |-> ip, backend |-> b, queue |-> <<>>, down |-> d, up |-> u]
    OBVIOUS
  <2> HIDE DEF d, u, x
  <2> QED
    BY <2>1, <2>3, <2>4, Zenon DEF Route
<1> HIDE DEF x, made
<1>6. /\ routes' \in Seq(Route) /\ Len(routes') = r /\ routes'[r] = x
      /\ \A j \in RouteIDs : routes'[j] = routes[j]
  BY <1>1, <1>2, <1>5 DEF RouteIDs
<1>7. RouteIDs' = RouteIDs \cup {r} /\ r \notin RouteIDs
  BY <1>1, <1>6 DEF RouteIDs
<1>8. QueuesOK' /\ DOMAIN backendQueues' = DOMAIN backendQueues \cup {b}
  BY <1>2, QueueAdded, Zenon
<1>9. RoutesOK'
  BY <1>1, <1>5, <1>6, <1>7, <1>8, Zenon DEF RoutesOK
<1>10. /\ DOMAIN byPeer' = DOMAIN byPeer \cup {p} /\ DOMAIN byIP' = DOMAIN byIP \cup {ip}
       /\ \A q \in DOMAIN byPeer' : byPeer'[q] = IF q = p THEN r ELSE byPeer[q]
       /\ \A q \in DOMAIN byIP' : byIP'[q] = IF q = ip THEN r ELSE byIP[q]
  BY <1>2 DEF Put
<1> HIDE DEF r
<1>11. TablesOK'
  BY <1>1, <1>7, <1>10, Zenon DEF TablesOK
<1>12. DevicesOK'
  BY <1>1, <1>2, <1>8, Zenon DEF DevicesOK
<1>13. PumpsOK'
  BY <1>1, <1>2, <1>7, <1>8, <1>10, Zenon DEF PumpsOK, PumpsMatchRoutes
<1>14. FlightOK'
  BY <1>1, <1>2, <1>6, <1>7, <1>8, Zenon DEF FlightOK
<1>15. WritesOK'
  BY <1>1, <1>2 DEF WritesOK
<1> QED
  BY <1>4, <1>8, <1>9, <1>11, <1>12, <1>13, <1>14, <1>15 DEF ForwarderInv

\* A limit is set, and a session moves to another backend.
LEMMA LimitKeepsInv ==
  ASSUME ForwarderInv, NEW p, NEW down \in Nat, SetPeerRateLimit(p, down)
  PROVE  ForwarderInv'
<1> DEFINE r == byPeer[p]
           x == [routes[r] EXCEPT !.down = IF down = 0 THEN 0 ELSE Len(buckets) + 1, !.up = 0]
<1>1. /\ RoutesOK /\ TablesOK /\ QueuesOK /\ BucketsOK /\ WritesOK
      /\ p \in DOMAIN byPeer /\ buckets' = buckets \o NewTokenBucket(down)
      /\ UNCHANGED <<byPeer, byIP, backendQueues, backendDevices, clientDevices, pumping, clientPumps,
                     backendPumps, inflight, written, packets, now>>
  BY DEF ForwarderInv, SetPeerRateLimit, deviceVars, pumpVars, pathVars
<1>2. r \in RouteIDs /\ routes \in Seq(Route) /\ routes[r] \in Route
      /\ routes[r].backend \in DOMAIN backendQueues /\ Len(buckets) \in Nat
  BY <1>1 DEF TablesOK, RoutesOK, RouteIDs, BucketsOK
<1>3. x \in Route /\ x.peer = routes[r].peer /\ x.backend = routes[r].backend
  <2> DEFINE d == IF down = 0 THEN 0 ELSE Len(buckets) + 1
             y == routes[r]
  <2>1. d \in Nat /\ y \in Route /\ x = [y EXCEPT !.down = d, !.up = 0]
    BY <1>2
  <2> HIDE DEF d, y, x
  <2>2. x \in Route /\ x.peer = y.peer /\ x.backend = y.backend
    BY <2>1, Zenon DEF Route
  <2> QED
    BY <2>2, Zenon DEF y
<1>4. routes' = [routes EXCEPT ![r] = x]
  BY <1>2, Zenon DEF SetPeerRateLimit
<1> HIDE DEF x, r
<1>5. /\ routes' \in Seq(Route) /\ Len(routes') = Len(routes)
      /\ \A j \in RouteIDs : /\ routes'[j].peer = routes[j].peer
                            /\ routes'[j].backend = routes[j].backend
  <2>1. /\ routes' \in Seq(Route) /\ Len(routes') = Len(routes)
        /\ \A j \in RouteIDs :
             /\ routes'[j].peer = routes[j].peer
             /\ routes'[j].backend = IF j = r THEN x.backend ELSE routes[j].backend
    BY <1>2, <1>3, <1>4, RouteReplaced, Zenon
  <2> QED
    BY <1>3, <2>1, Zenon
<1>6. \A j \in RouteIDs : routes'[j].backend \in DOMAIN backendQueues'
  BY <1>1, <1>5, Zenon DEF RoutesOK
<1>7. RoutesOK' /\ TablesOK' /\ DevicesOK' /\ PumpsOK' /\ FlightOK'
  BY <1>1, <1>5, <1>6, RoutesKept, Zenon
<1>8. BucketsOK'
  BY <1>1, NewBucketFits, ConcatProperties DEF BucketsOK
<1>9. QueuesOK' /\ WritesOK'
  BY <1>1 DEF QueuesOK, WritesOK
<1> QED
  BY <1>7, <1>8, <1>9 DEF ForwarderInv

\* A session moves to another backend.
LEMMA MoveKeepsInv ==
  ASSUME ForwarderInv, NEW p, NEW b \in FwdBackends, UpdateSessionBackend(p, b)
  PROVE  ForwarderInv'
<1> DEFINE r == byPeer[p]
           x == [routes[r] EXCEPT !.backend = b]
<1>1. /\ RoutesOK /\ TablesOK /\ BucketsOK /\ WritesOK
      /\ p \in DOMAIN byPeer /\ backendQueues' = WithQueue(b)
      /\ UNCHANGED <<byPeer, byIP, buckets, backendDevices, clientDevices, pumping, clientPumps,
                     backendPumps, inflight, written, packets, now>>
  BY DEF ForwarderInv, UpdateSessionBackend, deviceVars, pumpVars, pathVars
<1>2. r \in RouteIDs /\ routes \in Seq(Route) /\ routes[r] \in Route
  BY <1>1 DEF TablesOK, RoutesOK, RouteIDs
<1>3. x \in Route /\ x.peer = routes[r].peer /\ x.backend = b
  BY <1>2, Zenon DEF Route
<1>4. routes' = [routes EXCEPT ![r] = x]
  BY <1>2 DEF UpdateSessionBackend
<1> HIDE DEF x, r
<1>5. /\ routes' \in Seq(Route) /\ Len(routes') = Len(routes)
      /\ \A j \in RouteIDs : /\ routes'[j].peer = routes[j].peer
                            /\ routes'[j].backend \in {b, routes[j].backend}
  <2>1. /\ routes' \in Seq(Route) /\ Len(routes') = Len(routes)
        /\ \A j \in RouteIDs :
             /\ routes'[j].peer = routes[j].peer
             /\ routes'[j].backend = IF j = r THEN x.backend ELSE routes[j].backend
    BY <1>2, <1>3, <1>4, RouteReplaced, Zenon
  <2> QED
    BY <1>3, <2>1, Zenon
<1>6. QueuesOK' /\ DOMAIN backendQueues' = DOMAIN backendQueues \cup {b}
  BY <1>1, QueueAdded, Zenon
<1>7. \A j \in RouteIDs : routes'[j].backend \in DOMAIN backendQueues'
  BY <1>1, <1>5, <1>6, Zenon DEF RoutesOK
<1>8. RoutesOK' /\ TablesOK' /\ DevicesOK' /\ PumpsOK' /\ FlightOK'
  BY <1>1, <1>5, <1>6, <1>7, RoutesKept, Zenon
<1>9. BucketsOK' /\ WritesOK'
  BY <1>1 DEF BucketsOK, WritesOK
<1> QED
  BY <1>6, <1>8, <1>9 DEF ForwarderInv

\* A session is forgotten; its route stays with whoever found it before.
LEMMA UnregisterKeepsInv ==
  ASSUME ForwarderInv, NEW p, UnregisterSession(p)
  PROVE  ForwarderInv'
<1>1. /\ DOMAIN byPeer' \subseteq DOMAIN byPeer /\ \A q \in DOMAIN byPeer' : byPeer'[q] = byPeer[q]
      /\ DOMAIN byIP' \subseteq DOMAIN byIP /\ \A i \in DOMAIN byIP' : byIP'[i] = byIP[i]
      /\ clientDevices' \subseteq clientDevices
      /\ UNCHANGED <<routes, buckets, backendQueues, backendDevices, pumping, clientPumps,
                     backendPumps, inflight, written, packets, now>>
  BY Zenon DEF UnregisterSession, Drop, pumpVars, pathVars
<1> QED
  BY <1>1, Zenon DEF ForwarderInv, RoutesOK, TablesOK, QueuesOK, BucketsOK, DevicesOK, PumpsOK,
     PumpsMatchRoutes, FlightOK, WritesOK, RouteIDs

\* A packet finds its route; what it found stays with it.
LEMMA LookUpKeepsInv ==
  ASSUME ForwarderInv, NEW d \in {"up", "down"}, NEW found \in Packet, LookUp(d, found),
         d = "up" => found.for = 0 /\ found.queue \in DOMAIN backendQueues,
         d = "down" => found.route \in RouteIDs /\ found.for = routes[found.route].peer
  PROVE  ForwarderInv'
<1> DEFINE f == [found EXCEPT !.pkt = packets + 1]
<1>1. /\ inflight' = [inflight EXCEPT ![d] = f] /\ packets' = packets + 1
      /\ UNCHANGED <<routes, byPeer, byIP, buckets, backendQueues, backendDevices, clientDevices,
                     pumping, clientPumps, backendPumps, written, now>>
  BY DEF LookUp, routeVars, deviceVars, pumpVars
<1>2. FlightOK /\ packets \in Nat
  BY Zenon DEF ForwarderInv, FlightOK
<1>3. f \in Packet /\ f.for = found.for /\ f.queue = found.queue /\ f.route = found.route
  BY <1>2 DEF Packet
<1> HIDE DEF f
<1>4. FlightOK'
  BY <1>1, <1>2, <1>3 DEF FlightOK, RouteIDs
<1> QED
  BY <1>1, <1>4 DEF ForwarderInv, RoutesOK, TablesOK, QueuesOK, BucketsOK, DevicesOK, PumpsOK,
     PumpsMatchRoutes, WritesOK, RouteIDs

\* Both directions look their route up in the tables.
LEMMA RouteKeepsInv ==
  ASSUME ForwarderInv,
         (\E p \in FwdPeers : RouteClientToBackend(p)) \/ (\E ip \in FwdIPs : RouteBackendToClient(ip))
  PROVE  ForwarderInv'
<1>1. NoPacket \in Packet /\ NoPacket.for = 0
  BY DEF NoPacket, Packet
<1>2. \A r \in RouteIDs : /\ routes[r].up \in Nat /\ routes[r].down \in Nat /\ r \in Nat
                          /\ routes[r].peer \in FwdPeers /\ routes[r].backend \in FwdBackends
                          /\ routes[r].backend \in DOMAIN backendQueues
  BY DEF ForwarderInv, RoutesOK, RouteIDs, Route
<1>3. ASSUME NEW p \in FwdPeers, RouteClientToBackend(p) PROVE ForwarderInv'
  <2> DEFINE r == byPeer[p]
             f == [NoPacket EXCEPT !.route = r, !.bucket = routes[r].up, !.queue = routes[r].backend]
  <2>1. r \in RouteIDs
    BY <1>3, Zenon DEF RouteClientToBackend, ForwarderInv, TablesOK
  <2>2. f \in Packet /\ f.for = 0 /\ f.queue \in DOMAIN backendQueues
    BY <1>2, <2>1, Zenon DEF NoPacket, Packet
  <2>3. LookUp("up", f)
    BY <1>3, Zenon DEF RouteClientToBackend
  <2> HIDE DEF f
  <2> QED
    BY <2>2, <2>3, LookUpKeepsInv
<1>4. ASSUME NEW ip \in FwdIPs, RouteBackendToClient(ip) PROVE ForwarderInv'
  <2> DEFINE r == byIP[ip]
             f == [NoPacket EXCEPT !.route = r, !.bucket = routes[r].down, !.for = routes[r].peer]
  <2>1. r \in RouteIDs
    BY <1>4, Zenon DEF RouteBackendToClient, ForwarderInv, TablesOK
  <2>2. f \in Packet /\ f.route = r /\ f.for = routes[r].peer
    BY <1>2, <2>1, Zenon DEF NoPacket, Packet
  <2>3. LookUp("down", f)
    BY <1>4, Zenon DEF RouteBackendToClient
  <2> HIDE DEF f
  <2> QED
    BY <2>1, <2>2, <2>3, LookUpKeepsInv
<1> QED
  BY <1>3, <1>4

\* A packet joins the queue it found, if its bucket and the queue let it.
LEMMA EnqueueKeepsInv ==
  ASSUME ForwarderInv, NEW d \in {"up", "down"}, Enqueue(d)
  PROVE  ForwarderInv'
<1> DEFINE f == inflight[d]
<1>1. /\ RoutesOK /\ TablesOK /\ QueuesOK /\ BucketsOK /\ DevicesOK /\ PumpsOK /\ FlightOK
      /\ WritesOK /\ f # NoPacket /\ inflight' = [inflight EXCEPT ![d] = NoPacket]
      /\ buckets' = AfterAllow(f.bucket)
      /\ UNCHANGED <<byPeer, byIP, backendDevices, clientDevices, pumping, clientPumps, backendPumps,
                     written, packets, now>>
  BY DEF ForwarderInv, Enqueue, deviceVars, pumpVars
<1>2. BucketsOK'
  BY <1>1, AfterAllowFits DEF BucketsOK
<1>3. NoPacket \in Packet /\ NoPacket.for = 0
  BY DEF NoPacket, Packet
<1>4. WritesOK'
  BY <1>1 DEF WritesOK
<1>5. CASE d = "up"
  <2>1. /\ routes' = routes /\ f \in PacketFor(0) /\ f.queue \in DOMAIN backendQueues
        /\ \/ backendQueues' = backendQueues
           \/ /\ Fits(backendQueues[f.queue])
              /\ backendQueues' = [backendQueues EXCEPT ![f.queue] = Append(@, f)]
    BY <1>1, <1>5 DEF Enqueue, FlightOK, PacketFor
  <2>2. QueuesOK' /\ DOMAIN backendQueues' = DOMAIN backendQueues
    <3>1. CASE backendQueues' = backendQueues
      BY <1>1, <3>1 DEF QueuesOK
    <3>2. CASE /\ Fits(backendQueues[f.queue])
               /\ backendQueues' = [backendQueues EXCEPT ![f.queue] = Append(@, f)]
      <4> DEFINE q == backendQueues[f.queue]
                 k == f.queue
      <4>1. q \in Seq(PacketFor(0)) /\ Len(q) < BufSize /\ BufSize \in Nat
        BY <1>1, <2>1, <3>2, ForwarderAssumption DEF QueuesOK, Fits
      <4>2. Append(q, f) \in Seq(PacketFor(0)) /\ Len(Append(q, f)) <= BufSize
        BY <2>1, <4>1
      <4>3. backendQueues' = [backendQueues EXCEPT ![k] = Append(q, f)] /\ k \in DOMAIN backendQueues
        BY <2>1, <3>2
      <4> HIDE DEF q, k, f
      <4> QED
        BY <1>1, <4>2, <4>3 DEF QueuesOK
    <3> QED
      BY <2>1, <3>1, <3>2
  <2>3. RoutesOK' /\ TablesOK' /\ DevicesOK' /\ PumpsOK'
    BY <1>1, <2>1, <2>2, Zenon DEF RoutesOK, TablesOK, DevicesOK, PumpsOK, PumpsMatchRoutes, RouteIDs
  <2>4. FlightOK'
    BY <1>1, <1>3, <1>5, <2>1, <2>2, Zenon DEF FlightOK, RouteIDs
  <2> QED
    BY <1>2, <1>4, <2>2, <2>3, <2>4 DEF ForwarderInv
<1>6. CASE d = "down"
  <2> DEFINE r == f.route
             q == routes[r].queue
             x == [routes[r] EXCEPT !.queue = Append(q, f)]
  <2>1. /\ backendQueues' = backendQueues /\ r \in RouteIDs /\ f \in Packet
        /\ f.for = routes[r].peer /\ routes[r] \in Route
        /\ routes' = routes \/ (Fits(q) /\ routes' = [routes EXCEPT ![r] = x])
    BY <1>1, <1>6 DEF Enqueue, FlightOK, RoutesOK, RouteIDs
  <2>2. /\ routes' \in Seq(Route) /\ Len(routes') = Len(routes)
        /\ \A j \in RouteIDs : /\ routes'[j].peer = routes[j].peer
                              /\ routes'[j].backend = routes[j].backend
    <3>1. CASE routes' = routes
      BY <1>1, <3>1, Zenon DEF RoutesOK
    <3>2. CASE Fits(q) /\ routes' = [routes EXCEPT ![r] = x]
      <4> DEFINE y == routes[r]
      <4>1. y \in Route /\ f \in PacketFor(y.peer) /\ f \in Packet /\ Len(y.queue) < BufSize
            /\ x = [y EXCEPT !.queue = Append(y.queue, f)] /\ BufSize \in Nat
        BY <2>1, <3>2, ForwarderAssumption DEF PacketFor, Fits
      <4> HIDE DEF x, y, r, f, q
      <4>2. y.queue \in Seq(Packet) /\ y.queue \in Seq(PacketFor(y.peer))
        BY <4>1 DEF Route
      <4>3. /\ Append(y.queue, f) \in Seq(Packet) /\ Append(y.queue, f) \in Seq(PacketFor(y.peer))
            /\ Len(Append(y.queue, f)) <= BufSize
        BY <4>1, <4>2
      <4>4. x \in Route /\ x.peer = y.peer /\ x.backend = y.backend
        BY <4>1, <4>3, Zenon DEF Route
      <4>5. x \in Route /\ x.peer = routes[r].peer /\ x.backend = routes[r].backend
        BY <4>4 DEF y
      <4>6. /\ routes' \in Seq(Route) /\ Len(routes') = Len(routes)
            /\ \A j \in RouteIDs :
                 /\ routes'[j].peer = routes[j].peer
                 /\ routes'[j].backend = IF j = r THEN x.backend ELSE routes[j].backend
        BY <2>1, <3>2, <4>5, RouteReplaced, Zenon
      <4> QED
        BY <4>5, <4>6, Zenon
    <3> QED
      BY <2>1, <3>1, <3>2
  <2>3. \A j \in RouteIDs : routes'[j].backend \in DOMAIN backendQueues'
    BY <1>1, <2>1, <2>2 DEF RoutesOK
  <2>4. RoutesOK' /\ TablesOK' /\ DevicesOK' /\ PumpsOK'
    BY <1>1, <2>1, <2>2, <2>3, RoutesKept
  <2>5. FlightOK'
    BY <1>1, <1>3, <1>6, <2>1 DEF FlightOK
  <2>6. QueuesOK'
    BY <1>1, <2>1 DEF QueuesOK
  <2> QED
    BY <1>2, <1>4, <2>4, <2>5, <2>6 DEF ForwarderInv
<1> QED
  BY <1>5, <1>6

\* The pump of a route writes to the device of the route's peer, or to the shared one.
LEMMA ClientPumpKeepsInv ==
  ASSUME ForwarderInv, NEW r \in clientPumps, pumpClientQueue(r)
  PROVE  ForwarderInv'
<1> DEFINE y == routes[r]
           x == [y EXCEPT !.queue = Tail(y.queue)]
           w == [f |-> Head(y.queue), to |-> DeviceOf(r)]
<1>1. /\ RoutesOK /\ QueuesOK /\ BucketsOK /\ DevicesOK /\ PumpsOK /\ WritesOK
      /\ UNCHANGED <<byPeer, byIP, buckets, backendQueues, backendDevices, clientDevices, pumping,
                     clientPumps, backendPumps, inflight, packets, now>>
  BY DEF ForwarderInv, pumpClientQueue, deviceVars, pumpVars
<1>2. r \in RouteIDs /\ y \in Route /\ y.queue # <<>>
  BY <1>1 DEF PumpsOK, RoutesOK, RouteIDs, pumpClientQueue
<1>3. routes' = [routes EXCEPT ![r] = x] /\ written' = Append(written, w)
  BY <1>1, <1>2 DEF pumpClientQueue
<1>4. DeviceOf(r) \in {y.peer, "default"}
  BY DEF DeviceOf
<1>5. /\ y.queue \in Seq(Packet) /\ y.queue \in Seq(PacketFor(y.peer)) /\ Len(y.queue) <= BufSize
      /\ y.peer \in FwdPeers /\ BufSize \in Nat
  BY <1>2, ForwarderAssumption, Zenon DEF Route
<1>6. /\ Tail(y.queue) \in Seq(Packet) /\ Tail(y.queue) \in Seq(PacketFor(y.peer))
      /\ Len(Tail(y.queue)) <= BufSize /\ Head(y.queue) \in PacketFor(y.peer)
  <2>1. Tail(y.queue) \in Seq(Packet)
    BY <1>2, <1>5, HeadTailProperties
  <2>2. /\ Tail(y.queue) \in Seq(PacketFor(y.peer)) /\ Head(y.queue) \in PacketFor(y.peer)
        /\ Len(Tail(y.queue)) = Len(y.queue) - 1 /\ Len(y.queue) \in Nat
    BY <1>2, <1>5, HeadTailProperties, LenProperties, Zenon
  <2> QED
    BY <1>5, <2>1, <2>2
<1>7. x \in Route /\ x.peer = routes[r].peer /\ x.backend = routes[r].backend
  <2> HIDE DEF y
  <2>1. x \in Route /\ x.peer = y.peer /\ x.backend = y.backend
    BY <1>2, <1>6 DEF Route
  <2> QED
    BY <2>1 DEF y
<1>8. w \in PathWrite
  BY <1>4, <1>5, <1>6, Zenon DEF PathWrite, PacketFor
<1> HIDE DEF x, y, w
<1>9. WritesOK'
  BY <1>1, <1>3, <1>8 DEF WritesOK
<1>10. /\ routes' \in Seq(Route) /\ Len(routes') = Len(routes)
       /\ \A j \in RouteIDs :
            /\ routes'[j].peer = routes[j].peer
            /\ routes'[j].backend = IF j = r THEN x.backend ELSE routes[j].backend
  BY <1>2, <1>3, <1>7, RouteReplaced, Zenon
<1>11. \A j \in RouteIDs : routes'[j].backend \in DOMAIN backendQueues'
  BY <1>1, <1>7, <1>10, Zenon DEF RoutesOK
<1>12. RoutesOK' /\ TablesOK' /\ DevicesOK' /\ PumpsOK' /\ FlightOK'
  BY <1>1, <1>10, <1>11, RoutesKept, Zenon
<1>13. QueuesOK' /\ BucketsOK'
  BY <1>1 DEF QueuesOK, BucketsOK
<1> QED
  BY <1>9, <1>12, <1>13 DEF ForwarderInv

\* The pump of a backend writes packets of clients to its device.
LEMMA BackendPumpKeepsInv ==
  ASSUME ForwarderInv, NEW m \in backendPumps, pumpBackendQueue(m)
  PROVE  ForwarderInv'
<1> DEFINE b == m[1]
           q == backendQueues[b]
           w == [f |-> Head(q), to |-> m[2]]
<1>1. /\ RoutesOK /\ TablesOK /\ QueuesOK /\ BucketsOK /\ DevicesOK /\ PumpsOK /\ FlightOK /\ WritesOK
      /\ UNCHANGED <<routes, byPeer, byIP, buckets, backendDevices, clientDevices, pumping,
                     clientPumps, backendPumps, inflight, packets, now>>
  BY DEF ForwarderInv, pumpBackendQueue, deviceVars, pumpVars
<1>2. b \in DOMAIN backendQueues /\ m[2] \in Devices /\ q # <<>>
  BY <1>1 DEF PumpsOK, pumpBackendQueue
<1>3. backendQueues' = [backendQueues EXCEPT ![b] = Tail(q)] /\ written' = Append(written, w)
  BY DEF pumpBackendQueue
<1>4. q \in Seq(PacketFor(0)) /\ Len(q) <= BufSize /\ BufSize \in Nat
  BY <1>1, <1>2, ForwarderAssumption DEF QueuesOK
<1>5. Tail(q) \in Seq(PacketFor(0)) /\ Len(Tail(q)) <= BufSize /\ Head(q) \in PacketFor(0)
  <2>1. /\ Tail(q) \in Seq(PacketFor(0)) /\ Head(q) \in PacketFor(0)
        /\ Len(Tail(q)) = Len(q) - 1 /\ Len(q) \in Nat
    BY <1>2, <1>4, HeadTailProperties, LenProperties
  <2> QED
    BY <1>4, <2>1
<1>6. w \in PathWrite
  BY <1>2, <1>5, Zenon DEF PathWrite, PacketFor
<1> HIDE DEF b, q, w
<1>7. WritesOK'
  BY <1>1, <1>3, <1>6 DEF WritesOK
<1>8. QueuesOK' /\ DOMAIN backendQueues' = DOMAIN backendQueues
  BY <1>1, <1>2, <1>3, <1>5 DEF QueuesOK
<1>9. RoutesOK' /\ TablesOK' /\ BucketsOK' /\ DevicesOK' /\ PumpsOK' /\ FlightOK'
  BY <1>1, <1>8, Zenon DEF RoutesOK, TablesOK, BucketsOK, DevicesOK, PumpsOK, PumpsMatchRoutes, FlightOK,
     RouteIDs
<1> QED
  BY <1>7, <1>8, <1>9 DEF ForwarderInv

\* Devices come and go; a backend that has one has a queue.
LEMMA DeviceKeepsInv ==
  ASSUME ForwarderInv,
         \/ \E p \in FwdPeers : AttachPeerDevice(p)
         \/ \E b \in FwdBackends :
               DetachBackendDevice(b) \/ \E dev \in Devices : AttachBackendDevice(b, dev)
  PROVE  ForwarderInv'
<1>1. /\ RoutesOK /\ TablesOK /\ QueuesOK /\ BucketsOK /\ DevicesOK /\ PumpsOK /\ FlightOK /\ WritesOK
  BY DEF ForwarderInv
<1>2. CASE \/ \E p \in FwdPeers : AttachPeerDevice(p)
           \/ \E b \in FwdBackends : DetachBackendDevice(b)
  <2>1. /\ UNCHANGED <<routes, byPeer, byIP, buckets, backendQueues, pumping, clientPumps, backendPumps,
                       inflight, written, packets, now>>
        /\ clientDevices' \subseteq FwdPeers
        /\ DOMAIN backendDevices' \subseteq DOMAIN backendDevices
        /\ \A b \in DOMAIN backendDevices' : backendDevices'[b] = backendDevices[b]
    BY <1>1, <1>2, Zenon
       DEF AttachPeerDevice, DetachBackendDevice, Drop, routeVars, pumpVars, pathVars, DevicesOK
  <2> QED
    BY <1>1, <2>1, Zenon DEF ForwarderInv, RoutesOK, TablesOK, QueuesOK, BucketsOK, DevicesOK, PumpsOK,
       PumpsMatchRoutes, FlightOK, WritesOK, RouteIDs
<1>3. ASSUME NEW b \in FwdBackends, NEW dev \in Devices, AttachBackendDevice(b, dev)
      PROVE  ForwarderInv'
  <2>1. /\ backendQueues' = WithQueue(b) /\ backendDevices' = Put(backendDevices, b, dev)
        /\ backendPumps' = IF pumping = "on" THEN backendPumps \cup {<<b, dev, calls>>} ELSE backendPumps
        /\ UNCHANGED <<routes, byPeer, byIP, buckets, clientDevices, pumping, clientPumps, inflight,
                       written, packets, now>>
    BY <1>3, SMTT(30) DEF AttachBackendDevice, pathVars
  <2>2. QueuesOK' /\ DOMAIN backendQueues' = DOMAIN backendQueues \cup {b}
    BY <2>1, QueueAdded, Zenon
  <2>3. DevicesOK'
    BY <1>1, <2>1, <2>2, Zenon DEF DevicesOK, Put
  <2>4. PumpsOK'
    BY <1>1, <2>1, <2>2, SMTT(30) DEF PumpsOK, PumpsMatchRoutes, RouteIDs
  <2>5. RoutesOK' /\ TablesOK' /\ BucketsOK' /\ FlightOK' /\ WritesOK'
    BY <1>1, <2>1, <2>2, Zenon DEF RoutesOK, TablesOK, BucketsOK, FlightOK, WritesOK, RouteIDs
  <2> QED
    BY <2>2, <2>3, <2>4, <2>5, Zenon DEF ForwarderInv
<1> QED
  BY <1>2, <1>3

\* Starting and stopping the pumps touches no queue.
LEMMA PumpsKeepInv ==
  ASSUME ForwarderInv,
         \/ StartPumps \/ StopPumps \/ StopPumpsReturns
         \/ \E r \in clientPumps : ClientPumpReturns(r)
         \/ \E m \in backendPumps : BackendPumpReturns(m)
  PROVE  ForwarderInv'
<1>1. RoutesOK /\ TablesOK /\ QueuesOK /\ BucketsOK /\ DevicesOK /\ PumpsOK /\ FlightOK /\ WritesOK
  BY SMTT(30) DEF ForwarderInv
<1>2. UNCHANGED <<routes, byPeer, byIP, buckets, backendQueues, backendDevices, clientDevices,
                  inflight, written, packets, now>>
  BY Zenon DEF StartPumps, StopPumps, StopPumpsReturns, ClientPumpReturns, BackendPumpReturns,
     routeVars, deviceVars, pathVars
<1>3. PumpsOK'
  <2>1. CASE StartPumps
    <3>1. /\ pumping' = "on" /\ clientPumps' = {byPeer[p] : p \in DOMAIN byPeer}
          /\ backendPumps' = {<<b, backendDevices[b], calls>> : b \in DOMAIN backendDevices}
      BY <2>1, Zenon DEF StartPumps
    <3>2. clientPumps' \subseteq RouteIDs'
      BY <1>1, <1>2, <3>1, Zenon DEF TablesOK, RouteIDs
    <3>3. \A m \in backendPumps' : m[1] \in DOMAIN backendQueues' /\ m[2] \in Devices
      BY <1>1, <1>2, <3>1 DEF DevicesOK
    <3>4. PumpsMatchRoutes'
      BY <1>2, <3>1, Zenon DEF PumpsMatchRoutes
    <3> QED
      BY <3>1, <3>2, <3>3, <3>4, Zenon DEF PumpsOK
  <2>2. CASE StopPumps \/ StopPumpsReturns
    BY <1>1, <1>2, <2>2, Zenon DEF StopPumps, StopPumpsReturns, PumpsOK, PumpsMatchRoutes, RouteIDs
  <2>3. CASE \E r \in clientPumps : ClientPumpReturns(r)
    BY <1>1, <1>2, <2>3, Zenon DEF ClientPumpReturns, PumpsOK, PumpsMatchRoutes, RouteIDs
  <2>4. CASE \E m \in backendPumps : BackendPumpReturns(m)
    BY <1>1, <1>2, <2>4 DEF BackendPumpReturns, PumpsOK, PumpsMatchRoutes, RouteIDs
  <2> QED
    BY <2>1, <2>2, <2>3, <2>4
<1> QED
  BY <1>1, <1>2, <1>3, Zenon DEF ForwarderInv, RoutesOK, TablesOK, QueuesOK, BucketsOK, DevicesOK, FlightOK,
     WritesOK, RouteIDs

-----------------------------------------------------------------------------
\* Nothing is registered at the start.
LEMMA ForwarderInvInit == ForwarderInit => ForwarderInv
<1> SUFFICES ASSUME ForwarderInit PROVE ForwarderInv
  OBVIOUS
<1>1. NoPacket \in Packet /\ NoPacket.for = 0
  BY DEF NoPacket, Packet
<1>2. DOMAIN Empty = {} /\ Empty \in [DOMAIN Empty -> Seq(PacketFor(0))]
  BY DEF Empty
<1>3. RoutesOK /\ BucketsOK /\ WritesOK /\ TablesOK
  BY <1>2 DEF ForwarderInit, RoutesOK, BucketsOK, WritesOK, TablesOK, RouteIDs
<1>4. QueuesOK /\ DevicesOK
  BY <1>2 DEF ForwarderInit, QueuesOK, DevicesOK
<1>5. PumpsOK
  BY <1>2 DEF ForwarderInit, PumpsOK, PumpsMatchRoutes
<1>6. FlightOK
  BY <1>1 DEF ForwarderInit, FlightOK
<1> QED
  BY <1>3, <1>4, <1>5, <1>6 DEF ForwarderInv

\* Every step of a caller, a packet, a pump or the clock keeps the invariant.
LEMMA ForwarderInvStep ==
  ASSUME ForwarderInv, [ForwarderNext]_forwarderVars
  PROVE  ForwarderInv'
<1>1. CASE PacketStep
  BY <1>1, RouteKeepsInv, EnqueueKeepsInv, ClientPumpKeepsInv, BackendPumpKeepsInv, PumpsKeepInv
     DEF PacketStep
<1>2. CASE Register
  <2>1. PICK p \in FwdPeers, ip \in FwdIPs, b \in FwdBackends, rate \in Rates, d \in {"up", "down"} :
          RegisterSessionWithLimit(p, ip, b, IF d = "down" THEN rate ELSE 0, IF d = "up" THEN rate ELSE 0)
    BY <1>2 DEF Register
  <2>2. rate \in Nat
    BY ForwarderAssumption
  <2>3. CASE d = "down"
    BY <2>1, <2>2, <2>3, RegisterKeepsInv
  <2>4. CASE d = "up"
    BY <2>1, <2>2, <2>4, RegisterKeepsInv
  <2> QED
    BY <2>3, <2>4
<1>3. CASE APIStep /\ ~Register
  <2>1. \A rate \in Rates : rate \in Nat
    BY ForwarderAssumption
  <2> QED
    BY <1>3, <2>1, UnregisterKeepsInv, LimitKeepsInv, MoveKeepsInv, DeviceKeepsInv, PumpsKeepInv
       DEF APIStep
<1>4. CASE Second
  <2>1. /\ now' = now + 1
        /\ UNCHANGED <<routes, byPeer, byIP, buckets, backendQueues, backendDevices, clientDevices,
                       pumping, clientPumps, backendPumps, inflight, written, packets>>
    BY <1>4 DEF Second, routeVars, deviceVars, pumpVars, pathVars
  <2>2. BucketsOK'
    BY <2>1, BucketsGrow DEF ForwarderInv
  <2> QED
    BY <2>1, <2>2, Zenon DEF ForwarderInv, RoutesOK, TablesOK, QueuesOK, DevicesOK, PumpsOK,
       PumpsMatchRoutes, FlightOK, WritesOK, RouteIDs
<1>5. CASE UNCHANGED forwarderVars
  BY <1>5, Zenon DEF forwarderVars, ForwarderInv, RoutesOK, TablesOK, QueuesOK, BucketsOK, DevicesOK, PumpsOK,
     PumpsMatchRoutes, FlightOK, WritesOK, RouteIDs
<1> QED
  BY <1>1, <1>2, <1>3, <1>4, <1>5 DEF ForwarderNext

\* The invariant holds throughout.
LEMMA ForwarderInvHolds == ForwarderSpec => []ForwarderInv
<1>1. ForwarderInv /\ [ForwarderNext]_forwarderVars => ForwarderInv'
  BY ForwarderInvStep
<1> QED
  BY <1>1, ForwarderInvInit, PTL DEF ForwarderSpec

\* A packet for a client is only ever written to the device of the peer that held
\* the address when the packet came in, or to the shared device, no queue
\* overflows, and every registered session has its pump (RouteBackendToClient,
\* pumpClientQueue, RegisterSession, StartPumps): for any number of peers, routes,
\* packets and calls.
THEOREM PacketsStayOnRoute == ForwarderSpec => []PacketsKeepRoutes
<1>1. ASSUME ForwarderInv PROVE PacketsKeepRoutes
  <2>1. RoutesOK /\ TablesOK /\ QueuesOK /\ DevicesOK /\ PumpsOK /\ FlightOK /\ WritesOK
    BY <1>1 DEF ForwarderInv
  <2>2. ForwarderTypeOK
    BY <2>1 DEF ForwarderTypeOK, RoutesOK, TablesOK, QueuesOK, DevicesOK, PumpsOK, FlightOK, Route,
       RouteIDs
  <2>3. WrittenToOwner
    <3>1. \A i \in 1 .. Len(written) : written[i] \in PathWrite
      BY <2>1, ElementOfSeq DEF WritesOK
    <3>2. \A w \in PathWrite : w.f.for # 0 => w.to \in {w.f.for, "default"}
      BY DEF PathWrite
    <3> QED
      BY <3>1, <3>2 DEF WrittenToOwner
  <2> QED
    BY <2>1, <2>2, <2>3 DEF PacketsKeepRoutes, PumpsOK
<1> QED
  BY <1>1, ForwarderInvHolds, PTL

\* A token bucket lets no more pass between two instants than its capacity and
\* what it earned in between (TokenBucket.Allow), for any rate, any number of
\* packets and any length of time.
THEOREM RatesAreRespected == ForwarderSpec => []RateRespected
<1>1. ASSUME ForwarderInv PROVE RateRespected
  <2> SUFFICES ASSUME NEW k \in 1 .. Len(buckets)
               PROVE  \A i, j \in 1 .. Len(buckets[k].log) :
                        i <= j => j - i + 1 <= buckets[k].rate * (1 + buckets[k].log[j] - buckets[k].log[i])
    BY Zenon DEF RateRespected
  <2>1. buckets[k] \in Bucket(now)
    BY <1>1 DEF ForwarderInv, BucketsOK
  <2>2. Spent(buckets[k])
    BY <2>1, Zenon DEF Bucket
  <2> QED
    BY <2>2, Zenon DEF Spent
<1> QED
  BY <1>1, ForwarderInvHolds, PTL
=============================================================================
