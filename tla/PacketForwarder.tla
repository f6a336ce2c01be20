-------------------------- MODULE PacketForwarder --------------------------
(***************************************************************************)
(* The packet path (vpn/forwarder/forwarder.go): routes with a queue and   *)
(* two rate limits per session, a queue per backend, and the pumps, a      *)
(* goroutine per route and per backend device, that empty the queues into  *)
(* packet devices.  A packet looks its route up under the lock and uses    *)
(* what it found after the lock is released.                               *)
(*                                                                         *)
(* Packets are numbers and have size one, time is counted in seconds, and  *)
(* of a device only its owner matters.  Bytes counted for the accountant   *)
(* are the subject of Traffic.                                             *)
(***************************************************************************)
EXTENDS Naturals, Sequences, FiniteSets

CONSTANTS FwdPeers, FwdIPs, FwdBackends, Devices,
          BufSize,        \* capacity of every queue
          Rates,          \* limits, 0 for none
          MaxRoutes,      \* bound: sessions registered in one behaviour
          MaxPackets, MaxSeconds, MaxCalls      \* bounds

ASSUME ForwarderAssumption == BufSize \in Nat \ {0} /\ Rates \subseteq Nat

VARIABLES
    routes,      \* the sessionRoute values made so far
    byPeer, byIP,
    buckets,     \* the TokenBucket values made so far, and when they let a packet pass
    backendQueues,
    backendDevices,
    clientDevices,              \* peers with a device of their own
    pumping,     \* off, on, or being stopped
    clientPumps, backendPumps,
    inflight,    \* a packet of each direction between the lookup and the queue
    written,     \* history: the packets written, in order, with the device
    packets, now, calls

routeVars == <<routes, byPeer, byIP, buckets, backendQueues>>
deviceVars == <<backendDevices, clientDevices>>
pumpVars == <<pumping, clientPumps, backendPumps>>
pathVars == <<inflight, written, packets>>
forwarderVars == <<routes, byPeer, byIP, buckets, backendQueues, backendDevices, clientDevices,
                   pumping, clientPumps, backendPumps, inflight, written, packets, now, calls>>

NoPacket == [pkt |-> 0, route |-> 0, bucket |-> 0, queue |-> 0, for |-> 0]
RouteIDs == 1 .. Len(routes)
Empty == [x \in {} |-> 0]
Put(f, k, v) == [x \in DOMAIN f \cup {k} |-> IF x = k THEN v ELSE f[x]]
Drop(f, k) == [x \in DOMAIN f \ {k} |-> f[x]]

(* Types of the routes, queues and pumps; no queue holds more than its capacity. *)
ForwarderTypeOK ==
    /\ \A r \in RouteIDs :
          /\ routes[r].peer \in FwdPeers /\ routes[r].ip \in FwdIPs
          /\ routes[r].backend \in DOMAIN backendQueues
          /\ Len(routes[r].queue) <= BufSize
    /\ DOMAIN byPeer \subseteq FwdPeers /\ DOMAIN byIP \subseteq FwdIPs
    /\ \A b \in DOMAIN backendQueues : b \in FwdBackends /\ Len(backendQueues[b]) <= BufSize
    /\ clientDevices \subseteq FwdPeers /\ pumping \in {"off", "on", "stopping"}
    /\ clientPumps \subseteq RouteIDs /\ DOMAIN inflight = {"up", "down"}

ForwarderInit ==
    /\ routes = <<>> /\ byPeer = Empty /\ byIP = Empty /\ buckets = <<>>
    /\ backendQueues = Empty /\ backendDevices = Empty /\ clientDevices = {}
    /\ pumping = "off" /\ clientPumps = {} /\ backendPumps = {}
    /\ inflight = [d \in {"up", "down"} |-> NoPacket]
    /\ written = <<>> /\ packets = 0 /\ now = 0 /\ calls = 0

APICall == calls < MaxCalls /\ calls' = calls + 1

-----------------------------------------------------------------------------
(* TokenBucket *)

NewTokenBucket(rate) ==
    IF rate = 0 THEN <<>>
    ELSE <<[rate |-> rate, tokens |-> rate, last |-> now, log |-> <<>>]>>

Refill(k) ==
    LET more == buckets[k].tokens + (now - buckets[k].last) * buckets[k].rate
    IN  IF more > buckets[k].rate THEN buckets[k].rate ELSE more

\* No bucket, no limit.
Allow(k) == k = 0 \/ Refill(k) >= 1
AfterAllow(k) ==
    [j \in DOMAIN buckets |->
        IF j # k THEN buckets[j]
        ELSE [buckets[j] EXCEPT !.last = now,
                                !.tokens = IF Allow(k) THEN Refill(k) - 1 ELSE Refill(k),
                                !.log = IF Allow(k) THEN Append(@, now) ELSE @]]

-----------------------------------------------------------------------------
(* Routes *)

WithQueue(b) == IF b \in DOMAIN backendQueues THEN backendQueues ELSE Put(backendQueues, b, <<>>)

\* A session that is registered again gets a new route, queue and pump.
RegisterSessionWithLimit(p, ip, b, down, up) ==
    LET r == Len(routes) + 1
        made == NewTokenBucket(down) \o NewTokenBucket(up)
        k == Len(buckets)
    IN
    /\ r <= MaxRoutes /\ APICall
    /\ backendQueues' = WithQueue(b)
    /\ buckets' = buckets \o made
    /\ routes' = Append(routes,
          [peer |-> p, ip |-> ip, backend |-> b, queue |-> <<>>,
           down |-> IF down = 0 THEN 0 ELSE k + 1,
           up |-> IF up = 0 THEN 0 ELSE k + Len(made)])
    /\ byPeer' = Put(byPeer, p, r) /\ byIP' = Put(byIP, ip, r)
    /\ clientPumps' = IF pumping = "on" THEN clientPumps \cup {r} ELSE clientPumps
    /\ UNCHANGED <<deviceVars, pumping, backendPumps, pathVars, now>>

SetPeerRateLimit(p, down) ==
    /\ p \in DOMAIN byPeer /\ APICall
    /\ buckets' = buckets \o NewTokenBucket(down)
    /\ routes' = [routes EXCEPT ![byPeer[p]].down = IF down = 0 THEN 0 ELSE Len(buckets) + 1,
                                ![byPeer[p]].up = 0]
    /\ UNCHANGED <<byPeer, byIP, backendQueues, deviceVars, pumpVars, pathVars, now>>

\* The pump of the route is left alone.
UnregisterSession(p) ==
    /\ p \in DOMAIN byPeer /\ APICall
    /\ byIP' = Drop(byIP, routes[byPeer[p]].ip) /\ byPeer' = Drop(byPeer, p)
    /\ clientDevices' = clientDevices \ {p}
    /\ UNCHANGED <<routes, buckets, backendQueues, backendDevices, pumpVars, pathVars, now>>

UpdateSessionBackend(p, b) ==
    /\ p \in DOMAIN byPeer /\ APICall
    /\ backendQueues' = WithQueue(b)
    /\ routes' = [routes EXCEPT ![byPeer[p]].backend = b]
    /\ UNCHANGED <<byPeer, byIP, buckets, deviceVars, pumpVars, pathVars, now>>

-----------------------------------------------------------------------------
(* Packets *)

LookUp(d, found) ==
    /\ inflight[d] = NoPacket /\ packets < MaxPackets /\ packets' = packets + 1
    /\ inflight' = [inflight EXCEPT ![d] = [found EXCEPT !.pkt = packets + 1]]
    /\ UNCHANGED <<routeVars, deviceVars, pumpVars, written, now, calls>>

RouteClientToBackend(p) ==
    /\ p \in DOMAIN byPeer
    /\ LET r == byPeer[p] IN
       LookUp("up", [NoPacket EXCEPT !.route = r, !.bucket = routes[r].up,
                                     !.queue = routes[r].backend])

RouteBackendToClient(ip) ==
    /\ ip \in DOMAIN byIP
    /\ LET r == byIP[ip] IN
       LookUp("down", [NoPacket EXCEPT !.route = r, !.bucket = routes[r].down,
                                       !.for = routes[r].peer])

Fits(q) == Len(q) < BufSize

\* The rate limit, then the queue; a full queue drops the packet.
Enqueue(d) ==
    LET f == inflight[d]
        room(q) == Allow(f.bucket) /\ Fits(q)
    IN
    /\ f # NoPacket /\ inflight' = [inflight EXCEPT ![d] = NoPacket]
    /\ buckets' = AfterAllow(f.bucket)
    /\ \/ d = "up" /\ UNCHANGED routes
          /\ backendQueues' = IF room(backendQueues[f.queue])
                THEN [backendQueues EXCEPT ![f.queue] = Append(@, f)] ELSE backendQueues
       \/ d = "down" /\ UNCHANGED backendQueues
          /\ routes' = IF room(routes[f.route].queue)
                THEN [routes EXCEPT ![f.route].queue = Append(@, f)] ELSE routes
    /\ UNCHANGED <<byPeer, byIP, deviceVars, pumpVars, written, packets, now, calls>>

-----------------------------------------------------------------------------
(* Devices and pumps *)

AttachPeerDevice(p) ==
    /\ p \notin clientDevices /\ APICall /\ clientDevices' = clientDevices \cup {p}
    /\ UNCHANGED <<routeVars, backendDevices, pumpVars, pathVars, now>>

AttachBackendDevice(b, dev) ==
    /\ APICall /\ backendQueues' = WithQueue(b) /\ backendDevices' = Put(backendDevices, b, dev)
    /\ backendPumps' = IF pumping = "on" THEN backendPumps \cup {<<b, dev, calls>>}
                     ELSE backendPumps
    /\ UNCHANGED <<routes, byPeer, byIP, buckets, clientDevices, pumping, clientPumps, pathVars,
                   now>>

\* A pump that runs keeps the device.
DetachBackendDevice(b) ==
    /\ b \in DOMAIN backendDevices /\ APICall /\ backendDevices' = Drop(backendDevices, b)
    /\ UNCHANGED <<routeVars, clientDevices, pumpVars, pathVars, now>>

StartPumps ==
    /\ pumping = "off" /\ APICall /\ pumping' = "on"
    /\ clientPumps' = {byPeer[p] : p \in DOMAIN byPeer}
    /\ backendPumps' = {<<b, backendDevices[b], calls>> : b \in DOMAIN backendDevices}
    /\ UNCHANGED <<routeVars, deviceVars, pathVars, now>>

StopPumps ==
    /\ pumping = "on" /\ APICall /\ pumping' = "stopping"
    /\ UNCHANGED <<routeVars, deviceVars, clientPumps, backendPumps, pathVars, now>>

\* A pump that finds its queue and the stop channel ready may take either.
ClientPumpReturns(r) ==
    /\ pumping = "stopping" /\ r \in clientPumps /\ clientPumps' = clientPumps \ {r}
    /\ UNCHANGED <<routeVars, deviceVars, pumping, backendPumps, pathVars, now, calls>>
BackendPumpReturns(m) ==
    /\ pumping = "stopping" /\ m \in backendPumps /\ backendPumps' = backendPumps \ {m}
    /\ UNCHANGED <<routeVars, deviceVars, pumping, clientPumps, pathVars, now, calls>>

StopPumpsReturns ==
    /\ pumping = "stopping" /\ clientPumps = {} /\ backendPumps = {} /\ pumping' = "off"
    /\ UNCHANGED <<routeVars, deviceVars, clientPumps, backendPumps, pathVars, now, calls>>

\* Mutant: the device of whoever has the address now.
OwnerByAddress(r) ==
    LET cur == IF routes[r].ip \in DOMAIN byIP THEN byIP[routes[r].ip] ELSE r
    IN  IF routes[cur].peer \in clientDevices THEN routes[cur].peer ELSE "default"

DeviceOf(r) == IF routes[r].peer \in clientDevices THEN routes[r].peer ELSE "default"

pumpClientQueue(r) ==
    /\ r \in clientPumps /\ routes[r].queue # <<>>
    /\ routes' = [routes EXCEPT ![r].queue = Tail(@)]
    /\ written' = Append(written, [f |-> Head(routes[r].queue), to |-> DeviceOf(r)])
    /\ UNCHANGED <<byPeer, byIP, buckets, backendQueues, deviceVars, pumpVars, inflight, packets,
                   now, calls>>

pumpBackendQueue(m) ==
    /\ m \in backendPumps /\ backendQueues[m[1]] # <<>>
    /\ backendQueues' = [backendQueues EXCEPT ![m[1]] = Tail(@)]
    /\ written' = Append(written, [f |-> Head(backendQueues[m[1]]), to |-> m[2]])
    /\ UNCHANGED <<routes, byPeer, byIP, buckets, deviceVars, pumpVars, inflight, packets, now,
                   calls>>

Second ==
    /\ now < MaxSeconds /\ now' = now + 1
    /\ UNCHANGED <<routeVars, deviceVars, pumpVars, pathVars, calls>>

\* An address is given to one session at a time; of the limits one at most is set.
Register ==
    \E p \in FwdPeers, ip \in FwdIPs, b \in FwdBackends, rate \in Rates, d \in {"up", "down"} :
        /\ ip \in DOMAIN byIP => routes[byIP[ip]].peer = p
        /\ RegisterSessionWithLimit(p, ip, b, IF d = "down" THEN rate ELSE 0,
                                              IF d = "up" THEN rate ELSE 0)

PacketStep ==
    \/ \E p \in FwdPeers : RouteClientToBackend(p)
    \/ \E ip \in FwdIPs : RouteBackendToClient(ip)
    \/ \E d \in {"up", "down"} : Enqueue(d)
    \/ \E r \in clientPumps : pumpClientQueue(r) \/ ClientPumpReturns(r)
    \/ \E m \in backendPumps : pumpBackendQueue(m) \/ BackendPumpReturns(m)

APIStep ==
    \/ Register \/ StartPumps \/ StopPumps \/ StopPumpsReturns
    \/ \E p \in FwdPeers :
          \/ UnregisterSession(p) \/ AttachPeerDevice(p)
          \/ \E rate \in Rates : SetPeerRateLimit(p, rate)
          \/ \E b \in FwdBackends : UpdateSessionBackend(p, b)
    \/ \E b \in FwdBackends :
          DetachBackendDevice(b) \/ \E dev \in Devices : AttachBackendDevice(b, dev)

ForwarderNext == PacketStep \/ APIStep \/ Second
ForwarderSpec == ForwarderInit /\ [][ForwarderNext]_forwarderVars

-----------------------------------------------------------------------------
(* A packet for a client is only ever written to the device of the peer that held the    *)
(* address when the packet came in, or to the shared device, even if the address belongs *)
(* to another session by then (RouteBackendToClient, pumpClientQueue).                   *)
WrittenToOwner ==
    \A i \in 1 .. Len(written) :
        written[i].f.for # 0 => written[i].to \in {written[i].f.for, "default"}

(* While the pumps run every registered session has one, whether it was registered       *)
(* before StartPumps or after it; once StopPumps has returned there is none.             *)
PumpsMatchRoutes ==
    /\ pumping = "on" => \A p \in DOMAIN byPeer : byPeer[p] \in clientPumps
    /\ pumping = "off" => clientPumps = {} /\ backendPumps = {}

(* Registered sessions are served, and with their own packets only (RegisterSession,     *)
(* StartPumps, StopPumps, RouteBackendToClient).                                         *)
PacketsKeepRoutes == ForwarderTypeOK /\ WrittenToOwner /\ PumpsMatchRoutes

(* A rate limit holds over every interval: between two instants a bucket lets no more    *)
(* pass than its capacity plus what it earned in between (TokenBucket.Allow).            *)
RateRespected ==
    \A k \in 1 .. Len(buckets) : \A i, j \in 1 .. Len(buckets[k].log) :
        i <= j => j - i + 1 <= buckets[k].rate * (1 + buckets[k].log[j] - buckets[k].log[i])
=============================================================================
