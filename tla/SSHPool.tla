------------------------------ MODULE SSHPool ------------------------------
(***************************************************************************)
(* The pool of SSH connections (manager/ssh/pool.go), the clients it hands *)
(* out (client.go) and the check of host keys while they connect           *)
(* (hostkey.go, database/known_hosts.go).                                  *)
(*                                                                         *)
(* Each section under the mutex of the pool is a step, and so are a dial,  *)
(* the two statements of a first handshake, and every check of the         *)
(* keepalive loop.  A key of the pool names a server, an address and a     *)
(* user; a client keeps the key it was dialled for.                        *)
(***************************************************************************)
EXTENDS Naturals, FiniteSets, Functions

CONSTANTS Targets, Callers, HostKeys,
          MaxDials,        \* connections that are established in all
          Offered0,        \* host keys that the servers may have at the start
          Known0,          \* fingerprints the database may have at the start
          NoKey, NoDial

\* A stored fingerprint: of SHA-256 or, from earlier versions, of MD5.
Fingerprint == [alg : {"sha256", "md5"}, key : HostKeys]

ASSUME PoolAssumption ==
    /\ MaxDials \in Nat /\ NoDial \notin Nat
    /\ NoKey \notin HostKeys \cup Targets \cup Fingerprint
    /\ Offered0 \subseteq HostKeys /\ Known0 \subseteq Fingerprint \cup {NoKey}

VARIABLES
    pooled,     \* the map of the pool: key -> client, and whether it has timed out
    dialled,    \* Client values: their key, their transport, closed or not
    caller,     \* getOrCreate and the use of its result
    pinger,     \* pingAll: entries to look at, keys found dead
    poolClosed,
    knownHosts, \* known_hosts, per server
    offered,    \* the host key each server presents
    server      \* the row of each server, from AddServer to DeleteServer

poolVars == <<pooled, dialled, caller, pinger, poolClosed, knownHosts, offered, server>>
dbVars == <<knownHosts, offered, server>>

NoMap == [x \in {} |-> 0]
Free == [pc |-> "idle", key |-> NoKey, client |-> NoDial, saw |-> NoKey]
QuietPing == [pc |-> "idle", seen |-> NoMap, dead |-> {}]

(* Types of the pool, its callers and the stored fingerprints. *)
PoolTypeOK ==
    /\ DOMAIN pooled \subseteq Targets
    /\ \A k \in DOMAIN pooled : /\ pooled[k].client \in DOMAIN dialled
                               /\ pooled[k].timedOut \in BOOLEAN
    /\ DOMAIN dialled \subseteq 1 .. MaxDials
    /\ \A i \in DOMAIN dialled : dialled[i] \in [key : Targets, up : BOOLEAN, closed : BOOLEAN]
    /\ \A c \in Callers : caller[c].pc \in {"idle", "dial", "save", "insert", "using"}
    /\ pinger.pc \in {"idle", "checking", "evicting"} /\ pinger.dead \subseteq Targets
    /\ poolClosed \in BOOLEAN /\ offered \in [Targets -> HostKeys]
    /\ \A k \in Targets : knownHosts[k] = NoKey \/ knownHosts[k] \in Fingerprint
    /\ server \in [Targets -> [pc : {"new", "confirm", "save", "there", "unpooled", "unknown",
                                      "gone"},
                               shown : HostKeys \cup {NoKey}]]

PoolInit ==
    /\ pooled = NoMap /\ dialled = NoMap /\ caller = [c \in Callers |-> Free]
    /\ pinger = QuietPing /\ poolClosed = FALSE
    /\ offered \in [Targets -> Offered0]
    /\ knownHosts \in [Targets -> Known0]
    /\ server \in [Targets -> {[pc |-> p, shown |-> NoKey] : p \in {"new", "there"}}]
    /\ \A k \in Targets : server[k].pc = "new" => knownHosts[k] = NoKey

IsAlive(i) == dialled[i].up /\ ~dialled[i].closed
Close(S) == [i \in DOMAIN dialled |-> [dialled[i] EXCEPT !.closed = @ \/ i \in S]]
Evicted(S) == Restrict(pooled, DOMAIN pooled \ S)
Put(f, x, y) == [z \in DOMAIN f \cup {x} |-> IF z = x THEN y ELSE f[z]]
Pooled(S) == {pooled[k].client : k \in S \cap DOMAIN pooled}

\* Mutant: a known fingerprint matches every key.
MatchesAny(fp, key) == fp # NoKey

\* CompareFingerprints against the key presented, in either format.
Matches(fp, key) == fp # NoKey /\ fp.key = key
Sha(key) == [alg |-> "sha256", key |-> key]

\* GetServer finds the row; a fingerprint refers to it.
HasRow(k) == server[k].pc \in {"save", "there", "unpooled", "unknown"}

SaveKnownHost(k, key) == HasRow(k) /\ knownHosts' = [knownHosts EXCEPT ![k] = Sha(key)]

-----------------------------------------------------------------------------
(* getOrCreate *)

\* The first section: a live client is reused, a dead one evicted.
Get(c, k) ==
    /\ caller[c].pc = "idle" /\ ~poolClosed
    /\ server[k].pc \notin {"new", "confirm"}     \* the caller has read the row at some time
    /\ IF k \in DOMAIN pooled /\ IsAlive(pooled[k].client)
       THEN /\ pooled' = [pooled EXCEPT ![k].timedOut = FALSE]
            /\ caller' = [caller EXCEPT ![c] = [Free EXCEPT !.pc = "using", !.key = k,
                                                                 !.client = pooled[k].client]]
            /\ UNCHANGED dialled
       ELSE /\ pooled' = Evicted({k}) /\ dialled' = Close(Pooled({k}))
            /\ caller' = [caller EXCEPT ![c] = [Free EXCEPT !.pc = "dial", !.key = k]]
    /\ UNCHANGED <<pinger, poolClosed, dbVars>>

Fail(c) == caller' = [caller EXCEPT ![c] = Free] /\ UNCHANGED dialled

Connected(c) ==
    /\ Cardinality(DOMAIN dialled) < MaxDials
    /\ LET i == Cardinality(DOMAIN dialled) + 1 IN
       /\ dialled' = Put(dialled, i, [key |-> caller[c].key, up |-> TRUE, closed |-> FALSE])
       /\ caller' = [caller EXCEPT ![c] = [@ EXCEPT !.pc = "insert", !.client = i]]

\* Connect up to the first statement of the callback.  An unknown key is to be saved, a
\* known one must match; a match of the old format is replaced by the new one, if it can.
Dial(c) ==
    LET k == caller[c].key IN
    /\ caller[c].pc = "dial"
    /\ \/ Fail(c) /\ UNCHANGED knownHosts
       \/ /\ knownHosts[k] = NoKey /\ UNCHANGED <<dialled, knownHosts>>
          /\ caller' = [caller EXCEPT ![c] = [@ EXCEPT !.pc = "save", !.saw = offered[k]]]
       \/ /\ Matches(knownHosts[k], offered[k]) /\ Connected(c)
          /\ \/ UNCHANGED knownHosts
             \/ knownHosts[k].alg = "md5" /\ SaveKnownHost(k, offered[k])
    /\ UNCHANGED <<pooled, pinger, poolClosed, offered, server>>

SaveFirstSeen(c) ==
    LET k == caller[c].key IN
    /\ caller[c].pc = "save"
    /\ \/ Fail(c) /\ UNCHANGED knownHosts
       \/ SaveKnownHost(k, caller[c].saw) /\ Connected(c)
    /\ UNCHANGED <<pooled, pinger, poolClosed, offered, server>>

\* Mutant: what happened while it dialled goes unnoticed.
InsertLate(c) ==
    /\ caller[c].pc = "insert"
    /\ pooled' = Put(pooled, caller[c].key, [client |-> caller[c].client, timedOut |-> FALSE])
    /\ caller' = [caller EXCEPT ![c].pc = "using"]
    /\ dialled' = Close(Pooled({caller[c].key}))
    /\ UNCHANGED <<pinger, poolClosed, dbVars>>

\* The second section: a pool closed meanwhile and a client inserted meanwhile win.
Insert(c) ==
    LET k == caller[c].key
        i == caller[c].client IN
    /\ caller[c].pc = "insert"
    /\ \/ /\ poolClosed /\ dialled' = Close({i}) /\ UNCHANGED pooled
          /\ caller' = [caller EXCEPT ![c] = Free]
       \/ /\ ~poolClosed /\ k \in DOMAIN pooled /\ IsAlive(pooled[k].client)
          /\ dialled' = Close({i}) /\ pooled' = [pooled EXCEPT ![k].timedOut = FALSE]
          /\ caller' = [caller EXCEPT ![c].pc = "using", ![c].client = pooled[k].client]
       \/ /\ ~poolClosed /\ ~(k \in DOMAIN pooled /\ IsAlive(pooled[k].client))
          /\ pooled' = Put(pooled, k, [client |-> i, timedOut |-> FALSE])
          /\ caller' = [caller EXCEPT ![c].pc = "using"] /\ UNCHANGED dialled
    /\ UNCHANGED <<pinger, poolClosed, dbVars>>

\* The caller's commands end.  They touch the client, not the entry of the pool.
Done(c) ==
    /\ caller[c].pc = "using" /\ caller' = [caller EXCEPT ![c] = Free]
    /\ UNCHANGED <<pooled, dialled, pinger, poolClosed, dbVars>>

-----------------------------------------------------------------------------
(* Maintenance *)

\* IdleTimeout passes since the last Get of a key.
TimeOut(k) ==
    /\ k \in DOMAIN pooled /\ ~pooled[k].timedOut
    /\ pooled' = [pooled EXCEPT ![k].timedOut = TRUE]
    /\ UNCHANGED <<dialled, caller, pinger, poolClosed, dbVars>>

TimedOut == {k \in DOMAIN pooled : pooled[k].timedOut}

\* sweepIdle
Sweep ==
    /\ TimedOut # {} /\ ~poolClosed
    /\ dialled' = Close(Pooled(TimedOut)) /\ pooled' = Evicted(TimedOut)
    /\ UNCHANGED <<caller, pinger, poolClosed, dbVars>>

\* pingAll: a copy of the entries, one check after another, then eviction by key.
PingBegin ==
    /\ pinger.pc = "idle" /\ ~poolClosed /\ DOMAIN pooled # {}
    /\ pinger' = [pc |-> "checking", seen |-> [k \in DOMAIN pooled |-> pooled[k].client],
                  dead |-> {}]
    /\ UNCHANGED <<pooled, dialled, caller, poolClosed, dbVars>>

PingCheck(k) ==
    /\ pinger.pc = "checking" /\ k \in DOMAIN pinger.seen
    /\ pinger' = [pinger EXCEPT !.seen = Restrict(@, DOMAIN @ \ {k}),
                                !.dead = IF IsAlive(pinger.seen[k]) THEN @ ELSE @ \cup {k}]
    /\ UNCHANGED <<pooled, dialled, caller, poolClosed, dbVars>>

PingEvict ==
    /\ pinger.pc = "checking" /\ DOMAIN pinger.seen = {} /\ pinger' = QuietPing
    /\ dialled' = Close(Pooled(pinger.dead)) /\ pooled' = Evicted(pinger.dead)
    /\ UNCHANGED <<caller, poolClosed, dbVars>>

Break(i) ==
    /\ IsAlive(i) /\ dialled' = [dialled EXCEPT ![i].up = FALSE]
    /\ UNCHANGED <<pooled, caller, pinger, poolClosed, dbVars>>

\* RebootServer ends with Remove.
Reboot(k) ==
    /\ HasRow(k) /\ k \in DOMAIN pooled
    /\ dialled' = Close(Pooled({k})) /\ pooled' = Evicted({k})
    /\ UNCHANGED <<caller, pinger, poolClosed, dbVars>>

\* Close; it waits for the two loops, which finish what they are doing.
PoolClose ==
    /\ ~poolClosed /\ poolClosed' = TRUE
    /\ dialled' = Close(Pooled(DOMAIN pooled)) /\ pooled' = Evicted(DOMAIN pooled)
    /\ UNCHANGED <<caller, pinger, dbVars>>

-----------------------------------------------------------------------------
(* The rows of the servers *)

GoServer(k, from, to) == server[k].pc = from /\ server' = [server EXCEPT ![k].pc = to]

\* A dial without a store, then the administrator's confirmation of what it captured.
AddServer(k) ==
    /\ server[k].pc = "new"
    /\ server' = [server EXCEPT ![k] = [pc |-> "confirm", shown |-> offered[k]]]
    /\ UNCHANGED <<pooled, dialled, caller, pinger, poolClosed, knownHosts, offered>>

ConfirmFingerprint(k) ==
    /\ GoServer(k, "confirm", "save")
    /\ UNCHANGED <<pooled, dialled, caller, pinger, poolClosed, knownHosts, offered>>

\* The error of this statement is ignored.
ConfirmSave(k) ==
    /\ server[k].pc = "save" /\ server' = [server EXCEPT ![k] = [pc |-> "there", shown |-> NoKey]]
    /\ UNCHANGED knownHosts \/ SaveKnownHost(k, server[k].shown)
    /\ UNCHANGED <<pooled, dialled, caller, pinger, poolClosed, offered>>

\* DeleteServer: the pool, the fingerprint, then the row, which takes along a fingerprint
\* saved since.  An error before the last statement leaves the row.
DeleteServer(k) ==
    /\ GoServer(k, "there", "unpooled")
    /\ dialled' = Close(Pooled({k})) /\ pooled' = Evicted({k})
    /\ UNCHANGED <<caller, pinger, poolClosed, knownHosts, offered>>

DeleteKnownHost(k) ==
    /\ \/ GoServer(k, "unpooled", "there") /\ UNCHANGED knownHosts
       \/ GoServer(k, "unpooled", "unknown") /\ knownHosts' = [knownHosts EXCEPT ![k] = NoKey]
    /\ UNCHANGED <<pooled, dialled, caller, pinger, poolClosed, offered>>

DeleteServerRow(k) ==
    /\ \/ GoServer(k, "unknown", "there") /\ UNCHANGED knownHosts
       \/ GoServer(k, "unknown", "gone") /\ knownHosts' = [knownHosts EXCEPT ![k] = NoKey]
    /\ UNCHANGED <<pooled, dialled, caller, pinger, poolClosed, offered>>

\* A host is set up anew, not while the panel is getting to know it.
NewHostKey(k) ==
    /\ server[k].pc \notin {"confirm", "save"}
    /\ \A c \in Callers : caller[c].pc # "save" \/ caller[c].key # k
    /\ \E h \in HostKeys \ {offered[k]} : offered' = [offered EXCEPT ![k] = h]
    /\ UNCHANGED <<pooled, dialled, caller, pinger, poolClosed, knownHosts, server>>

ServerStep(k) == \/ AddServer(k) \/ ConfirmFingerprint(k) \/ ConfirmSave(k)
                 \/ DeleteServer(k) \/ DeleteKnownHost(k) \/ DeleteServerRow(k)

CallerStep(c) == Dial(c) \/ SaveFirstSeen(c) \/ Insert(c)

PoolNext ==
    \/ \E c \in Callers : CallerStep(c) \/ Done(c) \/ \E k \in Targets : Get(c, k)
    \/ \E k \in Targets :
         TimeOut(k) \/ PingCheck(k) \/ Reboot(k) \/ ServerStep(k) \/ NewHostKey(k)
    \/ \E i \in DOMAIN dialled : Break(i)
    \/ Sweep \/ PingBegin \/ PingEvict \/ PoolClose

PoolSpec == PoolInit /\ [][PoolNext]_poolVars

-----------------------------------------------------------------------------
(* Properties *)

(* No live connection is lost sight of: it is in the pool, or in the hands of the caller
   that has just dialled it.  Two callers dialling at once, evictions by key and a pool
   closed in the middle leave none behind. *)
NoStrandedClient ==
    \A i \in DOMAIN dialled : IsAlive(i) =>
       \/ \E k \in DOMAIN pooled : pooled[k].client = i
       \/ \E c \in Callers : caller[c].pc = "insert" /\ caller[c].client = i

(* A stored fingerprint gives way only to one of the same host key, in the new format: by
   whichever of the first connections and the administrator's confirmation it was stored. *)
PinnedKeyStays ==
    [][\A k \in Targets : knownHosts[k] # NoKey /\ knownHosts'[k] # NoKey =>
          knownHosts'[k].key = knownHosts[k].key]_poolVars

(* A fingerprint does not outlive the row of its server, whatever dials are still going on
   when the server is deleted. *)
ForgottenWithServer == \A k \in Targets : server[k].pc = "gone" => knownHosts[k] = NoKey

(* After Close every connection has ended once the calls that were dialling have returned:
   a client that comes too late for the pool is closed by its caller. *)
CloseEndsAll ==
    (poolClosed /\ \A c \in Callers : caller[c].pc \in {"idle", "using"})
        => \A i \in DOMAIN dialled : ~IsAlive(i)

(* The pool accounts for every connection it has dialled, while it is open and after it
   has been closed (getOrCreate, Remove, sweepIdle, Close). *)
ClientsAccountedFor == NoStrandedClient /\ CloseEndsAll
=============================================================================
