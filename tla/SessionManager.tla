--------------------------- MODULE SessionManager ---------------------------
(***************************************************************************)
(* The session manager of the VPN endpoint (vpn/endpoint/session.go) over  *)
(* the address manager and the vpn_sessions table.  Every method runs      *)
(* under sm.mu and is one action; the statements of the database run under *)
(* its write lock inside it.  A session is one Go object reached from two  *)
(* maps: sessionsByPeer holds its fields, sessionsByID points to its peer. *)
(*                                                                         *)
(* As a component of its own the manager is open: its callers choose the   *)
(* peer, the address and the backend of a new session freely, so what      *)
(* holds here holds whatever address the caller passes in.                 *)
(***************************************************************************)
EXTENDS IPAM

CONSTANTS Users, Owner,   \* Owner[p] is the user the key p belongs to
          Tunnels, NoTunnel,
          MaxSessionID,   \* bound: sessions created in one behaviour
          MaxDbErrors     \* bound: failing writes to vpn_sessions

ASSUME SessionAssumption ==
    /\ Owner \in [Peers -> Users]
    /\ NoTunnel \notin Tunnels
    /\ MaxSessionID \in Nat /\ MaxDbErrors \in Nat

VARIABLES users,           \* rows of the users table
          tunnels,         \* rows of the backend_tunnels table
          rows,            \* vpn_sessions, by its unique peer_public_key
          sessionsByPeer,
          sessionsByID,
          activeCount,
          nextID,          \* the next random session ID
          dbErrors

dbVars == <<users, tunnels, rows>>
sessionVars == <<sessionsByPeer, sessionsByID, activeCount, nextID>>
smVars == <<ipamVars, dbVars, sessionVars, dbErrors>>

IDs == 1 .. MaxSessionID
NoSession == [id |-> 0, ip |-> NoIP, tunnel |-> NoTunnel, status |-> "none"]
VPNSession == [id : 0 .. MaxSessionID, ip : IPs \cup {NoIP},
               tunnel : Tunnels \cup {NoTunnel},
               status : {"none", "connected", "draining", "disconnected"}]

SMTypeOK ==
    /\ IPAMTypeOK
    /\ users \subseteq Users /\ tunnels \subseteq Tunnels
    /\ rows \in [Peers -> VPNSession]
    /\ sessionsByPeer \in [Peers -> VPNSession]
    /\ sessionsByID \in [IDs -> Peers \cup {NoPeer}]
    /\ activeCount \in Int
    /\ nextID \in 1 .. MaxSessionID + 1
    /\ dbErrors \in 0 .. MaxDbErrors

SMInit ==
    /\ IPAMInit
    /\ users = Users /\ tunnels = Tunnels
    /\ rows = [p \in Peers |-> NoSession]
    /\ sessionsByPeer = [p \in Peers |-> NoSession]
    /\ sessionsByID = [i \in IDs |-> NoPeer]
    /\ activeCount = 0 /\ nextID = 1 /\ dbErrors = 0

Live == {p \in Peers : sessionsByPeer[p] # NoSession}

-----------------------------------------------------------------------------
(* The vpn_sessions table *)

\* Mutant: assigned_ip is not UNIQUE.
CanUpsertAnyIP(p, s) == Owner[p] \in users /\ s.tunnel \in tunnels

\* The upsert of s as the row of p meets the foreign keys and the UNIQUE
\* assigned_ip; a conflict on the peer key is resolved by the update.
CanUpsert(p, s) ==
    /\ Owner[p] \in users
    /\ s.tunnel \in tunnels
    /\ \A q \in Peers \ {p} : rows[q].ip # s.ip

\* The table with the sessions of W written, with status st.
Written(W, st) ==
    [p \in Peers |-> IF p \in W THEN [sessionsByPeer[p] EXCEPT !.status = st] ELSE rows[p]]

\* The tables that may result from upserting the sessions of S one after the
\* other, in any order: the schema admits each write or not, and of two sessions
\* with one address only the first.
Upserted(S, st) ==
    LET Admitted == {p \in S : CanUpsert(p, sessionsByPeer[p])}
        SameIP(p, q) == sessionsByPeer[p].ip = sessionsByPeer[q].ip
    IN {Written(W, st) : W \in {V \in SUBSET Admitted :
            /\ \A p, q \in V : SameIP(p, q) => p = q
            /\ \A p \in Admitted : \E q \in V : SameIP(p, q)}}

\* n writes fail for reasons of their own (busy, disk, cancelled context).
DbErrors(n) ==
    /\ dbErrors + n <= MaxDbErrors
    /\ dbErrors' = dbErrors + n

-----------------------------------------------------------------------------
(* CreateSession: the peer's old session leaves the maps before the write. *)

NewSession(ip, t) == [id |-> nextID, ip |-> ip, tunnel |-> t, status |-> "connected"]

CountWithout(p) == activeCount - IF p \in Live THEN 1 ELSE 0

\* Mutant: the replaced session stays in sessionsByID.
CreateSessionKeepsOldID(p, ip, t) ==
    LET s == NewSession(ip, t) IN
    /\ nextID <= MaxSessionID
    /\ CanUpsert(p, s)
    /\ rows' = [rows EXCEPT ![p] = s]
    /\ sessionsByPeer' = [sessionsByPeer EXCEPT ![p] = s]
    /\ sessionsByID' = [sessionsByID EXCEPT ![s.id] = p]
    /\ activeCount' = CountWithout(p) + 1
    /\ nextID' = nextID + 1
    /\ UNCHANGED <<users, tunnels, dbErrors>>

CreateSession(p, ip, t) ==
    LET s == NewSession(ip, t) IN
    /\ nextID <= MaxSessionID
    /\ CanUpsert(p, s)
    /\ rows' = [rows EXCEPT ![p] = s]
    /\ sessionsByPeer' = [sessionsByPeer EXCEPT ![p] = s]
    /\ sessionsByID' = [i \in IDs |-> IF i = s.id THEN p
                                      ELSE IF i = sessionsByPeer[p].id THEN NoPeer
                                      ELSE sessionsByID[i]]
    /\ activeCount' = CountWithout(p) + 1
    /\ nextID' = nextID + 1
    /\ UNCHANGED <<users, tunnels, dbErrors>>

\* The write fails: the error is returned with the old session gone.
CreateSessionFails(p, ip, t) ==
    /\ \/ ~CanUpsert(p, NewSession(ip, t)) /\ UNCHANGED dbErrors
       \/ DbErrors(1)
    /\ sessionsByPeer' = [sessionsByPeer EXCEPT ![p] = NoSession]
    /\ sessionsByID' = [i \in IDs |-> IF i = sessionsByPeer[p].id THEN NoPeer
                                      ELSE sessionsByID[i]]
    /\ activeCount' = CountWithout(p)
    /\ UNCHANGED <<users, tunnels, rows, nextID>>

-----------------------------------------------------------------------------
(* Closing: the sessions I get status "disconnected", each is written (the
   errors, F of them, are ignored), its lease is released and it leaves both
   maps. *)
Close(I, F) ==
    LET S == {sessionsByID[i] : i \in I} IN
    /\ rows' \in Upserted(S \ F, "disconnected")
    /\ DbErrors(Cardinality(F))
    /\ allocated' = [p \in Peers |-> IF p \in S THEN NoIP ELSE allocated[p]]
    /\ reverse' = [a \in IPs |-> IF \E p \in S : allocated[p] = a THEN NoPeer
                                 ELSE reverse[a]]
    /\ sessionsByID' = [i \in IDs |-> IF i \in I THEN NoPeer ELSE sessionsByID[i]]
    /\ sessionsByPeer' = [p \in Peers |-> IF p \in S THEN NoSession ELSE sessionsByPeer[p]]
    /\ activeCount' = activeCount - Cardinality(I)
    /\ UNCHANGED <<cursor, users, tunnels, nextID>>

LiveIDs == {i \in IDs : sessionsByID[i] # NoPeer}

CloseSession(i) ==
    /\ i \in LiveIDs
    /\ \E F \in SUBSET {sessionsByID[i]} : Close({i}, F)

\* Mutant: a session whose row cannot be written is kept.
CheckTimeoutsSaved(I) ==
    /\ I # {}
    /\ \A i \in I : CanUpsert(sessionsByID[i], sessionsByPeer[sessionsByID[i]])
    /\ \E F \in SUBSET {sessionsByID[i] : i \in I} : Close(I, F)

\* The sessions I were idle for longer than idleTimeout.
CheckTimeouts(I) ==
    /\ I # {}
    /\ \E F \in SUBSET {sessionsByID[i] : i \in I} : Close(I, F)

\* Every session is marked draining and written; it stays in the maps.
Drain ==
    LET S == {sessionsByID[i] : i \in LiveIDs} IN
    /\ \E F \in SUBSET S : /\ rows' \in Upserted(S \ F, "draining")
                           /\ DbErrors(Cardinality(F))
    /\ sessionsByPeer' = [p \in Peers |->
          IF p \in S THEN [sessionsByPeer[p] EXCEPT !.status = "draining"]
          ELSE sessionsByPeer[p]]
    /\ UNCHANGED <<ipamVars, users, tunnels, sessionsByID, activeCount, nextID>>

-----------------------------------------------------------------------------
(* A new process: empty managers, then SyncFromDB.  It restores the rows with
   status 'connected' and reserves their addresses; they are distinct and in
   the range, so every Reserve succeeds. *)
Restored == {p \in Peers : rows[p].status = "connected"}

Restart ==
    /\ sessionsByPeer' = [p \in Peers |-> IF p \in Restored THEN rows[p] ELSE NoSession]
    /\ sessionsByID' = [i \in IDs |-> IF \E p \in Restored : rows[p].id = i
                                      THEN CHOOSE p \in Restored : rows[p].id = i
                                      ELSE NoPeer]
    /\ activeCount' = Cardinality(Restored)
    /\ cursor' = startIP
    /\ allocated' = [p \in Peers |-> IF p \in Restored THEN rows[p].ip ELSE NoIP]
    /\ reverse' = [a \in IPs |-> IF \E p \in Restored : rows[p].ip = a
                                 THEN CHOOSE p \in Restored : rows[p].ip = a
                                 ELSE NoPeer]
    /\ UNCHANGED <<dbVars, nextID, dbErrors>>

\* The rows cannot be read: Start ignores it and serves with empty managers.
RestartUnsynced ==
    /\ DbErrors(1)
    /\ sessionsByPeer' = [p \in Peers |-> NoSession]
    /\ sessionsByID' = [i \in IDs |-> NoPeer]
    /\ activeCount' = 0
    /\ cursor' = startIP
    /\ allocated' = [p \in Peers |-> NoIP]
    /\ reverse' = [a \in IPs |-> NoPeer]
    /\ UNCHANGED <<dbVars, nextID>>

-----------------------------------------------------------------------------
(* Deletions by the rest of the panel cascade to vpn_sessions and do not
   reach the memory of the VPN service. *)
DeleteUser(u) ==
    /\ u \in users
    /\ users' = users \ {u}
    /\ rows' = [p \in Peers |-> IF Owner[p] = u THEN NoSession ELSE rows[p]]
    /\ UNCHANGED <<ipamVars, tunnels, sessionVars, dbErrors>>

DeleteServer(t) ==
    /\ t \in tunnels
    /\ tunnels' = tunnels \ {t}
    /\ rows' = [p \in Peers |-> IF rows[p].tunnel = t THEN NoSession ELSE rows[p]]
    /\ UNCHANGED <<ipamVars, users, sessionVars, dbErrors>>

-----------------------------------------------------------------------------
SMNext ==
    \/ \E p \in Peers, ip \in IPs, t \in Tunnels :
          /\ CreateSession(p, ip, t) \/ CreateSessionFails(p, ip, t)
          /\ UNCHANGED ipamVars
    \/ \E i \in IDs : CloseSession(i)
    \/ \E I \in SUBSET LiveIDs : CheckTimeouts(I)
    \/ Drain
    \/ Restart
    \/ RestartUnsynced
    \/ \E u \in Users : DeleteUser(u)
    \/ \E t \in Tunnels : DeleteServer(t)
    \/ /\ \E p \in Peers : AllocateNew(p) \/ Release(p)
       /\ UNCHANGED <<dbVars, sessionVars, dbErrors>>

SMSpec == SMInit /\ [][SMNext]_smVars

-----------------------------------------------------------------------------
(* The two maps of the manager describe the same sessions: a session found by
   peer is found by its ID and back.  CreateSession and CloseSession each
   start from one map and must clean up both. *)
SessionIndexesAgree ==
    /\ \A p \in Live : sessionsByPeer[p].id \in IDs
                       /\ sessionsByID[sessionsByPeer[p].id] = p
    /\ \A i \in LiveIDs : sessionsByPeer[sessionsByID[i]].id = i

(* ActiveCount is the number of sessions, although CreateSession lowers it
   before a write that may fail and Restart raises it row by row. *)
ActiveCountExact == activeCount = Cardinality(Live)

(* A session whose user and backend still exist has its row: same ID, same
   address, same backend.  Part of the inductive invariant of this module, true
   as long as the session manager alone writes vpn_sessions (its own Drain
   changes the status only).  HandleFailover and the background tasks write rows
   too, and failover gives a row a backend the session does not have. *)
RowBacksSession ==
    \A p \in Live : (Owner[p] \in users /\ sessionsByPeer[p].tunnel \in tunnels)
        => /\ rows[p].id = sessionsByPeer[p].id
           /\ rows[p].ip = sessionsByPeer[p].ip
           /\ rows[p].tunnel = sessionsByPeer[p].tunnel

Backed(p) == p \in Live /\ Owner[p] \in users /\ sessionsByPeer[p].tunnel \in tunnels

(* Two live sessions of existing users and backends never have one address,
   whatever address the caller passes to CreateSession: the UNIQUE assigned_ip
   of vpn_sessions arbitrates, not the address manager. *)
NoSharedAddress ==
    \A p, q \in Peers : (Backed(p) /\ Backed(q) /\ p # q)
        => sessionsByPeer[p].ip # sessionsByPeer[q].ip

(* The manager is consistent with itself and with the address manager, under
   every caller: its two maps, its counter, the leases and the addresses. *)
SessionsConsistent ==
    /\ SMTypeOK /\ LeaseBijection
    /\ SessionIndexesAgree /\ ActiveCountExact /\ NoSharedAddress

=============================================================================
