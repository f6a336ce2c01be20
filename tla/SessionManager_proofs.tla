------------------------ MODULE SessionManager_proofs ------------------------
(***************************************************************************)
(* The address manager and the session manager, for every number of peers, *)
(* users, backends, addresses and sessions.  The address manager's two     *)
(* maps stay inverse, its count check is exact, and it implements the      *)
(* abstract lease table; the session manager's two indexes agree, its      *)
(* counter counts them, and no two sessions of existing users and backends *)
(* share an address.                                                       *)
(***************************************************************************)
EXTENDS SessionManager, FiniteSetTheorems, TLAPS


-----------------------------------------------------------------------------
(* The address manager *)

\* The inductive invariant: typing and the bijection support each other.
IPAMInv == IPAMTypeOK /\ LeaseBijection

-----------------------------------------------------------------------------
(* The scan of Allocate visits only addresses of the range, and the cursor it
   leaves behind is in the range as well. *)
LEMMA CandidateInRange ==
  ASSUME cursor \in IPs, NEW k \in 0 .. Total
  PROVE  Candidate(k) \in IPs
  BY IPAMAssumption DEF Candidate, IPs, Total

(* The scan of Allocate visits every address of the range in Total steps. *)
LEMMA ScanIsComplete ==
  ASSUME cursor \in IPs, NEW ip \in IPs
  PROVE  \E k \in 0 .. Total - 1 : Candidate(k) = ip
<1>1. CASE ip >= cursor
  <2>1. ip - cursor \in 0 .. Total - 1 /\ Candidate(ip - cursor) = ip
    BY <1>1, IPAMAssumption DEF Candidate, IPs, Total
  <2>2. QED
    BY <2>1
<1>2. CASE ip < cursor
  <2>1. /\ ip - cursor + Total \in 0 .. Total - 1
        /\ Candidate(ip - cursor + Total) = ip
    BY <1>2, IPAMAssumption DEF Candidate, IPs, Total
  <2>2. QED
    BY <2>1
<1>3. QED
  BY <1>1, <1>2, IPAMAssumption DEF IPs

-----------------------------------------------------------------------------
(* NewIPAM starts with an empty table. *)
LEMMA IPAMInvInit == IPAMInit => IPAMInv
  BY IPAMAssumption DEF IPAMInit, IPAMInv, IPAMTypeOK, LeaseBijection, IPs, NoIP

(* A fresh lease keeps the maps inverse: the scan only stops at an address
   missing from the reverse map. *)
LEMMA AllocateKeepsInv ==
  ASSUME IPAMInv, NEW p \in Peers, AllocateNew(p)
  PROVE  IPAMInv'
<1>1. PICK k \in FreeSteps :
        /\ allocated' = [allocated EXCEPT ![p] = Candidate(k)]
        /\ reverse' = [reverse EXCEPT ![Candidate(k)] = p]
        /\ cursor' = Candidate(k + 1)
  BY Zenon DEF AllocateNew
<1>2. /\ k \in 0 .. Total - 1 /\ k + 1 \in 0 .. Total
      /\ reverse[Candidate(k)] = NoPeer
  BY IPAMAssumption DEF FreeSteps, Total
<1>3. Candidate(k) \in IPs /\ Candidate(k + 1) \in IPs
  <2>1. k \in 0 .. Total
    BY <1>2, IPAMAssumption DEF Total
  <2>2. QED
    BY <1>2, <2>1, CandidateInRange DEF IPAMInv, IPAMTypeOK
<1>4. IPAMTypeOK'
  BY <1>1, <1>3 DEF IPAMInv, IPAMTypeOK
<1>5. NoIP \notin IPs
  BY IPAMAssumption DEF IPs, NoIP
<1>6. LeaseBijection'
  BY <1>1, <1>2, <1>3, <1>5, IPAMAssumption
  DEF IPAMInv, IPAMTypeOK, LeaseBijection, AllocateNew
<1>7. QED
  BY <1>4, <1>6 DEF IPAMInv

(* Reserve, used to restore persisted sessions, moves a peer from its previous
   address to a free one and leaves no trace of the previous one. *)
LEMMA ReserveKeepsInv ==
  ASSUME IPAMInv, NEW p \in Peers, NEW ip \in IPs, Reserve(ip, p)
  PROVE  IPAMInv'
<1>1. NoIP \notin IPs
  BY IPAMAssumption DEF IPs, NoIP
<1>2. IPAMTypeOK'
  BY DEF IPAMInv, IPAMTypeOK, Reserve
<1>3. LeaseBijection'
  BY <1>1, IPAMAssumption DEF IPAMInv, IPAMTypeOK, LeaseBijection, Reserve
<1>4. QED
  BY <1>2, <1>3 DEF IPAMInv

(* Release and ReleaseIP delete both directions of one lease. *)
LEMMA ReleaseKeepsInv ==
  ASSUME IPAMInv, NEW p \in Peers, Release(p)
  PROVE  IPAMInv'
<1>1. NoIP \notin IPs
  BY IPAMAssumption DEF IPs, NoIP
<1>2. IPAMTypeOK'
  BY DEF IPAMInv, IPAMTypeOK, Release
<1>3. LeaseBijection'
  BY <1>1, IPAMAssumption DEF IPAMInv, IPAMTypeOK, LeaseBijection, Release
<1>4. QED
  BY <1>2, <1>3 DEF IPAMInv

(* ReleaseIP frees the address and the peer that had it. *)
LEMMA ReleaseIPKeepsInv ==
  ASSUME IPAMInv, NEW ip \in IPs, ReleaseIP(ip)
  PROVE  IPAMInv'
<1>1. NoIP \notin IPs
  BY IPAMAssumption DEF IPs, NoIP
<1>2. reverse[ip] \in Peers
  BY DEF IPAMInv, IPAMTypeOK, ReleaseIP
<1>3. IPAMTypeOK'
  BY <1>2 DEF IPAMInv, IPAMTypeOK, ReleaseIP
<1>4. LeaseBijection'
  BY <1>1, <1>2, IPAMAssumption DEF IPAMInv, IPAMTypeOK, LeaseBijection, ReleaseIP
<1>5. QED
  BY <1>3, <1>4 DEF IPAMInv

(* Every step of the address manager preserves the invariant. *)
LEMMA IPAMInvStep == IPAMInv /\ [IPAMNext]_ipamVars => IPAMInv'
<1> SUFFICES ASSUME IPAMInv, [IPAMNext]_ipamVars
             PROVE  IPAMInv'
  OBVIOUS
<1>1. CASE UNCHANGED ipamVars
  BY <1>1 DEF IPAMInv, IPAMTypeOK, LeaseBijection, ipamVars
<1>2. ASSUME NEW p \in Peers, AllocateNew(p) PROVE IPAMInv'
  BY <1>2, AllocateKeepsInv
<1>3. ASSUME NEW p \in Peers, Release(p) PROVE IPAMInv'
  BY <1>3, ReleaseKeepsInv
<1>4. ASSUME NEW ip \in IPs, ReleaseIP(ip) PROVE IPAMInv'
  BY <1>4, ReleaseIPKeepsInv
<1>5. ASSUME NEW ip \in IPs, NEW p \in Peers, Reserve(ip, p) PROVE IPAMInv'
  BY <1>5, ReserveKeepsInv
<1>6. QED
  BY <1>1, <1>2, <1>3, <1>4, <1>5 DEF IPAMNext

(* The maps allocated and reverse of the address manager are inverse to each
   other in every reachable state, whatever the peers and the range. *)
THEOREM LeasesAreConsistent == IPAMSpec => [](IPAMTypeOK /\ LeaseBijection)
<1>1. IPAMInit => IPAMInv
  BY IPAMInvInit
<1>2. IPAMInv /\ [IPAMNext]_ipamVars => IPAMInv'
  BY IPAMInvStep
<1>3. QED
  BY <1>1, <1>2, PTL DEF IPAMSpec, IPAMInv

-----------------------------------------------------------------------------
(* When fewer peers than addresses hold leases some address is missing from
   the reverse map: otherwise reverse would inject the range into the leased
   peers. *)
LEMMA CountCheckExact == IPAMInv => ScanFindsFree
<1> SUFFICES ASSUME IPAMInv, Cardinality(Leased) < Total, FreeSteps = {}
             PROVE  FALSE
  BY DEF ScanFindsFree
<1>1. \A ip \in IPs : reverse[ip] # NoPeer
  <2> SUFFICES ASSUME NEW ip \in IPs, reverse[ip] = NoPeer PROVE FALSE
    OBVIOUS
  <2>1. PICK k \in 0 .. Total - 1 : Candidate(k) = ip
    BY ScanIsComplete DEF IPAMInv, IPAMTypeOK
  <2>2. k \in FreeSteps
    BY <2>1 DEF FreeSteps
  <2>3. QED
    BY <2>2
<1>2. reverse \in Injection(IPs, Leased)
  <2>1. NoIP \notin IPs
    BY IPAMAssumption DEF IPs, NoIP
  <2>2. reverse \in [IPs -> Leased]
    BY <1>1, <2>1 DEF IPAMInv, IPAMTypeOK, LeaseBijection, Leased
  <2>3. \A a, b \in IPs : reverse[a] = reverse[b] => a = b
    BY <1>1 DEF IPAMInv, LeaseBijection
  <2>4. QED
    BY <2>2, <2>3 DEF Injection, IsInjective
<1>3. IsFiniteSet(Leased) /\ Cardinality(Leased) \in Nat
  <2>1. Leased \in SUBSET Peers
    BY DEF Leased
  <2>2. QED
    BY <2>1, IPAMAssumption, FS_Subset, FS_CardinalityType
<1>4. Cardinality(IPs) = Total
  BY IPAMAssumption, FS_Interval DEF IPs, Total
<1>5. Cardinality(IPs) <= Cardinality(Leased)
  BY <1>2, <1>3, FS_Injection
<1>6. Total \in Int
  BY IPAMAssumption DEF Total
<1>7. QED
  BY <1>3, <1>4, <1>5, <1>6

(* Allocate never falls through its scan: the exhaustion error is raised by
   the count check alone, exactly when every address of the range is leased. *)
THEOREM ExhaustionIsExact == IPAMSpec => []ScanFindsFree
<1>1. IPAMSpec => []IPAMInv
  <2>1. IPAMInit => IPAMInv
    BY IPAMInvInit
  <2>2. IPAMInv /\ [IPAMNext]_ipamVars => IPAMInv'
    BY IPAMInvStep
  <2>3. QED
    BY <2>1, <2>2, PTL DEF IPAMSpec
<1>2. IPAMInv => ScanFindsFree
  BY CountCheckExact
<1>3. QED
  BY <1>1, <1>2, PTL

(* The maps mirror each other and the count check is exact, in every reachable
   state. *)
THEOREM LeasesAreExact == IPAMSpec => []LeasesExact
  BY LeasesAreConsistent, ExhaustionIsExact, PTL DEF LeasesExact

-----------------------------------------------------------------------------
(* Every step of the address manager is a step of the lease table. *)
LEMMA IPAMStepRefines == IPAMInv /\ [IPAMNext]_ipamVars => [LT!Next]_allocated
<1> SUFFICES ASSUME IPAMInv, [IPAMNext]_ipamVars
             PROVE  [LT!Next]_allocated
  OBVIOUS
<1>1. NoIP \notin IPs
  BY IPAMAssumption DEF IPs, NoIP
<1>2. CASE UNCHANGED ipamVars
  BY <1>2 DEF ipamVars
<1>3. ASSUME NEW p \in Peers, AllocateNew(p) PROVE LT!Grant(p)
  <2>1. PICK k \in FreeSteps : allocated' = [allocated EXCEPT ![p] = Candidate(k)]
    BY <1>3, Zenon DEF AllocateNew
  <2>2. k \in 0 .. Total /\ reverse[Candidate(k)] = NoPeer
    BY IPAMAssumption DEF FreeSteps, Total
  <2>3. Candidate(k) \in IPs
    BY <2>2, CandidateInRange DEF IPAMInv, IPAMTypeOK
  <2>4. \A q \in Peers : allocated[q] # Candidate(k)
    BY <1>1, <2>2, <2>3, IPAMAssumption DEF IPAMInv, LeaseBijection
  <2>5. QED
    BY <2>1, <2>3, <2>4, Zenon DEF LT!Grant
<1>4. ASSUME NEW p \in Peers, Release(p) PROVE LT!Drop(p)
  BY <1>4 DEF Release, LT!Drop
<1>5. ASSUME NEW ip \in IPs, ReleaseIP(ip) PROVE \E p \in Peers : LT!Drop(p)
  <2>1. reverse[ip] \in Peers
    BY <1>5 DEF IPAMInv, IPAMTypeOK, ReleaseIP
  <2>2. QED
    BY <1>5, <2>1, Zenon DEF ReleaseIP, LT!Drop
<1>6. ASSUME NEW ip \in IPs, NEW p \in Peers, Reserve(ip, p) PROVE LT!Grant(p)
  <2>1. \A q \in Peers : allocated[q] # ip
    BY <1>1, <1>6, IPAMAssumption DEF IPAMInv, LeaseBijection, Reserve
  <2>2. QED
    BY <1>6, <2>1, Zenon DEF Reserve, LT!Grant
<1>7. QED
  BY <1>2, <1>3, <1>4, <1>5, <1>6 DEF IPAMNext, LT!Next

(* The address manager implements the lease table: no address is ever held by
   two peers, and a call changes the lease of one peer only. *)
THEOREM IPAMRefinesLeaseTable == IPAMSpec => ImplementsLeaseTable
<1>1. IPAMInit => LT!Init
  BY DEF IPAMInit, LT!Init
<1>2. IPAMInit => IPAMInv
  BY IPAMInvInit
<1>3. IPAMInv /\ [IPAMNext]_ipamVars => IPAMInv'
  BY IPAMInvStep
<1>4. IPAMInv /\ [IPAMNext]_ipamVars => [LT!Next]_allocated
  BY IPAMStepRefines
<1>5. QED
  BY <1>1, <1>2, <1>3, <1>4, PTL DEF IPAMSpec, ImplementsLeaseTable, LT!Spec

-----------------------------------------------------------------------------
(* The session manager *)

\* A row or a session is absent, or complete with an ID already drawn.
Complete(s) ==
    \/ s = NoSession
    \/ /\ s.id \in IDs /\ s.id < nextID /\ s.ip \in IPs /\ s.tunnel \in Tunnels
       /\ s.status # "none"

\* The primary key and the UNIQUE assigned_ip of vpn_sessions.
RowsDistinct ==
    \A p, q \in Peers : (p # q /\ rows[p] # NoSession /\ rows[q] # NoSession)
        => rows[p].ip # rows[q].ip /\ rows[p].id # rows[q].id

\* The row of a peer never carries the ID of another peer's session.
IDsOwned ==
    \A p, q \in Peers : (p # q /\ rows[p] # NoSession /\ q \in Live)
        => rows[p].id # sessionsByPeer[q].id

\* While a peer has both a session and a row, they agree on ID and address.
RowMatches ==
    \A p \in Live : rows[p] # NoSession
        => rows[p].id = sessionsByPeer[p].id /\ rows[p].ip = sessionsByPeer[p].ip

\* The part of the inductive invariant that survives other writers of
\* vpn_sessions, which move a row to another backend.
SMCore ==
    /\ SMTypeOK
    /\ \A p \in Peers : Complete(rows[p]) /\ Complete(sessionsByPeer[p])
    /\ RowsDistinct
    /\ SessionIndexesAgree
    /\ IDsOwned
    /\ RowMatches

\* The inductive invariant of the manager on its own.
SMInv == SMCore /\ RowBacksSession

-----------------------------------------------------------------------------
(* Under the invariant a peer is live exactly when its entry has an ID, and
   the set of live IDs and the set of live peers correspond. *)
LEMMA LiveHasID ==
  ASSUME SMCore, NEW p \in Peers
  PROVE  /\ p \in Live <=> sessionsByPeer[p].id \in IDs
         /\ p \notin Live => sessionsByPeer[p].id = 0
  BY SessionAssumption DEF SMCore, Complete, Live, NoSession, IDs

(* An identifier in the map belongs to the session it names. *)
LEMMA LiveIDIsLive ==
  ASSUME SMCore, NEW i \in LiveIDs
  PROVE  /\ i \in IDs /\ sessionsByID[i] \in Live
         /\ sessionsByPeer[sessionsByID[i]].id = i
<1>1. i \in IDs /\ sessionsByID[i] \in Peers
  BY DEF SMCore, SMTypeOK, LiveIDs
<1>2. sessionsByPeer[sessionsByID[i]].id = i
  BY DEF SMCore, SessionIndexesAgree
<1>3. QED
  BY <1>1, <1>2, LiveHasID

(* A process starts with empty maps over an empty table. *)
LEMMA SMInvInit == SMInit => SMInv
<1> SUFFICES ASSUME SMInit PROVE SMInv
  OBVIOUS
<1>1. IPAMTypeOK
  BY IPAMAssumption DEF SMInit, IPAMInit, IPAMTypeOK, IPs, NoIP
<1>2. NoSession \in VPNSession
  BY SessionAssumption DEF NoSession, VPNSession
<1>3. SMTypeOK
  BY <1>1, <1>2, SessionAssumption DEF SMInit, SMTypeOK, IDs
<1>4. Live = {} /\ LiveIDs = {}
  BY DEF SMInit, Live, LiveIDs
<1>5. QED
  BY <1>3, <1>4
  DEF SMInv, SMCore, SMInit, Complete, RowsDistinct, SessionIndexesAgree, IDsOwned,
      RowMatches, RowBacksSession

-----------------------------------------------------------------------------
(* CreateSession replaces the peer's session and row together; the ID is new
   and the schema has checked the address. *)
LEMMA CreateKeepsCore ==
  ASSUME SMCore, NEW p \in Peers, NEW ip \in IPs, NEW t \in Tunnels,
         CreateSession(p, ip, t), IPAMTypeOK'
  PROVE  SMCore'
<1> DEFINE s == NewSession(ip, t)
<1>1. /\ s.id = nextID /\ s.ip = ip /\ s.tunnel = t /\ s.status = "connected"
      /\ nextID \in IDs /\ s \in VPNSession /\ s # NoSession
  BY SessionAssumption
  DEF SMCore, SMTypeOK, CreateSession, NewSession, VPNSession, IDs, NoSession
<1>2. /\ rows' = [rows EXCEPT ![p] = s]
      /\ sessionsByPeer' = [sessionsByPeer EXCEPT ![p] = s]
      /\ nextID' = nextID + 1 /\ UNCHANGED <<users, tunnels, dbErrors>>
      /\ sessionsByID' = [i \in IDs |-> IF i = nextID THEN p
                                        ELSE IF i = sessionsByPeer[p].id THEN NoPeer
                                        ELSE sessionsByID[i]]
      /\ activeCount' = CountWithout(p) + 1
      /\ CanUpsert(p, s)
  BY <1>1 DEF CreateSession
<1> HIDE DEF s
<1>3. SMTypeOK'
  <2>2. activeCount' \in Int
    BY <1>2 DEF SMCore, SMTypeOK, CountWithout
  <2>3. nextID' \in 1 .. MaxSessionID + 1
    BY <1>1, <1>2, SessionAssumption DEF IDs
  <2>4. QED
    BY <1>1, <1>2, <2>2, <2>3 DEF SMCore, SMTypeOK
<1>4. \A q \in Peers : Complete(rows[q])' /\ Complete(sessionsByPeer[q])'
  <2> SUFFICES ASSUME NEW q \in Peers
               PROVE  Complete(rows[q])' /\ Complete(sessionsByPeer[q])'
    OBVIOUS
  <2>1. nextID \in Int /\ nextID < nextID'
    BY <1>1, <1>2, SessionAssumption DEF IDs
  <2>2. CASE q = p
    BY <1>1, <1>2, <2>1, <2>2 DEF Complete, SMCore, SMTypeOK, IDs
  <2>3. CASE q # p
    BY <1>2, <2>1, <2>3, SessionAssumption DEF Complete, SMCore, SMTypeOK, IDs
  <2>4. QED
    BY <2>2, <2>3
<1>5. RowsDistinct'
  <2>1. \A q \in Peers \ {p} : rows[q] # NoSession => rows[q].id # nextID
    BY SessionAssumption DEF SMCore, SMTypeOK, Complete, IDs
  <2>2. \A q \in Peers \ {p} : rows[q].ip # ip
    BY <1>1, <1>2 DEF CanUpsert
  <2>3. QED
    BY <1>1, <1>2, <2>1, <2>2 DEF SMCore, SMTypeOK, RowsDistinct
<1>6. SessionIndexesAgree'
  <2>1. \A q \in Live \ {p} : /\ sessionsByPeer[q].id \in IDs \ {nextID}
                              /\ sessionsByPeer[q].id # sessionsByPeer[p].id
    <3> SUFFICES ASSUME NEW q \in Live, q # p
                 PROVE  /\ sessionsByPeer[q].id \in IDs \ {nextID}
                        /\ sessionsByPeer[q].id # sessionsByPeer[p].id
      OBVIOUS
    <3>1. sessionsByPeer[q].id \in IDs /\ sessionsByID[sessionsByPeer[q].id] = q
      BY DEF SMCore, SessionIndexesAgree
    <3>2. sessionsByPeer[q].id # nextID
      BY <1>1, SessionAssumption DEF SMCore, Complete, Live, IDs
    <3>3. CASE p \in Live
      BY <3>1, <3>2, <3>3 DEF SMCore, SessionIndexesAgree
    <3>4. CASE p \notin Live
      BY <3>1, <3>2, <3>4, LiveHasID, SessionAssumption DEF IDs
    <3>5. QED
      BY <3>3, <3>4
  <2>2. Live' = Live \cup {p}
    BY <1>1, <1>2 DEF Live, SMCore, SMTypeOK
  <2>3. \A q \in Live' : /\ sessionsByPeer'[q].id \in IDs
                         /\ sessionsByID'[sessionsByPeer'[q].id] = q
    BY <1>1, <1>2, <2>1, <2>2 DEF SMCore, SMTypeOK, SessionIndexesAgree, Live
  <2>4. \A i \in LiveIDs' : sessionsByPeer'[sessionsByID'[i]].id = i
    BY <1>1, <1>2 DEF SMCore, SMTypeOK, SessionIndexesAgree, LiveIDs
  <2>5. QED
    BY <2>3, <2>4 DEF SessionIndexesAgree
<1>7. Live' = Live \cup {p}
  BY <1>1, <1>2 DEF Live, SMCore, SMTypeOK
<1>8. \A q \in Peers : /\ rows[q] # NoSession => rows[q].id # nextID
                       /\ q \in Live => sessionsByPeer[q].id # nextID
  BY SessionAssumption DEF SMCore, SMTypeOK, Complete, IDs, Live
<1>9. IDsOwned'
  BY <1>1, <1>2, <1>7, <1>8 DEF SMCore, SMTypeOK, IDsOwned, Live
<1>10. RowMatches'
  BY <1>1, <1>2, <1>7 DEF SMCore, SMTypeOK, RowMatches, Live
<1>11. QED
  BY <1>3, <1>4, <1>5, <1>6, <1>9, <1>10 DEF SMCore

(* A failing CreateSession only removes the peer's old session. *)
LEMMA CreateFailsKeepsCore ==
  ASSUME SMCore, NEW p \in Peers, NEW ip \in IPs, NEW t \in Tunnels,
         CreateSessionFails(p, ip, t), IPAMTypeOK'
  PROVE  SMCore'
<1>1. /\ sessionsByPeer' = [sessionsByPeer EXCEPT ![p] = NoSession]
      /\ sessionsByID' = [i \in IDs |-> IF i = sessionsByPeer[p].id THEN NoPeer
                                        ELSE sessionsByID[i]]
      /\ activeCount' = CountWithout(p)
      /\ UNCHANGED <<users, tunnels, rows, nextID>>
  BY DEF CreateSessionFails
<1>2. SMTypeOK'
  <2>2. activeCount' \in Int
    BY <1>1 DEF SMCore, SMTypeOK, CountWithout
  <2>3. dbErrors' \in 0 .. MaxDbErrors
    BY SessionAssumption DEF SMCore, SMTypeOK, CreateSessionFails, DbErrors
  <2>4. NoSession \in VPNSession
    BY SessionAssumption DEF NoSession, VPNSession
  <2>5. QED
    BY <1>1, <2>2, <2>3, <2>4 DEF SMCore, SMTypeOK
<1>3. \A q \in Peers : Complete(rows[q])' /\ Complete(sessionsByPeer[q])'
  BY <1>1 DEF SMCore, SMTypeOK, Complete
<1>4. RowsDistinct'
  BY <1>1 DEF SMCore, RowsDistinct
<1>5. Live' = Live \ {p}
  BY <1>1 DEF Live, SMCore, SMTypeOK
<1>6. SessionIndexesAgree'
  <2>1. \A q \in Live' : /\ sessionsByPeer'[q].id \in IDs
                         /\ sessionsByID'[sessionsByPeer'[q].id] = q
    <3> SUFFICES ASSUME NEW q \in Live, q # p
                 PROVE  /\ sessionsByPeer'[q].id \in IDs
                        /\ sessionsByID'[sessionsByPeer'[q].id] = q
      BY <1>5
    <3>1. sessionsByPeer'[q] = sessionsByPeer[q]
      BY <1>1 DEF SMCore, SMTypeOK, Live
    <3>2. sessionsByPeer[q].id \in IDs /\ sessionsByID[sessionsByPeer[q].id] = q
      BY DEF SMCore, SessionIndexesAgree
    <3>3. sessionsByPeer[q].id # sessionsByPeer[p].id
      BY <3>2, LiveHasID DEF SMCore, SessionIndexesAgree
    <3>4. QED
      BY <1>1, <3>1, <3>2, <3>3
  <2>2. \A i \in LiveIDs' : sessionsByPeer'[sessionsByID'[i]].id = i
    BY <1>1 DEF SMCore, SMTypeOK, SessionIndexesAgree, LiveIDs
  <2>3. QED
    BY <2>1, <2>2 DEF SessionIndexesAgree
<1>7. IDsOwned' /\ RowMatches'
  BY <1>1, <1>5 DEF SMCore, SMTypeOK, IDsOwned, RowMatches, Live
<1>8. QED
  BY <1>2, <1>3, <1>4, <1>6, <1>7 DEF SMCore

(* Either way a live session keeps its row. *)
LEMMA CreateKeepsBacking ==
  ASSUME SMInv, NEW p \in Peers, NEW ip \in IPs, NEW t \in Tunnels,
         CreateSession(p, ip, t) \/ CreateSessionFails(p, ip, t)
  PROVE  RowBacksSession'
<1>1. CASE CreateSession(p, ip, t)
  <2>1. /\ rows' = [rows EXCEPT ![p] = NewSession(ip, t)]
        /\ sessionsByPeer' = [sessionsByPeer EXCEPT ![p] = NewSession(ip, t)]
        /\ UNCHANGED <<users, tunnels>>
    BY <1>1 DEF CreateSession
  <2>2. QED
    BY <2>1 DEF SMInv, SMCore, SMTypeOK, RowBacksSession, Live
<1>2. CASE CreateSessionFails(p, ip, t)
  BY <1>2 DEF CreateSessionFails, SMInv, SMCore, SMTypeOK, RowBacksSession, Live
<1>3. QED
  BY <1>1, <1>2

-----------------------------------------------------------------------------
(* What writing live sessions back leaves behind, in whatever order they are
   written: every row is as before or is the live session's own record with
   another status, and IDs and addresses stay distinct. *)
LEMMA UpsertedRows ==
  ASSUME SMCore, NEW S \in SUBSET Live, NEW st \in {"draining", "disconnected"},
         rows' \in Upserted(S, st),
         nextID' = nextID
  PROVE  /\ rows' \in [Peers -> VPNSession]
         /\ \A p \in Peers : Complete(rows[p])'
         /\ RowsDistinct'
         /\ \A p \in Peers : \/ rows'[p] = rows[p]
                             \/ /\ p \in S /\ rows'[p] # NoSession
                                /\ rows'[p].id = sessionsByPeer[p].id
                                /\ rows'[p].ip = sessionsByPeer[p].ip
                                /\ rows'[p].tunnel = sessionsByPeer[p].tunnel
<1> DEFINE w(p) == [sessionsByPeer[p] EXCEPT !.status = st]
<1>1. PICK W \in SUBSET S :
         /\ \A p \in W : CanUpsert(p, sessionsByPeer[p])
         /\ \A p, q \in W : sessionsByPeer[p].ip = sessionsByPeer[q].ip => p = q
         /\ rows' = Written(W, st)
  BY DEF Upserted
<1>2. \A p \in Peers : rows'[p] = IF p \in W THEN w(p) ELSE rows[p]
  BY <1>1 DEF Written
<1>3. \A p \in W : /\ p \in Live /\ p \in Peers
                   /\ w(p) \in VPNSession /\ w(p).id = sessionsByPeer[p].id
                   /\ w(p).ip = sessionsByPeer[p].ip /\ w(p).status = st
                   /\ w(p).tunnel = sessionsByPeer[p].tunnel
  BY <1>1 DEF Live, SMCore, SMTypeOK, VPNSession
<1>4. \A p \in Peers : rows[p] \in VPNSession /\ Complete(rows[p])
  BY DEF SMCore, SMTypeOK
<1>5. \A p \in W : w(p) # NoSession
  BY <1>3 DEF NoSession
<1>6. DOMAIN rows' = Peers /\ rows' = [p \in Peers |-> rows'[p]]
  BY <1>1 DEF Written
<1> HIDE DEF w
<1>7. rows' \in [Peers -> VPNSession]
  BY <1>2, <1>3, <1>4, <1>6
<1>8. \A p \in Peers : Complete(rows[p])'
  <2> SUFFICES ASSUME NEW p \in Peers PROVE Complete(rows[p])'
    OBVIOUS
  <2>1. CASE p \in W
    <3>1. Complete(sessionsByPeer[p]) /\ sessionsByPeer[p] # NoSession
      BY <1>3, <2>1 DEF SMCore, Live
    <3>2. rows'[p] = w(p)
      BY <1>2, <2>1
    <3>3. QED
      BY <1>3, <2>1, <3>1, <3>2 DEF Complete
  <2>2. CASE p \notin W
    BY <1>2, <1>4, <2>2 DEF Complete
  <2>3. QED
    BY <2>1, <2>2
<1>9. RowsDistinct'
  <2> SUFFICES ASSUME NEW p \in Peers, NEW q \in Peers, p # q,
                      rows'[p] # NoSession, rows'[q] # NoSession
               PROVE  rows'[p].ip # rows'[q].ip /\ rows'[p].id # rows'[q].id
    BY DEF RowsDistinct
  <2>1. ASSUME NEW x \in W, NEW y \in Peers \ W, rows[y] # NoSession
        PROVE  w(x).ip # rows[y].ip /\ w(x).id # rows[y].id
    <3>1. rows[y].ip # sessionsByPeer[x].ip
      BY <1>1, <1>3, <2>1 DEF CanUpsert
    <3>2. rows[y].id # sessionsByPeer[x].id
      BY <1>3, <2>1 DEF SMCore, IDsOwned
    <3>3. QED
      BY <1>3, <3>1, <3>2
  <2>2. CASE p \in W /\ q \in W
    <3>1. sessionsByPeer[p].id # sessionsByPeer[q].id
      BY <1>3, <2>2 DEF SMCore, SessionIndexesAgree
    <3>2. sessionsByPeer[p].ip # sessionsByPeer[q].ip
      BY <1>1, <2>2
    <3>3. QED
      BY <1>2, <1>3, <2>2, <3>1, <3>2
  <2>3. CASE p \in W /\ q \notin W
    BY <1>2, <2>1, <2>3
  <2>4. CASE p \notin W /\ q \in W
    BY <1>2, <2>1, <2>4
  <2>5. CASE p \notin W /\ q \notin W
    BY <1>2, <2>5 DEF SMCore, RowsDistinct
  <2>6. QED
    BY <2>2, <2>3, <2>4, <2>5
<1>10. QED
  BY <1>1, <1>2, <1>3, <1>5, <1>7, <1>8, <1>9

(* Ignored write errors stay within the bound of the model. *)
LEMMA ErrorsInBound ==
  ASSUME SMCore, NEW F \in SUBSET Peers, DbErrors(Cardinality(F))
  PROVE  dbErrors' \in 0 .. MaxDbErrors
<1>1. Cardinality(F) \in Nat
  BY IPAMAssumption, FS_Subset, FS_CardinalityType
<1>2. QED
  BY <1>1, SessionAssumption DEF SMCore, SMTypeOK, DbErrors

(* CloseSession and CheckTimeouts: the closed sessions leave both maps, the
   others and their rows are untouched. *)
LEMMA CloseKeepsCore ==
  ASSUME SMCore, NEW I \in SUBSET LiveIDs, NEW F \in SUBSET Peers, Close(I, F)
  PROVE  /\ SMCore'
         /\ RowBacksSession => RowBacksSession'
         /\ UNCHANGED <<users, tunnels, nextID>>
         /\ Live' = Live \ {sessionsByID[i] : i \in I} /\ LiveIDs' = LiveIDs \ I
         /\ \A p \in Live' : sessionsByPeer'[p] = sessionsByPeer[p] /\ rows'[p] = rows[p]
         /\ \A p \in Peers : \/ rows'[p] = rows[p]
                             \/ p \in Live /\ rows'[p].id = sessionsByPeer[p].id
<1> DEFINE S == {sessionsByID[i] : i \in I}
<1>1. S \subseteq Live
  BY LiveIDIsLive
<1>2. /\ rows' \in Upserted(S \ F, "disconnected")
      /\ DbErrors(Cardinality(F))
      /\ allocated' = [p \in Peers |-> IF p \in S THEN NoIP ELSE allocated[p]]
      /\ reverse' = [a \in IPs |-> IF \E p \in S : allocated[p] = a THEN NoPeer
                                   ELSE reverse[a]]
      /\ sessionsByID' = [i \in IDs |-> IF i \in I THEN NoPeer ELSE sessionsByID[i]]
      /\ sessionsByPeer' = [p \in Peers |-> IF p \in S THEN NoSession ELSE sessionsByPeer[p]]
      /\ activeCount' = activeCount - Cardinality(I)
      /\ UNCHANGED <<cursor, users, tunnels, nextID>>
  BY DEF Close
<1>3. S \ F \in SUBSET Live
  BY <1>1
<1>4. /\ rows' \in [Peers -> VPNSession]
      /\ \A p \in Peers : Complete(rows[p])'
      /\ RowsDistinct'
      /\ \A p \in Peers : \/ rows'[p] = rows[p]
                          \/ p \in S /\ rows'[p].id = sessionsByPeer[p].id
  BY <1>2, <1>3, UpsertedRows
<1>5. \A i \in IDs : i \in I <=> (sessionsByID[i] \in S /\ sessionsByID[i] # NoPeer)
  BY <1>1, LiveIDIsLive, IPAMAssumption DEF Live, LiveIDs
<1> HIDE DEF S
<1>6. SMTypeOK'
  <2>1. IPAMTypeOK'
    BY <1>2 DEF SMCore, SMTypeOK, IPAMTypeOK
  <2>2. activeCount' \in Int
    <3>1. IsFiniteSet(IDs) /\ I \in SUBSET IDs
      BY SessionAssumption, FS_Interval DEF IDs, LiveIDs
    <3>2. Cardinality(I) \in Nat
      BY <3>1, FS_Subset, FS_CardinalityType
    <3>3. QED
      BY <1>2, <3>2 DEF SMCore, SMTypeOK
  <2>3. NoSession \in VPNSession
    BY SessionAssumption DEF NoSession, VPNSession
  <2>4. sessionsByPeer' \in [Peers -> VPNSession]
    BY <1>2, <2>3 DEF SMCore, SMTypeOK
  <2>5. sessionsByID' \in [IDs -> Peers \cup {NoPeer}]
    BY <1>2 DEF SMCore, SMTypeOK
  <2>6. dbErrors' \in 0 .. MaxDbErrors
    BY <1>2, ErrorsInBound
  <2>7. QED
    BY <1>2, <1>4, <2>1, <2>2, <2>4, <2>5, <2>6 DEF SMCore, SMTypeOK
<1>7. \A p \in Peers : Complete(rows[p])' /\ Complete(sessionsByPeer[p])'
  BY <1>2, <1>4, Zenon DEF SMCore, Complete
<1>8. SessionIndexesAgree'
  BY <1>1, <1>2, <1>5 DEF SMCore, SMTypeOK, SessionIndexesAgree, Live, LiveIDs
<1>9. Live' = Live \ S /\ \A p \in Live' : sessionsByPeer'[p] = sessionsByPeer[p]
                                         /\ rows'[p] = rows[p]
  BY <1>2, <1>4, Zenon DEF Live
<1>10. \A p, q \in Live : sessionsByPeer[p].id = sessionsByPeer[q].id => p = q
  BY DEF SMCore, SessionIndexesAgree
<1>11. IDsOwned'
  <2> SUFFICES ASSUME NEW p \in Peers, NEW q \in Live', p # q, rows'[p] # NoSession
               PROVE  rows'[p].id # sessionsByPeer'[q].id
    BY DEF IDsOwned
  <2>1. q \in Live /\ q \notin S /\ q \in Peers /\ sessionsByPeer'[q] = sessionsByPeer[q]
    BY <1>9 DEF Live
  <2>2. CASE rows'[p] = rows[p]
    BY <2>1, <2>2 DEF SMCore, IDsOwned
  <2>3. CASE p \in S /\ rows'[p].id = sessionsByPeer[p].id
    BY <1>1, <1>10, <2>1, <2>3
  <2>4. QED
    BY <1>4, <2>2, <2>3
<1>12. RowMatches'
  BY <1>9 DEF SMCore, RowMatches
<1>13. RowBacksSession => RowBacksSession'
  <2>1. users' = users /\ tunnels' = tunnels /\ \A p \in Live' : p \in Live
    BY <1>2, <1>9
  <2>2. QED
    BY <1>9, <2>1 DEF RowBacksSession
<1>14. LiveIDs' = LiveIDs \ I
  BY <1>2 DEF LiveIDs
<1>15. UNCHANGED <<users, tunnels, nextID>>
  BY <1>2
<1>16. SMCore'
  BY <1>4, <1>6, <1>7, <1>8, <1>11, <1>12 DEF SMCore
<1>17. QED
  BY <1>1, <1>4, <1>9, <1>13, <1>14, <1>15, <1>16 DEF S

(* Drain marks every session, in memory and in its row, and moves nothing. *)
LEMMA DrainKeepsCore ==
  ASSUME SMCore, Drain
  PROVE  /\ SMCore'
         /\ RowBacksSession => RowBacksSession'
         /\ Live' = Live /\ UNCHANGED <<users, tunnels, sessionsByID, nextID>>
         /\ \A p \in Peers : /\ sessionsByPeer'[p].id = sessionsByPeer[p].id
                             /\ sessionsByPeer'[p].ip = sessionsByPeer[p].ip
                             /\ sessionsByPeer'[p].tunnel = sessionsByPeer[p].tunnel
                             /\ rows[p] # NoSession => rows'[p] # NoSession
                             /\ \/ rows'[p] = rows[p]
                                \/ p \in Live /\ rows'[p].id = sessionsByPeer[p].id
<1> DEFINE drained(p) == [sessionsByPeer[p] EXCEPT !.status = "draining"]
           S == {sessionsByID[i] : i \in LiveIDs}
<1>1. S = Live
  <2>1. S \subseteq Live
    BY LiveIDIsLive
  <2>2. ASSUME NEW p \in Live PROVE p \in S
    <3>1. /\ sessionsByPeer[p].id \in IDs /\ sessionsByID[sessionsByPeer[p].id] = p
      BY DEF SMCore, SessionIndexesAgree
    <3>2. p \in Peers
      BY DEF Live
    <3>3. sessionsByPeer[p].id \in LiveIDs
      BY <3>1, <3>2, IPAMAssumption DEF LiveIDs
    <3>4. QED
      BY <3>1, <3>3
  <2>3. QED
    BY <2>1, <2>2
<1>2. PICK F \in SUBSET S : /\ rows' \in Upserted(S \ F, "draining")
                            /\ DbErrors(Cardinality(F))
  BY Zenon DEF Drain
<1>3. /\ sessionsByPeer' = [p \in Peers |-> IF p \in S THEN drained(p) ELSE sessionsByPeer[p]]
      /\ UNCHANGED <<ipamVars, users, tunnels, sessionsByID, activeCount, nextID>>
  BY DEF Drain
<1>4. S \ F \in SUBSET Live /\ F \in SUBSET Peers
  BY <1>1, <1>2 DEF Live
<1>5. /\ rows' \in [Peers -> VPNSession]
      /\ \A p \in Peers : Complete(rows[p])'
      /\ RowsDistinct'
      /\ \A p \in Peers : \/ rows'[p] = rows[p]
                          \/ /\ p \in Live /\ rows'[p] # NoSession
                             /\ rows'[p].id = sessionsByPeer[p].id
                             /\ rows'[p].ip = sessionsByPeer[p].ip
                             /\ rows'[p].tunnel = sessionsByPeer[p].tunnel
  <2>1. rows' \in Upserted(S \ F, "draining")
    BY <1>2
  <2>2. QED
    BY <1>3, <1>4, <2>1, UpsertedRows
<1>6. \A p \in Live : /\ drained(p) \in VPNSession /\ drained(p) # NoSession
                      /\ drained(p).id = sessionsByPeer[p].id
                      /\ drained(p).ip = sessionsByPeer[p].ip
                      /\ drained(p).tunnel = sessionsByPeer[p].tunnel
                      /\ drained(p).status = "draining"
  BY Zenon DEF Live, SMCore, SMTypeOK, VPNSession, NoSession
<1> HIDE DEF drained, S
<1>7. Live' = Live
  BY <1>1, <1>3, <1>6 DEF Live
<1>8. SMTypeOK'
  <2>1. IPAMTypeOK'
    BY <1>3 DEF SMCore, SMTypeOK, IPAMTypeOK, ipamVars
  <2>2. dbErrors' \in 0 .. MaxDbErrors
    BY <1>2, <1>4, ErrorsInBound
  <2>3. sessionsByPeer' \in [Peers -> VPNSession]
    BY <1>1, <1>3, <1>6 DEF SMCore, SMTypeOK
  <2>4. QED
    BY <1>3, <1>5, <2>1, <2>2, <2>3 DEF SMCore, SMTypeOK
<1>9. \A p \in Peers : Complete(rows[p])' /\ Complete(sessionsByPeer[p])'
  BY <1>1, <1>3, <1>5, <1>6 DEF SMCore, Complete, Live
<1>10. \A p \in Peers : sessionsByPeer'[p].id = sessionsByPeer[p].id
                        /\ sessionsByPeer'[p].ip = sessionsByPeer[p].ip
                        /\ sessionsByPeer'[p].tunnel = sessionsByPeer[p].tunnel
  BY <1>1, <1>3, <1>6
<1>11. SessionIndexesAgree'
  BY <1>3, <1>7, <1>10, Zenon DEF SMCore, SMTypeOK, SessionIndexesAgree, Live, LiveIDs
<1>12. \A p, q \in Live : sessionsByPeer[p].id = sessionsByPeer[q].id => p = q
  BY DEF SMCore, SessionIndexesAgree
<1>13. IDsOwned'
  <2> SUFFICES ASSUME NEW p \in Peers, NEW q \in Live, p # q, rows'[p] # NoSession
               PROVE  rows'[p].id # sessionsByPeer'[q].id
    BY <1>7 DEF IDsOwned
  <2>1. q \in Peers /\ sessionsByPeer'[q].id = sessionsByPeer[q].id
    BY <1>10 DEF Live
  <2>2. CASE rows'[p] = rows[p]
    BY <2>1, <2>2 DEF SMCore, IDsOwned
  <2>3. CASE p \in Live /\ rows'[p].id = sessionsByPeer[p].id
    BY <1>12, <2>1, <2>3
  <2>4. QED
    BY <1>5, <2>2, <2>3
<1>14. RowMatches' /\ (RowBacksSession => RowBacksSession')
  <2>1. ASSUME NEW p \in Live
        PROVE  /\ rows'[p] # NoSession => /\ rows'[p].id = sessionsByPeer'[p].id
                                          /\ rows'[p].ip = sessionsByPeer'[p].ip
               /\ (RowBacksSession /\ Owner[p] \in users' /\ sessionsByPeer'[p].tunnel \in tunnels')
                    => /\ rows'[p].id = sessionsByPeer'[p].id
                       /\ rows'[p].ip = sessionsByPeer'[p].ip
                       /\ rows'[p].tunnel = sessionsByPeer'[p].tunnel
    <3>1. p \in Peers
      BY SMTT(30) DEF Live
    <3>2. CASE rows'[p] = rows[p]
      BY <1>3, <1>10, <3>1, <3>2 DEF SMCore, RowMatches, RowBacksSession
    <3>3. CASE /\ rows'[p].id = sessionsByPeer[p].id
               /\ rows'[p].ip = sessionsByPeer[p].ip
               /\ rows'[p].tunnel = sessionsByPeer[p].tunnel
      BY <1>10, <3>1, <3>3
    <3>4. QED
      BY <1>5, <3>1, <3>2, <3>3
  <2>2. RowMatches'
    BY <1>7, <2>1 DEF RowMatches
  <2>3. RowBacksSession => RowBacksSession'
    BY <1>7, <2>1 DEF RowBacksSession
  <2>4. QED
    BY <2>2, <2>3
<1>15. QED
  BY <1>3, <1>5, <1>7, <1>8, <1>9, <1>10, <1>11, <1>13, <1>14, Zenon DEF SMCore

(* A restart rebuilds the maps from the connected rows, whose IDs and
   addresses are distinct. *)
LEMMA RestartKeepsCore ==
  ASSUME SMCore, Restart
  PROVE  SMCore' /\ RowBacksSession'
<1>1. /\ sessionsByPeer' = [p \in Peers |-> IF p \in Restored THEN rows[p] ELSE NoSession]
      /\ sessionsByID' = [i \in IDs |-> IF \E p \in Restored : rows[p].id = i
                                        THEN CHOOSE p \in Restored : rows[p].id = i
                                        ELSE NoPeer]
      /\ activeCount' = Cardinality(Restored) /\ cursor' = startIP
      /\ UNCHANGED <<dbVars, nextID, dbErrors>>
  BY DEF Restart
<1>2. \A p \in Restored : /\ p \in Peers /\ rows[p] # NoSession
                          /\ rows[p].id \in IDs
  BY DEF Restored, NoSession, SMCore, Complete
<1>3. \A p, q \in Restored : rows[p].id = rows[q].id => p = q
  BY <1>2 DEF SMCore, RowsDistinct
<1>4. \A p \in Restored : sessionsByID'[rows[p].id] = p
  <2> SUFFICES ASSUME NEW p \in Restored
               PROVE  sessionsByID'[rows[p].id] = p
    OBVIOUS
  <2> DEFINE c == CHOOSE q \in Restored : rows[q].id = rows[p].id
  <2>1. c \in Restored /\ rows[c].id = rows[p].id
    OBVIOUS
  <2>2. c = p
    BY <2>1, <1>3
  <2>3. sessionsByID'[rows[p].id] = c
    BY <1>1, <1>2
  <2>4. QED
    BY <2>2, <2>3
<1>5. \A i \in IDs : sessionsByID'[i] # NoPeer =>
         sessionsByID'[i] \in Restored /\ rows[sessionsByID'[i]].id = i
  BY <1>1
<1>6. Live' = Restored
  BY <1>1, <1>2 DEF Live
<1>7. SMTypeOK'
  <2>1. cursor' \in IPs /\ allocated' \in [Peers -> IPs \cup {NoIP}]
    BY <1>1, IPAMAssumption DEF Restart, IPs, SMCore, SMTypeOK, VPNSession
  <2>2. reverse' \in [IPs -> Peers \cup {NoPeer}]
    <3>1. \A a \in IPs : (\E p \in Restored : rows[p].ip = a)
                           => (CHOOSE p \in Restored : rows[p].ip = a) \in Peers
      BY <1>2
    <3>2. QED
      BY <3>1 DEF Restart
  <2>3. NoSession \in VPNSession
    BY SessionAssumption DEF NoSession, VPNSession
  <2>4. sessionsByPeer' \in [Peers -> VPNSession]
    BY <1>1, <2>3 DEF SMCore, SMTypeOK
  <2>5. sessionsByID' \in [IDs -> Peers \cup {NoPeer}]
    BY <1>1, <1>2, <1>5
  <2>6. activeCount' \in Int
    <3>1. Restored \in SUBSET Peers
      BY DEF Restored
    <3>2. QED
      BY <1>1, <3>1, IPAMAssumption, FS_Subset, FS_CardinalityType
  <2>7. QED
    BY <1>1, <2>1, <2>2, <2>4, <2>5, <2>6 DEF SMCore, SMTypeOK, IPAMTypeOK, dbVars
<1>8. \A p \in Peers : Complete(rows[p])' /\ Complete(sessionsByPeer[p])'
  BY <1>1, SMTT(30) DEF SMCore, Complete, dbVars
<1>9. RowsDistinct'
  BY <1>1 DEF SMCore, RowsDistinct, dbVars
<1>10. SessionIndexesAgree'
  BY <1>1, <1>2, <1>4, <1>5, <1>6 DEF SessionIndexesAgree, LiveIDs
<1>11. RowBacksSession' /\ RowMatches'
  BY <1>1, <1>2, <1>6 DEF RowBacksSession, RowMatches, dbVars
<1>12. IDsOwned'
  BY <1>1, <1>2, <1>6, SMTT(30) DEF SMCore, RowsDistinct, IDsOwned, dbVars
<1>13. QED
  BY <1>7, <1>8, <1>9, <1>10, <1>11, <1>12 DEF SMCore

(* A restart that cannot read the rows starts from empty maps. *)
LEMMA UnsyncedKeepsCore ==
  ASSUME SMCore, RestartUnsynced
  PROVE  SMCore' /\ RowBacksSession' /\ LeaseBijection' /\ ActiveCountExact'
<1>1. /\ sessionsByPeer' = [p \in Peers |-> NoSession]
      /\ sessionsByID' = [i \in IDs |-> NoPeer]
      /\ activeCount' = 0 /\ cursor' = startIP
      /\ allocated' = [p \in Peers |-> NoIP] /\ reverse' = [a \in IPs |-> NoPeer]
      /\ UNCHANGED <<users, tunnels, rows, nextID>>
  BY DEF RestartUnsynced, dbVars
<1>2. dbErrors' \in 0 .. MaxDbErrors
  BY SessionAssumption DEF RestartUnsynced, DbErrors, SMCore, SMTypeOK
<1>3. NoSession \in VPNSession
  BY SessionAssumption DEF NoSession, VPNSession
<1>4. IPAMTypeOK' /\ LeaseBijection'
  BY <1>1, IPAMAssumption DEF IPAMTypeOK, LeaseBijection, IPs, NoIP
<1>5. SMTypeOK'
  BY <1>1, <1>2, <1>3, <1>4 DEF SMCore, SMTypeOK
<1>6. Live' = {} /\ LiveIDs' = {}
  BY <1>1 DEF Live, LiveIDs
<1>7. \A p \in Peers : Complete(rows[p])' /\ Complete(sessionsByPeer[p])'
  BY <1>1, SMTT(30) DEF SMCore, Complete
<1>8. /\ RowsDistinct' /\ SessionIndexesAgree' /\ RowBacksSession'
      /\ IDsOwned' /\ RowMatches'
  BY <1>1, <1>6, Zenon DEF SMCore, RowsDistinct, SessionIndexesAgree, RowBacksSession, IDsOwned,
                    RowMatches
<1>9. ActiveCountExact'
  BY <1>1, <1>6, FS_EmptySet DEF ActiveCountExact
<1>10. QED
  BY <1>4, <1>5, <1>7, <1>8, <1>9, Zenon DEF SMCore

(* The cascade of a deleted user takes the rows of sessions that RowBacksSession
   no longer speaks of. *)
LEMMA DeleteUserKeepsCore ==
  ASSUME SMCore, NEW u \in Users, DeleteUser(u)
  PROVE  SMCore' /\ (RowBacksSession => RowBacksSession')
<1>1. /\ users' = users \ {u}
      /\ rows' = [p \in Peers |-> IF Owner[p] = u THEN NoSession ELSE rows[p]]
      /\ UNCHANGED <<cursor, allocated, reverse, tunnels, sessionsByPeer, sessionsByID,
                     activeCount, nextID, dbErrors>>
  BY DEF DeleteUser, ipamVars, sessionVars
<1>2. NoSession \in VPNSession
  BY SessionAssumption DEF NoSession, VPNSession
<1>3. SMTypeOK'
  BY <1>1, <1>2 DEF SMCore, SMTypeOK, IPAMTypeOK
<1>4. \A p \in Peers : Complete(rows[p])' /\ Complete(sessionsByPeer[p])'
  BY <1>1, SMTT(30) DEF SMCore, Complete
<1>5. RowsDistinct' /\ SessionIndexesAgree'
  BY <1>1, Zenon DEF SMCore, RowsDistinct, SessionIndexesAgree, Live, LiveIDs
<1>6. RowBacksSession => RowBacksSession'
  BY <1>1 DEF RowBacksSession, Live
<1>7. IDsOwned' /\ RowMatches'
  BY <1>1 DEF SMCore, IDsOwned, RowMatches, Live
<1>8. QED
  BY <1>3, <1>4, <1>5, <1>6, <1>7 DEF SMCore

(* The same for a deleted server: the rows that go name its backend, and by
   RowBacksSession so do their sessions. *)
LEMMA DeleteServerKeepsCore ==
  ASSUME SMCore, NEW t \in Tunnels, DeleteServer(t)
  PROVE  SMCore' /\ (RowBacksSession => RowBacksSession')
<1>1. /\ tunnels' = tunnels \ {t}
      /\ rows' = [p \in Peers |-> IF rows[p].tunnel = t THEN NoSession ELSE rows[p]]
      /\ UNCHANGED <<cursor, allocated, reverse, users, sessionsByPeer, sessionsByID,
                     activeCount, nextID, dbErrors>>
  BY DEF DeleteServer, ipamVars, sessionVars
<1>2. NoSession \in VPNSession
  BY SessionAssumption DEF NoSession, VPNSession
<1>3. SMTypeOK'
  BY <1>1, <1>2 DEF SMCore, SMTypeOK, IPAMTypeOK
<1>4. \A p \in Peers : Complete(rows[p])' /\ Complete(sessionsByPeer[p])'
  BY <1>1, SMTT(30) DEF SMCore, Complete
<1>5. RowsDistinct' /\ SessionIndexesAgree'
  BY <1>1 DEF SMCore, RowsDistinct, SessionIndexesAgree, Live, LiveIDs
<1>6. RowBacksSession => RowBacksSession'
  BY <1>1 DEF RowBacksSession, Live
<1>7. IDsOwned' /\ RowMatches'
  BY <1>1 DEF SMCore, IDsOwned, RowMatches, Live
<1>8. QED
  BY <1>3, <1>4, <1>5, <1>6, <1>7 DEF SMCore

(* The address manager alone does not touch the sessions. *)
LEMMA LeaseStepKeepsCore ==
  ASSUME SMCore, IPAMTypeOK', dbErrors' \in 0 .. MaxDbErrors, UNCHANGED <<dbVars, sessionVars>>
  PROVE  SMCore' /\ (RowBacksSession => RowBacksSession') /\ Live' = Live
<1>1. UNCHANGED <<users, tunnels, rows, sessionsByPeer, sessionsByID, activeCount, nextID>>
  BY DEF dbVars, sessionVars
<1>2. SMTypeOK'
  BY <1>1 DEF SMCore, SMTypeOK
<1>3. Live' = Live
  BY <1>1, SMTT(30) DEF Live
<1>4. SMCore'
  BY <1>1, <1>2, <1>3 DEF SMCore, Complete, RowsDistinct, SessionIndexesAgree,
                          IDsOwned, RowMatches, Live, LiveIDs
<1>5. QED
  BY <1>1, <1>3, <1>4 DEF RowBacksSession

-----------------------------------------------------------------------------
(* The leases under the sessions: a closing session gives up its lease in both
   maps of the address manager. *)
LEMMA CloseKeepsLeases ==
  ASSUME SMCore, LeaseBijection, NEW I \in SUBSET LiveIDs, NEW F, Close(I, F)
  PROVE  LeaseBijection'
<1> DEFINE S == {sessionsByID[i] : i \in I}
<1>1. /\ allocated' = [p \in Peers |-> IF p \in S THEN NoIP ELSE allocated[p]]
      /\ reverse' = [a \in IPs |-> IF \E p \in S : allocated[p] = a THEN NoPeer
                                   ELSE reverse[a]]
  BY Zenon DEF Close
<1>2. S \subseteq Peers
  BY LiveIDIsLive DEF Live
<1> HIDE DEF S
<1>3. NoIP \notin IPs
  BY IPAMAssumption DEF IPs, NoIP
<1>4. QED
  BY <1>1, <1>2, <1>3 DEF LeaseBijection, SMCore, SMTypeOK, IPAMTypeOK

(* Reserving the addresses of the connected rows after a restart rebuilds
   inverse maps, because the addresses of rows are distinct. *)
LEMMA RestartKeepsLeases ==
  ASSUME SMCore, Restart
  PROVE  LeaseBijection'
<1>1. /\ allocated' = [p \in Peers |-> IF p \in Restored THEN rows[p].ip ELSE NoIP]
      /\ reverse' = [a \in IPs |-> IF \E p \in Restored : rows[p].ip = a
                                   THEN CHOOSE p \in Restored : rows[p].ip = a
                                   ELSE NoPeer]
  BY DEF Restart
<1>2. \A p \in Restored : p \in Peers /\ rows[p] # NoSession /\ rows[p].ip \in IPs
  BY DEF Restored, NoSession, SMCore, Complete
<1>3. \A p, q \in Restored : rows[p].ip = rows[q].ip => p = q
  BY <1>2 DEF SMCore, RowsDistinct
<1>4. \A p \in Restored : reverse'[rows[p].ip] = p
  <2> SUFFICES ASSUME NEW p \in Restored
               PROVE  reverse'[rows[p].ip] = p
    OBVIOUS
  <2> DEFINE c == CHOOSE q \in Restored : rows[q].ip = rows[p].ip
  <2>1. c \in Restored /\ rows[c].ip = rows[p].ip
    OBVIOUS
  <2>2. c = p
    BY <2>1, <1>3
  <2>3. reverse'[rows[p].ip] = c
    BY <1>1, <1>2
  <2>4. QED
    BY <2>2, <2>3
<1>5. \A a \in IPs : reverse'[a] # NoPeer =>
         reverse'[a] \in Restored /\ rows[reverse'[a]].ip = a
  BY <1>1
<1>6. QED
  BY <1>1, <1>2, <1>4, <1>5 DEF LeaseBijection

-----------------------------------------------------------------------------
(* The counter.  CreateSession and its failure change it by what the set of
   live peers gains or loses. *)
LEMMA LiveIsFinite == IsFiniteSet(Live) /\ Cardinality(Live) \in Nat
<1>1. Live \in SUBSET Peers
  BY DEF Live
<1>2. QED
  BY <1>1, IPAMAssumption, FS_Subset, FS_CardinalityType

(* CreateSession counts the new session and not the one it replaces. *)
LEMMA CreateKeepsCount ==
  ASSUME SMCore, ActiveCountExact, NEW p \in Peers, NEW ip \in IPs, NEW t \in Tunnels,
         CreateSession(p, ip, t)
  PROVE  ActiveCountExact'
<1>1. NewSession(ip, t) # NoSession
  BY SessionAssumption, SMTT(30) DEF NewSession, NoSession
<1>2. sessionsByPeer' = [sessionsByPeer EXCEPT ![p] = NewSession(ip, t)]
  BY Zenon DEF CreateSession
<1>3. Live' = Live \cup {p}
  BY <1>1, <1>2 DEF Live, SMCore, SMTypeOK
<1>4. activeCount' = CountWithout(p) + 1
  BY DEF CreateSession
<1>5. QED
  BY <1>3, <1>4, LiveIsFinite, FS_AddElement, SMTT(30) DEF ActiveCountExact, CountWithout

(* A session that could not be written is not counted. *)
LEMMA CreateFailsKeepsCount ==
  ASSUME SMCore, ActiveCountExact, NEW p \in Peers, NEW ip, NEW t,
         CreateSessionFails(p, ip, t)
  PROVE  ActiveCountExact'
<1>1. sessionsByPeer' = [sessionsByPeer EXCEPT ![p] = NoSession]
  BY DEF CreateSessionFails
<1>2. Live' = Live \ {p}
  BY <1>1 DEF Live, SMCore, SMTypeOK
<1>3. activeCount' = CountWithout(p)
  BY DEF CreateSessionFails
<1>4. QED
  BY <1>2, <1>3, LiveIsFinite, FS_RemoveElement, SMTT(30) DEF ActiveCountExact, CountWithout

(* Closing: as many peers leave as IDs, because an ID names one peer and a peer
   has one ID. *)
LEMMA CloseKeepsCount ==
  ASSUME SMCore, ActiveCountExact, NEW I \in SUBSET LiveIDs, NEW F, Close(I, F)
  PROVE  ActiveCountExact'
<1> DEFINE S == {sessionsByID[i] : i \in I}
           f == [i \in I |-> sessionsByID[i]]
<1>1. /\ sessionsByPeer' = [p \in Peers |-> IF p \in S THEN NoSession ELSE sessionsByPeer[p]]
      /\ activeCount' = activeCount - Cardinality(I)
  BY DEF Close
<1>2. IsFiniteSet(I)
  <2>1. IsFiniteSet(IDs) /\ I \in SUBSET IDs
    BY SessionAssumption, FS_Interval DEF IDs, LiveIDs
  <2>2. QED
    BY <2>1, FS_Subset
<1>3. f \in Bijection(I, S)
  <2>1. \A i, j \in I : f[i] = f[j] => i = j
    BY LiveIDIsLive
  <2>2. f \in [I -> S] /\ \A y \in S : \E i \in I : f[i] = y
    OBVIOUS
  <2>3. QED
    BY <2>1, <2>2 DEF Bijection, Injection, Surjection, IsInjective
<1>4. Cardinality(S) = Cardinality(I)
  <2>1. ExistsBijection(I, S)
    BY <1>3 DEF ExistsBijection
  <2>2. QED
    BY <1>2, <2>1, FS_Bijection
<1>5. S \subseteq Live
  BY LiveIDIsLive
<1> HIDE DEF S, f
<1>6. Live' = Live \ S /\ Live \cap S = S
  BY <1>1, <1>5 DEF Live
<1>7. Cardinality(Live \ S) = Cardinality(Live) - Cardinality(Live \cap S)
  BY LiveIsFinite, FS_Difference
<1>8. QED
  BY <1>1, <1>4, <1>6, <1>7, SMTT(30) DEF ActiveCountExact

(* Draining changes the status of sessions, not their number. *)
LEMMA DrainKeepsCount ==
  ASSUME SMCore, ActiveCountExact, Drain
  PROVE  ActiveCountExact'
<1> DEFINE S == {sessionsByID[i] : i \in LiveIDs}
<1>1. S \subseteq Live
  BY LiveIDIsLive
<1>2. \A p \in Live : [sessionsByPeer[p] EXCEPT !.status = "draining"] # NoSession
  BY DEF Live, SMCore, SMTypeOK, VPNSession, NoSession
<1>3. /\ sessionsByPeer' = [p \in Peers |-> IF p \in S
                               THEN [sessionsByPeer[p] EXCEPT !.status = "draining"]
                               ELSE sessionsByPeer[p]]
      /\ activeCount' = activeCount
  BY DEF Drain
<1> HIDE DEF S
<1>4. Live' = Live
  BY <1>1, <1>2, <1>3 DEF Live
<1>5. QED
  BY <1>3, <1>4 DEF ActiveCountExact

(* After a restart the restored sessions are counted. *)
LEMMA RestartKeepsCount ==
  ASSUME SMCore, Restart
  PROVE  ActiveCountExact'
<1>1. /\ sessionsByPeer' = [p \in Peers |-> IF p \in Restored THEN rows[p] ELSE NoSession]
      /\ activeCount' = Cardinality(Restored)
  BY DEF Restart
<1>2. Live' = Restored
  BY <1>1 DEF Live, Restored, NoSession
<1>3. QED
  BY <1>1, <1>2 DEF ActiveCountExact

-----------------------------------------------------------------------------
(* The invariant with the leases and the counter, preserved by every step; what
   backs the sessions by rows is kept apart, for other writers disturb it. *)
SMBase == SMCore /\ LeaseBijection /\ ActiveCountExact
SMFullInv == SMBase /\ RowBacksSession

(* The manager starts in the invariant. *)
LEMMA SMFullInvInit == SMInit => SMFullInv
<1> SUFFICES ASSUME SMInit PROVE SMFullInv
  OBVIOUS
<1>1. SMInv
  BY SMInvInit
<1>2. LeaseBijection
  BY IPAMInvInit DEF SMInit, IPAMInv
<1>3. Live = {}
  BY DEF SMInit, Live
<1>4. ActiveCountExact
  BY <1>3, FS_EmptySet DEF SMInit, ActiveCountExact
<1>5. QED
  BY <1>1, <1>2, <1>4 DEF SMFullInv, SMBase, SMInv

(* Closing a set of live sessions, whichever of their writes fail. *)
LEMMA CloseKeepsBase ==
  ASSUME SMBase, NEW I \in SUBSET LiveIDs, NEW F \in SUBSET {sessionsByID[i] : i \in I},
         Close(I, F)
  PROVE  SMBase' /\ (RowBacksSession => RowBacksSession')
<1>1. SMCore /\ LeaseBijection /\ ActiveCountExact
  BY DEF SMBase
<1>2. F \in SUBSET Peers
  BY <1>1, LiveIDIsLive DEF Live
<1>3. QED
  BY <1>1, <1>2, CloseKeepsCore, CloseKeepsLeases, CloseKeepsCount DEF SMBase

(* Every step keeps the invariant, and the backing by rows where it held. *)
LEMMA SMBaseStep ==
  ASSUME SMBase, [SMNext]_smVars
  PROVE  SMBase' /\ (RowBacksSession => RowBacksSession')
<1> DEFINE Goal == SMBase' /\ (RowBacksSession => RowBacksSession')
<1>0. SMCore /\ LeaseBijection /\ ActiveCountExact /\ IPAMInv /\ IPAMTypeOK
      /\ dbErrors \in 0 .. MaxDbErrors
  BY DEF SMBase, SMCore, SMTypeOK, IPAMInv
<1>1. ASSUME NEW p \in Peers, NEW ip \in IPs, NEW t \in Tunnels,
             CreateSession(p, ip, t) \/ CreateSessionFails(p, ip, t), UNCHANGED ipamVars
      PROVE  Goal
  <2>1. IPAMTypeOK' /\ LeaseBijection'
    BY <1>0, <1>1 DEF IPAMTypeOK, LeaseBijection, ipamVars
  <2>2. SMCore'
    BY <1>0, <1>1, <2>1, CreateKeepsCore, CreateFailsKeepsCore
  <2>3. ActiveCountExact'
    BY <1>0, <1>1, CreateKeepsCount, CreateFailsKeepsCount
  <2>4. RowBacksSession => RowBacksSession'
    BY <1>0, <1>1, CreateKeepsBacking DEF SMInv
  <2>5. QED
    BY <2>1, <2>2, <2>3, <2>4 DEF SMBase
<1>3. ASSUME NEW i \in IDs, CloseSession(i)
      PROVE  Goal
  <2>1. {i} \in SUBSET LiveIDs
    BY <1>3 DEF CloseSession
  <2>2. PICK F \in SUBSET {sessionsByID[i]} : Close({i}, F)
    BY <1>3 DEF CloseSession
  <2>3. F \in SUBSET {sessionsByID[j] : j \in {i}}
    OBVIOUS
  <2>4. QED
    BY <2>1, <2>2, <2>3, CloseKeepsBase
<1>4. ASSUME NEW I \in SUBSET LiveIDs, CheckTimeouts(I)
      PROVE  Goal
  <2>1. PICK F \in SUBSET {sessionsByID[i] : i \in I} : Close(I, F)
    BY <1>4 DEF CheckTimeouts
  <2>2. QED
    BY <2>1, CloseKeepsBase
<1>5. CASE Drain
  <2>1. LeaseBijection'
    BY <1>0, <1>5 DEF Drain, LeaseBijection, ipamVars
  <2>2. QED
    BY <1>0, <1>5, <2>1, DrainKeepsCore, DrainKeepsCount DEF SMBase
<1>6. CASE Restart
  BY <1>0, <1>6, RestartKeepsCore, RestartKeepsLeases, RestartKeepsCount DEF SMBase
<1>7. ASSUME NEW u \in Users, DeleteUser(u)
      PROVE  Goal
  <2>1. LeaseBijection' /\ ActiveCountExact'
    BY <1>0, <1>7 DEF DeleteUser, LeaseBijection, ActiveCountExact, Live, ipamVars, sessionVars
  <2>2. QED
    BY <1>0, <1>7, <2>1, DeleteUserKeepsCore DEF SMBase
<1>8. ASSUME NEW t \in Tunnels, DeleteServer(t)
      PROVE  Goal
  <2>1. LeaseBijection' /\ ActiveCountExact'
    BY <1>0, <1>8 DEF DeleteServer, LeaseBijection, ActiveCountExact, Live, ipamVars, sessionVars
  <2>2. QED
    BY <1>0, <1>8, <2>1, DeleteServerKeepsCore DEF SMBase
<1>9. ASSUME NEW p \in Peers, AllocateNew(p) \/ Release(p),
             UNCHANGED <<dbVars, sessionVars, dbErrors>>
      PROVE  Goal
  <2>1. IPAMInv'
    BY <1>0, <1>9, AllocateKeepsInv, ReleaseKeepsInv
  <2>2. IPAMTypeOK' /\ LeaseBijection' /\ dbErrors' \in 0 .. MaxDbErrors
    BY <1>0, <1>9, <2>1 DEF IPAMInv
  <2>3. ActiveCountExact'
    BY <1>0, <1>9 DEF ActiveCountExact, Live, sessionVars
  <2>4. QED
    BY <1>0, <1>9, <2>2, <2>3, LeaseStepKeepsCore DEF SMBase
<1>10. CASE UNCHANGED smVars
  <2>1. UNCHANGED <<cursor, allocated, reverse, sessionsByPeer, activeCount>>
        /\ UNCHANGED <<dbVars, sessionVars, dbErrors>>
    BY <1>10 DEF smVars, ipamVars, sessionVars
  <2>2. IPAMTypeOK' /\ LeaseBijection'
    BY <1>0, <2>1 DEF IPAMInv, IPAMTypeOK, LeaseBijection
  <2>3. ActiveCountExact'
    BY <1>0, <2>1 DEF ActiveCountExact, Live
  <2>4. QED
    BY <1>0, <2>1, <2>2, <2>3, LeaseStepKeepsCore DEF SMBase
<1>11. CASE RestartUnsynced
  BY <1>0, <1>11, UnsyncedKeepsCore DEF SMBase
<1>12. QED
  BY <1>1, <1>3, <1>4, <1>5, <1>6, <1>7, <1>8, <1>9, <1>10, <1>11 DEF SMNext

(* The invariant holds in every reachable state. *)
LEMMA SMFullInvHolds == SMSpec => []SMFullInv
<1>1. SMInit => SMFullInv
  BY SMFullInvInit
<1>2. SMFullInv /\ [SMNext]_smVars => SMFullInv'
  BY SMBaseStep DEF SMFullInv
<1>3. QED
  BY <1>1, <1>2, PTL DEF SMSpec

(* SessionManager's maps stay consistent through creation, its failure, closing,
   timeouts, draining, restarts and cascading deletions: both indexes describe
   the same sessions. *)
LEMMA IndexesAgree == SMSpec => [](SMTypeOK /\ SessionIndexesAgree)
<1>1. SMFullInv => SMTypeOK /\ SessionIndexesAgree
  BY DEF SMFullInv, SMBase, SMCore
<1>2. QED
  BY <1>1, SMFullInvHolds, PTL

(* ActiveCount of session.go counts the sessions in the map exactly. *)
LEMMA CountIsExact == SMSpec => []ActiveCountExact
<1>1. SMFullInv => ActiveCountExact
  BY DEF SMFullInv, SMBase
<1>2. QED
  BY <1>1, SMFullInvHolds, PTL

(* The maps of the address manager stay inverse to each other under the
   releases of CloseSession and CheckTimeouts and the reservations of
   SyncFromDB, not only under its own operations. *)
LEMMA SessionsKeepLeases == SMSpec => []LeaseBijection
<1>1. SMFullInv => LeaseBijection
  BY DEF SMFullInv, SMBase
<1>2. QED
  BY <1>1, SMFullInvHolds, PTL

(* Two sessions whose users and backends exist never share an address, whatever
   addresses CreateSession is called with: their rows are backed and the rows'
   addresses are distinct. *)
LEMMA AddressesAreNotShared == SMSpec => []NoSharedAddress
<1>1. SMFullInv => NoSharedAddress
  <2> SUFFICES ASSUME SMCore, RowBacksSession, NEW p \in Peers, NEW q \in Peers,
                      Backed(p), Backed(q), p # q
               PROVE  sessionsByPeer[p].ip # sessionsByPeer[q].ip
    BY DEF SMFullInv, SMBase, NoSharedAddress
  <2>1. /\ rows[p].id = sessionsByPeer[p].id /\ rows[q].id = sessionsByPeer[q].id
        /\ rows[p].ip = sessionsByPeer[p].ip /\ rows[q].ip = sessionsByPeer[q].ip
    BY DEF RowBacksSession, Backed
  <2>2. sessionsByPeer[p].id \in IDs /\ sessionsByPeer[q].id \in IDs
    BY LiveHasID DEF Backed
  <2>3. rows[p] # NoSession /\ rows[q] # NoSession
    BY <2>1, <2>2 DEF NoSession, IDs
  <2>4. QED
    BY <2>1, <2>3 DEF SMCore, RowsDistinct
<1>2. QED
  BY <1>1, SMFullInvHolds, PTL

(* All of it at once: in every reachable state the manager agrees with itself
   and with the address manager. *)
THEOREM SessionsStayConsistent == SMSpec => []SessionsConsistent
  BY IndexesAgree, CountIsExact, SessionsKeepLeases, AddressesAreNotShared, PTL
     DEF SessionsConsistent

=============================================================================
