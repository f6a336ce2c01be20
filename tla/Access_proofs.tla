---------------------------- MODULE Access_proofs ----------------------------
(***************************************************************************)
(* Who gets in, for any constants.  One setup at a time makes its          *)
(* administrator, and a user who has to change the password gets nothing   *)
(* else done first; the SSH pool loses sight of no live connection, Close  *)
(* ends all of them, and stored fingerprints follow the servers.           *)
(***************************************************************************)
EXTENDS Access, SSHPool, FiniteSetTheorems, TLAPS

-----------------------------------------------------------------------------
(* The session cookies: setupMu is always given back and lets one setup at a time make its
   administrator, and a user who has to change the password gets nothing else done first. *)

Inside == {"count", "create", "invalidate"}
Steps == Inside \cup {"idle", "received", "authorise", "handle", "lock", "write",
                      "shown", "refused", "reply"}

Request == [op : Ops, pc : Steps, sess : Session, user : UserIDs \cup {NoUser},
            pw : Passwords, set : BOOLEAN, out : Session]

\* The shape of the state, and which requests name a user.
ShapeInv ==
    /\ DOMAIN people \subseteq UserIDs /\ people \in [DOMAIN people -> Row]
    /\ setupDone \in BOOLEAN /\ captchaOn \in BOOLEAN /\ sent \in 0 .. MaxRequests
    /\ cookie \in [Browsers -> Session]
    /\ req \in [Browsers -> Request]
    /\ \A b \in Browsers : /\ req[b].op \in Targeted => req[b].user \in UserIDs
                           /\ req[b].pc \in Inside \cup {"lock"} => req[b].op = "setup"

\* A session of user u says that the password must be changed.
Says(s, u) == s.user = u => s.must

\* No session in a browser, in a request or in an answer says less than the
\* row, and whoever has passed PasswordChangeRequired has nothing to change.
FlagInv ==
    /\ \A u \in DOMAIN people : people[u].must =>
         \A b \in Browsers : Says(cookie[b], u) /\ Says(req[b].sess, u) /\ Says(req[b].out, u)
    /\ \A b \in Browsers :
         /\ (req[b].pc \in {"authorise", "handle"} /\ req[b].op \in AdminOps \cup {"page"})
              => ~req[b].sess.must
         /\ (req[b].pc = "invalidate" /\ req[b].user \in DOMAIN people)
              => ~people[req[b].user].must

AccessInv == ShapeInv /\ SetupMuFreed /\ FlagInv

-----------------------------------------------------------------------------
(* What a step does to the request it serves.                              *)

\* Only request b changes, and it keeps what it asks.
Served(b) ==
    /\ req' \in [Browsers -> Request]
    /\ \A c \in Browsers \ {b} : req'[c] = req[c]
    /\ req'[b].op = req[b].op /\ req'[b].user = req[b].user /\ req'[b].sess = req[b].sess

\* Proceed moves the request of b to step pc and sets no cookie.
LEMMA ProceedServes ==
    ASSUME ShapeInv, NEW b \in Browsers, NEW pc \in Steps, Proceed(b, pc)
    PROVE  Served(b) /\ req'[b].pc = pc /\ req'[b].out = req[b].out
  BY DEF ShapeInv, Proceed, Served, Request

\* AnswerWith ends the request of b with the cookie s.
LEMMA AnswerWithServes ==
    ASSUME ShapeInv, NEW b \in Browsers, NEW s \in Session, AnswerWith(b, s)
    PROVE  Served(b) /\ req'[b].pc = "reply" /\ req'[b].out = s
<1> DEFINE r == [req[b] EXCEPT !.pc = "reply", !.set = TRUE, !.out = s]
<1>1. req \in [Browsers -> Request] /\ "reply" \in Steps
  BY DEF ShapeInv, Steps
<1>2. /\ r \in Request /\ r.pc = "reply" /\ r.out = s
      /\ r.op = req[b].op /\ r.user = req[b].user /\ r.sess = req[b].sess
  BY <1>1, Zenon DEF Request
<1>3. req' = [req EXCEPT ![b] = r]
  BY <1>1, Zenon DEF AnswerWith, Request
<1>4. QED
  BY <1>1, <1>2, <1>3 DEF Served

\* The session of a visitor is a session, and names no user.
LEMMA AnonymousSession ==
    /\ Anonymous \in Session /\ Anonymous.user = NoUser /\ ~Anonymous.must
    /\ NoRequest \in Request /\ NoRequest.pc = "idle"
    /\ NoRequest.sess = Anonymous /\ NoRequest.out = Anonymous
<1>1. Anonymous \in Session /\ Anonymous.user = NoUser /\ ~Anonymous.must
  BY DEF Anonymous, Session
<1>2. (CHOOSE p \in Passwords : TRUE) \in Passwords
  BY AccessAssumption
<1>3. "logout" \in Ops /\ "idle" \in Steps
  BY DEF Ops, PublicOps, Steps
<1> QED
  BY <1>1, <1>2, <1>3 DEF NoRequest, Request

\* A step that serves one request outside of APISetupHandler, writes no row
\* and answers with nothing that says less than the rows.
LEMMA QuietStep ==
    ASSUME AccessInv, NEW b \in Browsers, Served(b),
           UNCHANGED <<people, setupMu, cookie, sent>>,
           setupDone' \in BOOLEAN, captchaOn' \in BOOLEAN,
           req[b].pc \notin Inside, req'[b].pc \notin Inside,
           req'[b].pc = "lock" => req[b].op = "setup",
           (req'[b].pc \in {"authorise", "handle"} /\ req[b].op \in AdminOps \cup {"page"})
             => ~req[b].sess.must,
           \A u \in DOMAIN people : people[u].must => Says(req'[b].out, u)
    PROVE  AccessInv'
<1>1. ShapeInv'
  BY DEF AccessInv, ShapeInv, Served
<1>2. SetupMuFreed'
  BY DEF AccessInv, SetupMuFreed, Served, Inside
<1>3. FlagInv'
  BY DEF AccessInv, ShapeInv, FlagInv, Served, Inside, Says
<1> QED
  BY <1>1, <1>2, <1>3 DEF AccessInv

\* The panel starts in the invariant.
LEMMA AccessInitInv == AccessInit => AccessInv
<1> SUFFICES ASSUME AccessInit PROVE AccessInv
  OBVIOUS
<1> USE AccessAssumption
<1>1. PICK U \in {{}} \cup {{u} : u \in UserIDs}, p \in Passwords, must \in BOOLEAN :
         people = [u \in U |-> [NewRow(p, TRUE) EXCEPT !.must = must]]
  BY Zenon DEF AccessInit
<1>2. people \in [DOMAIN people -> Row] /\ DOMAIN people \subseteq UserIDs
  BY <1>1, Zenon DEF NewRow, Row
<1>3. \A b \in Browsers : cookie[b] = Anonymous /\ req[b] = NoRequest
  BY DEF AccessInit
<1>4. ShapeInv
  <2>1. NoRequest.op = "logout"
    BY DEF NoRequest
  <2>2. setupDone \in BOOLEAN /\ captchaOn \in BOOLEAN
    BY Zenon DEF AccessInit
  <2>3. sent \in 0 .. MaxRequests
    BY DEF AccessInit
  <2>4. cookie \in [Browsers -> Session] /\ req \in [Browsers -> Request]
    BY AnonymousSession DEF AccessInit
  <2>5. "logout" \notin Targeted /\ "idle" \notin Inside \cup {"lock"}
    BY DEF Targeted, AdminOps, Inside
  <2> QED
    BY <1>2, <1>3, <2>1, <2>2, <2>3, <2>4, <2>5, AnonymousSession DEF ShapeInv
<1>5. SetupMuFreed
  BY <1>3, AnonymousSession DEF AccessInit, SetupMuFreed
<1>6. FlagInv
  BY <1>2, <1>3, AnonymousSession DEF FlagInv, Says
<1> QED
  BY <1>4, <1>5, <1>6 DEF AccessInv

\* A browser sends a request: it carries the cookie, or nothing.
LEMMA SendKeeps ==
    ASSUME AccessInv, NEW b \in Browsers, NEW op \in Ops, NEW u \in UserIDs \cup {NoUser},
           NEW p \in Passwords, op \in Targeted => u \in UserIDs, Send(b, op, u, p)
    PROVE  AccessInv'
<1> DEFINE s == Decoded(cookie[b])
           r == [NoRequest EXCEPT !.op = op, !.pc = "received", !.sess = s, !.user = u, !.pw = p]
<1>1. s \in Session /\ (s = cookie[b] \/ s = Anonymous)
  BY AnonymousSession DEF Decoded, AccessInv, ShapeInv
<1>2. /\ r \in Request /\ r.op = op /\ r.pc = "received" /\ r.sess = s /\ r.user = u
      /\ r.out = Anonymous
  BY <1>1, AnonymousSession, Zenon DEF Request, Steps, NoRequest
<1>3. /\ req' \in [Browsers -> Request] /\ req'[b] = r
      /\ \A c \in Browsers \ {b} : req'[c] = req[c]
  BY <1>2 DEF Send, AccessInv, ShapeInv
<1> HIDE DEF s, r
<1>4. ShapeInv'
  BY <1>2, <1>3, AccessAssumption DEF Send, AccessInv, ShapeInv, Inside
<1>5. SetupMuFreed'
  BY <1>2, <1>3 DEF Send, Pending, AccessInv, SetupMuFreed
<1>6. FlagInv'
  <2>1. UNCHANGED <<people, cookie>>
    BY DEF Send
  <2>2. \A v \in DOMAIN people : people[v].must => Says(r.sess, v) /\ Says(r.out, v)
    BY <1>1, <1>2, AnonymousSession, AccessAssumption DEF AccessInv, ShapeInv, FlagInv, Says
  <2> QED
    BY <1>2, <1>3, <2>1, <2>2 DEF AccessInv, FlagInv
<1> QED
  BY <1>4, <1>5, <1>6 DEF AccessInv

\* The middleware lets a request on, or answers it.
LEMMA MiddlewareKeeps ==
    ASSUME AccessInv, NEW b \in Browsers, SetupRedirect(b) \/ RequireAuth(b)
    PROVE  AccessInv'
<1> DEFINE op == req[b].op
<1>1. /\ op \in Ops /\ req[b].pc \in Steps
      /\ \A u \in DOMAIN people : people[u].must => Says(req[b].out, u)
  BY DEF AccessInv, ShapeInv, Request, FlagInv
<1>2. CASE SetupRedirect(b)
  <2>1. CASE Answer(b)
    <3>1. Served(b) /\ req'[b].pc = "reply" /\ req'[b].out = req[b].out
      BY <2>1, ProceedServes DEF Answer, AccessInv, Steps
    <3> QED
      BY <1>1, <1>2, <3>1, QuietStep, Zenon
         DEF SetupRedirect, SetupKnown, SetupCounted, SetupUncounted, Pending, Inside, AccessInv, ShapeInv
  <2>2. CASE Proceed(b, FirstStep(op)) /\ ~(req[b].sess.must /\ op \notin AllowedDuringPasswordChange)
    <3>1. /\ FirstStep(op) \in {"authorise", "handle", "lock"}
          /\ FirstStep(op) = "lock" => op = "setup"
      BY DEF FirstStep, AdminOps, UserOps
    <3>2. Served(b) /\ req'[b].pc = FirstStep(op) /\ req'[b].out = req[b].out
      BY <2>2, <3>1, ProceedServes DEF AccessInv, Steps
    <3>3. op \in AdminOps \cup {"page"} => ~req[b].sess.must
      BY <2>2 DEF AllowedDuringPasswordChange, AdminOps
    <3> QED
      BY <1>1, <1>2, <3>1, <3>2, <3>3, QuietStep, Zenon
         DEF SetupRedirect, SetupKnown, SetupCounted, SetupUncounted, Pending, Inside, AccessInv, ShapeInv
  <2> QED
    BY <1>2, <2>1, <2>2, Zenon
       DEF SetupRedirect, SetupKnown, SetupCounted, SetupUncounted, PasswordChangeRequired
<1>3. CASE RequireAuth(b)
  <2>1. ASSUME NEW pc \in {"reply", "handle"}, Proceed(b, pc)
        PROVE  AccessInv'
    <3>1. Served(b) /\ req'[b].pc = pc /\ req'[b].out = req[b].out
      BY <2>1, ProceedServes DEF AccessInv, Steps
    <3>2. op \in AdminOps \cup {"page"} => ~req[b].sess.must
      BY <1>3, Zenon DEF RequireAuth, Pending, AccessInv, FlagInv
    <3> QED
      BY <1>1, <1>3, <3>1, <3>2, QuietStep, Zenon DEF RequireAuth, Pending, Inside, AccessInv, ShapeInv
  <2>2. CASE AnswerWith(b, Anonymous)
    <3>1. Served(b) /\ req'[b].pc = "reply" /\ req'[b].out = Anonymous
      BY <2>2, AnswerWithServes, AnonymousSession, Zenon DEF AccessInv
    <3>2. \A u \in DOMAIN people : Says(Anonymous, u)
      BY AnonymousSession, AccessAssumption DEF Says, AccessInv, ShapeInv
    <3> QED
      BY <1>3, <3>1, <3>2, QuietStep DEF RequireAuth, Pending, Inside, AccessInv, ShapeInv
  <2> QED
    BY <1>3, <2>1, <2>2 DEF RequireAuth, Answer
<1> QED
  BY <1>2, <1>3

\* APISetupHandler takes setupMu and gives it back, and the session it makes
\* is for a row that has nothing to change.
LEMMA SetupKeeps ==
    ASSUME AccessInv, NEW b \in Browsers, SetupHandler(b)
    PROVE  AccessInv'
<1> USE AccessAssumption
<1>1. \A u \in DOMAIN people : people[u].must => Says(req[b].out, u)
  BY DEF AccessInv, FlagInv
<1>2. CASE SetupLock(b)
  <2>1. Served(b) /\ req'[b].pc = "count" /\ req'[b].out = req[b].out
    BY <1>2, ProceedServes, Zenon DEF SetupLock, AccessInv, Steps, Inside
  <2> QED
    BY <1>2, <2>1 DEF SetupLock, Pending, Served, Inside, AccessInv, ShapeInv, SetupMuFreed, FlagInv, Says
<1>3. CASE SetupRefused(b)
  <2>1. Served(b) /\ req'[b].pc = "reply" /\ req'[b].out = req[b].out
    BY <1>3, ProceedServes, Zenon DEF SetupRefused, Answer, AccessInv, Steps
  <2> QED
    BY <1>3, <2>1 DEF SetupRefused, Pending, Served, Inside, AccessInv, ShapeInv, SetupMuFreed, FlagInv, Says
<1>4. CASE SetupCount(b)
  <2>1. Served(b) /\ req'[b].pc = "create" /\ req'[b].out = req[b].out
    BY <1>4, ProceedServes, Zenon DEF SetupCount, AccessInv, Steps, Inside
  <2> QED
    BY <1>4, <2>1 DEF SetupCount, Pending, Served, Inside, AccessInv, ShapeInv, SetupMuFreed, FlagInv, Says
<1>5. CASE SetupCreate(b) /\ Answer(b) /\ setupMu' = NoHolder /\ UNCHANGED people
  <2>1. Served(b) /\ req'[b].pc = "reply" /\ req'[b].out = req[b].out
    BY <1>5, ProceedServes, Zenon DEF SetupCreate, Answer, AccessInv, Steps
  <2> QED
    BY <1>5, <2>1 DEF SetupCreate, Pending, Served, Inside, AccessInv, ShapeInv, SetupMuFreed, FlagInv, Says
<1>6. CASE /\ SetupCreate(b) /\ Proceed(b, "invalidate") /\ UNCHANGED setupMu
           /\ req[b].user \notin DOMAIN people
           /\ people' = WithRow(req[b].user, NewRow(req[b].pw, TRUE))
  <2> DEFINE u == req[b].user
             row == NewRow(req[b].pw, TRUE)
  <2>1. Served(b) /\ req'[b].pc = "invalidate" /\ req'[b].out = req[b].out
    BY <1>6, ProceedServes DEF SetupCreate, AccessInv, Steps, Inside
  <2>2. u \in UserIDs /\ row \in Row /\ ~row.must
    BY <1>6 DEF SetupCreate, Pending, AccessInv, ShapeInv, Inside, Targeted, Request, NewRow, Row
  <2>3. /\ people' \in [DOMAIN people' -> Row] /\ DOMAIN people' = DOMAIN people \cup {u}
        /\ people'[u] = row /\ \A v \in DOMAIN people : people'[v] = people[v]
    BY <1>6, <2>2, Zenon DEF WithRow, AccessInv, ShapeInv
  <2>4. ShapeInv'
    BY <1>6, <2>1, <2>2, <2>3, Zenon DEF SetupCreate, Pending, Served, Inside, AccessInv, ShapeInv
  <2>5. SetupMuFreed'
    BY <1>6, <2>1, Zenon DEF SetupCreate, Pending, Served, Inside, AccessInv, SetupMuFreed
  <2> HIDE DEF u, row
  <2>6. FlagInv'
    <3>1. \A v \in DOMAIN people' : people'[v].must => v \in DOMAIN people /\ people[v].must
      BY <2>2, <2>3
    <3>2. UNCHANGED cookie /\ \A c \in Browsers : req'[c].sess = req[c].sess /\ req'[c].out = req[c].out
      BY <1>6, <2>1, Zenon DEF SetupCreate, Served
    <3>3. \A c \in Browsers : c # b => req'[c] = req[c]
      BY <2>1 DEF Served
    <3>4. \A v \in DOMAIN people' : people'[v].must => \A c \in Browsers :
             Says(cookie'[c], v) /\ Says(req'[c].sess, v) /\ Says(req'[c].out, v)
      BY <3>1, <3>2 DEF AccessInv, FlagInv, Says
    <3>5. \A c \in Browsers : req'[c].pc = "invalidate" /\ req'[c].user \in DOMAIN people'
             => ~people'[req'[c].user].must
      <4>1. req'[b].user = u
        BY <2>1 DEF Served, u
      <4> QED
        BY <2>2, <2>3, <3>1, <3>3, <4>1 DEF AccessInv, FlagInv
    <3>6. \A c \in Browsers :
             (req'[c].pc \in {"authorise", "handle"} /\ req'[c].op \in AdminOps \cup {"page"})
               => ~req'[c].sess.must
      BY <2>1, <3>3 DEF AccessInv, FlagInv
    <3> QED
      BY <3>4, <3>5, <3>6 DEF FlagInv
  <2> QED
    BY <2>4, <2>5, <2>6 DEF AccessInv
<1>7. CASE SetupFinish(b)
  <2> DEFINE s == [Anonymous EXCEPT !.user = req[b].user]
  <2>1. s \in Session /\ s.user = req[b].user
    BY AnonymousSession, Zenon DEF Session, Anonymous, AccessInv, ShapeInv, Request
  <2>2. Served(b) /\ req'[b].pc = "reply" /\ req'[b].out = s
    BY <1>7, <2>1, AnswerWithServes DEF SetupFinish, AccessInv
  <2> HIDE DEF s
  <2>3. ShapeInv'
    BY <1>7, <2>2, Zenon DEF SetupFinish, Served, Inside, AccessInv, ShapeInv
  <2>4. SetupMuFreed'
    BY <1>7, <2>2 DEF SetupFinish, Pending, Served, Inside, AccessInv, SetupMuFreed
  <2>5. FlagInv'
    BY <1>7, <2>1, <2>2 DEF SetupFinish, Pending, Served, AccessInv, ShapeInv, FlagInv, Says
  <2> QED
    BY <2>3, <2>4, <2>5 DEF AccessInv
<1> QED
  BY <1>2, <1>3, <1>4, <1>5, <1>6, <1>7, Zenon DEF SetupHandler, SetupCreate

\* A handler that answers with a session as strict as the rows, or with none.
LEMMA AnswerKeeps ==
    ASSUME AccessInv, NEW b \in Browsers, KeepRows, req[b].pc \notin Inside,
           \/ \E pc \in {"reply", "write", "shown", "refused"} : Proceed(b, pc)
           \/ \E s \in Session : /\ AnswerWith(b, s)
                                 /\ \A u \in DOMAIN people : people[u].must => Says(s, u)
    PROVE  AccessInv'
<1>1. ASSUME NEW pc \in {"reply", "write", "shown", "refused"}, Proceed(b, pc)
      PROVE  AccessInv'
  <2>1. Served(b) /\ req'[b].pc = pc /\ req'[b].out = req[b].out
    BY <1>1, ProceedServes, Zenon DEF AccessInv, Steps
  <2>2. \A u \in DOMAIN people : people[u].must => Says(req[b].out, u)
    BY DEF AccessInv, FlagInv
  <2> QED
    BY <2>1, <2>2, QuietStep DEF KeepRows, Inside, AccessInv, ShapeInv
<1>2. ASSUME NEW s \in Session, AnswerWith(b, s),
             \A u \in DOMAIN people : people[u].must => Says(s, u)
      PROVE  AccessInv'
  <2>1. Served(b) /\ req'[b].pc = "reply" /\ req'[b].out = s
    BY <1>2, AnswerWithServes, Zenon DEF AccessInv
  <2> QED
    BY <1>2, <2>1, QuietStep DEF KeepRows, Inside, AccessInv, ShapeInv
<1> QED
  BY <1>1, <1>2

\* The handlers that write no row.
LEMMA ReadersKeep ==
    ASSUME AccessInv, NEW b \in Browsers,
           \/ Login(b) \/ Captcha(b) \/ Logout(b) \/ ChangePassword(b)
           \/ Page(b) \/ ShareAuth(b) \/ ShareRead(b) \/ ShareReturns(b)
    PROVE  AccessInv'
<1> DEFINE r == req[b]
<1>1. /\ r \in Request /\ r.sess \in Session /\ r.pc \notin Inside /\ KeepRows
      /\ \A u \in DOMAIN people : people[u].must => Says(r.sess, u)
  BY Zenon DEF AccessInv, ShapeInv, FlagInv, Request, Login, Captcha, Logout, ChangePassword, Page,
     ShareAuth, ShareRead, ShareReturns, Handling, Pending, Inside
<1>2. \A u \in DOMAIN people : Says(Anonymous, u)
  BY AnonymousSession, AccessAssumption DEF Says, AccessInv, ShapeInv
<1>3. CASE Login(b)
  <2>1. \A u \in DOMAIN people : SessionOf(u) \in Session /\
          \A v \in DOMAIN people : people[v].must => Says(SessionOf(u), v)
    BY Zenon DEF SessionOf, Anonymous, Session, Says, AccessInv, ShapeInv, Row
  <2>2. [r.sess EXCEPT !.captcha = FALSE] \in Session /\
          \A v \in DOMAIN people : people[v].must => Says([r.sess EXCEPT !.captcha = FALSE], v)
    BY <1>1, Zenon DEF Session, Says
  <2> QED
    BY <1>1, <1>3, <2>1, <2>2, AnswerKeeps, Zenon DEF Login, PasswordFits, Spent, Answer
<1>4. CASE Captcha(b)
  <2>1. [r.sess EXCEPT !.captcha = TRUE] \in Session /\
          \A v \in DOMAIN people : people[v].must => Says([r.sess EXCEPT !.captcha = TRUE], v)
    BY <1>1, Zenon DEF Session, Says
  <2> QED
    BY <1>1, <1>4, <2>1, AnswerKeeps, Zenon DEF Captcha
<1>5. CASE Logout(b)
  BY <1>1, <1>2, <1>5, AnswerKeeps, AnonymousSession, Zenon DEF Logout
<1>6. CASE ChangePassword(b) \/ Page(b) \/ ShareRead(b) \/ ShareReturns(b)
  BY <1>1, <1>6, AnswerKeeps DEF ChangePassword, Page, ShareRead, ShareReturns, Answer
<1>7. CASE ShareAuth(b)
  <2> DEFINE s == [r.sess EXCEPT !.share = @ \cup {r.user}]
  <2>1. r.user \in DOMAIN people => s \in Session /\
          \A v \in DOMAIN people : people[v].must => Says(s, v)
    BY <1>1 DEF Session, Says, AccessInv, ShapeInv
  <2> QED
    BY <1>1, <1>7, <2>1, AnswerKeeps, Zenon DEF ShareAuth, LinkOn, Answer
<1> QED
  BY <1>3, <1>4, <1>5, <1>6, <1>7

\* A handler that writes rows and asks nobody anew to change the password.
LEMMA WriteKeeps ==
    ASSUME AccessInv, NEW b \in Browsers, Served(b), req[b].pc \notin Inside, req'[b].pc = "reply",
           UNCHANGED <<setupDone, setupMu, cookie, sent>>, captchaOn' \in BOOLEAN,
           DOMAIN people' \subseteq UserIDs, people' \in [DOMAIN people' -> Row],
           \A v \in DOMAIN people' : people'[v].must =>
             v \in DOMAIN people /\ people[v].must /\ Says(req'[b].out, v)
    PROVE  AccessInv'
<1>1. ShapeInv'
  BY DEF AccessInv, ShapeInv, Served, Inside
<1>2. SetupMuFreed'
  BY DEF AccessInv, SetupMuFreed, Served, Inside
<1>3. \A c \in Browsers : c # b => req'[c] = req[c]
  BY DEF Served
<1>4. FlagInv'
  <2>1. \A v \in DOMAIN people' : people'[v].must => \A c \in Browsers :
           Says(cookie'[c], v) /\ Says(req'[c].sess, v) /\ Says(req'[c].out, v)
    BY <1>3 DEF AccessInv, FlagInv, Served, Says
  <2>2. \A c \in Browsers : req'[c].pc = "invalidate" /\ req'[c].user \in DOMAIN people'
           => ~people'[req'[c].user].must
    BY <1>3 DEF AccessInv, FlagInv
  <2>3. \A c \in Browsers :
           (req'[c].pc \in {"authorise", "handle"} /\ req'[c].op \in AdminOps \cup {"page"})
             => ~req'[c].sess.must
    BY <1>3 DEF AccessInv, FlagInv
  <2> QED
    BY <2>1, <2>2, <2>3 DEF FlagInv
<1> QED
  BY <1>1, <1>2, <1>4 DEF AccessInv

\* A changed password clears the flag of the row and of the session.
LEMMA WritePasswordKeeps ==
    ASSUME AccessInv, NEW b \in Browsers, WritePassword(b)
    PROVE  AccessInv'
<1> DEFINE u == req[b].sess.user
           s == [req[b].sess EXCEPT !.must = FALSE]
<1>1. /\ req[b].sess \in Session /\ req[b].pc \notin Inside
      /\ UNCHANGED <<setupDone, setupMu, cookie, sent>> /\ captchaOn' \in BOOLEAN
  BY Zenon DEF AccessInv, ShapeInv, Request, WritePassword, Pending, Inside
<1>2. CASE Answer(b) /\ UNCHANGED people
  <2>1. Served(b) /\ req'[b].pc = "reply" /\ req'[b].out = req[b].out
    BY <1>2, ProceedServes, Zenon DEF Answer, AccessInv, Steps
  <2> QED
    BY <1>1, <1>2, <2>1, WriteKeeps, Zenon DEF AccessInv, ShapeInv, FlagInv
<1>3. ASSUME NEW p \in Passwords, AnswerWith(b, s),
             people' = IF u \in DOMAIN people
                         THEN [people EXCEPT ![u].pw = p, ![u].must = FALSE] ELSE people
      PROVE  AccessInv'
  <2>1. s \in Session /\ s.user = u
    BY <1>1, Zenon DEF Session
  <2>2. Served(b) /\ req'[b].pc = "reply" /\ req'[b].out = s
    BY <1>3, <2>1, AnswerWithServes DEF AccessInv
  <2>3. DOMAIN people' = DOMAIN people /\ people' \in [DOMAIN people' -> Row]
    BY <1>3 DEF AccessInv, ShapeInv, Row
  <2>4. \A v \in DOMAIN people' : people'[v].must => v # u /\ people'[v] = people[v]
    BY <1>3, <2>3 DEF AccessInv, ShapeInv, Row
  <2>5. \A v \in DOMAIN people' : people'[v].must =>
           v \in DOMAIN people /\ people[v].must /\ Says(req'[b].out, v)
    BY <2>1, <2>2, <2>3, <2>4 DEF Says
  <2> QED
    BY <1>1, <2>2, <2>3, <2>5, WriteKeeps, Zenon DEF AccessInv, ShapeInv
<1> QED
  BY <1>2, <1>3, Zenon DEF WritePassword

\* An administrator adds, removes or changes a row.
LEMMA AdminKeeps ==
    ASSUME AccessInv, NEW b \in Browsers, AdminHandler(b)
    PROVE  AccessInv'
<1> DEFINE u == req[b].user
<1>1. /\ req[b] \in Request /\ req[b].pc \notin Inside
      /\ UNCHANGED <<setupDone, setupMu, cookie, sent>>
      /\ people \in [DOMAIN people -> Row] /\ DOMAIN people \subseteq UserIDs
  BY DEF AccessInv, ShapeInv, AdminHandler, Pending, Inside
<1>2. captchaOn' \in BOOLEAN
  BY Zenon DEF AccessInv, ShapeInv, AdminHandler
<1>3. Served(b) /\ req'[b].pc = "reply" /\ req'[b].out = req[b].out
  BY ProceedServes, Zenon DEF AdminHandler, Answer, AccessInv, Steps
<1> DEFINE RowsKept ==
      /\ DOMAIN people' \subseteq UserIDs /\ people' \in [DOMAIN people' -> Row]
      /\ \A v \in DOMAIN people' : people'[v].must => v \in DOMAIN people /\ people[v].must
<1>4. RowsKept
  <2>1. CASE UNCHANGED people
    BY <1>1, <2>1
  <2>2. ASSUME NEW admin \in BOOLEAN, req[b].op = "addUser", u \notin DOMAIN people,
               people' = WithRow(u, NewRow(req[b].pw, admin))
        PROVE  RowsKept
    <3>1. u \in UserIDs
      BY <2>2 DEF AccessInv, ShapeInv, Targeted, AdminOps
    <3>2. NewRow(req[b].pw, admin) \in Row /\ ~NewRow(req[b].pw, admin).must
      BY <1>1 DEF NewRow, Row, Request
    <3> QED
      BY <1>1, <2>2, <3>1, <3>2 DEF WithRow
  <2>3. CASE people' = [v \in DOMAIN people \ {u} |-> people[v]]
    BY <1>1, <2>3
  <2>4. CASE u \in DOMAIN people /\ people' = [people EXCEPT ![u].on = ~@]
    <3>1. (~people[u].on) \in BOOLEAN
      OBVIOUS
    <3>2. PICK on \in BOOLEAN : people' = [people EXCEPT ![u].on = on]
      BY <2>4, <3>1, Zenon
    <3> QED
      BY <1>1, <2>4, <3>2 DEF Row
  <2>5. ASSUME NEW s \in {"off", "open", "locked"}, u \in DOMAIN people,
               people' = [people EXCEPT ![u].share = s]
        PROVE  RowsKept
    BY <1>1, <2>5 DEF Row
  <2> QED
    BY <2>1, <2>2, <2>3, <2>4, <2>5 DEF AdminHandler, AdminWrite, AddUserRow, DeleteUserRow,
       ToggleUserRow, SetupUserShare, Exists
<1>5. \A v \in DOMAIN people : people[v].must => Says(req[b].out, v)
  BY DEF AccessInv, FlagInv
<1> QED
  BY <1>1, <1>2, <1>3, <1>4, <1>5, WriteKeeps

\* The browser keeps the cookie of the answer.
LEMMA ReplyKeeps ==
    ASSUME AccessInv, NEW b \in Browsers, Reply(b)
    PROVE  AccessInv'
<1>1. /\ req' \in [Browsers -> Request] /\ req'[b] = NoRequest
      /\ \A c \in Browsers \ {b} : req'[c] = req[c]
  BY AnonymousSession DEF Reply, AccessInv, ShapeInv
<1>2. /\ cookie' \in [Browsers -> Session]
      /\ \A c \in Browsers : cookie'[c] = cookie[c] \/ cookie'[c] = req[c].out
  BY DEF Reply, AccessInv, ShapeInv, Request
<1>3. NoRequest.op = "logout" /\ "logout" \notin Targeted
  BY DEF NoRequest, Targeted, AdminOps
<1>4. ShapeInv'
  BY <1>1, <1>2, <1>3, AnonymousSession DEF Reply, AccessInv, ShapeInv, Inside
<1>5. SetupMuFreed'
  BY <1>1, AnonymousSession DEF Reply, Pending, AccessInv, SetupMuFreed
<1>6. FlagInv'
  <2>1. \A u \in DOMAIN people : Says(Anonymous, u)
    BY AnonymousSession, AccessAssumption DEF Says, AccessInv, ShapeInv
  <2>2. \A c \in Browsers : c # b => req'[c] = req[c]
    BY <1>1
  <2> QED
    BY <1>1, <1>2, <2>1, <2>2, AnonymousSession DEF Reply, AccessInv, FlagInv, Says
<1> QED
  BY <1>4, <1>5, <1>6 DEF AccessInv

\* Every step keeps the invariant.
LEMMA AccessStepInv == AccessInv /\ [AccessNext]_accessVars => AccessInv'
<1> SUFFICES ASSUME AccessInv, [AccessNext]_accessVars PROVE AccessInv'
  OBVIOUS
<1>1. CASE UNCHANGED accessVars
  BY <1>1 DEF accessVars, AccessInv, ShapeInv, SetupMuFreed, FlagInv
<1>2. ASSUME NEW b \in Browsers, ServeRequest(b) PROVE AccessInv'
  BY <1>2, MiddlewareKeeps, SetupKeeps, ReadersKeep, WritePasswordKeeps, AdminKeeps, ReplyKeeps
     DEF ServeRequest, Handler
<1>3. ASSUME NEW b \in Browsers, NEW op \in Targeted, NEW u \in UserIDs, NEW p \in Passwords,
             Send(b, op, u, p)
      PROVE  AccessInv'
  BY <1>3, SendKeeps DEF Targeted, Ops, PublicOps
<1>4. ASSUME NEW b \in Browsers, NEW op \in Ops \ Targeted, NEW p \in Passwords,
             Send(b, op, NoUser, p)
      PROVE  AccessInv'
  BY <1>4, SendKeeps
<1> QED
  BY <1>1, <1>2, <1>3, <1>4 DEF AccessNext

\* AccessInv holds in every reachable state.
LEMMA AccessInvHolds == AccessSpec => []AccessInv
  BY AccessInitInv, AccessStepInv, PTL DEF AccessSpec

(* APISetupHandler holds setupMu while it runs and on no path longer, for  *)
(* any number of visitors.                                                 *)
THEOREM SetupMuIsFreed == AccessSpec => []SetupMuFreed
<1>1. AccessInv => SetupMuFreed
  BY DEF AccessInv
<1> QED
  BY <1>1, AccessInvHolds, PTL

(* PasswordChangeRequired may decide by the cookie: nobody whose row says  *)
(* that the password must be changed reaches a handler but the few that    *)
(* are allowed.                                                            *)
THEOREM PasswordIsChangedFirst == AccessSpec => []PasswordChangedFirst
<1>1. AccessInv => PasswordChangedFirst
  BY DEF AccessInv, FlagInv, PasswordChangedFirst, Pending, Says
<1> QED
  BY <1>1, AccessInvHolds, PTL

\* Only a setup that has counted and an administrator add rows.
LEMMA RowsAreAdded ==
    ASSUME AccessInv, NEW b \in Browsers, ServeRequest(b), NEW u \in DOMAIN people' \ DOMAIN people
    PROVE  \/ req[b].pc = "create" /\ req'[b].pc = "invalidate" /\ u = req[b].user
           \/ Pending(b, "handle") /\ AddUserRow(b)
<1>1. CASE SetupCreate(b)
  <2>1. /\ people' = WithRow(req[b].user, NewRow(req[b].pw, TRUE))
        /\ Proceed(b, "invalidate") /\ req[b].pc = "create"
    BY <1>1, Zenon DEF SetupCreate, Pending
  <2>2. req'[b].pc = "invalidate"
    BY <2>1, ProceedServes, Zenon DEF AccessInv, Steps, Inside
  <2>3. DOMAIN people' = DOMAIN people \cup {req[b].user}
    BY <2>1 DEF WithRow
  <2> QED
    BY <2>1, <2>2, <2>3, Zenon
<1>2. CASE AdminHandler(b)
  BY <1>2 DEF AdminHandler, AdminWrite, AddUserRow, DeleteUserRow, ToggleUserRow, SetupUserShare
<1>3. CASE WritePassword(b)
  BY <1>3, Zenon DEF WritePassword
<1>4. CASE /\ ~SetupCreate(b) /\ ~AdminHandler(b) /\ ~WritePassword(b)
  BY <1>4, Zenon DEF ServeRequest, SetupRedirect, RequireAuth, SetupHandler, SetupLock, SetupRefused,
     SetupCount, SetupFinish, Handler, Login, Captcha, Logout, ChangePassword, Page, ShareAuth,
     ShareRead, ShareReturns, KeepRows, Reply
<1> QED
  BY <1>1, <1>2, <1>3, <1>4, Zenon

\* Only SetupCount goes on to make the administrator.
LEMMA CountGoesOn ==
    ASSUME AccessInv, NEW c \in Browsers, ServeRequest(c), NEW b \in Browsers,
           req'[b].pc = "create", req[b].pc # "create"
    PROVE  DOMAIN people' = {}
<1> USE DEF AccessInv
<1>1. ASSUME NEW pc \in Steps \ {"create"}, Proceed(c, pc) PROVE FALSE
  BY <1>1, ProceedServes DEF Served
<1>2. ASSUME NEW s, AnswerWith(c, s) PROVE FALSE
  BY <1>2 DEF AnswerWith, ShapeInv
<1>3. ~Reply(c)
  BY AnonymousSession DEF Reply, ShapeInv
<1>4. FirstStep(req[c].op) \in Steps \ {"create"}
  BY DEF FirstStep, Steps, Inside
<1>5. ~SetupRedirect(c) /\ ~RequireAuth(c)
  BY <1>1, <1>2, <1>4, Zenon DEF SetupRedirect, SetupKnown, SetupCounted, SetupUncounted,
     PasswordChangeRequired, RequireAuth, Answer, Steps, Inside
<1>6. ~Handler(c)
  BY <1>1, <1>2, Zenon DEF Handler, Login, Spent, Captcha, Logout, ChangePassword, WritePassword, Page,
     ShareAuth, ShareRead, ShareReturns, AdminHandler, Answer, Steps, Inside
<1>7. SetupCount(c)
  BY <1>1, <1>2, <1>3, <1>5, <1>6, Zenon DEF ServeRequest, SetupHandler, SetupLock, SetupRefused,
     SetupCreate, SetupFinish, Answer, Steps, Inside
<1> QED
  BY <1>7, Zenon DEF SetupCount

(* Of any number of first visitors one makes the administrator: between    *)
(* the count of a setup and its own row, no other setup adds a row.        *)
THEOREM OneSetupAtATime == AccessSpec => OneSetup
<1> DEFINE Step == \A b \in Browsers :
      /\ (req'[b].pc = "create" /\ req[b].pc # "create") => DOMAIN people' = {}
      /\ req[b].pc = "create" => \A u \in DOMAIN people' \ DOMAIN people :
           \/ req'[b].pc = "invalidate" /\ u = req[b].user
           \/ \E c \in Browsers : Pending(c, "handle") /\ AddUserRow(c)
<1>1. AccessInv /\ [AccessNext]_accessVars => [Step]_accessVars
  <2> SUFFICES ASSUME AccessInv, AccessNext, NEW b \in Browsers
               PROVE  /\ (req'[b].pc = "create" /\ req[b].pc # "create") => DOMAIN people' = {}
                      /\ req[b].pc = "create" => \A u \in DOMAIN people' \ DOMAIN people :
                           \/ req'[b].pc = "invalidate" /\ u = req[b].user
                           \/ \E c \in Browsers : Pending(c, "handle") /\ AddUserRow(c)
    BY Zenon
  <2>1. ASSUME NEW c \in Browsers, NEW op, NEW u, NEW p, Send(c, op, u, p)
        PROVE  UNCHANGED people /\ (req'[b].pc = "create" => req[b].pc = "create")
    BY <2>1 DEF Send, NoRequest, AccessInv, ShapeInv
  <2>2. ASSUME NEW c \in Browsers, ServeRequest(c), req[b].pc = "create",
               NEW u \in DOMAIN people' \ DOMAIN people
        PROVE  \/ req'[b].pc = "invalidate" /\ u = req[b].user
               \/ Pending(c, "handle") /\ AddUserRow(c)
    <3>1. CASE req[c].pc = "create"
      <4>1. setupMu = b /\ setupMu = c
        BY <2>2, <3>1 DEF AccessInv, SetupMuFreed
      <4> QED
        BY <2>2, <4>1, RowsAreAdded
    <3> QED
      BY <2>2, <3>1, RowsAreAdded, Zenon
  <2> QED
    BY <2>1, <2>2, CountGoesOn, Zenon DEF AccessNext
<1> QED
  BY <1>1, AccessInvHolds, PTL DEF AccessSpec, OneSetup

-----------------------------------------------------------------------------
(* The SSH pool: no live connection is lost sight of, Close ends all of them, and the
   stored fingerprints follow the servers. *)

Client == [key : Targets, up : BOOLEAN, closed : BOOLEAN]
Caller == [pc : {"idle", "dial", "save", "insert", "using"}, key : Targets \cup {NoKey},
           client : Nat \cup {NoDial}, saw : HostKeys \cup {NoKey}]
ServerRow == [pc : {"new", "confirm", "save", "there", "unpooled", "unknown", "gone"},
              shown : HostKeys \cup {NoKey}]

Numbered == \E n \in 0 .. MaxDials : DOMAIN dialled = 1 .. n

\* The shape of the pool: clients are numbered, and the pool and the callers
\* name clients there are.
PoolShapeInv ==
    /\ Numbered /\ dialled \in [DOMAIN dialled -> Client]
    /\ pooled \in [DOMAIN pooled -> [client : DOMAIN dialled, timedOut : BOOLEAN]]
    /\ caller \in [Callers -> Caller]
    /\ \A c \in Callers : /\ caller[c].pc # "idle" => caller[c].key \in Targets
                          /\ caller[c].pc = "insert" => caller[c].client \in DOMAIN dialled
    /\ poolClosed \in BOOLEAN

\* A closed pool is empty, and two dials do not give the same client.
OwnInv ==
    /\ poolClosed => DOMAIN pooled = {}
    /\ \A c, d \in Callers :
         (caller[c].pc = "insert" /\ caller[d].pc = "insert" /\ caller[c].client = caller[d].client)
           => c = d

\* The clients a step of the pool may leave alive.
Alive == {i \in DOMAIN dialled : IsAlive(i)}
InPool == {pooled[k].client : k \in DOMAIN pooled}
InHand == {caller[c].client : c \in {d \in Callers : caller[d].pc = "insert"}}

ClientInv == PoolShapeInv /\ OwnInv /\ Alive \subseteq InPool \cup InHand

-----------------------------------------------------------------------------
(* Closing and evicting.                                                   *)

\* Close ends the clients named and no other.
LEMMA CloseEnds ==
    ASSUME PoolShapeInv, NEW S, dialled' = Close(S)
    PROVE  /\ DOMAIN dialled' = DOMAIN dialled /\ dialled' \in [DOMAIN dialled -> Client]
           /\ Alive' = Alive \ S
<1>1. \A i \in DOMAIN dialled : (dialled[i].closed \/ i \in S) \in BOOLEAN
  OBVIOUS
<1>2. DOMAIN dialled' = DOMAIN dialled
  BY DEF Close
<1>3. \A i \in DOMAIN dialled :
        dialled'[i] = [dialled[i] EXCEPT !.closed = dialled[i].closed \/ i \in S]
  BY DEF Close
<1>4. ASSUME NEW i \in DOMAIN dialled
      PROVE  /\ dialled'[i] \in Client
             /\ dialled'[i].up = dialled[i].up
             /\ dialled'[i].closed = (dialled[i].closed \/ i \in S)
  BY <1>1, <1>3, Zenon DEF PoolShapeInv, Client
<1>5. dialled' \in [DOMAIN dialled -> Client]
  BY <1>4, Zenon DEF Close
<1>6. Alive' = Alive \ S
  BY <1>2, <1>4, Zenon DEF Alive, IsAlive
<1> QED
  BY <1>2, <1>5, <1>6

\* Evicted forgets the keys named; what it keeps is as it was.
LEMMA EvictedForgets ==
    ASSUME PoolShapeInv, NEW S, pooled' = Evicted(S)
    PROVE  /\ DOMAIN pooled' = DOMAIN pooled \ S
           /\ \A k \in DOMAIN pooled \ S : pooled'[k] = pooled[k]
           /\ pooled' \in [DOMAIN pooled' -> [client : DOMAIN dialled, timedOut : BOOLEAN]]
           /\ InPool \subseteq InPool' \cup Pooled(S)
  BY DEF PoolShapeInv, Evicted, Restrict, InPool, Pooled

\* Evicting and closing together, with callers left alone, strands nobody.
LEMMA EvictKeeps ==
    ASSUME ClientInv, NEW S, pooled' = Evicted(S), dialled' = Close(Pooled(S)), UNCHANGED caller,
           poolClosed' \in BOOLEAN, poolClosed' => (poolClosed \/ DOMAIN pooled \subseteq S)
    PROVE  ClientInv'
<1>1. DOMAIN dialled' = DOMAIN dialled /\ dialled' \in [DOMAIN dialled -> Client]
      /\ Alive' = Alive \ Pooled(S)
  BY CloseEnds DEF ClientInv
<1>2. /\ DOMAIN pooled' = DOMAIN pooled \ S
      /\ pooled' \in [DOMAIN pooled' -> [client : DOMAIN dialled, timedOut : BOOLEAN]]
      /\ InPool \subseteq InPool' \cup Pooled(S)
  BY EvictedForgets, Zenon DEF ClientInv
<1>3. PoolShapeInv'
  BY <1>1, <1>2 DEF ClientInv, PoolShapeInv, Numbered
<1>4. OwnInv'
  BY <1>2 DEF ClientInv, OwnInv
<1>5. InHand' = InHand
  BY DEF InHand
<1> QED
  BY <1>1, <1>2, <1>3, <1>4, <1>5 DEF ClientInv

-----------------------------------------------------------------------------
(* The steps of the callers.                                               *)

\* Writing one caller's record leaves the others.
LEMMA CallerWritten ==
    ASSUME PoolShapeInv, NEW c \in Callers, NEW r \in Caller, caller' = [caller EXCEPT ![c] = r]
    PROVE  /\ caller' \in [Callers -> Caller] /\ caller'[c] = r
           /\ \A d \in Callers : d # c => caller'[d] = caller[d]
  BY DEF PoolShapeInv

\* A caller that holds no client before and after the step, clients and
\* entries staying as they are, strands nobody.
LEMMA CallerKeeps ==
    ASSUME ClientInv, NEW c \in Callers, NEW r \in Caller, caller' = [caller EXCEPT ![c] = r],
           caller[c].pc # "insert", r.pc # "insert", r.pc # "idle" => r.key \in Targets,
           UNCHANGED <<dialled, poolClosed>>, DOMAIN pooled' = DOMAIN pooled,
           pooled' \in [DOMAIN pooled -> [client : DOMAIN dialled, timedOut : BOOLEAN]],
           \A k \in DOMAIN pooled : pooled'[k].client = pooled[k].client
    PROVE  ClientInv'
<1>1. /\ caller' \in [Callers -> Caller] /\ caller'[c] = r
      /\ \A d \in Callers : d # c => caller'[d] = caller[d]
  BY CallerWritten, Zenon DEF ClientInv
<1>2. PoolShapeInv'
  BY <1>1 DEF ClientInv, PoolShapeInv, Numbered
<1>3. OwnInv'
  BY <1>1, Zenon DEF ClientInv, OwnInv
<1>4. InPool' = InPool /\ InHand \subseteq InHand' /\ Alive' = Alive
  BY <1>1 DEF InPool, InHand, Alive, IsAlive
<1> QED
  BY <1>2, <1>3, <1>4, Zenon DEF ClientInv

\* Setting the mark of one entry leaves the clients of all.
LEMMA Marked ==
    ASSUME PoolShapeInv, NEW k \in DOMAIN pooled, NEW b \in BOOLEAN,
           pooled' = [pooled EXCEPT ![k].timedOut = b]
    PROVE  /\ DOMAIN pooled' = DOMAIN pooled
           /\ pooled' \in [DOMAIN pooled -> [client : DOMAIN dialled, timedOut : BOOLEAN]]
           /\ \A x \in DOMAIN pooled : pooled'[x].client = pooled[x].client
  BY DEF PoolShapeInv

\* A caller between its calls.
LEMMA FreeCaller == Free \in Caller /\ Free.pc = "idle"
  BY DEF Free, Caller

\* Get reuses a live client, or evicts and closes a dead one.
LEMMA GetKeeps ==
    ASSUME ClientInv, NEW c \in Callers, NEW k \in Targets, Get(c, k)
    PROVE  ClientInv'
<1>1. CASE k \in DOMAIN pooled /\ IsAlive(pooled[k].client)
  <2> DEFINE r == [Free EXCEPT !.pc = "using", !.key = k, !.client = pooled[k].client]
  <2>1. pooled[k].client \in Nat
    BY <1>1 DEF ClientInv, PoolShapeInv, Numbered
  <2>2. r \in Caller /\ r.pc = "using" /\ r.key = k
    BY <2>1, FreeCaller, Zenon DEF Caller, Free
  <2>3. /\ DOMAIN pooled' = DOMAIN pooled
        /\ pooled' \in [DOMAIN pooled -> [client : DOMAIN dialled, timedOut : BOOLEAN]]
        /\ \A x \in DOMAIN pooled : pooled'[x].client = pooled[x].client
    <3>1. FALSE \in BOOLEAN
      OBVIOUS
    <3> QED
      BY <1>1, <3>1, Marked, Zenon DEF Get, ClientInv
  <2> QED
    BY <1>1, <2>2, <2>3, CallerKeeps, Zenon DEF Get
<1>2. CASE ~(k \in DOMAIN pooled /\ IsAlive(pooled[k].client))
  <2> DEFINE r == [Free EXCEPT !.pc = "dial", !.key = k]
  <2>1. r \in Caller /\ r.pc = "dial" /\ r.key = k
    BY FreeCaller, Zenon DEF Caller, Free
  <2>2. /\ caller' \in [Callers -> Caller] /\ caller'[c] = r
        /\ \A d \in Callers : d # c => caller'[d] = caller[d]
    BY <1>2, <2>1, CallerWritten DEF Get, ClientInv
  <2>3. /\ DOMAIN dialled' = DOMAIN dialled /\ dialled' \in [DOMAIN dialled -> Client]
        /\ Alive' = Alive \ Pooled({k})
    BY <1>2, CloseEnds DEF Get, ClientInv
  <2>4. /\ DOMAIN pooled' = DOMAIN pooled \ {k}
        /\ pooled' \in [DOMAIN pooled' -> [client : DOMAIN dialled, timedOut : BOOLEAN]]
        /\ InPool \subseteq InPool' \cup Pooled({k})
    BY <1>2, EvictedForgets, Zenon DEF Get, ClientInv
  <2>5. PoolShapeInv'
    BY <2>1, <2>2, <2>3, <2>4, Zenon DEF Get, ClientInv, PoolShapeInv, Numbered
  <2>6. OwnInv'
    <3>1. ~poolClosed'
      BY DEF Get
    <3> HIDE DEF r
    <3>2. \A d \in Callers : caller'[d].pc = "insert" => d # c /\ caller'[d] = caller[d]
      BY <2>1, <2>2
    <3> QED
      BY <3>1, <3>2, Zenon DEF ClientInv, OwnInv
  <2>7. InHand \subseteq InHand'
    BY <2>1, <2>2 DEF Get, InHand
  <2> QED
    BY <2>3, <2>4, <2>5, <2>6, <2>7, Zenon DEF ClientInv
<1> QED
  BY <1>1, <1>2

\* A dial that succeeds gives its caller a client that nobody else has.
LEMMA ConnectedKeeps ==
    ASSUME ClientInv, NEW c \in Callers, caller[c].pc \in {"dial", "save"}, Connected(c),
           UNCHANGED <<pooled, poolClosed>>
    PROVE  ClientInv'
<1>1. PICK n \in 0 .. MaxDials : DOMAIN dialled = 1 .. n
  BY DEF ClientInv, PoolShapeInv, Numbered
<1>2. Cardinality(DOMAIN dialled) = n
  BY <1>1, FS_Interval
<1> DEFINE i == n + 1
           new == [key |-> caller[c].key, up |-> TRUE, closed |-> FALSE]
           r == [caller[c] EXCEPT !.pc = "insert", !.client = i]
<1>3. n < MaxDials /\ i \notin DOMAIN dialled /\ DOMAIN dialled \cup {i} = 1 .. i
  BY <1>1, <1>2, PoolAssumption DEF Connected
<1>4. new \in Client /\ new.up /\ ~new.closed
  BY DEF ClientInv, PoolShapeInv, Client
<1>5. r \in Caller /\ r.pc = "insert" /\ r.client = i /\ r.key = caller[c].key
  <2>1. caller[c] \in Caller
    BY DEF ClientInv, PoolShapeInv
  <2>2. i \in Nat
    BY <1>1, PoolAssumption
  <2> HIDE DEF i
  <2> QED
    BY <2>1, <2>2, Zenon DEF Caller
<1>6. dialled' = Put(dialled, i, new) /\ caller' = [caller EXCEPT ![c] = r]
  BY <1>2, Zenon DEF Connected
<1>7. /\ caller' \in [Callers -> Caller] /\ caller'[c] = r
      /\ \A d \in Callers : d # c => caller'[d] = caller[d]
  BY <1>5, <1>6, CallerWritten, Zenon DEF ClientInv
<1> HIDE DEF new, r
<1>8. /\ DOMAIN dialled' = 1 .. i /\ dialled' \in [DOMAIN dialled' -> Client] /\ dialled'[i] = new
      /\ \A j \in DOMAIN dialled : dialled'[j] = dialled[j]
  BY <1>3, <1>4, <1>6 DEF Put, ClientInv, PoolShapeInv
<1>9. PoolShapeInv'
  <2>1. Numbered'
    BY <1>1, <1>3, <1>8, PoolAssumption DEF Numbered
  <2>2. DOMAIN dialled \subseteq DOMAIN dialled' /\ i \in DOMAIN dialled'
    BY <1>3, <1>8
  <2>3. \A d \in Callers : /\ caller'[d].pc # "idle" => caller'[d].key \in Targets
                           /\ caller'[d].pc = "insert" => caller'[d].client \in DOMAIN dialled'
    BY <1>5, <1>7, <2>2 DEF ClientInv, PoolShapeInv
  <2>4. pooled' \in [DOMAIN pooled' -> [client : DOMAIN dialled', timedOut : BOOLEAN]]
    BY <2>2 DEF ClientInv, PoolShapeInv
  <2> QED
    BY <1>7, <1>8, <2>1, <2>3, <2>4 DEF ClientInv, PoolShapeInv
<1>10. OwnInv'
  BY <1>3, <1>5, <1>7 DEF ClientInv, PoolShapeInv, OwnInv
<1>11. Alive' \subseteq Alive \cup {i}
  BY <1>3, <1>8 DEF Alive, IsAlive
<1>12. InPool' = InPool /\ InHand \cup {i} \subseteq InHand'
  BY <1>5, <1>7, Zenon DEF InPool, InHand
<1> QED
  BY <1>9, <1>10, <1>11, <1>12 DEF ClientInv

\* A caller that ends its call without a client in its hands.
LEMMA EndKeeps ==
    ASSUME ClientInv, NEW c \in Callers, caller[c].pc # "insert",
           caller' = [caller EXCEPT ![c] = Free], UNCHANGED <<dialled, pooled, poolClosed>>
    PROVE  ClientInv'
<1>1. pooled \in [DOMAIN pooled -> [client : DOMAIN dialled, timedOut : BOOLEAN]]
  BY DEF ClientInv, PoolShapeInv
<1> QED
  BY <1>1, FreeCaller, CallerKeeps, Zenon

\* Connect and the two statements of its callback.
LEMMA HandshakeKeeps ==
    ASSUME ClientInv, NEW c \in Callers, Dial(c) \/ SaveFirstSeen(c), offered \in [Targets -> HostKeys]
    PROVE  ClientInv'
<1>1. caller[c].pc \in {"dial", "save"} /\ UNCHANGED <<pooled, poolClosed>>
  BY DEF Dial, SaveFirstSeen
<1>2. CASE Fail(c)
  BY <1>1, <1>2, EndKeeps, Zenon DEF Fail
<1>3. CASE Connected(c)
  BY <1>1, <1>3, ConnectedKeeps, Zenon
<1>4. CASE /\ UNCHANGED dialled
           /\ caller' = [caller EXCEPT ![c] = [@ EXCEPT !.pc = "save", !.saw = offered[caller[c].key]]]
  <2> DEFINE r == [caller[c] EXCEPT !.pc = "save", !.saw = offered[caller[c].key]]
  <2>1. caller[c] \in Caller /\ caller[c].key \in Targets
    BY <1>1 DEF ClientInv, PoolShapeInv
  <2>2. r \in Caller /\ r.pc = "save" /\ r.key = caller[c].key
    BY <2>1, Zenon DEF Caller
  <2>3. pooled \in [DOMAIN pooled -> [client : DOMAIN dialled, timedOut : BOOLEAN]]
    BY DEF ClientInv, PoolShapeInv
  <2>4. caller' = [caller EXCEPT ![c] = r]
    BY <1>4
  <2> HIDE DEF r
  <2> QED
    BY <1>1, <1>4, <2>1, <2>2, <2>3, <2>4, CallerKeeps, Zenon
<1> QED
  BY <1>2, <1>3, <1>4 DEF Dial, SaveFirstSeen

\* A caller that comes too late for the pool closes what it has dialled.
LEMMA LateKeeps ==
    ASSUME ClientInv, NEW c \in Callers, caller[c].pc = "insert", dialled' = Close({caller[c].client}),
           NEW r \in Caller, r.pc # "insert", r.pc # "idle" => r.key \in Targets,
           caller' = [caller EXCEPT ![c] = r], UNCHANGED poolClosed, DOMAIN pooled' = DOMAIN pooled,
           pooled' \in [DOMAIN pooled -> [client : DOMAIN dialled, timedOut : BOOLEAN]],
           \A x \in DOMAIN pooled : pooled'[x].client = pooled[x].client
    PROVE  ClientInv'
<1>1. /\ caller' \in [Callers -> Caller] /\ caller'[c] = r
      /\ \A d \in Callers : d # c => caller'[d] = caller[d]
  BY CallerWritten, Zenon DEF ClientInv
<1>2. /\ DOMAIN dialled' = DOMAIN dialled /\ dialled' \in [DOMAIN dialled -> Client]
      /\ Alive' = Alive \ {caller[c].client}
  BY CloseEnds, Zenon DEF ClientInv
<1>3. PoolShapeInv'
  BY <1>1, <1>2, Zenon DEF ClientInv, PoolShapeInv, Numbered
<1>4. OwnInv'
  <2>1. \A d \in Callers : caller'[d].pc = "insert" => d # c /\ caller'[d] = caller[d]
    BY <1>1, Zenon
  <2> QED
    BY <2>1 DEF ClientInv, OwnInv
<1>5. InPool' = InPool /\ InHand \subseteq InHand' \cup {caller[c].client}
  BY <1>1 DEF InPool, InHand
<1> QED
  BY <1>2, <1>3, <1>4, <1>5, Zenon DEF ClientInv

\* The second section of getOrCreate.
LEMMA InsertKeeps ==
    ASSUME ClientInv, NEW c \in Callers, Insert(c)
    PROVE  ClientInv'
<1> DEFINE k == caller[c].key
           i == caller[c].client
<1>1. /\ caller[c].pc = "insert" /\ caller[c] \in Caller /\ k \in Targets /\ i \in DOMAIN dialled
      /\ pooled \in [DOMAIN pooled -> [client : DOMAIN dialled, timedOut : BOOLEAN]]
      /\ UNCHANGED poolClosed
  BY DEF Insert, ClientInv, PoolShapeInv
<1>2. CASE /\ poolClosed /\ dialled' = Close({i}) /\ UNCHANGED pooled
           /\ caller' = [caller EXCEPT ![c] = Free]
  BY <1>1, <1>2, FreeCaller, LateKeeps, Zenon
<1>3. CASE /\ k \in DOMAIN pooled /\ dialled' = Close({i})
           /\ pooled' = [pooled EXCEPT ![k].timedOut = FALSE]
           /\ caller' = [caller EXCEPT ![c].pc = "using", ![c].client = pooled[k].client]
  <2> DEFINE r == [caller[c] EXCEPT !.pc = "using", !.client = pooled[k].client]
  <2>1. pooled[k].client \in Nat
    BY <1>1, <1>3 DEF ClientInv, PoolShapeInv, Numbered
  <2>2. r \in Caller /\ r.pc = "using" /\ r.key = k
    BY <1>1, <2>1, Zenon DEF Caller
  <2>3. caller' = [caller EXCEPT ![c] = r]
    BY <1>1, <1>3, Zenon DEF ClientInv, PoolShapeInv, Caller
  <2>4. FALSE \in BOOLEAN
    OBVIOUS
  <2>5. /\ DOMAIN pooled' = DOMAIN pooled
        /\ pooled' \in [DOMAIN pooled -> [client : DOMAIN dialled, timedOut : BOOLEAN]]
        /\ \A x \in DOMAIN pooled : pooled'[x].client = pooled[x].client
    BY <1>3, <2>4, Marked, Zenon DEF ClientInv
  <2> HIDE DEF r
  <2> QED
    BY <1>1, <1>3, <2>2, <2>3, <2>5, LateKeeps, Zenon
<1>4. CASE /\ ~poolClosed /\ ~(k \in DOMAIN pooled /\ IsAlive(pooled[k].client))
           /\ pooled' = Put(pooled, k, [client |-> i, timedOut |-> FALSE])
           /\ caller' = [caller EXCEPT ![c].pc = "using"] /\ UNCHANGED dialled
  <2> DEFINE r == [caller[c] EXCEPT !.pc = "using"]
             e == [client |-> i, timedOut |-> FALSE]
  <2>1. r \in Caller /\ r.pc = "using" /\ r.key = k
    BY <1>1 DEF Caller
  <2>2. caller' = [caller EXCEPT ![c] = r]
    BY <1>1, <1>4 DEF ClientInv, PoolShapeInv, Caller
  <2>3. e \in [client : DOMAIN dialled, timedOut : BOOLEAN] /\ e.client = i
    <3>1. FALSE \in BOOLEAN
      OBVIOUS
    <3> QED
      BY <1>1, <3>1
  <2>4. pooled' = Put(pooled, k, e)
    BY <1>4
  <2> HIDE DEF r, e
  <2>5. /\ caller' \in [Callers -> Caller] /\ caller'[c] = r
        /\ \A d \in Callers : d # c => caller'[d] = caller[d]
    BY <2>1, <2>2, CallerWritten, Zenon DEF ClientInv
  <2>6. /\ DOMAIN pooled' = DOMAIN pooled \cup {k} /\ pooled'[k] = e
        /\ pooled' \in [DOMAIN pooled' -> [client : DOMAIN dialled, timedOut : BOOLEAN]]
        /\ \A x \in DOMAIN pooled : x # k => pooled'[x] = pooled[x]
    BY <1>1, <2>3, <2>4 DEF Put
  <2>7. PoolShapeInv'
    BY <1>1, <1>4, <2>1, <2>5, <2>6, Zenon DEF ClientInv, PoolShapeInv, Numbered
  <2>8. OwnInv'
    <3>1. \A d \in Callers : caller'[d].pc = "insert" => d # c /\ caller'[d] = caller[d]
      BY <2>1, <2>5, Zenon
    <3> QED
      BY <1>1, <1>4, <3>1 DEF ClientInv, OwnInv
  <2>9. InHand \subseteq InHand' \cup {i} /\ i \in InPool'
    BY <2>3, <2>5, <2>6 DEF InHand, InPool
  <2>10. Alive' = Alive
    BY <1>4 DEF Alive, IsAlive
  <2>11. Alive \cap InPool \subseteq InPool'
    <3> SUFFICES ASSUME NEW x \in DOMAIN pooled, IsAlive(pooled[x].client)
                 PROVE  pooled[x].client \in InPool'
      BY Zenon DEF InPool, Alive
    <3>1. x # k
      BY <1>4
    <3> QED
      BY <2>6, <3>1 DEF InPool
  <2> QED
    BY <2>7, <2>8, <2>9, <2>10, <2>11 DEF ClientInv
<1> QED
  BY <1>1, <1>2, <1>3, <1>4 DEF Insert

-----------------------------------------------------------------------------
(* The fingerprints.  While a host is getting known, at its first handshake *)
(* or in the administrator's confirmation, the key shown is the key it has, *)
(* and a fingerprint stored meanwhile is one of that key.                   *)

KeyShape == /\ offered \in [Targets -> HostKeys] /\ server \in [Targets -> ServerRow]
            /\ knownHosts \in [Targets -> Fingerprint \cup {NoKey}]

SameKey(k) == knownHosts[k] # NoKey => knownHosts[k].key = offered[k]

KeyInv ==
    /\ \A c \in Callers : caller[c].pc = "save" =>
         caller[c].saw = offered[caller[c].key] /\ SameKey(caller[c].key)
    /\ \A k \in Targets : server[k].pc = "new" => knownHosts[k] = NoKey
    /\ \A k \in Targets : server[k].pc = "confirm" => knownHosts[k] = NoKey
    /\ \A k \in Targets : server[k].pc \in {"confirm", "save"} => server[k].shown = offered[k]
    /\ \A k \in Targets : server[k].pc = "save" => SameKey(k)
    /\ \A k \in Targets : server[k].pc = "gone" => knownHosts[k] = NoKey

PoolInv == ClientInv /\ KeyShape /\ KeyInv

-----------------------------------------------------------------------------
(* The clients, step by step.                                              *)

\* The pool at the start.
LEMMA PoolInitInv == PoolInit => PoolInv
<1> SUFFICES ASSUME PoolInit PROVE PoolInv
  OBVIOUS
<1>1. DOMAIN dialled = {} /\ DOMAIN pooled = {} /\ dialled = NoMap /\ pooled = NoMap
  BY DEF PoolInit, NoMap
<1>2. PoolShapeInv
  <2>1. Numbered
    BY <1>1, PoolAssumption DEF Numbered
  <2>2. /\ dialled \in [DOMAIN dialled -> Client]
        /\ pooled \in [DOMAIN pooled -> [client : DOMAIN dialled, timedOut : BOOLEAN]]
    BY <1>1 DEF NoMap
  <2>3. caller \in [Callers -> Caller] /\ \A c \in Callers : caller[c].pc = "idle"
    BY FreeCaller DEF PoolInit
  <2>4. poolClosed \in BOOLEAN
    BY Zenon DEF PoolInit
  <2> QED
    BY <2>1, <2>2, <2>3, <2>4 DEF PoolShapeInv
<1>3. \A c \in Callers : caller[c].pc = "idle"
  BY FreeCaller DEF PoolInit
<1>4. OwnInv /\ Alive = {}
  BY <1>1, <1>3 DEF OwnInv, Alive
<1>5. KeyShape
  BY PoolAssumption DEF PoolInit, KeyShape, ServerRow
<1>6. \A k \in Targets : /\ server[k].pc \in {"new", "there"}
                         /\ server[k].pc = "new" => knownHosts[k] = NoKey
  BY DEF PoolInit
<1>7. KeyInv
  BY <1>3, <1>6 DEF KeyInv
<1> QED
  BY <1>2, <1>4, <1>5, <1>7 DEF ClientInv, PoolInv

\* A client whose transport breaks is no longer alive.
LEMMA BreakKeeps ==
    ASSUME ClientInv, NEW i \in DOMAIN dialled, Break(i)
    PROVE  ClientInv'
<1>1. FALSE \in BOOLEAN
  OBVIOUS
<1>2. /\ DOMAIN dialled' = DOMAIN dialled /\ dialled' \in [DOMAIN dialled -> Client]
      /\ UNCHANGED <<pooled, caller, poolClosed>>
  BY <1>1, Zenon DEF Break, ClientInv, PoolShapeInv, Client
<1>3. Alive' \subseteq Alive
  <2>1. \A j \in DOMAIN dialled : j # i => dialled'[j] = dialled[j]
    BY DEF Break, ClientInv, PoolShapeInv
  <2>2. i \in Alive
    BY DEF Break, Alive
  <2> QED
    BY <1>2, <2>1, <2>2 DEF Alive, IsAlive
<1>4. PoolShapeInv' /\ OwnInv' /\ InPool' = InPool /\ InHand' = InHand
  BY <1>2 DEF ClientInv, PoolShapeInv, Numbered, OwnInv, InPool, InHand
<1> QED
  BY <1>3, <1>4 DEF ClientInv

\* An entry that times out keeps its client.
LEMMA TimeOutKeeps ==
    ASSUME ClientInv, NEW k, TimeOut(k)
    PROVE  ClientInv'
<1>1. TRUE \in BOOLEAN /\ k \in DOMAIN pooled
  BY DEF TimeOut
<1>2. /\ DOMAIN pooled' = DOMAIN pooled
      /\ pooled' \in [DOMAIN pooled -> [client : DOMAIN dialled, timedOut : BOOLEAN]]
      /\ \A x \in DOMAIN pooled : pooled'[x].client = pooled[x].client
  BY <1>1, Marked, Zenon DEF TimeOut, ClientInv
<1>3. UNCHANGED <<dialled, caller, poolClosed>>
  BY DEF TimeOut
<1>4. PoolShapeInv' /\ OwnInv'
  BY <1>2, <1>3 DEF ClientInv, PoolShapeInv, Numbered, OwnInv
<1>5. InPool' = InPool /\ InHand' = InHand /\ Alive' = Alive
  BY <1>2, <1>3 DEF InPool, InHand, Alive, IsAlive
<1> QED
  BY <1>4, <1>5 DEF ClientInv

\* Steps that touch neither clients nor callers.
LEMMA StillKeeps ==
    ASSUME ClientInv, UNCHANGED <<dialled, pooled, caller, poolClosed>>
    PROVE  ClientInv'
  BY DEF ClientInv, PoolShapeInv, Numbered, OwnInv, InPool, InHand, Alive, IsAlive

\* No step strands a client.
LEMMA ClientStep == PoolInv /\ [PoolNext]_poolVars => ClientInv'
<1> SUFFICES ASSUME PoolInv, [PoolNext]_poolVars PROVE ClientInv'
  OBVIOUS
<1> ClientInv /\ offered \in [Targets -> HostKeys] /\ poolClosed \in BOOLEAN
  BY DEF PoolInv, KeyShape, ClientInv, PoolShapeInv
<1>1. CASE \E c \in Callers, k \in Targets : Get(c, k)
  BY <1>1, GetKeeps
<1>2. CASE \E c \in Callers : Dial(c) \/ SaveFirstSeen(c)
  BY <1>2, HandshakeKeeps
<1>3. CASE \E c \in Callers : Insert(c)
  BY <1>3, InsertKeeps
<1>4. CASE \E c \in Callers : Done(c)
  BY <1>4, EndKeeps, Zenon DEF Done
<1>5. CASE \E k \in Targets : TimeOut(k)
  BY <1>5, TimeOutKeeps
<1>6. CASE \E k \in Targets : Reboot(k) \/ DeleteServer(k)
  BY <1>6, EvictKeeps DEF Reboot, DeleteServer
<1>7. CASE \E i \in DOMAIN dialled : Break(i)
  BY <1>7, BreakKeeps
<1>8. CASE Sweep \/ PingEvict
  BY <1>8, EvictKeeps DEF Sweep, PingEvict
<1>9. CASE PoolClose
  <2>1. poolClosed' \in BOOLEAN
    BY <1>9 DEF PoolClose
  <2> QED
    BY <1>9, <2>1, EvictKeeps DEF PoolClose
<1>10. CASE PingBegin \/ \E k \in Targets : PingCheck(k)
  BY <1>10, StillKeeps, Zenon DEF PingBegin, PingCheck
<1>11. CASE \E k \in Targets : \/ AddServer(k) \/ ConfirmFingerprint(k) \/ ConfirmSave(k)
                               \/ DeleteKnownHost(k) \/ DeleteServerRow(k) \/ NewHostKey(k)
  BY <1>11, StillKeeps, Zenon DEF AddServer, ConfirmFingerprint, ConfirmSave, DeleteKnownHost,
                           DeleteServerRow, NewHostKey
<1>12. CASE UNCHANGED poolVars
  BY <1>12, StillKeeps DEF poolVars
<1> QED
  BY <1>1, <1>2, <1>3, <1>4, <1>5, <1>6, <1>7, <1>8, <1>9, <1>10, <1>11, <1>12
     DEF PoolNext, CallerStep, ServerStep

-----------------------------------------------------------------------------
(* The fingerprints, step by step.                                         *)

RowInv ==
    /\ \A k \in Targets : server[k].pc = "new" => knownHosts[k] = NoKey
    /\ \A k \in Targets : server[k].pc = "confirm" => knownHosts[k] = NoKey
    /\ \A k \in Targets : server[k].pc \in {"confirm", "save"} => server[k].shown = offered[k]
    /\ \A k \in Targets : server[k].pc = "save" => SameKey(k)
    /\ \A k \in Targets : server[k].pc = "gone" => knownHosts[k] = NoKey

\* What PinnedKeyStays says of one step.
Pinned == \A k \in Targets : knownHosts[k] # NoKey /\ knownHosts'[k] # NoKey =>
             knownHosts'[k].key = knownHosts[k].key

\* After the step a caller is at its first statement only if it was before.
NoNewSave == \A c \in Callers : caller'[c].pc = "save" =>
                caller[c].pc = "save" /\ caller'[c].key = caller[c].key /\ caller'[c].saw = caller[c].saw

\* The key a server has, stored where nothing else was, or the same.
LEMMA SaveOwnKey ==
    ASSUME KeyShape, RowInv, NEW k \in Targets, SaveKnownHost(k, offered[k]), SameKey(k),
           UNCHANGED offered
    PROVE  /\ knownHosts' \in [Targets -> Fingerprint \cup {NoKey}] /\ Pinned
           /\ \A x \in Targets : SameKey(x) => SameKey(x)'
           /\ \A x \in Targets : x # k => knownHosts'[x] = knownHosts[x]
           /\ server[k].pc \notin {"new", "confirm", "gone"}
<1>1. /\ Sha(offered[k]) \in Fingerprint /\ Sha(offered[k]).key = offered[k]
      /\ Sha(offered[k]) # NoKey
  BY PoolAssumption DEF KeyShape, Sha, Fingerprint
<1>2. knownHosts' = [knownHosts EXCEPT ![k] = Sha(offered[k])]
  BY DEF SaveKnownHost
<1>3. /\ knownHosts' \in [Targets -> Fingerprint \cup {NoKey}] /\ knownHosts'[k] = Sha(offered[k])
      /\ \A x \in Targets : x # k => knownHosts'[x] = knownHosts[x]
  BY <1>1, <1>2 DEF KeyShape
<1>4. Pinned
  BY <1>1, <1>3 DEF Pinned, SameKey
<1>5. \A x \in Targets : SameKey(x) => SameKey(x)'
  BY <1>1, <1>3, Zenon DEF SameKey
<1>6. server[k].pc \notin {"new", "confirm", "gone"}
  BY Zenon DEF SaveKnownHost, HasRow
<1> QED
  BY <1>3, <1>4, <1>5, <1>6, Zenon

\* A step that leaves rows and host keys alone and stores nothing, or the
\* key that the server has.
LEMMA StoreKeeps ==
    ASSUME KeyShape, RowInv, UNCHANGED <<offered, server>>, NEW k \in Targets,
           UNCHANGED knownHosts \/ (SaveKnownHost(k, offered[k]) /\ SameKey(k))
    PROVE  KeyShape' /\ RowInv' /\ Pinned /\ \A x \in Targets : SameKey(x) => SameKey(x)'
<1>1. CASE UNCHANGED knownHosts
  BY <1>1, Zenon DEF KeyShape, RowInv, Pinned, SameKey
<1>2. CASE SaveKnownHost(k, offered[k]) /\ SameKey(k)
  <2>1. /\ knownHosts' \in [Targets -> Fingerprint \cup {NoKey}] /\ Pinned
        /\ \A x \in Targets : SameKey(x) => SameKey(x)'
        /\ \A x \in Targets : x # k => knownHosts'[x] = knownHosts[x]
        /\ server[k].pc \notin {"new", "confirm", "gone"}
    BY <1>2, SaveOwnKey, Zenon
  <2>2. KeyShape'
    BY <2>1 DEF KeyShape
  <2>3. RowInv'
    BY <2>1, Zenon DEF RowInv
  <2> QED
    BY <2>1, <2>2, <2>3, Zenon
<1> QED
  BY <1>1, <1>2

\* Connect and its callback store only the key the server has.
LEMMA HandshakeKeepsKeys ==
    ASSUME PoolInv, NEW c \in Callers, Dial(c) \/ SaveFirstSeen(c)
    PROVE  KeyShape' /\ KeyInv' /\ Pinned
<1> DEFINE k == caller[c].key
<1>1. /\ k \in Targets /\ caller[c] \in Caller /\ caller \in [Callers -> Caller]
      /\ KeyShape /\ RowInv /\ UNCHANGED <<offered, server>>
  BY DEF PoolInv, ClientInv, PoolShapeInv, KeyInv, RowInv, Dial, SaveFirstSeen
<1>2. UNCHANGED knownHosts \/ (SaveKnownHost(k, offered[k]) /\ SameKey(k))
  <2>1. CASE Dial(c)
    <3>1. \/ UNCHANGED knownHosts
          \/ Matches(knownHosts[k], offered[k]) /\ SaveKnownHost(k, offered[k])
      BY <2>1 DEF Dial
    <3>2. Matches(knownHosts[k], offered[k]) => SameKey(k)
      BY Zenon DEF Matches, SameKey
    <3> QED
      BY <3>1, <3>2, Zenon
  <2>2. CASE SaveFirstSeen(c)
    <3>1. caller[c].saw = offered[k] /\ SameKey(k)
      BY <2>2, Zenon DEF SaveFirstSeen, PoolInv, KeyInv
    <3>2. UNCHANGED knownHosts \/ SaveKnownHost(k, caller[c].saw)
      BY <2>2 DEF SaveFirstSeen
    <3> QED
      BY <3>1, <3>2, Zenon
  <2> QED
    BY <2>1, <2>2, Zenon
<1>3. KeyShape' /\ RowInv' /\ Pinned /\ \A x \in Targets : SameKey(x) => SameKey(x)'
  BY <1>1, <1>2, StoreKeeps, Zenon
<1>4. \A d \in Callers : d # c => caller'[d] = caller[d]
  BY <1>1 DEF Dial, SaveFirstSeen, Fail, Connected
<1>5. caller'[c].pc = "save" =>
        caller'[c].key = k /\ caller'[c].saw = offered[k] /\ SameKey(k)
  <2>1. CASE Fail(c)
    BY <1>1, <2>1, FreeCaller, Zenon DEF Fail
  <2>2. CASE Connected(c)
    BY <1>1, <2>2 DEF Connected, Caller
  <2>3. CASE /\ knownHosts[k] = NoKey
             /\ caller' = [caller EXCEPT ![c] = [@ EXCEPT !.pc = "save", !.saw = offered[k]]]
    BY <1>1, <2>3 DEF Caller, SameKey
  <2> QED
    BY <2>1, <2>2, <2>3 DEF Dial, SaveFirstSeen
<1>6. ASSUME NEW d \in Callers, caller'[d].pc = "save"
      PROVE  caller'[d].saw = offered[caller'[d].key] /\ SameKey(caller'[d].key) /\ caller'[d].key \in Targets
  BY <1>1, <1>4, <1>5, <1>6 DEF PoolInv, KeyInv, ClientInv, PoolShapeInv
<1> QED
  BY <1>1, <1>3, <1>6, Zenon DEF KeyInv, RowInv

\* Steps that write neither fingerprints, rows nor host keys.
LEMMA OtherKeepsKeys ==
    ASSUME PoolInv, UNCHANGED <<knownHosts, offered, server>>, NoNewSave
    PROVE  KeyShape' /\ KeyInv' /\ Pinned
<1>1. ASSUME NEW d \in Callers, caller'[d].pc = "save"
      PROVE  (caller[d].saw = offered[caller[d].key] /\ SameKey(caller[d].key))'
  BY <1>1 DEF PoolInv, KeyInv, NoNewSave, SameKey
<1>2. KeyShape' /\ RowInv' /\ Pinned
  BY Zenon DEF PoolInv, KeyInv, RowInv, KeyShape, SameKey, Pinned
<1> QED
  BY <1>1, <1>2, Zenon DEF KeyInv, RowInv

\* The steps of a server's row.
LEMMA RowStepKeeps ==
    ASSUME PoolInv, NEW k \in Targets, ServerStep(k)
    PROVE  KeyShape' /\ KeyInv' /\ Pinned
<1> DEFINE Others == \A x \in Targets : x # k => server'[x] = server[x]
<1>1. UNCHANGED <<offered, caller>> /\ KeyShape /\ RowInv
  BY Zenon DEF PoolInv, KeyInv, RowInv, ServerStep, AddServer, ConfirmFingerprint, ConfirmSave, DeleteServer,
         DeleteKnownHost, DeleteServerRow
<1>2. SUFFICES /\ server' \in [Targets -> ServerRow]
               /\ knownHosts' \in [Targets -> Fingerprint \cup {NoKey}]
               /\ RowInv' /\ Pinned /\ \A x \in Targets : SameKey(x) => SameKey(x)'
  <2>1. \A c \in Callers : caller[c].pc = "save" => caller[c].key \in Targets
    BY DEF PoolInv, ClientInv, PoolShapeInv
  <2> QED
    BY <1>1, <2>1, Zenon DEF PoolInv, KeyShape, KeyInv, RowInv
<1>3. CASE AddServer(k)
  <2>1. /\ server' \in [Targets -> ServerRow] /\ Others /\ UNCHANGED knownHosts
        /\ server'[k].pc = "confirm" /\ server'[k].shown = offered[k] /\ server[k].pc = "new"
    BY <1>1, <1>3 DEF AddServer, KeyShape, ServerRow
  <2> QED
    BY <1>1, <2>1, Zenon DEF RowInv, KeyShape, Pinned, SameKey
<1>4. CASE ConfirmFingerprint(k)
  <2>1. /\ server' \in [Targets -> ServerRow] /\ Others /\ UNCHANGED knownHosts
        /\ server'[k].pc = "save" /\ server'[k].shown = server[k].shown /\ server[k].pc = "confirm"
    BY <1>1, <1>4 DEF ConfirmFingerprint, GoServer, KeyShape, ServerRow
  <2> QED
    BY <1>1, <2>1, Zenon DEF RowInv, KeyShape, Pinned, SameKey
<1>5. CASE ConfirmSave(k)
  <2>1. /\ server' \in [Targets -> ServerRow] /\ Others
        /\ server'[k].pc = "there" /\ server[k].pc = "save"
    BY <1>1, <1>5 DEF ConfirmSave, KeyShape, ServerRow
  <2>2. server[k].shown = offered[k] /\ SameKey(k)
    BY <1>1, <2>1, Zenon DEF RowInv
  <2>3. CASE UNCHANGED knownHosts
    BY <1>1, <2>1, <2>3, Zenon DEF RowInv, KeyShape, Pinned, SameKey
  <2>4. CASE SaveKnownHost(k, server[k].shown)
    <3>1. /\ knownHosts' \in [Targets -> Fingerprint \cup {NoKey}] /\ Pinned
          /\ \A x \in Targets : SameKey(x) => SameKey(x)'
          /\ \A x \in Targets : x # k => knownHosts'[x] = knownHosts[x]
      BY <1>1, <2>2, <2>4, SaveOwnKey, Zenon
    <3> QED
      BY <1>1, <2>1, <3>1, Zenon DEF RowInv
  <2> QED
    BY <1>5, <2>3, <2>4 DEF ConfirmSave
<1>6. CASE DeleteServer(k)
  <2>1. /\ server' \in [Targets -> ServerRow] /\ Others /\ UNCHANGED knownHosts
        /\ server'[k].pc = "unpooled"
    BY <1>1, <1>6 DEF DeleteServer, GoServer, KeyShape, ServerRow
  <2> QED
    BY <1>1, <2>1, Zenon DEF RowInv, KeyShape, Pinned, SameKey
<1>7. CASE DeleteKnownHost(k) \/ DeleteServerRow(k)
  <2>1. /\ server' \in [Targets -> ServerRow] /\ Others
        /\ server'[k].pc \in {"there", "unknown", "gone"}
        /\ \/ UNCHANGED knownHosts /\ server'[k].pc = "there"
           \/ knownHosts' = [knownHosts EXCEPT ![k] = NoKey]
    BY <1>1, <1>7 DEF DeleteKnownHost, DeleteServerRow, GoServer, KeyShape, ServerRow
  <2>2. CASE UNCHANGED knownHosts /\ server'[k].pc = "there"
    BY <1>1, <2>1, <2>2, Zenon DEF RowInv, KeyShape, Pinned, SameKey
  <2>3. CASE knownHosts' = [knownHosts EXCEPT ![k] = NoKey]
    <3>1. /\ knownHosts' \in [Targets -> Fingerprint \cup {NoKey}] /\ knownHosts'[k] = NoKey
          /\ \A x \in Targets : x # k => knownHosts'[x] = knownHosts[x]
      BY <1>1, <2>3 DEF KeyShape
    <3>2. Pinned /\ \A x \in Targets : SameKey(x) => SameKey(x)'
      BY <1>1, <3>1 DEF Pinned, SameKey
    <3> QED
      BY <1>1, <2>1, <3>1, <3>2, Zenon DEF RowInv
  <2> QED
    BY <2>1, <2>2, <2>3, Zenon
<1> QED
  BY <1>3, <1>4, <1>5, <1>6, <1>7 DEF ServerStep

\* A host set up anew is not one that is getting known.
LEMMA NewHostKeyKeeps ==
    ASSUME PoolInv, NEW k \in Targets, NewHostKey(k)
    PROVE  KeyShape' /\ KeyInv' /\ Pinned
<1>1. /\ UNCHANGED <<caller, knownHosts, server>> /\ server[k].pc \notin {"confirm", "save"}
      /\ \A c \in Callers : caller[c].pc # "save" \/ caller[c].key # k
      /\ KeyShape /\ RowInv
  BY Zenon DEF NewHostKey, PoolInv, KeyInv, RowInv
<1>2. offered' \in [Targets -> HostKeys] /\ \A x \in Targets : x # k => offered'[x] = offered[x]
  BY <1>1 DEF NewHostKey, KeyShape
<1>3. KeyShape' /\ RowInv' /\ Pinned
  BY <1>1, <1>2, Zenon DEF KeyShape, RowInv, Pinned, SameKey
<1>4. ASSUME NEW d \in Callers, caller'[d].pc = "save"
      PROVE  (caller[d].saw = offered[caller[d].key] /\ SameKey(caller[d].key))'
  <2>1. caller[d].key \in Targets /\ caller[d].key # k
    BY <1>1, <1>4 DEF PoolInv, ClientInv, PoolShapeInv
  <2> QED
    BY <1>1, <1>2, <1>4, <2>1, Zenon DEF PoolInv, KeyInv, SameKey
<1> QED
  BY <1>3, <1>4, Zenon DEF KeyInv, RowInv

\* No step forgets, changes or outlives a fingerprint in a way it should not.
LEMMA KeyStep == PoolInv /\ [PoolNext]_poolVars => KeyShape' /\ KeyInv' /\ Pinned
<1> SUFFICES ASSUME PoolInv, [PoolNext]_poolVars PROVE KeyShape' /\ KeyInv' /\ Pinned
  OBVIOUS
<1>1. caller \in [Callers -> Caller] /\ Caller = [pc : {"idle", "dial", "save", "insert", "using"},
         key : Targets \cup {NoKey}, client : Nat \cup {NoDial}, saw : HostKeys \cup {NoKey}]
  BY DEF PoolInv, ClientInv, PoolShapeInv, Caller
<1>2. CASE \E c \in Callers, k \in Targets : Get(c, k)
  <2>1. PICK c \in Callers, k \in Targets : Get(c, k)
    BY <1>2
  <2>2. caller'[c].pc # "save" /\ \A d \in Callers : d # c => caller'[d] = caller[d]
    BY <1>1, <2>1, Zenon DEF Get, Free
  <2> QED
    BY <2>1, <2>2, OtherKeepsKeys DEF NoNewSave, Get, dbVars
<1>3. CASE \E c \in Callers : Dial(c) \/ SaveFirstSeen(c)
  BY <1>3, HandshakeKeepsKeys
<1>4. CASE \E c \in Callers : Insert(c) \/ Done(c)
  <2>1. PICK c \in Callers : Insert(c) \/ Done(c)
    BY <1>4
  <2>2. UNCHANGED <<knownHosts, offered, server>>
    BY <2>1 DEF Insert, Done, dbVars
  <2>3. /\ caller[c] \in Caller
        /\ \/ caller' = [caller EXCEPT ![c] = Free]
           \/ caller' = [caller EXCEPT ![c].pc = "using"]
           \/ caller' = [caller EXCEPT ![c].pc = "using", ![c].client = pooled[caller[c].key].client]
    BY <1>1, <2>1 DEF Insert, Done
  <2>4. caller'[c].pc # "save" /\ \A d \in Callers : d # c => caller'[d] = caller[d]
    BY <1>1, <2>3 DEF Free
  <2> QED
    BY <2>2, <2>4, OtherKeepsKeys DEF NoNewSave
<1>5. CASE \/ \E k \in Targets : TimeOut(k) \/ PingCheck(k) \/ Reboot(k)
           \/ \E i \in DOMAIN dialled : Break(i)
           \/ Sweep \/ PingBegin \/ PingEvict \/ PoolClose \/ UNCHANGED poolVars
  <2>1. UNCHANGED <<caller, knownHosts, offered, server>>
    BY <1>5, Zenon DEF TimeOut, PingCheck, Reboot, Break, Sweep, PingBegin, PingEvict, PoolClose, dbVars, poolVars
  <2> QED
    BY <2>1, OtherKeepsKeys DEF NoNewSave
<1>6. CASE \E k \in Targets : ServerStep(k)
  BY <1>6, RowStepKeeps
<1>7. CASE \E k \in Targets : NewHostKey(k)
  BY <1>7, NewHostKeyKeeps
<1> QED
  BY <1>2, <1>3, <1>4, <1>5, <1>6, <1>7 DEF PoolNext, CallerStep

\* The inductive invariant holds.
LEMMA PoolInvHolds == PoolSpec => []PoolInv
<1>1. PoolInv /\ [PoolNext]_poolVars => PoolInv'
  BY ClientStep, KeyStep DEF PoolInv
<1> QED
  BY PoolInitInv, <1>1, PTL DEF PoolSpec

-----------------------------------------------------------------------------

\* For any number of servers, callers and dials no live connection is lost
\* sight of: getOrCreate, the two maintenance loops, Remove and Close leave it
\* in the map of the pool or with the caller that has just dialled it.
THEOREM NoClientIsStranded == PoolSpec => []NoStrandedClient
<1>1. PoolInv => NoStrandedClient
  BY DEF PoolInv, ClientInv, Alive, InPool, InHand, NoStrandedClient
<1> QED
  BY PoolInvHolds, <1>1, PTL

\* After Close no connection stays open once the dials in progress have
\* returned: the second section of getOrCreate closes a client that comes late.
THEOREM CloseEndsEverything == PoolSpec => []CloseEndsAll
<1>1. PoolInv => CloseEndsAll
  BY DEF PoolInv, ClientInv, OwnInv, Alive, InPool, InHand, CloseEndsAll
<1> QED
  BY PoolInvHolds, <1>1, PTL

\* No dial, confirmation or deletion leaves a fingerprint behind a deleted server.
THEOREM FingerprintsGoWithServers == PoolSpec => []ForgottenWithServer
<1>1. PoolInv => ForgottenWithServer
  BY DEF PoolInv, KeyInv, ForgottenWithServer
<1> QED
  BY PoolInvHolds, <1>1, PTL

\* Whatever first handshakes and confirmations run at once, a stored fingerprint
\* is replaced only by one of the same host key.
THEOREM FingerprintsStay == PoolSpec => PinnedKeyStays
<1>1. PoolInv /\ [PoolNext]_poolVars => [Pinned]_poolVars
  BY KeyStep
<1> QED
  BY PoolInvHolds, <1>1, PTL DEF PoolSpec, PinnedKeyStays, Pinned

\* The pool accounts for every connection it has dialled, open or closed.
THEOREM ClientsAreAccountedFor == PoolSpec => []ClientsAccountedFor
  BY NoClientIsStranded, CloseEndsEverything, PTL DEF ClientsAccountedFor
=============================================================================
