------------------------------- MODULE Access -------------------------------
(***************************************************************************)
(* Who may do what in the panel: the session cookie, the middleware chain  *)
(* of internal/router/router.go (Session, SetupRedirect,                   *)
(* PasswordChangeRequired, RequireAuth, RequireAdminOrSupport) and the     *)
(* handlers of internal/handlers/auth.go and share.go behind it.           *)
(*                                                                         *)
(* The session is a signed cookie kept by the browser: the panel keeps no  *)
(* copy, so what a cookie says may be older than the user's row.  A        *)
(* browser has one request in flight; the requests of different browsers   *)
(* interleave at every database call.  Validation of bodies, the CSRF      *)
(* token, the wording of answers and the cookie's age are left out.        *)
(***************************************************************************)
EXTENDS Naturals, FiniteSets

CONSTANTS Browsers, UserIDs, Passwords, NoUser, NoHolder,
          MaxRequests     \* bound: requests the browsers send

ASSUME AccessAssumption ==
    /\ IsFiniteSet(Browsers) /\ IsFiniteSet(UserIDs)
    /\ NoUser \notin UserIDs
    /\ NoHolder \notin Browsers
    /\ Passwords # {} /\ MaxRequests \in Nat

VARIABLES
    people,     \* the rows of users: partial function from UserIDs to Row
    setupDone,  \* middleware.setupCompleted, the cached answer to "is there a user?"
    setupMu,    \* Handlers.setupMu: the browser whose request holds it
    captchaOn,  \* the "captcha" setting
    cookie,     \* the session cookie each browser holds
    req,        \* the request each browser has in flight
    sent        \* requests sent so far

accessVars == <<people, setupDone, setupMu, captchaOn, cookie, req, sent>>

\* share: the user's public link is off, open to everyone, or has a password.
Row == [pw : Passwords, admin : BOOLEAN, on : BOOLEAN, must : BOOLEAN,
        share : {"off", "open", "locked"}]

\* models.SessionData.  share is the set of links, named by their owner, that
\* this session has given the password of; captcha: an answer is stored.
Session == [user : UserIDs \cup {NoUser}, must : BOOLEAN,
            share : SUBSET UserIDs, captcha : BOOLEAN]

Anonymous == [user |-> NoUser, must |-> FALSE, share |-> {}, captcha |-> FALSE]

AdminOps == {"addUser", "toggle", "delete", "shareSetup", "setCaptcha"}
UserOps == {"change", "page"}
PublicOps == {"setup", "login", "captcha", "logout", "shareAuth", "shareRead"}
Ops == AdminOps \cup UserOps \cup PublicOps

\* The requests that name a user.
Targeted == (AdminOps \ {"setCaptcha"}) \cup {"setup", "login", "shareAuth", "shareRead"}

NoRequest == [op |-> "logout", pc |-> "idle", sess |-> Anonymous, user |-> NoUser,
              pw |-> CHOOSE p \in Passwords : TRUE, set |-> FALSE, out |-> Anonymous]

Pending(b, pc) == req[b].pc = pc

\* The request goes on to step pc.
Proceed(b, pc) == req' = [req EXCEPT ![b].pc = pc]

\* The request is answered; the answer sets no cookie, or the cookie s.
Answer(b) == Proceed(b, "reply")
AnswerWith(b, s) ==
    req' = [req EXCEPT ![b].pc = "reply", ![b].set = TRUE, ![b].out = s]

NewRow(p, admin) == [pw |-> p, admin |-> admin, on |-> TRUE, must |-> FALSE,
                     share |-> "off"]

\* CreateUser of a name that is not taken.
WithRow(u, r) == [v \in DOMAIN people \cup {u} |-> IF v = u THEN r ELSE people[v]]

\* A new panel has no user; one imported from the earlier data file has an
\* administrator who may have been told to change the password.
AccessInit ==
    /\ \E U \in {{}} \cup {{u} : u \in UserIDs}, p \in Passwords, must \in BOOLEAN :
          people = [u \in U |-> [NewRow(p, TRUE) EXCEPT !.must = must]]
    /\ setupDone = FALSE
    /\ setupMu = NoHolder
    /\ captchaOn = FALSE
    /\ cookie = [b \in Browsers |-> Anonymous]
    /\ req = [b \in Browsers |-> NoRequest]
    /\ sent = 0

-----------------------------------------------------------------------------
(* The request reaches the panel.                                          *)

\* middleware.Session: a cookie without a user ID is not put in the context.
Decoded(c) == IF c.user = NoUser THEN Anonymous ELSE c

Send(b, op, u, p) ==
    /\ Pending(b, "idle")
    /\ sent < MaxRequests
    /\ sent' = sent + 1
    /\ req' = [req EXCEPT ![b] = [NoRequest EXCEPT
                 !.op = op, !.pc = "received", !.sess = Decoded(cookie[b]),
                 !.user = u, !.pw = p]]
    /\ UNCHANGED <<people, setupDone, setupMu, captchaOn, cookie>>

\* isPathAllowedDuringPasswordChange
AllowedDuringPasswordChange == {"change", "login", "captcha", "logout"}

\* What the handler of each route starts with.
FirstStep(op) == CASE op \in AdminOps \cup UserOps -> "authorise"
                   [] op = "setup" -> "lock"
                   [] OTHER -> "handle"

\* PasswordChangeRequired: decides by the flag in the cookie alone.
PasswordChangeRequired(b) ==
    IF req[b].sess.must /\ req[b].op \notin AllowedDuringPasswordChange
      THEN Answer(b)
      ELSE Proceed(b, FirstStep(req[b].op))

\* The cached flag answers without a query.
SetupKnown(b) ==
    /\ setupDone
    /\ IF req[b].op = "setup" THEN Answer(b) ELSE PasswordChangeRequired(b)
    /\ UNCHANGED setupDone

SetupCounted(b) ==
    /\ ~setupDone
    /\ IF DOMAIN people # {}
         THEN /\ setupDone' = TRUE
              /\ IF req[b].op = "setup" THEN Answer(b) ELSE PasswordChangeRequired(b)
         ELSE /\ UNCHANGED setupDone
              /\ IF req[b].op \in {"setup", "logout"}
                   THEN PasswordChangeRequired(b) ELSE Answer(b)

\* A failed count lets the request through.
SetupUncounted(b) ==
    /\ ~setupDone
    /\ PasswordChangeRequired(b)
    /\ UNCHANGED setupDone

SetupRedirect(b) ==
    /\ Pending(b, "received")
    /\ SetupKnown(b) \/ SetupCounted(b) \/ SetupUncounted(b)
    /\ UNCHANGED <<people, setupMu, captchaOn, cookie, sent>>

\* checkUserActive
Active(u) == u \in DOMAIN people /\ people[u].on

\* RequireAuth and RequireAdminOrSupport read the row again on each request;
\* the cookie of a user who is gone or disabled, or whose row cannot be read,
\* is cleared.
RequireAuth(b) ==
    LET u == req[b].sess.user IN
    /\ Pending(b, "authorise")
    /\ \/ u = NoUser /\ Answer(b)
       \/ u # NoUser /\ AnswerWith(b, Anonymous)
       \/ Active(u) /\ IF req[b].op \in UserOps \/ people[u].admin
                         THEN Proceed(b, "handle") ELSE Answer(b)
    /\ UNCHANGED <<people, setupDone, setupMu, captchaOn, cookie, sent>>

-----------------------------------------------------------------------------
(* First run: APISetupHandler runs under setupMu.                          *)

\* Mutant: the handler does not wait for the mutex.
SetupWithoutLock(b) ==
    /\ Pending(b, "lock")
    /\ setupMu' = b
    /\ Proceed(b, "count")
    /\ UNCHANGED <<people, setupDone, captchaOn, cookie, sent>>

SetupLock(b) ==
    /\ Pending(b, "lock")
    /\ setupMu = NoHolder
    /\ setupMu' = b
    /\ Proceed(b, "count")
    /\ UNCHANGED <<people, setupDone, captchaOn, cookie, sent>>

\* The body is bad or the count fails: the handler returns, which unlocks.
SetupRefused(b) ==
    /\ Pending(b, "count")
    /\ setupMu' = NoHolder
    /\ Answer(b)
    /\ UNCHANGED <<people, setupDone, captchaOn, cookie, sent>>

SetupCount(b) ==
    /\ Pending(b, "count")
    /\ DOMAIN people = {}
    /\ Proceed(b, "create")
    /\ UNCHANGED <<people, setupDone, setupMu, captchaOn, cookie, sent>>

\* CreateUser, which fails when the name is taken, and may fail otherwise.
SetupCreate(b) ==
    LET r == req[b] IN
    /\ Pending(b, "create")
    /\ \/ /\ Answer(b)
          /\ setupMu' = NoHolder
          /\ UNCHANGED people
       \/ /\ r.user \notin DOMAIN people
          /\ people' = WithRow(r.user, NewRow(r.pw, TRUE))
          /\ Proceed(b, "invalidate")
          /\ UNCHANGED setupMu
    /\ UNCHANGED <<setupDone, captchaOn, cookie, sent>>

\* InvalidateSetupCache, and the new administrator is logged in.
SetupFinish(b) ==
    /\ Pending(b, "invalidate")
    /\ setupDone' = FALSE
    /\ setupMu' = NoHolder
    /\ AnswerWith(b, [Anonymous EXCEPT !.user = req[b].user])
    /\ UNCHANGED <<people, captchaOn, cookie, sent>>

SetupHandler(b) == \/ SetupLock(b) \/ SetupRefused(b) \/ SetupCount(b)
                   \/ SetupCreate(b) \/ SetupFinish(b)

-----------------------------------------------------------------------------
(* The handlers that read or write the session.                            *)

Handling(b, op) == Pending(b, "handle") /\ req[b].op = op
KeepRows == UNCHANGED <<people, setupDone, setupMu, captchaOn, cookie, sent>>

\* The visitor reads the picture; whether the answer given is right is a choice.
CaptchaPasses(b, asked, right) == ~asked \/ (req[b].sess.captcha /\ right)

PasswordFits(b, u) == u \in DOMAIN people /\ people[u].pw = req[b].pw

\* The stored answer is used up, where there is a session to store it in.
Spent(b, asked) == IF asked /\ req[b].sess # Anonymous
                     THEN AnswerWith(b, [req[b].sess EXCEPT !.captcha = FALSE])
                     ELSE Answer(b)

\* Mutant: the session does not say that the password has to be changed.
SessionWithoutFlag(u) == [Anonymous EXCEPT !.user = u]

SessionOf(u) == [Anonymous EXCEPT !.user = u, !.must = people[u].must]

\* APILoginHandler: a failed read of the setting counts as no captcha, one of
\* the user's row as an unknown name.
Login(b) ==
    LET u == req[b].user IN
    /\ Handling(b, "login")
    /\ \E asked \in {captchaOn, FALSE} : \E right, found \in BOOLEAN :
         IF found /\ CaptchaPasses(b, asked, right) /\ PasswordFits(b, u) /\ people[u].on
           THEN AnswerWith(b, SessionOf(u))
           ELSE Spent(b, asked)
    /\ KeepRows

\* CaptchaHandler
Captcha(b) ==
    /\ Handling(b, "captcha")
    /\ AnswerWith(b, [req[b].sess EXCEPT !.captcha = TRUE])
    /\ KeepRows

\* LogoutHandler
Logout(b) ==
    /\ Handling(b, "logout")
    /\ AnswerWith(b, Anonymous)
    /\ KeepRows

\* APIChangePasswordHandler reads the row, which may fail, and compares the
\* password ...
ChangePassword(b) ==
    /\ Handling(b, "change")
    /\ Answer(b) \/ (PasswordFits(b, req[b].sess.user) /\ Proceed(b, "write"))
    /\ KeepRows

\* ... and writes the new one: UpdateUser of a row that is gone does nothing,
\* and the handler does not look.  The write may fail.
WritePassword(b) ==
    LET u == req[b].sess.user IN
    /\ Pending(b, "write")
    /\ \/ /\ Answer(b)
          /\ UNCHANGED people
       \/ /\ \E p \in Passwords :
               people' = IF u \in DOMAIN people
                           THEN [people EXCEPT ![u].pw = p, ![u].must = FALSE]
                           ELSE people
          /\ AnswerWith(b, [req[b].sess EXCEPT !.must = FALSE])
    /\ UNCHANGED <<setupDone, setupMu, captchaOn, cookie, sent>>

\* Every other route behind RequireAuth: what it does is in the other modules.
Page(b) ==
    /\ Handling(b, "page")
    /\ Answer(b)
    /\ KeepRows

LinkOn(u) == u \in DOMAIN people /\ people[u].share # "off"

\* ShareAuthHandler: the session in the request, or a new one, notes the link.
ShareAuth(b) ==
    LET u == req[b].user IN
    /\ Handling(b, "shareAuth")
    /\ \E knows \in BOOLEAN :
         IF LinkOn(u) /\ (people[u].share = "locked" => knows)
           THEN AnswerWith(b, [req[b].sess EXCEPT !.share = @ \cup {u}])
           ELSE Answer(b)
    /\ KeepRows

\* GetShareConnectionsHandler and GetShareConnectionConfigHandler
ShareOpens(b) == LET u == req[b].user IN
    LinkOn(u) /\ (people[u].share = "locked" => u \in req[b].sess.share)

ShareRead(b) ==
    /\ Handling(b, "shareRead")
    /\ IF ShareOpens(b) THEN Proceed(b, "shown") ELSE Proceed(b, "refused")
    /\ KeepRows

ShareReturns(b) ==
    /\ Pending(b, "shown") \/ Pending(b, "refused")
    /\ Answer(b)
    /\ KeepRows

-----------------------------------------------------------------------------
(* What an administrator does to the rows the checks read.                 *)

Exists(b, op) == req[b].op = op /\ req[b].user \in DOMAIN people

AddUserRow(b) ==
    /\ req[b].op = "addUser" /\ req[b].user \notin DOMAIN people
    /\ \E admin \in BOOLEAN : people' = WithRow(req[b].user, NewRow(req[b].pw, admin))

\* DeleteUserHandler refuses to delete the caller.
DeleteUserRow(b) ==
    /\ Exists(b, "delete") /\ req[b].user # req[b].sess.user
    /\ people' = [v \in DOMAIN people \ {req[b].user} |-> people[v]]

ToggleUserRow(b) ==
    /\ Exists(b, "toggle")
    /\ people' = [people EXCEPT ![req[b].user].on = ~@]

SetupUserShare(b) ==
    /\ Exists(b, "shareSetup")
    /\ \E s \in {"off", "open", "locked"} : people' = [people EXCEPT ![req[b].user].share = s]

\* One of the writes, or none: the request is refused or a statement fails.
AdminWrite(b) ==
    AddUserRow(b) \/ DeleteUserRow(b) \/ ToggleUserRow(b) \/ SetupUserShare(b) \/ UNCHANGED people

AdminHandler(b) ==
    /\ Pending(b, "handle")
    /\ req[b].op \in AdminOps
    /\ AdminWrite(b)
    /\ captchaOn' = IF req[b].op = "setCaptcha" THEN ~captchaOn ELSE captchaOn
    /\ Answer(b)
    /\ UNCHANGED <<setupDone, setupMu, cookie, sent>>

\* The answer reaches the browser, which keeps the cookie it sets.
Reply(b) ==
    /\ Pending(b, "reply")
    /\ cookie' = IF req[b].set THEN [cookie EXCEPT ![b] = req[b].out] ELSE cookie
    /\ req' = [req EXCEPT ![b] = NoRequest]
    /\ UNCHANGED <<people, setupDone, setupMu, captchaOn, sent>>

Handler(b) == \/ Login(b) \/ Captcha(b) \/ Logout(b) \/ ChangePassword(b)
              \/ WritePassword(b) \/ Page(b) \/ ShareAuth(b) \/ ShareRead(b)
              \/ ShareReturns(b) \/ AdminHandler(b)

ServeRequest(b) == \/ SetupRedirect(b) \/ RequireAuth(b) \/ SetupHandler(b)
                   \/ Handler(b) \/ Reply(b)

AccessNext == \E b \in Browsers :
    \/ \E op \in Targeted, u \in UserIDs, p \in Passwords : Send(b, op, u, p)
    \/ \E op \in Ops \ Targeted, p \in Passwords : Send(b, op, NoUser, p)
    \/ ServeRequest(b)

AccessSpec == AccessInit /\ [][AccessNext]_accessVars

-----------------------------------------------------------------------------

\* The rows, the cookies and the requests keep their shape.
AccessTypeOK ==
    /\ DOMAIN people \subseteq UserIDs
    /\ \A u \in DOMAIN people : people[u] \in Row
    /\ setupDone \in BOOLEAN /\ captchaOn \in BOOLEAN /\ sent \in 0 .. MaxRequests
    /\ cookie \in [Browsers -> Session]
    /\ \A b \in Browsers : req[b].sess \in Session /\ req[b].out \in Session

\* setupMu is held by a request that is inside APISetupHandler and by no
\* other: every path out of the handler leaves it free for the next visitor.
SetupMuFreed == \A b \in Browsers :
    setupMu = b <=> req[b].pc \in {"count", "create", "invalidate"}

\* However the requests of first visitors interleave, APISetupHandler goes on
\* to make an administrator only after it has found a panel without users, and
\* no other setup makes one before it has.  setupMu keeps out the other setups
\* and not AddUserHandler, which does not take it.
OneSetup == [][\A b \in Browsers :
    /\ (req'[b].pc = "create" /\ req[b].pc # "create") => DOMAIN people' = {}
    /\ req[b].pc = "create" => \A u \in DOMAIN people' \ DOMAIN people :
         \/ req'[b].pc = "invalidate" /\ u = req[b].user
         \/ \E c \in Browsers : Pending(c, "handle") /\ AddUserRow(c)]_accessVars

\* A user whose row says that the password must be changed gets nothing done
\* but changing it: PasswordChangeRequired reads the flag from the cookie, and
\* no cookie that is still accepted says less than the row.
PasswordChangedFirst == \A b \in Browsers :
    LET u == req[b].sess.user IN
    (Pending(b, "handle") /\ req[b].op \in AdminOps \cup {"page"} /\ u \in DOMAIN people)
        => ~people[u].must

\* A browser that has given the password of a protected link is let in to it
\* as long as it keeps the cookie it was given.
ShareRemembered == \A b \in Browsers :
    Pending(b, "refused") => (LinkOn(req[b].user) => req[b].user \notin cookie[b].share)
=============================================================================
