----------------------------- MODULE WebSession -----------------------------
(***************************************************************************)
(* The session of a browser: tabs of the web client that share cookies and *)
(* local storage (src/frontend/src/core/auth, core/api/client.ts,          *)
(* modules/auth, proxy.ts), against the authentication service             *)
(* (src/backend/src/services/auth_service.py).                             *)
(*                                                                         *)
(* Session n is the pair of an access token and a refresh token minted     *)
(* together; 0 stands for "none".  Tokens age in the order in which they   *)
(* were minted.  A tab runs up to three asynchronous functions: "boot"     *)
(* (restore the session after a page load), "form" (what the user does on  *)
(* the login form or with "sign out") and "page" (a query of a portal      *)
(* page).                                                                  *)
(***************************************************************************)
EXTENDS Naturals, FiniteSets

CONSTANTS
  Tabs,        \* tabs of one browser
  Users,       \* accounts
  MfaUsers,    \* the accounts with an active second factor
  MaxSessions, \* bound: sessions minted in a behaviour
  Nobody       \* no account

ASSUME SessionAssumption ==
  MfaUsers \subseteq Users /\ Nobody \notin Users /\ MaxSessions \in Nat

VARIABLES
  jar,    \* the browser's cookies: [access, refresh, csrf]
  hint,   \* localStorage auth.access_token_exp: the session whose expiry it is
  tab,    \* per tab: what its contexts and its query cache hold
  task,   \* per tab and task: the request it waits for
  req,    \* per tab: refresh requests, of the shared promise and of boot
  owner,  \* the accounts of the sessions minted so far, in order
  record, \* refresh_tokens: session -> live, revoked or gone
  closed, \* history: signed out, with no refresh or sign-in then under way
  aged,   \* access tokens up to this one are within the buffer of expiry
  dead,   \* access tokens up to this one have expired
  torn    \* history: the last answer with cookies crossed another one, or its
          \* page was left, before the hint was written

vars == <<jar, hint, tab, task, req, owner, record, closed, aged, dead, torn>>
server == <<owner, record, closed, aged, dead, torn>>

Sessions == 1..MaxSessions
Fresh    == Cardinality({n \in Sessions : owner[n] # Nobody}) + 1
Tasks    == {"boot", "form", "page"}
NoReq    == [at |-> "none", tok |-> 0, new |-> 0]
Idle     == [at |-> "idle", ask |-> "none", ans |-> "none", tok |-> 0,
             again |-> FALSE, kept |-> TRUE, who |-> Nobody]

TypeOK ==
  /\ jar \in [access: 0..MaxSessions, refresh: 0..MaxSessions, csrf: BOOLEAN]
  /\ hint \in 0..MaxSessions
  /\ tab \in [Tabs -> [user: Users \union {Nobody}, loading: BOOLEAN,
                       challenge: Users \union {Nobody},
                       view: {"login", "portal"}, due: BOOLEAN, late: BOOLEAN,
                       cache: Users \union {Nobody}]]
  /\ task \in [Tabs -> [Tasks ->
       [at: {"idle", "hold", "send", "reply", "stored", "await"},
        ask: {"none", "me", "page", "login", "verify", "logout"},
        ans: {"none", "ok", "challenge", "401", "403", "error"},
        tok: 0..MaxSessions, again: BOOLEAN, kept: BOOLEAN,
        who: Users \union {Nobody}]]]
  /\ req \in [Tabs -> [{"shared", "boot"} ->
       [at: {"none", "sent", "checked", "rotated", "granted", "stored", "denied"},
        tok: 0..MaxSessions, new: 0..MaxSessions]]]
  /\ owner \in [Sessions -> Users \union {Nobody}]
  /\ record \in [Sessions -> {"none", "live", "revoked", "gone"}]
  /\ closed \in BOOLEAN /\ torn \in BOOLEAN
  /\ aged \in 0..MaxSessions /\ dead \in 0..MaxSessions

Init ==
  /\ jar = [access |-> 0, refresh |-> 0, csrf |-> FALSE]
  /\ hint = 0
  /\ tab = [t \in Tabs |-> [user |-> Nobody, loading |-> FALSE, challenge |-> Nobody,
                            view |-> "login", due |-> FALSE, late |-> FALSE,
                            cache |-> Nobody]]
  /\ task = [t \in Tabs |-> [k \in Tasks |-> Idle]]
  /\ req = [t \in Tabs |-> [k \in {"shared", "boot"} |-> NoReq]]
  /\ owner = [n \in Sessions |-> Nobody]
  /\ record = [n \in Sessions |-> "none"]
  /\ closed = TRUE /\ torn = FALSE
  /\ aged = 0 /\ dead = 0

-----------------------------------------------------------------------------
\* Building blocks

\* Fault: a missing hint is read as an expired token.
MissingHintExpired(h) == h <= aged

\* isAccessTokenExpired: a missing hint never forces a refresh.
IsAccessTokenExpired(h) == h # 0 /\ h <= aged

\* _set_auth_cookies sets the CSRF cookie with every session.
SetCookies(n) == jar' = [access |-> n, refresh |-> n, csrf |-> TRUE]

\* Fault: the refresh cookie outlives the sign-out.
ClearAccessCookie == jar' = [jar EXCEPT !.access = 0]

\* _clear_auth_cookies
ClearCookies == jar' = [access |-> 0, refresh |-> 0, csrf |-> FALSE]

\* The browser has stored the cookies of an answer, and the code that goes on
\* from it, and writes the hint, has yet to run.
HintDue(t) == task[t].form.at = "stored" \/ \E k \in DOMAIN req[t] : req[t][k].at = "stored"
SomeHintDue == \E t \in Tabs : HintDue(t)

\* performRefresh: one promise per tab, however many requests ask for it.
PerformRefresh(t, q) ==
  IF q[t].shared.at # "none" THEN q
  ELSE [q EXCEPT ![t].shared = [at |-> "sent", tok |-> jar.refresh, new |-> 0]]

\* The request interceptor: a request is held back while the hint says that
\* the access token has (nearly) expired.
Call(a) == [Idle EXCEPT !.at = IF IsAccessTokenExpired(hint) THEN "hold" ELSE "send",
                        !.ask = a]
Interceptor(t) == IF IsAccessTokenExpired(hint) THEN PerformRefresh(t, req) ELSE req

\* Fault: an MFA challenge or an error does not end the loading.
StillLoading(s) == s

\* reducer: SET_USER, LOGOUT, and the actions that only end the loading.  When
\* the user is gone useRequireAuth is due to leave the portal.
SetUser(s, u) == [s EXCEPT !.user = u, !.loading = FALSE, !.due = FALSE]
SignedOut(s)  == [s EXCEPT !.user = Nobody, !.loading = FALSE, !.due = s.view = "portal"]
Settled(s)    == [s EXCEPT !.loading = FALSE]

\* Fault: what was cached is dropped, what is under way is not.
DropNothing(k) == k

\* queryClient.clear(): cached data and the results still under way are dropped.
Wiped(s) == [s EXCEPT !.cache = Nobody]
Drop(k)  == IF k["page"] = Idle THEN k ELSE [k EXCEPT !["page"].kept = FALSE]

\* Fault: a page of its own for those without a cookie.
ProxyToUnauthorized(to, access) ==
  IF to = "portal" /\ access = 0 THEN "unauthorized" ELSE to

\* proxy: the portal without an access cookie leads to the login page, the
\* login page with one leads to the dashboard.
Proxy(to, access) ==
  IF to = "portal" /\ access = 0 THEN "login"
  ELSE IF to = "login" /\ access # 0 THEN "portal" ELSE to

\* get_current_user: what the access cookie is worth.
Admitted == jar.access # 0 /\ jar.access > dead

\* _issue_session: a new pair for u.
Mint(u) ==
  /\ Fresh \in Sessions
  /\ owner' = [owner EXCEPT ![Fresh] = u]
  /\ record' = [record EXCEPT ![Fresh] = "live"]

-----------------------------------------------------------------------------
\* The server: refresh_tokens, in its statements

\* The SELECT by jti.  A revoked token that is used again revokes all tokens
\* of its user.
RefreshCheck(t, k) ==
  LET r == req[t][k] IN
  /\ r.at = "sent"
  /\ IF r.tok = 0 \/ (r.tok # 0 /\ record[r.tok] = "gone")
     THEN req' = [req EXCEPT ![t][k].at = "denied"] /\ UNCHANGED record
     ELSE IF record[r.tok] = "revoked"
     THEN /\ req' = [req EXCEPT ![t][k].at = "denied"]
          /\ record' = [n \in Sessions |->
               IF record[n] = "live" /\ owner[n] = owner[r.tok]
               THEN "revoked" ELSE record[n]]
     ELSE req' = [req EXCEPT ![t][k].at = "checked"] /\ UNCHANGED record
  /\ UNCHANGED <<jar, hint, tab, task, owner, closed, aged, dead, torn>>

\* The first commit: the old token is revoked.  A record that a logout has
\* deleted meanwhile fails the update.
RefreshRotate(t, k) ==
  LET r == req[t][k] IN
  /\ r.at = "checked"
  /\ IF record[r.tok] = "gone"
     THEN req' = [req EXCEPT ![t][k].at = "denied"] /\ UNCHANGED record
     ELSE /\ record' = [record EXCEPT ![r.tok] = "revoked"]
          /\ req' = [req EXCEPT ![t][k].at = "rotated"]
  /\ UNCHANGED <<jar, hint, tab, task, owner, closed, aged, dead, torn>>

\* The second commit: the new pair.
RefreshIssue(t, k) ==
  /\ req[t][k].at = "rotated"
  /\ Mint(owner[req[t][k].tok])
  /\ req' = [req EXCEPT ![t][k] = [@ EXCEPT !.at = "granted", !.new = Fresh]]
  /\ UNCHANGED <<jar, hint, tab, task, closed, aged, dead, torn>>

\* The process dies, the connection breaks or the answer is lost: what has
\* been committed stays, and the client sees an error.
RefreshFails(t, k) ==
  /\ req[t][k].at \in {"sent", "checked", "rotated", "granted"}
  /\ req' = [req EXCEPT ![t][k].at = "denied"]
  /\ UNCHANGED <<jar, hint, tab, task, server>>

\* The server answers any other request, by the cookies sent with it.
Answer(t, k, a, n) ==
  /\ task[t][k].at = "send"
  /\ task' = [task EXCEPT ![t][k] = [@ EXCEPT !.at = "reply", !.ans = a, !.tok = n]]
  /\ UNCHANGED <<jar, hint, tab, req, closed, aged, dead, torn>>

ServeRead(t, k) ==
  /\ task[t][k].ask \in {"me", "page"}
  /\ Answer(t, k, IF Admitted THEN "ok" ELSE "401", jar.access)
  /\ UNCHANGED <<owner, record>>

\* A time-out, a broken connection or a failing server.
ServeError(t, k) ==
  /\ Answer(t, k, "error", 0)
  /\ UNCHANGED <<owner, record>>

\* login: a second factor is asked for instead of a session.
ServeLogin(t) ==
  /\ task[t].form.ask = "login"
  /\ IF task[t].form.who \in MfaUsers
     THEN Answer(t, "form", "challenge", 0) /\ UNCHANGED <<owner, record>>
     ELSE Answer(t, "form", "ok", Fresh) /\ Mint(task[t].form.who)

\* verify_mfa behind CSRFMiddleware, whose exemptions do not name its path.
\* The code or the challenge may be refused.
ServeVerify(t) ==
  /\ task[t].form.ask = "verify"
  /\ IF ~jar.csrf
     THEN Answer(t, "form", "403", 0) /\ UNCHANGED <<owner, record>>
     ELSE \/ Answer(t, "form", "401", 0) /\ UNCHANGED <<owner, record>>
          \/ Answer(t, "form", "ok", Fresh) /\ Mint(task[t].form.who)

\* logout: the record of the refresh cookie is deleted.
ServeLogout(t) ==
  /\ task[t].form.ask = "logout"
  /\ Answer(t, "form", "ok", 0)
  /\ record' = IF jar.refresh = 0 THEN record ELSE [record EXCEPT ![jar.refresh] = "gone"]
  /\ UNCHANGED owner

-----------------------------------------------------------------------------
\* The browser: the headers of an answer arrive, in whichever tab, and its
\* cookies are stored.  The code that waits for the answer runs later.

StoreRefresh(t, k) ==
  /\ req[t][k].at = "granted"
  /\ SetCookies(req[t][k].new)
  /\ req' = [req EXCEPT ![t][k].at = "stored"]
  /\ torn' = SomeHintDue
  /\ UNCHANGED <<hint, tab, task, owner, record, closed, aged, dead>>

\* No refresh, and no sign-in of another tab, is under way.
Quiet(t) ==
  /\ \A s \in Tabs : \A k \in DOMAIN req[s] : req[s][k] = NoReq
  /\ \A s \in Tabs \ {t} : task[s].form.ask \notin {"login", "verify"}

\* login, verify and logout answer with cookies.
BringsCookies(c) == c.ans = "ok" /\ c.ask \in {"login", "verify", "logout"}
StoreAnswer(t) ==
  LET c == task[t].form IN
  /\ c.at = "reply" /\ BringsCookies(c)
  /\ IF c.ask = "logout" THEN ClearCookies ELSE SetCookies(c.tok)
  /\ task' = [task EXCEPT ![t].form = [@ EXCEPT !.at = "stored"]]
  /\ closed' = (c.ask = "logout" /\ Quiet(t))
  /\ torn' = SomeHintDue
  /\ UNCHANGED <<hint, tab, req, owner, record, aged, dead>>

-----------------------------------------------------------------------------
\* The client: answers arrive

\* The shared promise resolves: whoever waits for it goes on, a request that
\* had its 401 for the second time.
Released(c) == CASE c.at = "await" -> [c EXCEPT !.again = TRUE, !.at = "send"]
                 [] c.at = "hold"  -> [c EXCEPT !.at = "send"]
                 [] OTHER -> c
RefreshGranted(t) ==
  /\ req[t].shared.at = "stored"
  /\ hint' = req[t].shared.new
  /\ req' = [req EXCEPT ![t].shared = NoReq]
  /\ task' = [task EXCEPT ![t] = [k \in Tasks |-> Released(@[k])]]
  /\ UNCHANGED <<jar, tab, server>>

\* The listener of auth:session-expired.
SessionExpired(t) == tab' = [tab EXCEPT ![t] = Wiped(SignedOut(@))]

\* The shared promise rejects: requests held back are sent all the same, and
\* those that had their 401 end the session of the tab.
RefreshDenied(t) ==
  LET lost == {k \in Tasks : task[t][k].at = "await"}
      on   == [k \in Tasks |-> IF k \in lost THEN Idle
                ELSE IF task[t][k].at = "hold" THEN [task[t][k] EXCEPT !.at = "send"]
                ELSE task[t][k]]
  IN
  /\ req[t].shared.at = "denied"
  /\ req' = [req EXCEPT ![t].shared = NoReq]
  /\ \/ lost = {} /\ task' = [task EXCEPT ![t] = on] /\ UNCHANGED <<tab, hint>>
     \/ lost # {} /\ task' = [task EXCEPT ![t] = Drop(on)] /\ SessionExpired(t) /\ hint' = 0
  /\ UNCHANGED <<jar, server>>

\* The response interceptor: one refresh, then one more try.  The endpoints
\* of login, refresh and logout are exempt, that of the second factor is not.
Retry(t, k) ==
  LET c == task[t][k] IN
  /\ c.at = "reply" /\ c.ans = "401" /\ ~c.again
  /\ task' = [task EXCEPT ![t][k].at = "await"]
  /\ req' = PerformRefresh(t, req)
  /\ UNCHANGED <<jar, hint, tab, server>>

\* Any other answer is for the function that asked, when its cookies are stored.
Reply(t, k, asks) ==
  /\ task[t][k].at = IF BringsCookies(task[t][k]) THEN "stored" ELSE "reply"
  /\ task[t][k].ask \in asks
Failed(c) == c.ans \in {"403", "error"} \/ (c.ans = "401" /\ c.again)

\* restore, after /me: the user, or closed.
RestoreReply(t) ==
  LET c == task[t].boot IN
  /\ Reply(t, "boot", {"me"})
  /\ \/ c.ans = "ok" /\ tab' = [tab EXCEPT ![t] = SetUser(@, owner[c.tok])] /\ UNCHANGED hint
     \/ Failed(c) /\ tab' = [tab EXCEPT ![t] = SignedOut(@)] /\ hint' = 0
  /\ task' = [task EXCEPT ![t].boot = Idle]
  /\ UNCHANGED <<jar, req, server>>

\* restore, after the refresh it asks for itself.
RestoreRefreshed(t) ==
  /\ req[t].boot.at \in {"stored", "denied"}
  /\ req' = [req EXCEPT ![t].boot = NoReq]
  /\ \/ /\ req[t].boot.at = "stored"
        /\ hint' = req[t].boot.new
        /\ task' = [task EXCEPT ![t].boot = [Idle EXCEPT !.at = "send", !.ask = "me"]]
        /\ UNCHANGED tab
     \/ /\ req[t].boot.at = "denied"
        /\ tab' = [tab EXCEPT ![t] = SignedOut(@)]
        /\ task' = [task EXCEPT ![t].boot = Idle]
        /\ hint' = 0
  /\ UNCHANGED <<jar, server>>

PageReply(t) ==
  LET c == task[t].page IN
  /\ Reply(t, "page", {"page"})
  /\ c.ans = "ok" \/ Failed(c)
  /\ tab' = IF c.ans = "ok" /\ c.kept THEN [tab EXCEPT ![t].cache = owner[c.tok]] ELSE tab
  /\ task' = [task EXCEPT ![t].page = Idle]
  /\ UNCHANGED <<jar, hint, req, server>>

\* login and completeMfa, first half: a session leads on to /me, a challenge to
\* the second factor, a failure back to the form.
SignInReply(t) ==
  LET c == task[t].form IN
  /\ Reply(t, "form", {"login", "verify"})
  /\ \/ /\ c.ans = "ok"
        /\ hint' = c.tok
        /\ task' = [task EXCEPT ![t].form = [Idle EXCEPT !.at = "send", !.ask = "me"]]
        /\ UNCHANGED tab
     \/ /\ c.ans = "challenge"
        /\ tab' = [tab EXCEPT ![t] = [Settled(@) EXCEPT !.challenge = c.who]]
        /\ task' = [task EXCEPT ![t].form = Idle]
        /\ UNCHANGED hint
     \/ /\ Failed(c)
        /\ tab' = [tab EXCEPT ![t] = Settled(@)]
        /\ task' = [task EXCEPT ![t].form = Idle]
        /\ UNCHANGED hint
  /\ UNCHANGED <<jar, req, server>>

\* The second half: SET_USER, and goAfterLogin to the portal.
WhoAmIReply(t) ==
  LET c == task[t].form IN
  /\ Reply(t, "form", {"me"})
  /\ \/ /\ c.ans = "ok"
        /\ tab' = [tab EXCEPT ![t] = [SetUser(@, owner[c.tok]) EXCEPT
             !.challenge = Nobody, !.view = Proxy("portal", jar.access),
             !.late = task[t].boot # Idle \/ req[t].boot # NoReq]]
     \/ Failed(c) /\ tab' = [tab EXCEPT ![t] = Settled(@)]
  /\ task' = [task EXCEPT ![t].form = Idle]
  /\ UNCHANGED <<jar, hint, req, server>>

\* handleLogout: on to the login page, where a portal page no longer has to be
\* left unless the proxy leads back to it.
ToLogin(s, access) == [s EXCEPT !.view = Proxy("login", access),
                                !.due = IF access = 0 THEN FALSE ELSE @]

\* logout clears the client whatever the server said; the cookies go only with
\* its answer.
LogoutReply(t) ==
  /\ Reply(t, "form", {"logout"})
  /\ hint' = 0
  /\ tab' = [tab EXCEPT ![t] = ToLogin(Wiped(SignedOut(@)), jar.access)]
  /\ task' = [task EXCEPT ![t] = Drop([@ EXCEPT !.form = Idle])]
  /\ UNCHANGED <<jar, req, server>>

-----------------------------------------------------------------------------
\* The client: the user, and the pages

\* A page is loaded: what the tab held is gone, AuthProvider starts to restore
\* the session.  A refresh that the old page still waits for has failed first, or
\* its cookies are stored and its hint is never written.
NewReq == [k \in {"shared", "boot"} |-> NoReq]
Load(t, to) ==
  /\ \A k \in DOMAIN req[t] : req[t][k].at \in {"none", "stored"}
  /\ tab' = [tab EXCEPT ![t] = [user |-> Nobody, loading |-> TRUE, challenge |-> Nobody,
       view |-> Proxy(to, jar.access), due |-> FALSE, late |-> FALSE, cache |-> Nobody]]
  /\ \/ /\ IsAccessTokenExpired(hint)
        /\ req' = [req EXCEPT ![t] = [NewReq EXCEPT !.boot =
                      [at |-> "sent", tok |-> jar.refresh, new |-> 0]]]
        /\ task' = [task EXCEPT ![t] = [k \in Tasks |-> Idle]]
     \/ /\ ~IsAccessTokenExpired(hint)
        /\ task' = [task EXCEPT ![t] = [k \in Tasks |-> IF k = "boot" THEN Call("me") ELSE Idle]]
        /\ req' = [req EXCEPT ![t] = NewReq]
  /\ torn' = (torn \/ HintDue(t))
  /\ UNCHANGED <<jar, hint, owner, record, closed, aged, dead>>

\* useRequireAuth, once per change of what it depends on.
PushLogin(t) ==
  /\ tab[t].due
  /\ tab' = [tab EXCEPT ![t] = [@ EXCEPT !.view = Proxy("login", jar.access), !.due = FALSE]]
  /\ UNCHANGED <<jar, hint, task, req, server>>

\* What ProtectedRoute shows: the page to a user, to nobody a button.
Protected(t) == tab[t].view = "portal" /\ ~tab[t].loading
GoToLogin(t) ==
  /\ Protected(t) /\ tab[t].user = Nobody
  /\ tab' = [tab EXCEPT ![t].view = Proxy("login", jar.access)]
  /\ UNCHANGED <<jar, hint, task, req, server>>

\* What the login form offers: the password, or a code while a challenge stands.
LoginPanel(t, panel) ==
  /\ tab[t].view = "login" /\ task[t].form = Idle
  /\ panel = IF tab[t].challenge = Nobody THEN "password" ELSE "code"

SubmitPassword(t, u) ==
  /\ LoginPanel(t, "password")
  /\ tab' = [tab EXCEPT ![t].loading = TRUE]
  /\ task' = [task EXCEPT ![t].form = [Idle EXCEPT !.at = "send", !.ask = "login", !.who = u]]
  /\ UNCHANGED <<jar, hint, req, server>>

SubmitCode(t) ==
  /\ LoginPanel(t, "code")
  /\ tab' = [tab EXCEPT ![t].loading = TRUE]
  /\ task' = [task EXCEPT ![t].form = [Call("verify") EXCEPT !.who = tab[t].challenge]]
  /\ req' = Interceptor(t)
  /\ UNCHANGED <<jar, hint, server>>

CancelMfa(t) ==
  /\ LoginPanel(t, "code")
  /\ tab' = [tab EXCEPT ![t].challenge = Nobody]
  /\ UNCHANGED <<jar, hint, task, req, server>>

SignOut(t) ==
  /\ Protected(t) /\ tab[t].user # Nobody /\ task[t].form = Idle
  /\ task' = [task EXCEPT ![t].form = [Idle EXCEPT !.at = "send", !.ask = "logout"]]
  /\ UNCHANGED <<jar, hint, tab, req, server>>

Query(t) ==
  /\ Protected(t) /\ tab[t].user # Nobody /\ task[t].page = Idle
  /\ task' = [task EXCEPT ![t].page = Call("page")]
  /\ req' = Interceptor(t)
  /\ UNCHANGED <<jar, hint, tab, server>>

\* Time.  A token reaches the buffer only after the answer that brought it.
Age ==
  /\ aged < jar.refresh /\ aged' = aged + 1
  /\ UNCHANGED <<jar, hint, tab, task, req, owner, record, closed, dead, torn>>

\* The access cookie lives as long as its token.
Expire ==
  /\ dead < aged /\ dead' = dead + 1
  /\ jar' = [jar EXCEPT !.access = IF @ <= dead' THEN 0 ELSE @]
  /\ UNCHANGED <<hint, tab, task, req, owner, record, closed, aged, torn>>

-----------------------------------------------------------------------------
RefreshStep(t, k) == RefreshCheck(t, k) \/ RefreshRotate(t, k) \/ RefreshIssue(t, k)
                     \/ RefreshFails(t, k) \/ StoreRefresh(t, k)
Served(t, k) == \/ ServeRead(t, k) \/ ServeError(t, k)
                \/ k = "form" /\ (ServeLogin(t) \/ ServeVerify(t) \/ ServeLogout(t)
                                  \/ StoreAnswer(t))
Arrives(t) == \/ RefreshGranted(t) \/ RefreshDenied(t) \/ RestoreRefreshed(t)
              \/ RestoreReply(t) \/ PageReply(t) \/ SignInReply(t) \/ WhoAmIReply(t)
              \/ LogoutReply(t) \/ \E k \in Tasks : Retry(t, k)
UserActs(t) == \/ \E to \in {"login", "portal"} : Load(t, to)
               \/ \E u \in Users : SubmitPassword(t, u)
               \/ SubmitCode(t) \/ CancelMfa(t) \/ SignOut(t) \/ Query(t) \/ GoToLogin(t)

Next ==
  \/ \E t \in Tabs :
       \/ \E k \in {"shared", "boot"} : RefreshStep(t, k)
       \/ \E k \in Tasks : Served(t, k)
       \/ Arrives(t) \/ UserActs(t) \/ PushLogin(t)
  \/ Age \/ Expire

\* Requests are answered or fail, and the event loop runs what has arrived.
\* What the user does and how time passes is not promised.
Fairness ==
  \A t \in Tabs :
    /\ \A k \in {"shared", "boot"} : WF_vars(RefreshStep(t, k))
    /\ \A k \in Tasks : WF_vars(Served(t, k)) /\ WF_vars(Retry(t, k))
    /\ WF_vars(RefreshGranted(t) \/ RefreshDenied(t)) /\ WF_vars(RestoreRefreshed(t))
    /\ WF_vars(RestoreReply(t)) /\ WF_vars(PageReply(t)) /\ WF_vars(SignInReply(t))
    /\ WF_vars(WhoAmIReply(t)) /\ WF_vars(LogoutReply(t)) /\ WF_vars(PushLogin(t))

Spec == Init /\ [][Next]_vars /\ Fairness

-----------------------------------------------------------------------------
\* Properties

\* A refresh started ahead of a request or by a page that is loaded, on a session
\* that is still valid.
Started(t, k) == req[t][k].at # "sent" /\ req'[t][k].at = "sent"
Forced ==
  /\ jar.access > aged
  /\ \E t \in Tabs : \/ Started(t, "boot")
                     \/ Started(t, "shared") /\ \A k \in Tasks : task'[t][k].at # "await"

\* The hint forces a refresh on a session that is still valid only until it is
\* written for the cookies that were stored last, and when it never is: the page was
\* left in between, or two answers with cookies crossed.  Whatever the tabs do
\* otherwise, it forces none (tokenExpiry.ts, client.ts).
NoForcedRefresh == [][Forced => torn \/ SomeHintDue]_vars

\* A tab that is signed out holds no data of the session that ended, not even
\* from a request still under way when it ended (queryClient.clear in
\* AuthContext); except when a sign-in overtook the restore of its page.
SignedOutHoldsNoData ==
  \A t \in Tabs : tab[t].user = Nobody /\ ~tab[t].late => tab[t].cache = Nobody

\* Once a user has signed out and nobody signs in again, no later request, page
\* load or refresh of any tab brings a session back (services/index.ts, logout).
LogoutSticks == closed => jar.refresh = 0 /\ jar.access = 0

\* No tab is left loading: whatever fails, restore, login and the second factor
\* end, and so does whatever waits for the shared refresh (AuthContext, client.ts);
\* unless the user reloads the page for ever.
LoadingEnds ==
  \A t \in Tabs : []<><<\E to \in {"login", "portal"} : Load(t, to)>>_vars
                  \/ (tab[t].loading ~> ~tab[t].loading)

\* A second factor that is presented for a standing challenge is judged, not
\* turned away for want of a session (mfa.py: the caller has no session yet).
SecondFactorJudged == \A t \in Tabs : task[t].form.ans # "403"
=============================================================================
