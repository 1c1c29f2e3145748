---------------------------- MODULE LoginSession ----------------------------
(***************************************************************************)
(* A browser with several tabs of the dashboard and the server's refresh   *)
(* and logout handlers: web/default/src/lib/api.ts (the interceptor that   *)
(* refreshes the access token once and repeats the request, one refresh in *)
(* flight per tab, a cooldown after a failed one), features/auth/api.ts    *)
(* and the sign-out dialog on one side; controller/auth_session.go,        *)
(* RefreshLoginSession and RotateUserSessionRefresh on the other.          *)
(*                                                                         *)
(* The tabs share the access token (localStorage) and the refresh cookie;  *)
(* each has its own refresh promise, cooldown and signed-in user. Messages *)
(* are delayed, overtake one another and get lost.                         *)
(*                                                                         *)
(* The secrets of a session form a chain, each derived from the one before *)
(* it: secret number idx. A refresh token is [sid, idx], and an access     *)
(* token is named after the rotation it was issued with. One user.         *)
(***************************************************************************)
EXTENDS Integers, FiniteSets, FiniteSetsExt

CONSTANTS Tab, Request,  \* tabs and the requests their pages may have open
          TabOf,         \* the tab of each request
          MaxLogins,     \* bound: sessions created
          MaxRotations,  \* bound: rotations of a session
          MaxIssued,     \* bound: logins and rotations together
          MaxOpen        \* bound: requests, logins and logouts at one time

ASSUME LoginAssumption ==
    /\ TabOf \in [Request -> Tab]
    /\ MaxLogins \in Nat /\ MaxRotations \in Nat

VARIABLES session,  \* the rows of user_sessions
          expired,  \* per session, the last rotation whose token has expired
          logins,   \* sessions created
          newest,   \* ghost: the session of the last login that was delivered
          seen,     \* ghost: per session, the last secret that was delivered
          cookie,   \* the refresh cookie
          token,    \* localStorage dashboard_access_token
          stored,   \* localStorage user
          user,     \* per tab: auth.user is set
          request,  \* the open requests
          refresh,  \* per tab: refreshPromise and the message it waits for
          cooling,  \* per tab: Date.now() < refreshRetryAt
          form,     \* per tab: a login or logout on its way
          disturbed, crossed  \* ghosts: a message was lost, outrun or answered
                              \* without the database; one met another session

server == <<session, expired, logins>>
browser == <<cookie, token, stored, user, cooling>>
ghosts == <<newest, seen, disturbed, crossed>>
vars == <<server, browser, request, refresh, form, ghosts>>

Sid == 1..MaxLogins
Nothing == [sid |-> 0, idx |-> 0]
Credential == {Nothing} \cup [sid : Sid, idx : 0..MaxRotations]

NoSession == [status |-> "none", cur |-> 0, grace |-> FALSE, why |-> "none"]
Closed == [at |-> "idle", tok |-> Nothing, retried |-> FALSE, self |-> FALSE]
NoRefresh == [at |-> "none", carries |-> Nothing, result |-> "none",
              next |-> Nothing]
NoForm == [at |-> "none", carries |-> Nothing, tok |-> Nothing,
           clears |-> FALSE]

Init == /\ session = [s \in Sid |-> NoSession]
        /\ expired = [s \in Sid |-> -1]
        /\ logins = 0
        /\ newest = 0
        /\ seen = [s \in Sid |-> -1]
        /\ cookie = Nothing
        /\ token = Nothing
        /\ stored = FALSE
        /\ user = [t \in Tab |-> FALSE]
        /\ request = [q \in Request |-> Closed]
        /\ refresh = [t \in Tab |-> NoRefresh]
        /\ cooling = [t \in Tab |-> FALSE]
        /\ form = [t \in Tab |-> NoForm]
        /\ disturbed = FALSE
        /\ crossed = FALSE

-----------------------------------------------------------------------------
(* The network and the clock.                                              *)

\* Logins and rotations so far.
Issued == MapThenSumSet(LAMBDA s : session[s].cur, Sid) + logins

Live(s) == s \in Sid /\ session[s].status = "active"

\* ParseAccessToken and ValidateAuthSessionWithTx.
Accepted(tok) == Live(tok.sid) /\ tok.idx > expired[tok.sid]

\* A refresh or logout that has not reached the server, with what it carries.
Underway(s) == {refresh[t].carries.idx : t \in {u \in Tab :
                    refresh[u].at = "sent" /\ refresh[u].carries.sid = s}}
               \cup {form[t].carries.idx : t \in {u \in Tab :
                    form[u].at = "logout" /\ form[u].carries.sid = s}}

\* The same, or an answer that has not reached its tab.
Talking(s) == \/ Underway(s) # {}
              \/ \E t \in Tab : refresh[t].at = "answered" /\ refresh[t].next.sid = s

\* The jar holds a cookie of another session than the message was about.
Crosses(c) == cookie # Nothing /\ cookie.sid # c.sid

\* RefreshReplayWindow ends. It is longer than a round trip unless the
\* network is disturbed.
WindowCloses(s) ==
    /\ Live(s) /\ session[s].grace
    /\ session' = [session EXCEPT ![s].grace = FALSE]
    /\ disturbed' = (disturbed \/ Talking(s))
    /\ UNCHANGED <<expired, logins, browser, request, refresh, form, newest,
                   seen, crossed>>

\* AccessTokenTTL ends for every token of the session: later than the window.
TokenExpires(s) ==
    /\ Live(s) /\ ~session[s].grace
    /\ expired[s] < session[s].cur
    /\ expired' = [expired EXCEPT ![s] = session[s].cur]
    /\ disturbed' = (disturbed \/ \E q \in Request : request[q].retried)
    /\ UNCHANGED <<session, logins, browser, request, refresh, form, newest,
                   seen, crossed>>

CooldownEnds(t) ==
    /\ cooling[t]
    /\ cooling' = [cooling EXCEPT ![t] = FALSE]
    /\ UNCHANGED <<server, cookie, token, stored, user, request, refresh, form,
                   ghosts>>

-----------------------------------------------------------------------------
(* A page's request and the response interceptor.                          *)

\* auth.setUser and auth.reset: this tab, and what a page load finds.
SetUser(t) == user' = [user EXCEPT ![t] = TRUE] /\ stored' = TRUE
Reset(t) == user' = [user EXCEPT ![t] = FALSE] /\ stored' = FALSE

\* The requests, logins and logouts in progress.
Exchanges == Cardinality({q \in Request : request[q].at # "idle"})
             + Cardinality({t \in Tab : form[t].at # "none"})

Open(q) ==
    /\ request[q].at = "idle"
    /\ user[TabOf[q]] /\ Exchanges < MaxOpen
    /\ request' = [request EXCEPT ![q] = [Closed EXCEPT !.at = "sent",
                                                        !.tok = token]]
    /\ UNCHANGED <<server, browser, refresh, form, ghosts>>

\* authHelper: the answer is fixed when the request reaches the server.
Serve(q) ==
    /\ request[q].at = "sent"
    /\ request' = [request EXCEPT ![q] =
                       IF Accepted(@.tok)
                       THEN [@ EXCEPT !.at = "ok", !.tok = Nothing]
                       ELSE [@ EXCEPT !.at = "401"]]
    /\ UNCHANGED <<server, browser, refresh, form, ghosts>>

\* The database fails: writeDashboardAuthFailure answers 401 as well.
ServeOutage(q) ==
    /\ request[q].at = "sent"
    /\ request' = [request EXCEPT ![q].at = "401"]
    /\ disturbed' = (disturbed \/ request[q].retried)
    /\ UNCHANGED <<server, browser, refresh, form, newest, seen, crossed>>

\* 429, 5xx, or no answer: an error for the page, and the session stays.
RequestFails(q) ==
    /\ request[q].at \in {"sent", "ok", "401"}
    /\ request' = [request EXCEPT ![q] = Closed]
    /\ UNCHANGED <<server, browser, refresh, form, ghosts>>

\* A success; getSelf after a login stores the user.  The check of a page's first
\* visit, which signs out on a 200 that says success: false, is left out.
ReceiveOk(q) ==
    /\ request[q].at = "ok"
    /\ request' = [request EXCEPT ![q] = Closed]
    /\ IF request[q].self THEN SetUser(TabOf[q]) ELSE UNCHANGED <<stored, user>>
    /\ UNCHANGED <<server, cookie, token, cooling, refresh, form, ghosts>>

CanRefresh(q) == ~request[q].retried /\ token # Nothing

\* refreshDashboardToken: join the refresh in flight, or be refused during
\* the cooldown, or send one with the cookie of this moment.
ReceiveUnauthorized(q) ==
    LET t == TabOf[q] IN
    /\ request[q].at = "401"
    /\ CanRefresh(q)
    /\ \/ /\ refresh[t].at # "none"
          /\ request' = [request EXCEPT ![q].at = "wait", ![q].tok = Nothing]
          /\ UNCHANGED refresh
       \/ /\ refresh[t].at = "none" /\ cooling[t]
          /\ request' = [request EXCEPT ![q] = Closed]
          /\ UNCHANGED refresh
       \/ /\ refresh[t].at = "none" /\ ~cooling[t]
          /\ request' = [request EXCEPT ![q].at = "wait", ![q].tok = Nothing]
          /\ refresh' = [refresh EXCEPT ![t] = [NoRefresh EXCEPT
                             !.at = "sent", !.carries = cookie]]
    /\ UNCHANGED <<server, browser, form, ghosts>>

\* A 401 after the retry, or without a token: the user is signed out here.
ReceiveRejected(q) ==
    /\ request[q].at = "401"
    /\ ~CanRefresh(q)
    /\ request' = [request EXCEPT ![q] = Closed]
    /\ Reset(TabOf[q])
    /\ crossed' = (crossed \/ Crosses(request[q].tok))
    /\ UNCHANGED <<server, cookie, token, cooling, refresh, form, newest,
                   seen, disturbed>>

-----------------------------------------------------------------------------
(* RefreshAuth, RefreshLoginSession, RotateUserSessionRefresh.             *)

Answer(t, result, next) ==
    refresh' = [refresh EXCEPT ![t] = [at |-> "answered", result |-> result,
                    carries |-> IF result = "401" THEN @.carries ELSE Nothing,
                    next |-> next]]

\* 429, or an error after the session was found: an answer other than 401.
RefreshThrottled(t) ==
    /\ refresh[t].at = "sent"
    /\ Answer(t, "fail", Nothing)
    /\ UNCHANGED <<server, browser, request, form, ghosts>>

\* The session is not in the cache and the database fails: 401, as if the
\* token were invalid, although the session is alive.
RefreshOutage(t) ==
    /\ refresh[t].at = "sent"
    /\ Answer(t, "401", Nothing)
    /\ disturbed' = TRUE
    /\ UNCHANGED <<server, browser, request, form, newest, seen, crossed>>

\* No cookie, a session that is not active, or a secret that is neither the
\* current nor the previous one: 401, and the session keeps its status.
RefreshInvalid(t) ==
    LET c == refresh[t].carries IN
    /\ refresh[t].at = "sent"
    /\ Live(c.sid) => c.idx < session[c.sid].cur - 1
    /\ Answer(t, "401", Nothing)
    /\ UNCHANGED <<server, browser, request, form, ghosts>>

\* Mutant: the previous secret is refused at once.
RefreshRotatesNoGrace(t) ==
    LET c == refresh[t].carries IN
    /\ refresh[t].at = "sent"
    /\ Live(c.sid) /\ c.idx = session[c.sid].cur
    /\ c.idx < MaxRotations /\ Issued < MaxIssued
    /\ session' = [session EXCEPT ![c.sid].cur = @ + 1]
    /\ Answer(t, "ok", [c EXCEPT !.idx = @ + 1])
    /\ UNCHANGED <<expired, logins, browser, request, form, ghosts>>

\* The current secret is swapped for the next one, and stays good as the
\* previous one while the window lasts.
RefreshRotates(t) ==
    LET c == refresh[t].carries IN
    /\ refresh[t].at = "sent"
    /\ Live(c.sid) /\ c.idx = session[c.sid].cur
    /\ c.idx < MaxRotations /\ Issued < MaxIssued
    /\ session' = [session EXCEPT ![c.sid].cur = @ + 1, ![c.sid].grace = TRUE]
    /\ Answer(t, "ok", [c EXCEPT !.idx = @ + 1])
    /\ disturbed' = (disturbed \/ \E i \in Underway(c.sid) : i < c.idx)
    /\ UNCHANGED <<expired, logins, browser, request, form, newest, seen, crossed>>

\* Mutant: the next secret is derived from the row's, not the presented one.
RefreshRaceAhead(t) ==
    LET c == refresh[t].carries IN
    /\ refresh[t].at = "sent"
    /\ Live(c.sid) /\ c.idx = session[c.sid].cur - 1
    /\ session[c.sid].grace
    /\ Answer(t, "ok", [c EXCEPT !.idx = @ + 2])
    /\ UNCHANGED <<server, browser, request, form, ghosts>>

\* The previous secret inside the window: the next secret is derived again.
RefreshRace(t) ==
    LET c == refresh[t].carries IN
    /\ refresh[t].at = "sent"
    /\ Live(c.sid) /\ c.idx = session[c.sid].cur - 1
    /\ session[c.sid].grace
    /\ Answer(t, "ok", [c EXCEPT !.idx = @ + 1])
    /\ UNCHANGED <<server, browser, request, form, ghosts>>

\* The previous secret outside the window: the session is revoked.
RefreshReuse(t) ==
    LET c == refresh[t].carries IN
    /\ refresh[t].at = "sent"
    /\ Live(c.sid) /\ c.idx = session[c.sid].cur - 1
    /\ ~session[c.sid].grace
    /\ session' = [session EXCEPT ![c.sid].status = "revoked",
                                  ![c.sid].why = "reuse"]
    /\ Answer(t, "401", Nothing)
    /\ UNCHANGED <<expired, logins, browser, request, form, ghosts>>

-----------------------------------------------------------------------------
(* The refresh promise settles.                                            *)

\* The requests of the tab that wait for the refresh.
Waiting(t) == {q \in Request : TabOf[q] = t /\ request[q].at = "wait"}

GiveUp(t) == request' = [q \in Request |-> IF q \in Waiting(t) THEN Closed
                                           ELSE request[q]]

Settle(t) == refresh' = [refresh EXCEPT ![t] = NoRefresh]

\* Set-Cookie, setDashboardAccessToken, and every waiting request again.
RefreshSucceeds(t) ==
    LET next == refresh[t].next IN
    /\ refresh[t].at = "answered" /\ refresh[t].result = "ok"
    /\ cookie' = next
    /\ token' = next
    /\ cooling' = [cooling EXCEPT ![t] = FALSE]
    /\ request' = [q \in Request |-> IF q \in Waiting(t)
                       THEN [request[q] EXCEPT !.at = "sent", !.tok = next,
                                               !.retried = TRUE]
                       ELSE request[q]]
    /\ Settle(t)
    /\ seen' = [seen EXCEPT ![next.sid] = next.idx]
    /\ disturbed' = (disturbed \/ seen[next.sid] > next.idx)
    /\ crossed' = (crossed \/ Crosses(next))
    /\ UNCHANGED <<server, stored, user, form, newest>>

\* 401: the cookie, the token and the user are cleared.
RefreshDenied(t) ==
    /\ refresh[t].at = "answered" /\ refresh[t].result = "401"
    /\ cookie' = Nothing
    /\ token' = Nothing
    /\ Reset(t)
    /\ cooling' = [cooling EXCEPT ![t] = FALSE]
    /\ GiveUp(t)
    /\ Settle(t)
    /\ crossed' = (crossed \/ Crosses(refresh[t].carries))
    /\ UNCHANGED <<server, form, newest, seen, disturbed>>

\* Mutant: a failed refresh signs the user out like a 401.
RefreshFailsResets(t) ==
    /\ refresh[t].at \in {"sent", "answered"}
    /\ cooling' = [cooling EXCEPT ![t] = TRUE]
    /\ GiveUp(t)
    /\ Settle(t)
    /\ Reset(t)
    /\ UNCHANGED <<server, cookie, token, form, ghosts>>

\* Mutant: the promise is not forgotten when it is rejected.
RefreshFailsPending(t) ==
    /\ refresh[t].at \in {"sent", "answered"}
    /\ cooling' = [cooling EXCEPT ![t] = TRUE]
    /\ GiveUp(t)
    /\ UNCHANGED <<server, cookie, token, stored, user, refresh, form, ghosts>>

\* Any other outcome, a lost message too: the requests fail, the session
\* stays, and a cooldown begins.
RefreshFails(t) ==
    /\ refresh[t].at \in {"sent", "answered"}
    /\ cooling' = [cooling EXCEPT ![t] = TRUE]
    /\ GiveUp(t)
    /\ Settle(t)
    /\ disturbed' = (disturbed \/ refresh[t].result = "ok")
    /\ UNCHANGED <<server, cookie, token, stored, user, form, newest, seen, crossed>>

-----------------------------------------------------------------------------
(* Signing in and out.                                                     *)

\* setupLogin.
Login(t) ==
    /\ ~user[t] /\ form[t].at = "none" /\ Exchanges < MaxOpen
    /\ logins < MaxLogins /\ Issued < MaxIssued
    /\ logins' = logins + 1
    /\ session' = [session EXCEPT ![logins + 1].status = "active"]
    /\ form' = [form EXCEPT ![t] = [NoForm EXCEPT !.at = "login",
                                    !.carries = [sid |-> logins + 1, idx |-> 0]]]
    /\ UNCHANGED <<expired, browser, request, refresh, ghosts>>

\* login and handleLoginSuccess: the token is stored and getSelf is sent.
LoginSucceeds(t, q) ==
    LET c == form[t].carries IN
    /\ form[t].at = "login"
    /\ TabOf[q] = t /\ request[q].at = "idle"
    /\ cookie' = c
    /\ token' = c
    /\ cooling' = [cooling EXCEPT ![t] = FALSE]
    /\ request' = [request EXCEPT ![q] = [Closed EXCEPT !.at = "sent",
                                              !.tok = c, !.self = TRUE]]
    /\ form' = [form EXCEPT ![t] = NoForm]
    /\ newest' = c.sid
    /\ seen' = [seen EXCEPT ![c.sid] = c.idx]
    /\ UNCHANGED <<server, stored, user, refresh, disturbed, crossed>>

\* The answer of the login is lost.
LoginFails(t) ==
    /\ form[t].at = "login"
    /\ form' = [form EXCEPT ![t] = NoForm]
    /\ UNCHANGED <<server, browser, request, refresh, ghosts>>

\* handleSignOut sends the logout with the token and the cookie.
Logout(t) ==
    /\ user[t] /\ form[t].at = "none" /\ Exchanges < MaxOpen
    /\ form' = [form EXCEPT ![t] = [at |-> "logout", carries |-> cookie,
                                    tok |-> token, clears |-> FALSE]]
    /\ UNCHANGED <<server, browser, request, refresh, ghosts>>

\* Mutant: only the current secret counts.
PossessesCurrent(c) == Live(c.sid) /\ c.idx = session[c.sid].cur

\* The cookie proves possession: the current secret, or the previous one
\* inside the window.
Possesses(c) == Live(c.sid) /\ \/ c.idx = session[c.sid].cur
                               \/ /\ c.idx = session[c.sid].cur - 1
                                  /\ session[c.sid].grace

\* AuthLogout: an access token that has not expired names the session to
\* revoke, and the cookie goes when it is of the same session; otherwise the
\* cookie decides alone.
AuthLogout(t) ==
    LET tok == form[t].tok
        c == form[t].carries
        named == tok # Nothing /\ tok.idx > expired[tok.sid]
        target == IF named THEN tok.sid
                  ELSE IF Possesses(c) THEN c.sid ELSE 0 IN
    /\ form[t].at = "logout"
    /\ session' = [s \in Sid |-> IF s = target /\ Live(s)
                                 THEN [session[s] EXCEPT !.status = "revoked",
                                                         !.why = "logout"]
                                 ELSE session[s]]
    /\ form' = [form EXCEPT ![t].at = "out",
                            ![t].clears = named => c.sid = tok.sid]
    /\ UNCHANGED <<expired, logins, browser, request, refresh, ghosts>>

\* The page is loaded anew and the tab forgets its promises.
Reload(t) ==
    /\ cooling' = [cooling EXCEPT ![t] = FALSE]
    /\ request' = [q \in Request |-> IF TabOf[q] = t THEN Closed ELSE request[q]]
    /\ refresh' = [refresh EXCEPT ![t] = NoRefresh]
    /\ form' = [form EXCEPT ![t] = NoForm]
    /\ disturbed' = (disturbed \/ refresh[t].result = "ok")

\* A tab is opened on, or reloads, a page while the browser has a user.
OpenTab(t) ==
    /\ ~user[t] /\ stored /\ form[t].at = "none"
    /\ user' = [user EXCEPT ![t] = TRUE]
    /\ Reload(t)
    /\ UNCHANGED <<server, cookie, token, stored, newest, seen, crossed>>

\* The answer clears the cookie and the token; auth.reset, then the reload.
LogoutSucceeds(t) ==
    /\ form[t].at = "out"
    /\ cookie' = IF form[t].clears THEN Nothing ELSE cookie
    /\ token' = Nothing
    /\ Reset(t)
    /\ Reload(t)
    /\ crossed' = (crossed \/ Crosses(form[t].carries))
    /\ UNCHANGED <<server, newest, seen>>

\* The logout fails or its answer is lost: the page says "Signed out", the
\* token and the cookie stay.
LogoutFails(t) ==
    /\ form[t].at \in {"logout", "out"}
    /\ Reset(t)
    /\ Reload(t)
    /\ UNCHANGED <<server, cookie, token, newest, seen, crossed>>

-----------------------------------------------------------------------------
RequestStep(q) == Serve(q) \/ ServeOutage(q) \/ RequestFails(q) \/ ReceiveOk(q)
                  \/ ReceiveUnauthorized(q) \/ ReceiveRejected(q)

RefreshStep(t) ==
    \/ RefreshThrottled(t) \/ RefreshOutage(t) \/ RefreshInvalid(t)
    \/ RefreshRotates(t)
    \/ RefreshRace(t) \/ RefreshReuse(t)
    \/ RefreshSucceeds(t) \/ RefreshDenied(t) \/ RefreshFails(t)

FormStep(t) == \/ \E q \in Request : LoginSucceeds(t, q)
               \/ LoginFails(t) \/ AuthLogout(t)
               \/ LogoutSucceeds(t) \/ LogoutFails(t)

Next == \/ \E q \in Request : Open(q) \/ RequestStep(q)
        \/ \E t \in Tab : \/ RefreshStep(t) \/ FormStep(t)
                         \/ Login(t) \/ Logout(t) \/ OpenTab(t)
                         \/ CooldownEnds(t)
        \/ \E s \in Sid : WindowCloses(s) \/ TokenExpires(s)

Spec == Init /\ [][Next]_vars

-----------------------------------------------------------------------------
TypeOK ==
    /\ session \in [Sid -> [status : {"none", "active", "revoked"},
                            cur : 0..MaxRotations, grace : BOOLEAN,
                            why : {"none", "logout", "reuse"}]]
    /\ expired \in [Sid -> -1..MaxRotations]
    /\ logins \in 0..MaxLogins /\ newest \in 0..logins
    /\ seen \in [Sid -> -1..MaxRotations]
    /\ disturbed \in BOOLEAN /\ crossed \in BOOLEAN
    /\ cookie \in Credential /\ token \in Credential
    /\ stored \in BOOLEAN
    /\ user \in [Tab -> BOOLEAN] /\ cooling \in [Tab -> BOOLEAN]
    /\ request \in [Request -> [at : {"idle", "sent", "ok", "401", "wait"},
                                tok : Credential, retried : BOOLEAN,
                                self : BOOLEAN]]
    /\ refresh \in [Tab -> [at : {"none", "sent", "answered"},
                            carries : Credential,
                            result : {"none", "ok", "401", "fail"},
                            next : Credential]]
    /\ form \in [Tab -> [at : {"none", "login", "logout", "out"},
                         carries : Credential, tok : Credential,
                         clears : BOOLEAN]]

\* The browser can always renew a session it holds: unless a message was
\* lost or outrun, the cookie is the current secret, or the answer that
\* brings it is on its way and the server still accepts the one before.
SessionRenewable ==
    ~disturbed /\ Live(cookie.sid)
    => LET s == session[cookie.sid] IN
       \/ cookie.idx = s.cur
       \/ /\ cookie.idx = s.cur - 1
          /\ s.grace
          /\ \E t \in Tab : /\ refresh[t].result = "ok"
                            /\ refresh[t].next = [cookie EXCEPT !.idx = s.cur]

\* "Throttling, refresh races and outages do not invalidate the session"
\* (api.ts): while the session of the last login is not logged out, a tab
\* that does not sign out itself keeps its user, except when a message was
\* lost or outrun (disturbed) or an answer about an older session arrived
\* after the login (crossed).
NoFalseSignOut ==
    [][\A t \in Tab :
         user[t] /\ ~user'[t] /\ form[t].at \notin {"logout", "out"}
         => disturbed' \/ crossed' \/ session'[newest].why = "logout"]_vars

\* A logout that is answered with success has revoked the session of the
\* cookie it carried, whether the access token had expired or not and
\* whatever the other tabs refreshed meanwhile, unless a message was lost or
\* outrun.
LogoutRevokes ==
    \A t \in Tab :
        /\ form[t].at = "out"
        /\ form[t].carries # Nothing
        /\ ~disturbed
        => session[form[t].carries.sid].status = "revoked"

\* A request that waits for a new token has a refresh to wait for, and a
\* refresh has a request that started it: no 401 is held back by a promise
\* that never settles.
NoOrphanWait ==
    \A t \in Tab :
        refresh[t].at # "none"
        <=> \E q \in Request : TabOf[q] = t /\ request[q].at = "wait"

-----------------------------------------------------------------------------
(* The inductive invariant.                                                *)

Known(c) == c # Nothing => c.sid <= logins

\* A session is created, and at most once revoked for a reason; its tokens
\* expire after the window that follows a rotation.
RowOK(s) ==
    LET r == session[s] IN
    /\ r.status = "none" <=> s > logins
    /\ r.status = "none" => r = NoSession
    /\ r.status = "revoked" <=> r.why # "none"
    /\ expired[s] <= r.cur
    /\ r.grace => expired[s] < r.cur

\* A refresh carries what its position needs, and no secret ahead of the row.
RefreshOK(t) ==
    LET r == refresh[t] IN
    /\ r.at = "answered" <=> r.result # "none"
    /\ r.result = "ok" <=> r.next # Nothing
    /\ Known(r.carries) /\ Known(r.next)
    /\ r.next # Nothing => r.next.idx <= session[r.next.sid].cur

\* So does a login or logout.
FormOK(t) ==
    LET f == form[t] IN
    /\ Known(f.carries)
    /\ f.at = "login" => f.carries # Nothing
    /\ f.at = "logout" => f.tok = f.carries
    /\ f.at = "out" => f.clears

\* There is a user only after a login.
UsersOK ==
    newest = 0 => /\ ~stored
                  /\ \A t \in Tab : ~user[t]
                  /\ \A q \in Request : ~request[q].self

Structure ==
    /\ TypeOK /\ NoOrphanWait /\ UsersOK
    /\ token = cookie /\ Known(cookie)
    /\ \A s \in Sid : RowOK(s)
    /\ \A t \in Tab : RefreshOK(t) /\ FormOK(t)
    /\ \A q \in Request : Known(request[q].tok)

\* A session nobody has seen is new, and the login on its way that brings its
\* first secret is the only one.
FreshRow(s) ==
    /\ session[s].status = "none" => seen[s] = -1
    /\ seen[s] = -1 => session[s].cur = 0

FreshForm(t) ==
    form[t].at = "login" =>
        /\ form[t].carries.idx = 0 /\ seen[form[t].carries.sid] = -1
        /\ \A u \in Tab : form[u].at = "login" /\ u # t =>
             form[u].carries.sid # form[t].carries.sid

\* The server still takes the secret for the browser's.
Good(c) ==
    Live(c.sid) => \/ c.idx = session[c.sid].cur
                   \/ c.idx = session[c.sid].cur - 1 /\ session[c.sid].grace

\* The browser has had the secret.
Had(c) == c # Nothing => c.idx <= seen[c.sid]

\* What is sent to the server is good when it arrives.
SentGood(t) ==
    /\ Had(refresh[t].carries)
    /\ refresh[t].at = "sent" => Good(refresh[t].carries)
    /\ form[t].at = "logout" => Had(form[t].carries) /\ Good(form[t].carries)

\* An answer on its way brings a token that has not expired, inside the window.
AnswerGood(t) ==
    LET c == refresh[t].next IN
    c # Nothing => /\ seen[c.sid] >= 0
                   /\ c.idx > expired[c.sid]
                   /\ Live(c.sid) => session[c.sid].grace

\* The browser has the current secret, or the answer with it is on its way.
SeenGood(s) ==
    Live(s) /\ seen[s] >= 0 =>
        \/ seen[s] = session[s].cur
        \/ /\ seen[s] = session[s].cur - 1 /\ session[s].grace
           /\ \E t \in Tab : refresh[t].next = [sid |-> s,
                                                idx |-> session[s].cur]

\* A refresh or a repeated request is refused only when the session is over.
RefusalOK(t) == refresh[t].result = "401" => ~Live(refresh[t].carries.sid)

RetryOK(q) ==
    LET r == request[q] IN
    r.retried /\ r.at \in {"sent", "401"} =>
        /\ r.tok # Nothing /\ r.tok.idx > expired[r.tok.sid]
        /\ r.at = "401" => ~Live(r.tok.sid)

\* What holds until a message is lost or outrun.
Undisturbed ==
    /\ cookie # Nothing => cookie.idx = seen[cookie.sid]
    /\ \A s \in Sid : FreshRow(s) /\ SeenGood(s) /\ session[s].why # "reuse"
    /\ \A t \in Tab : FreshForm(t) /\ SentGood(t) /\ AnswerGood(t) /\ RefusalOK(t)
    /\ \A q \in Request : RetryOK(q)
    /\ LogoutRevokes

\* The jar holds the session of the last login until that is logged out.
NewestHeld ==
    newest # 0 => cookie.sid = newest \/ session[newest].why = "logout"

IInv ==
    /\ Structure
    /\ ~disturbed => Undisturbed /\ (~crossed => NewestHeld)
=============================================================================
