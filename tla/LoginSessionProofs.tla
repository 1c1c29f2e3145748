------------------------- MODULE LoginSessionProofs -------------------------
(***************************************************************************)
(* Proofs about LoginSession, for any tabs, requests, numbers of logins    *)
(* and rotations: the inductive invariant, the safety properties it        *)
(* implies, and that no tab is signed out without cause.                   *)
(***************************************************************************)
EXTENDS LoginSession, TLAPS

-----------------------------------------------------------------------------
(* Types and frames.                                                       *)

\* A credential is nothing, or names a session and one of its secrets.
LEMMA CredentialFields ==
  ASSUME NEW c \in Credential
  PROVE  /\ c = Nothing <=> c.sid = 0
         /\ c = Nothing <=> c.sid \notin Sid
         /\ c.sid \in 0..MaxLogins /\ c.idx \in 0..MaxRotations
         /\ c # Nothing => c \in [sid : Sid, idx : 0..MaxRotations]
<1>1. 0 \notin Sid /\ Nothing.sid = 0 /\ Nothing.idx = 0
  BY DEF Sid, Nothing
<1>q. QED
  BY <1>1, LoginAssumption DEF Credential, Sid

\* The empty values have their types.
LEMMA EmptyTypes ==
  /\ Nothing \in Credential
  /\ Closed.at = "idle" /\ Closed.tok = Nothing /\ ~Closed.retried
  /\ ~Closed.self
  /\ Closed \in [at : {"idle", "sent", "ok", "401", "wait"},
                 tok : Credential, retried : BOOLEAN, self : BOOLEAN]
  /\ NoRefresh.at = "none" /\ NoRefresh.carries = Nothing
  /\ NoRefresh.result = "none" /\ NoRefresh.next = Nothing
  /\ NoRefresh \in [at : {"none", "sent", "answered"}, carries : Credential,
                    result : {"none", "ok", "401", "fail"}, next : Credential]
  /\ NoForm.at = "none" /\ NoForm.carries = Nothing
  /\ NoForm \in [at : {"none", "login", "logout", "out"}, carries : Credential,
                 tok : Credential, clears : BOOLEAN]
<1>1. Nothing \in Credential
  BY DEF Credential
<1>q. QED
  BY <1>1, Zenon DEF Closed, NoRefresh, NoForm

\* The state of a session, field by field.
LEMMA SessionFields ==
  ASSUME TypeOK, NEW s \in Sid
  PROVE  /\ session[s].status \in {"none", "active", "revoked"}
         /\ session[s].cur \in 0..MaxRotations
         /\ session[s].grace \in BOOLEAN
         /\ session[s].why \in {"none", "logout", "reuse"}
         /\ expired[s] \in -1..MaxRotations /\ seen[s] \in -1..MaxRotations
  BY DEF TypeOK

\* The messages of a tab, field by field.
LEMMA TabFields ==
  ASSUME TypeOK, NEW t \in Tab
  PROVE  /\ refresh[t].at \in {"none", "sent", "answered"}
         /\ refresh[t].carries \in Credential /\ refresh[t].next \in Credential
         /\ refresh[t].result \in {"none", "ok", "401", "fail"}
         /\ form[t].at \in {"none", "login", "logout", "out"}
         /\ form[t].carries \in Credential /\ form[t].tok \in Credential
         /\ form[t].clears \in BOOLEAN
<1>1. /\ refresh[t] \in [at : {"none", "sent", "answered"}, carries : Credential,
                         result : {"none", "ok", "401", "fail"},
                         next : Credential]
      /\ form[t] \in [at : {"none", "login", "logout", "out"},
                      carries : Credential, tok : Credential, clears : BOOLEAN]
  BY Zenon DEF TypeOK
<1>q. QED
  BY <1>1, Zenon

\* The state of a request, field by field.
LEMMA RequestFields ==
  ASSUME TypeOK, NEW q \in Request
  PROVE  /\ request[q].at \in {"idle", "sent", "ok", "401", "wait"}
         /\ request[q].tok \in Credential
         /\ request[q].retried \in BOOLEAN /\ request[q].self \in BOOLEAN
         /\ TabOf[q] \in Tab
<1>1. request[q] \in [at : {"idle", "sent", "ok", "401", "wait"},
                      tok : Credential, retried : BOOLEAN, self : BOOLEAN]
  BY Zenon DEF TypeOK
<1>2. TabOf[q] \in Tab
  BY LoginAssumption
<1>q. QED
  BY <1>1, <1>2, Zenon

\* Waiting requests and refreshes in flight stay as they are.
LEMMA WaitsSame ==
  ASSUME NoOrphanWait,
         \A t \in Tab : refresh'[t].at # "none" <=> refresh[t].at # "none",
         \A q \in Request : request'[q].at = "wait" <=> request[q].at = "wait"
  PROVE  NoOrphanWait'
  BY DEF NoOrphanWait

-----------------------------------------------------------------------------
(* Requests.                                                               *)

\* A step that changes requests, users and cooldowns only.
LEMMA RequestStepKeeps ==
  ASSUME IInv,
         UNCHANGED <<session, expired, logins, newest, seen, cookie, token,
                     refresh, form>>,
         request' \in [Request -> [at : {"idle", "sent", "ok", "401", "wait"},
                                   tok : Credential, retried : BOOLEAN,
                                   self : BOOLEAN]],
         user' \in [Tab -> BOOLEAN], stored' \in BOOLEAN,
         cooling' \in [Tab -> BOOLEAN],
         disturbed' \in BOOLEAN, crossed' \in BOOLEAN,
         disturbed => disturbed', crossed => crossed',
         NoOrphanWait',
         \A q \in Request : Known(request'[q].tok),
         UsersOK',
         ~disturbed' => \A q \in Request : RetryOK(q)'
  PROVE  IInv'
<1>1. TypeOK'
  BY Zenon DEF IInv, Structure, TypeOK
<1>3. Structure'
  BY <1>1 DEF IInv, Structure, RowOK, RefreshOK, FormOK, Known
<1>4. ASSUME ~disturbed'
      PROVE  Undisturbed' /\ (~crossed' => NewestHeld')
  <2>1. Undisturbed
    BY <1>4 DEF IInv
  <2>2. ~crossed' => NewestHeld'
    BY <1>4 DEF IInv, NewestHeld
  <2>3. \A s \in Sid : FreshRow(s)' /\ SeenGood(s)' /\ session'[s].why # "reuse"
    BY <2>1 DEF Undisturbed, FreshRow, SeenGood, Live
  <2>4. \A t \in Tab : FreshForm(t)' /\ SentGood(t)'
    BY <2>1 DEF Undisturbed, FreshForm, SentGood, Had, Good, Live
  <2>5. \A t \in Tab : AnswerGood(t)' /\ RefusalOK(t)'
    BY <2>1 DEF Undisturbed, AnswerGood, RefusalOK, Live
  <2>6. LogoutRevokes'
    BY <2>1, <1>4 DEF Undisturbed, LogoutRevokes
  <2>q. QED
    BY <1>4, <2>1, <2>2, <2>3, <2>4, <2>5, <2>6 DEF Undisturbed
<1>q. QED
  BY <1>3, <1>4 DEF IInv

\* A step of request q that sends, answers or closes it.
LEMMA OneRequestKeeps ==
  ASSUME IInv, NEW q \in Request, request[q].at # "wait",
         NEW r \in [at : {"idle", "sent", "ok", "401"}, tok : Credential,
                    retried : BOOLEAN, self : BOOLEAN],
         request' = [request EXCEPT ![q] = r],
         UNCHANGED <<session, expired, logins, newest, seen, cookie, token,
                     refresh, form, cooling>>,
         user' \in [Tab -> BOOLEAN], stored' \in BOOLEAN,
         disturbed' \in BOOLEAN, crossed' \in BOOLEAN,
         disturbed => disturbed', crossed => crossed',
         Known(r.tok), r.self => request[q].self,
         newest = 0 => ~stored' /\ \A t \in Tab : ~user'[t],
         ~disturbed' => RetryOK(q)'
  PROVE  IInv'
<1>1. request \in [Request -> [at : {"idle", "sent", "ok", "401", "wait"},
                               tok : Credential, retried : BOOLEAN,
                               self : BOOLEAN]]
      /\ cooling \in [Tab -> BOOLEAN]
  BY Zenon DEF IInv, Structure, TypeOK
<1>2. r \in [at : {"idle", "sent", "ok", "401", "wait"}, tok : Credential,
             retried : BOOLEAN, self : BOOLEAN] /\ r.at # "wait"
  OBVIOUS
<1>3. request' \in [Request -> [at : {"idle", "sent", "ok", "401", "wait"},
                                tok : Credential, retried : BOOLEAN,
                                self : BOOLEAN]]
      /\ request'[q] = r /\ \A p \in Request \ {q} : request'[p] = request[p]
  BY <1>1, <1>2, Zenon
<1>4. \A p \in Request : Known(request'[p].tok)
  BY <1>3 DEF IInv, Structure, Known
<1>5. UsersOK'
  BY <1>3 DEF IInv, Structure, UsersOK
<1>6. ASSUME ~disturbed', NEW p \in Request
      PROVE  RetryOK(p)'
  <2>1. CASE p = q
    BY <1>6, <2>1
  <2>2. CASE p # q
    BY <1>3, <1>6, <2>2 DEF IInv, Undisturbed, RetryOK, Live
  <2>q. QED
    BY <2>1, <2>2
<1>7. NoOrphanWait'
  BY <1>2, <1>3, WaitsSame DEF IInv, Structure
<1>8. cooling' \in [Tab -> BOOLEAN]
  BY <1>1
<1>q. QED
  BY <1>3, <1>4, <1>5, <1>6, <1>7, <1>8, RequestStepKeeps

\* The users stay as they are.
LEMMA UsersSame ==
  ASSUME IInv, UNCHANGED <<user, stored, disturbed, crossed>>
  PROVE  /\ user' \in [Tab -> BOOLEAN] /\ stored' \in BOOLEAN
         /\ disturbed' \in BOOLEAN /\ crossed' \in BOOLEAN
         /\ (disturbed => disturbed') /\ (crossed => crossed')
         /\ newest = 0 => ~stored' /\ \A t \in Tab : ~user'[t]
  BY Zenon DEF IInv, Structure, TypeOK, UsersOK

\* A closed request.
LEMMA CloseKeeps ==
  ASSUME IInv, NEW q \in Request, request[q].at # "wait",
         request' = [request EXCEPT ![q] = Closed],
         UNCHANGED <<session, expired, logins, newest, seen, cookie, token,
                     refresh, form, cooling>>,
         user' \in [Tab -> BOOLEAN], stored' \in BOOLEAN,
         disturbed' \in BOOLEAN, crossed' \in BOOLEAN,
         disturbed => disturbed', crossed => crossed',
         newest = 0 => ~stored' /\ \A t \in Tab : ~user'[t]
  PROVE  IInv'
<1>1. Closed \in [at : {"idle", "sent", "ok", "401"}, tok : Credential,
                  retried : BOOLEAN, self : BOOLEAN]
  BY EmptyTypes, Zenon DEF Closed
<1>2. Known(Closed.tok) /\ ~Closed.self
  BY EmptyTypes, Zenon DEF Known
<1>3. request'[q] = Closed
  BY Zenon DEF IInv, Structure, TypeOK
<1>4. RetryOK(q)'
  BY <1>3, EmptyTypes DEF RetryOK
<1>q. QED
  BY <1>1, <1>2, <1>4, OneRequestKeeps

\* A page sends a request with the token of the moment.
LEMMA OpenKeeps ==
  ASSUME IInv, NEW q \in Request, Open(q)
  PROVE  IInv'
<1> DEFINE r == [Closed EXCEPT !.at = "sent", !.tok = token]
<1>1. token \in Credential /\ Known(token)
      /\ request \in [Request -> [at : {"idle", "sent", "ok", "401", "wait"},
                                  tok : Credential, retried : BOOLEAN,
                                  self : BOOLEAN]]
  BY Zenon DEF IInv, Structure, TypeOK
<1>2. request' = [request EXCEPT ![q] = r]
  BY DEF Open
<1>3. r \in [at : {"idle", "sent", "ok", "401"}, tok : Credential,
             retried : BOOLEAN, self : BOOLEAN]
      /\ Known(r.tok) /\ ~r.self /\ ~r.retried
  BY <1>1 DEF Closed
<1> HIDE DEF r
<1>4. request'[q] = r
  BY <1>1, <1>2, Zenon
<1>5. RetryOK(q)'
  BY <1>3, <1>4 DEF RetryOK
<1>6. request[q].at # "wait"
      /\ UNCHANGED <<session, expired, logins, newest, seen, cookie, token,
                     refresh, form, cooling, user, stored, disturbed, crossed>>
  BY DEF Open, server, browser, ghosts
<1>q. QED
  BY <1>2, <1>3, <1>5, <1>6, UsersSame, OneRequestKeeps

\* A repeated request is refused only when its session is over.
LEMMA ServeKeeps ==
  ASSUME IInv, NEW q \in Request, Serve(q)
  PROVE  IInv'
<1> DEFINE old == request[q]
           r == IF Accepted(old.tok)
                THEN [old EXCEPT !.at = "ok", !.tok = Nothing]
                ELSE [old EXCEPT !.at = "401"]
<1>1. /\ TypeOK /\ Known(old.tok) /\ old.tok \in Credential
      /\ old.retried \in BOOLEAN /\ old.self \in BOOLEAN
      /\ old \in [at : {"idle", "sent", "ok", "401", "wait"}, tok : Credential,
                  retried : BOOLEAN, self : BOOLEAN]
      /\ request \in [Request -> [at : {"idle", "sent", "ok", "401", "wait"},
                                  tok : Credential, retried : BOOLEAN,
                                  self : BOOLEAN]]
  <2>1. TypeOK /\ Known(old.tok)
    BY DEF IInv, Structure
  <2>q. QED
    BY <2>1, RequestFields, Zenon DEF TypeOK
<1>2. request' = [request EXCEPT ![q] = r] /\ old.at = "sent"
  BY <1>1 DEF Serve
<1>3. r \in [at : {"idle", "sent", "ok", "401"}, tok : Credential,
             retried : BOOLEAN, self : BOOLEAN]
      /\ Known(r.tok) /\ r.self = old.self /\ r.retried = old.retried
  <2>1. CASE Accepted(old.tok)
    BY <1>1, <2>1, EmptyTypes DEF Known
  <2>2. CASE ~Accepted(old.tok)
    BY <1>1, <2>2 DEF Known
  <2>q. QED
    BY <2>1, <2>2
<1>4. \/ r.at = "ok"
      \/ r.at = "401" /\ r.tok = old.tok /\ ~Accepted(old.tok)
  BY <1>1
<1> HIDE DEF r
<1>5. request'[q] = r
  BY <1>1, <1>2, Zenon
<1>6. UNCHANGED <<session, expired, logins, newest, seen, cookie, token,
                  refresh, form, cooling, user, stored, disturbed, crossed>>
  BY DEF Serve, server, browser, ghosts
<1>7. ~disturbed' => RetryOK(q)'
  <2> SUFFICES ASSUME ~disturbed', r.retried, r.at = "401"
               PROVE  /\ r.tok # Nothing /\ r.tok.idx > expired[r.tok.sid]
                      /\ ~Live(r.tok.sid)
    BY <1>4, <1>5, <1>6 DEF RetryOK, Live
  <2>1. RetryOK(q)
    BY <1>6 DEF IInv, Undisturbed
  <2>2. old.tok # Nothing /\ old.tok.idx > expired[old.tok.sid]
    BY <1>2, <1>3, <2>1 DEF RetryOK
  <2>q. QED
    BY <1>4, <2>2 DEF Accepted
<1>q. QED
  BY <1>2, <1>3, <1>6, <1>7, UsersSame, OneRequestKeeps

\* An outage during a repeated request counts as a disturbance.
LEMMA ServeOutageKeeps ==
  ASSUME IInv, NEW q \in Request, ServeOutage(q)
  PROVE  IInv'
<1> DEFINE old == request[q]
           r == [old EXCEPT !.at = "401"]
<1>1. /\ TypeOK /\ Known(old.tok)
      /\ old \in [at : {"idle", "sent", "ok", "401", "wait"}, tok : Credential,
                  retried : BOOLEAN, self : BOOLEAN]
      /\ request \in [Request -> [at : {"idle", "sent", "ok", "401", "wait"},
                                  tok : Credential, retried : BOOLEAN,
                                  self : BOOLEAN]]
  <2>1. TypeOK /\ Known(old.tok)
    BY DEF IInv, Structure
  <2>q. QED
    BY <2>1, RequestFields, Zenon DEF TypeOK
<1>2. request' = [request EXCEPT ![q] = r] /\ old.at = "sent"
      /\ disturbed' = (disturbed \/ old.retried)
  BY <1>1 DEF ServeOutage
<1>3. r \in [at : {"idle", "sent", "ok", "401"}, tok : Credential,
             retried : BOOLEAN, self : BOOLEAN]
      /\ Known(r.tok) /\ r.self = old.self /\ r.retried = old.retried
  BY <1>1
<1> HIDE DEF r
<1>4. request'[q] = r
  BY <1>1, <1>2, Zenon
<1>5. UNCHANGED <<session, expired, logins, newest, seen, cookie, token,
                  refresh, form, cooling, user, stored, crossed>>
  BY DEF ServeOutage, server, browser
<1>6. ~disturbed' => RetryOK(q)'
  BY <1>2, <1>3, <1>4 DEF RetryOK
<1>7. /\ user' \in [Tab -> BOOLEAN] /\ stored' \in BOOLEAN
      /\ disturbed' \in BOOLEAN /\ crossed' \in BOOLEAN
      /\ (disturbed => disturbed') /\ (crossed => crossed')
      /\ newest = 0 => ~stored' /\ \A t \in Tab : ~user'[t]
  BY <1>2, <1>5, Zenon DEF IInv, Structure, TypeOK, UsersOK
<1>q. QED
  BY <1>2, <1>3, <1>5, <1>6, <1>7, OneRequestKeeps

\* A request that fails otherwise is closed.
LEMMA RequestFailsKeeps ==
  ASSUME IInv, NEW q \in Request, RequestFails(q)
  PROVE  IInv'
<1>1. request[q].at # "wait" /\ request' = [request EXCEPT ![q] = Closed]
      /\ UNCHANGED <<session, expired, logins, newest, seen, cookie, token,
                     refresh, form, cooling, user, stored, disturbed, crossed>>
  BY DEF RequestFails, server, browser, ghosts
<1>q. QED
  BY <1>1, UsersSame, CloseKeeps

\* The user is stored only by the getSelf that follows a login.
LEMMA ReceiveOkKeeps ==
  ASSUME IInv, NEW q \in Request, ReceiveOk(q)
  PROVE  IInv'
<1>1. request[q].at # "wait" /\ request' = [request EXCEPT ![q] = Closed]
      /\ UNCHANGED <<session, expired, logins, newest, seen, cookie, token,
                     refresh, form, cooling, disturbed, crossed>>
  BY DEF ReceiveOk, server, ghosts
<1>2. /\ user \in [Tab -> BOOLEAN] /\ stored \in BOOLEAN
      /\ disturbed \in BOOLEAN /\ crossed \in BOOLEAN /\ UsersOK
  BY Zenon DEF IInv, Structure, TypeOK
<1>3. /\ user' \in [Tab -> BOOLEAN] /\ stored' \in BOOLEAN
      /\ newest = 0 => ~stored' /\ \A t \in Tab : ~user'[t]
  <2>1. CASE request[q].self
    BY <1>2, <2>1, Zenon DEF ReceiveOk, SetUser, UsersOK
  <2>2. CASE ~request[q].self
    BY <1>2, <2>2, Zenon DEF ReceiveOk, UsersOK
  <2>q. QED
    BY <2>1, <2>2
<1>q. QED
  BY <1>1, <1>2, <1>3, CloseKeeps

\* Resetting a tab leaves fewer users.
LEMMA ResetFields ==
  ASSUME TypeOK, UsersOK, NEW t \in Tab, Reset(t)
  PROVE  /\ user' \in [Tab -> BOOLEAN] /\ stored' \in BOOLEAN
         /\ newest = 0 => ~stored' /\ \A u \in Tab : ~user'[u]
         /\ \A u \in Tab \ {t} : user'[u] = user[u]
<1>1. user \in [Tab -> BOOLEAN]
  BY Zenon DEF TypeOK
<1>q. QED
  BY <1>1, Zenon DEF Reset, UsersOK

\* A rejected request is closed and its tab is reset.
LEMMA ReceiveRejectedKeeps ==
  ASSUME IInv, NEW q \in Request, ReceiveRejected(q)
  PROVE  IInv'
<1>1. request[q].at # "wait" /\ request' = [request EXCEPT ![q] = Closed]
      /\ UNCHANGED <<session, expired, logins, newest, seen, cookie, token,
                     refresh, form, cooling, disturbed>>
      /\ Reset(TabOf[q])
      /\ crossed' = (crossed \/ Crosses(request[q].tok))
  BY DEF ReceiveRejected, server
<1>2. TypeOK /\ UsersOK /\ TabOf[q] \in Tab
      /\ disturbed \in BOOLEAN /\ crossed \in BOOLEAN
  BY LoginAssumption, Zenon DEF IInv, Structure, TypeOK
<1>3. /\ user' \in [Tab -> BOOLEAN] /\ stored' \in BOOLEAN
      /\ newest = 0 => ~stored' /\ \A t \in Tab : ~user'[t]
  BY <1>1, <1>2, ResetFields
<1>4. crossed' \in BOOLEAN /\ (crossed => crossed')
      /\ disturbed' \in BOOLEAN /\ (disturbed => disturbed')
  BY <1>1, <1>2, Zenon
<1>q. QED
  BY <1>1, <1>3, <1>4, CloseKeeps

\* The end of a cooldown concerns nothing else.
LEMMA CooldownEndsKeeps ==
  ASSUME IInv, NEW t \in Tab, CooldownEnds(t)
  PROVE  IInv'
<1>1. UNCHANGED <<session, expired, logins, newest, seen, cookie, token,
                  refresh, form, request, user, stored, disturbed, crossed>>
  BY DEF CooldownEnds, server, ghosts
<1>2. cooling' \in [Tab -> BOOLEAN]
  BY Zenon DEF CooldownEnds, IInv, Structure, TypeOK
<1>3. /\ request' \in [Request -> [at : {"idle", "sent", "ok", "401", "wait"},
                                   tok : Credential, retried : BOOLEAN,
                                   self : BOOLEAN]]
      /\ user' \in [Tab -> BOOLEAN] /\ stored' \in BOOLEAN
      /\ disturbed' \in BOOLEAN /\ crossed' \in BOOLEAN
  BY <1>1, Zenon DEF IInv, Structure, TypeOK
<1>4. UsersOK' /\ \A q \in Request : Known(request'[q].tok)
  BY <1>1 DEF IInv, Structure, UsersOK, Known
<1>5. ~disturbed' => \A q \in Request : RetryOK(q)'
  BY <1>1 DEF IInv, Undisturbed, RetryOK, Live
<1>6. NoOrphanWait'
  BY <1>1, WaitsSame DEF IInv, Structure
<1>q. QED
  BY <1>1, <1>2, <1>3, <1>4, <1>5, <1>6, RequestStepKeeps

-----------------------------------------------------------------------------
(* One tab's refresh, and the reload of a page.                            *)

RequestType == [at : {"idle", "sent", "ok", "401", "wait"},
                tok : Credential, retried : BOOLEAN, self : BOOLEAN]

RefreshType == [at : {"none", "sent", "answered"}, carries : Credential,
                result : {"none", "ok", "401", "fail"}, next : Credential]

FormType == [at : {"none", "login", "logout", "out"}, carries : Credential,
             tok : Credential, clears : BOOLEAN]

\* The types of the variables, one by one.
LEMMA Types ==
  ASSUME IInv
  PROVE  /\ TypeOK
         /\ logins \in 0..MaxLogins /\ newest \in 0..logins
         /\ disturbed \in BOOLEAN /\ crossed \in BOOLEAN
         /\ cookie \in Credential /\ token = cookie /\ Known(cookie)
         /\ stored \in BOOLEAN
         /\ user \in [Tab -> BOOLEAN] /\ cooling \in [Tab -> BOOLEAN]
         /\ request \in [Request -> RequestType]
         /\ refresh \in [Tab -> RefreshType]
         /\ form \in [Tab -> FormType]
  BY Zenon DEF IInv, Structure, TypeOK, RequestType, RefreshType, FormType

\* A step of tab t that changes its refresh, closes its form or not, and
\* leaves the sessions alone.
LEMMA TabStepKeeps ==
  ASSUME IInv, NEW t \in Tab, NEW r \in RefreshType,
         refresh' = [refresh EXCEPT ![t] = r],
         form' = form \/ form' = [form EXCEPT ![t] = NoForm],
         UNCHANGED <<session, expired, logins, newest, seen>>,
         cookie' \in Credential, token' = cookie', Known(cookie'),
         request' \in [Request -> RequestType],
         \A q \in Request : Known(request'[q].tok),
         user' \in [Tab -> BOOLEAN], stored' \in BOOLEAN,
         cooling' \in [Tab -> BOOLEAN],
         disturbed' \in BOOLEAN, crossed' \in BOOLEAN,
         disturbed => disturbed', crossed => crossed',
         NoOrphanWait', UsersOK', RefreshOK(t)',
         ~disturbed' =>
             /\ refresh[t].next = Nothing
             /\ Had(r.carries) /\ (r.at = "sent" => Good(r.carries))
             /\ AnswerGood(t)' /\ RefusalOK(t)'
             /\ cookie' # Nothing => cookie'.idx = seen[cookie'.sid]
             /\ \A q \in Request : RetryOK(q)',
         ~disturbed' /\ ~crossed' => NewestHeld'
  PROVE  IInv'
<1>1. /\ refresh' \in [Tab -> RefreshType] /\ form' \in [Tab -> FormType]
      /\ refresh'[t] = r /\ \A u \in Tab \ {t} : refresh'[u] = refresh[u]
      /\ \A u \in Tab : form'[u] = form[u] \/ form'[u] = NoForm
  <2>1. NoForm \in FormType
    BY EmptyTypes, Zenon DEF FormType
  <2>q. QED
    BY <2>1, Types, Zenon
<1>2. TypeOK'
  BY <1>1, Zenon
     DEF IInv, Structure, TypeOK, RequestType, RefreshType, FormType
<1>3. \A s \in Sid : RowOK(s)'
  BY DEF IInv, Structure, RowOK
<1>4. \A u \in Tab : RefreshOK(u)'
  BY <1>1 DEF IInv, Structure, RefreshOK, Known
<1>5. \A u \in Tab : FormOK(u)'
  BY <1>1, EmptyTypes DEF IInv, Structure, FormOK, Known
<1>6. Structure'
  <2>1. Known(cookie)' /\ \A q \in Request : Known(request[q].tok)'
    BY DEF Known
  <2>q. QED
    BY <1>2, <1>3, <1>4, <1>5, <2>1 DEF Structure
<1>7. ASSUME ~disturbed'
      PROVE  Undisturbed'
  <2>1. Undisturbed
    BY <1>7 DEF IInv
  <2>2. \A s \in Sid : FreshRow(s)' /\ session'[s].why # "reuse"
    BY <2>1 DEF Undisturbed, FreshRow
  <2>3. ASSUME NEW s \in Sid
        PROVE  SeenGood(s)'
    <3>1. SeenGood(s)
      BY <2>1 DEF Undisturbed
    <3>2. refresh[t].next # [sid |-> s, idx |-> session[s].cur]
      <4>1. Nothing.sid \notin Sid
        BY DEF Sid, Nothing
      <4>q. QED
        BY <1>7, <4>1
    <3>q. QED
      BY <1>1, <3>1, <3>2 DEF SeenGood, Live
  <2>4. \A u \in Tab : FreshForm(u)'
    BY <1>1, <2>1, EmptyTypes DEF Undisturbed, FreshForm
  <2>5. ASSUME NEW u \in Tab
        PROVE  SentGood(u)'
    <3>1. SentGood(u)
      BY <2>1 DEF Undisturbed
    <3>2. form'[u].at = "logout" => Had(form[u].carries)' /\ Good(form[u].carries)'
      BY <1>1, <3>1, EmptyTypes DEF SentGood, Had, Good, Live
    <3>3. CASE u = t
      BY <1>1, <1>7, <3>2, <3>3 DEF SentGood, Had, Good, Live
    <3>4. CASE u # t
      BY <1>1, <3>1, <3>2, <3>4 DEF SentGood, Had, Good, Live
    <3>q. QED
      BY <3>3, <3>4
  <2>6. \A u \in Tab : AnswerGood(u)' /\ RefusalOK(u)'
    BY <1>1, <1>7, <2>1 DEF Undisturbed, AnswerGood, RefusalOK, Live
  <2>7. LogoutRevokes'
    BY <1>1, <1>7, <2>1, EmptyTypes DEF Undisturbed, LogoutRevokes
  <2>q. QED
    BY <1>7, <2>2, <2>3, <2>4, <2>5, <2>6, <2>7 DEF Undisturbed
<1>q. QED
  BY <1>6, <1>7 DEF IInv

\* The cookie is the last secret delivered, and good.
LEMMA CookieGood ==
  ASSUME IInv, ~disturbed
  PROVE  Had(cookie) /\ Good(cookie)
<1>1. Undisturbed
  BY DEF IInv
<1>2. cookie # Nothing => cookie.sid \in Sid /\ cookie.idx \in 0..MaxRotations
  BY Types, CredentialFields
<1>3. CASE cookie = Nothing
  BY <1>3 DEF Had, Good, Live, Nothing, Sid
<1>4. CASE cookie # Nothing
  <2>1. seen[cookie.sid] = cookie.idx /\ cookie.idx >= 0
    BY <1>1, <1>2, <1>4 DEF Undisturbed
  <2>2. SeenGood(cookie.sid)
    BY <1>1, <1>2, <1>4 DEF Undisturbed
  <2>q. QED
    BY <1>2, <1>4, <2>1, <2>2 DEF Had, Good, SeenGood
<1>q. QED
  BY <1>3, <1>4

\* A waiting request joins the refresh of its tab, or starts it with the
\* cookie, which is the last secret delivered.
LEMMA ReceiveUnauthorizedKeeps ==
  ASSUME IInv, NEW q \in Request, ReceiveUnauthorized(q)
  PROVE  IInv'
<1> DEFINE t == TabOf[q]
           old == request[q]
           w == [old EXCEPT !.at = "wait", !.tok = Nothing]
<1>1. /\ TypeOK /\ t \in Tab /\ old \in RequestType /\ NoOrphanWait /\ UsersOK
      /\ request \in [Request -> RequestType] /\ old.at = "401" /\ ~old.retried
      /\ \A p \in Request : Known(request[p].tok)
      /\ refresh \in [Tab -> RefreshType]
  <2>1. old.at = "401" /\ ~old.retried
    BY DEF ReceiveUnauthorized, CanRefresh
  <2>2. NoOrphanWait /\ UsersOK /\ \A p \in Request : Known(request[p].tok)
    BY DEF IInv, Structure
  <2>q. QED
    BY <2>1, <2>2, Types, RequestFields, Zenon
<1>2. /\ w \in RequestType /\ w.at = "wait" /\ w.tok = Nothing /\ ~w.retried
      /\ w.self = old.self
  BY <1>1, EmptyTypes DEF RequestType
<1>3. UNCHANGED <<session, expired, logins, newest, seen, cookie, token, form,
                  cooling, user, stored, disturbed, crossed>>
  BY DEF ReceiveUnauthorized, server, browser, ghosts
<1>4. \/ /\ request' = [request EXCEPT ![q] = w]
         /\ refresh[t].at # "none" /\ UNCHANGED refresh
      \/ /\ request' = [request EXCEPT ![q] = Closed]
         /\ UNCHANGED refresh
      \/ /\ request' = [request EXCEPT ![q] = w]
         /\ refresh[t].at = "none"
         /\ refresh' = [refresh EXCEPT ![t] = [NoRefresh EXCEPT
                             !.at = "sent", !.carries = cookie]]
  BY DEF ReceiveUnauthorized
<1> HIDE DEF w
<1>5. ASSUME request' = [request EXCEPT ![q] = w]
      PROVE  /\ request' \in [Request -> RequestType]
             /\ \A p \in Request : Known(request'[p].tok)
             /\ UsersOK'
             /\ ~disturbed' => \A p \in Request : RetryOK(p)'
             /\ request'[q].at = "wait"
             /\ \A p \in Request \ {q} : request'[p] = request[p]
             /\ user' \in [Tab -> BOOLEAN] /\ stored' \in BOOLEAN
             /\ cooling' \in [Tab -> BOOLEAN]
             /\ disturbed' \in BOOLEAN /\ crossed' \in BOOLEAN
  <2>1. /\ request' \in [Request -> RequestType] /\ request'[q] = w
        /\ \A p \in Request \ {q} : request'[p] = request[p]
    BY <1>1, <1>2, <1>5, Zenon
  <2>2. \A p \in Request : Known(request'[p].tok)
    BY <1>1, <1>2, <2>1 DEF Known
  <2>3. UsersOK'
    BY <1>1, <1>2, <1>3, <2>1 DEF UsersOK
  <2>4. ~disturbed' => \A p \in Request : RetryOK(p)'
    BY <1>2, <1>3, <2>1 DEF IInv, Undisturbed, RetryOK, Live
  <2>5. /\ user' \in [Tab -> BOOLEAN] /\ stored' \in BOOLEAN
        /\ cooling' \in [Tab -> BOOLEAN]
        /\ disturbed' \in BOOLEAN /\ crossed' \in BOOLEAN
    BY <1>3, Types, Zenon
  <2>q. QED
    BY <1>2, <2>1, <2>2, <2>3, <2>4, <2>5
<1>6. CASE /\ request' = [request EXCEPT ![q] = w]
           /\ refresh[t].at # "none" /\ UNCHANGED refresh
  <2>1. NoOrphanWait'
    BY <1>1, <1>5, <1>6 DEF NoOrphanWait
  <2>q. QED
    BY <1>3, <1>5, <1>6, <2>1, RequestStepKeeps DEF RequestType
<1>7. CASE /\ request' = [request EXCEPT ![q] = Closed]
           /\ UNCHANGED refresh
  BY <1>1, <1>3, <1>7, UsersSame, CloseKeeps
<1>8. CASE /\ request' = [request EXCEPT ![q] = w]
           /\ refresh[t].at = "none"
           /\ refresh' = [refresh EXCEPT ![t] = [NoRefresh EXCEPT
                               !.at = "sent", !.carries = cookie]]
  <2> DEFINE r == [NoRefresh EXCEPT !.at = "sent", !.carries = cookie]
  <2>1. /\ r \in RefreshType /\ r.at = "sent" /\ r.carries = cookie
        /\ r.result = "none" /\ r.next = Nothing
    BY Types, EmptyTypes DEF RefreshType, NoRefresh
  <2>2. refresh' = [refresh EXCEPT ![t] = r]
    BY <1>8
  <2> HIDE DEF r
  <2>3. refresh'[t] = r /\ \A u \in Tab \ {t} : refresh'[u] = refresh[u]
    BY <1>1, <2>2, Zenon
  <2>4. NoOrphanWait'
    BY <1>1, <1>5, <1>8, <2>1, <2>3 DEF NoOrphanWait
  <2>5. RefreshOK(t)'
    BY <1>3, <2>1, <2>3, Types DEF RefreshOK, Known
  <2>6. ASSUME ~disturbed'
        PROVE  /\ refresh[t].next = Nothing
               /\ Had(r.carries) /\ (r.at = "sent" => Good(r.carries))
               /\ AnswerGood(t)' /\ RefusalOK(t)'
               /\ cookie' # Nothing => cookie'.idx = seen[cookie'.sid]
    <3>1. Undisturbed
      BY <1>3, <2>6 DEF IInv
    <3>2. refresh[t].next = Nothing
      BY <1>1, <1>8 DEF IInv, Structure, RefreshOK
    <3>4. Had(cookie) /\ Good(cookie)
      BY <1>3, <2>6, CookieGood
    <3>5. AnswerGood(t)' /\ RefusalOK(t)'
      BY <2>1, <2>3 DEF AnswerGood, RefusalOK
    <3>q. QED
      BY <1>3, <2>1, <3>1, <3>2, <3>4, <3>5 DEF Undisturbed
  <2>7. ~disturbed' /\ ~crossed' => NewestHeld'
    BY <1>3 DEF IInv, NewestHeld
  <2>8. token' = cookie' /\ Known(cookie') /\ cookie' \in Credential
    BY <1>3, Types
  <2>q. QED
    BY <1>1, <1>3, <1>5, <1>8, <2>1, <2>2, <2>4, <2>5, <2>6, <2>7, <2>8,
       TabStepKeeps
<1>q. QED
  BY <1>4, <1>6, <1>7, <1>8

-----------------------------------------------------------------------------
(* The server's answers.                                                   *)

\* An answer that leaves the session as it is.
LEMMA AnswerKeeps ==
  ASSUME IInv, NEW t \in Tab, refresh[t].at = "sent",
         NEW result \in {"ok", "401", "fail"}, NEW next \in Credential,
         Answer(t, result, next),
         UNCHANGED <<session, expired, logins, newest, seen, cookie, token,
                     stored, user, cooling, request, form, crossed>>,
         disturbed' \in BOOLEAN, disturbed => disturbed',
         result = "ok" <=> next # Nothing, Known(next),
         next # Nothing => next.idx <= session[next.sid].cur,
         ~disturbed' =>
             /\ next # Nothing => /\ seen[next.sid] >= 0
                                  /\ next.idx > expired[next.sid]
                                  /\ Live(next.sid) => session[next.sid].grace
             /\ result = "401" => ~Live(refresh[t].carries.sid)
  PROVE  IInv'
<1> DEFINE r == [at |-> "answered", result |-> result,
                 carries |-> IF result = "401" THEN refresh[t].carries
                             ELSE Nothing,
                 next |-> next]
<1>1. /\ TypeOK /\ refresh \in [Tab -> RefreshType] /\ NoOrphanWait /\ UsersOK
      /\ \A p \in Request : Known(request[p].tok)
      /\ refresh[t].carries \in Credential /\ Nothing \in Credential
      /\ Known(refresh[t].carries) /\ RefreshOK(t)
  <2>1. /\ TypeOK /\ NoOrphanWait /\ UsersOK /\ RefreshOK(t)
        /\ \A p \in Request : Known(request[p].tok)
    BY DEF IInv, Structure
  <2>2. Known(refresh[t].carries)
    BY <2>1 DEF RefreshOK
  <2>q. QED
    BY <2>1, <2>2, Types, TabFields, EmptyTypes, Zenon
<1>2. refresh' = [refresh EXCEPT ![t] = r]
  BY DEF Answer
<1>3. /\ r \in RefreshType /\ r.at = "answered" /\ r.result = result
      /\ r.next = next
      /\ r.carries = IF result = "401" THEN refresh[t].carries ELSE Nothing
  BY <1>1 DEF RefreshType
<1> HIDE DEF r
<1>4. refresh'[t] = r /\ \A u \in Tab \ {t} : refresh'[u] = refresh[u]
  BY <1>1, <1>2, Zenon
<1>5. /\ request' \in [Request -> RequestType]
      /\ user' \in [Tab -> BOOLEAN] /\ stored' \in BOOLEAN
      /\ cooling' \in [Tab -> BOOLEAN] /\ crossed' \in BOOLEAN
      /\ cookie' \in Credential
  BY Types, Zenon
<1>6. token' = cookie' /\ Known(cookie')
      /\ \A q \in Request : Known(request'[q].tok)
  BY <1>1, Types
<1>7. NoOrphanWait' /\ UsersOK'
  BY <1>1, <1>3, <1>4 DEF NoOrphanWait, UsersOK
<1>8. RefreshOK(t)'
  <2>1. Known(r.carries) /\ Known(r.next)
    BY <1>1, <1>3 DEF Known
  <2>q. QED
    BY <1>3, <1>4, <2>1 DEF RefreshOK, Known
<1>9. ASSUME ~disturbed'
      PROVE  /\ refresh[t].next = Nothing
             /\ Had(r.carries) /\ (r.at = "sent" => Good(r.carries))
             /\ AnswerGood(t)' /\ RefusalOK(t)'
             /\ cookie' # Nothing => cookie'.idx = seen[cookie'.sid]
             /\ \A q \in Request : RetryOK(q)'
  <2>1. Undisturbed
    BY <1>9 DEF IInv
  <2>2. refresh[t].next = Nothing
    BY <1>1 DEF RefreshOK
  <2>3. Had(r.carries)
    BY <1>3, <2>1 DEF Undisturbed, SentGood, Had
  <2>4. AnswerGood(t)' /\ RefusalOK(t)'
    BY <1>3, <1>4, <1>9 DEF AnswerGood, RefusalOK, Live
  <2>5. \A q \in Request : RetryOK(q)'
    BY <2>1 DEF Undisturbed, RetryOK, Live
  <2>q. QED
    BY <1>3, <2>1, <2>2, <2>3, <2>4, <2>5 DEF Undisturbed
<1>10. ~disturbed' /\ ~crossed' => NewestHeld'
  BY DEF IInv, NewestHeld
<1>q. QED
  BY <1>2, <1>3, <1>5, <1>6, <1>7, <1>8, <1>9, <1>10, TabStepKeeps

\* An answer without a verdict.
LEMMA RefreshThrottledKeeps ==
  ASSUME IInv, NEW t \in Tab, RefreshThrottled(t)
  PROVE  IInv'
<1>1. /\ refresh[t].at = "sent" /\ Answer(t, "fail", Nothing)
      /\ UNCHANGED <<session, expired, logins, newest, seen, cookie, token,
                     stored, user, cooling, request, form, crossed, disturbed>>
  BY DEF RefreshThrottled, server, browser, ghosts
<1>2. Known(Nothing) /\ Nothing \in Credential
  BY EmptyTypes DEF Known
<1>3. disturbed' \in BOOLEAN /\ (disturbed => disturbed')
  BY <1>1, Types
<1>q. QED
  BY <1>1, <1>2, <1>3, AnswerKeeps

\* A refusal without the database is a disturbance.
LEMMA RefreshOutageKeeps ==
  ASSUME IInv, NEW t \in Tab, RefreshOutage(t)
  PROVE  IInv'
<1>1. /\ refresh[t].at = "sent" /\ Answer(t, "401", Nothing) /\ disturbed' = TRUE
      /\ UNCHANGED <<session, expired, logins, newest, seen, cookie, token,
                     stored, user, cooling, request, form, crossed>>
  BY DEF RefreshOutage, server, browser
<1>2. Known(Nothing) /\ Nothing \in Credential
  BY EmptyTypes DEF Known
<1>q. QED
  BY <1>1, <1>2, AnswerKeeps

\* A refusal with the database: what was sent is good unless its session is over.
LEMMA RefreshInvalidKeeps ==
  ASSUME IInv, NEW t \in Tab, RefreshInvalid(t)
  PROVE  IInv'
<1> DEFINE c == refresh[t].carries
<1>1. /\ refresh[t].at = "sent" /\ Answer(t, "401", Nothing)
      /\ Live(c.sid) => c.idx < session[c.sid].cur - 1
      /\ UNCHANGED <<session, expired, logins, newest, seen, cookie, token,
                     stored, user, cooling, request, form, crossed, disturbed>>
  BY DEF RefreshInvalid, server, browser, ghosts
<1>2. Known(Nothing) /\ Nothing \in Credential /\ c \in Credential /\ TypeOK
  BY Types, TabFields, EmptyTypes DEF Known
<1>3. disturbed' \in BOOLEAN /\ (disturbed => disturbed')
  BY <1>1, Types
<1>4. ~disturbed => ~Live(c.sid)
  <2> SUFFICES ASSUME ~disturbed, Live(c.sid)
               PROVE  FALSE
    OBVIOUS
  <2>1. Good(c)
    BY <1>1 DEF IInv, Undisturbed, SentGood
  <2>2. c.idx \in Int /\ session[c.sid].cur \in Int
    BY <1>2, CredentialFields, SessionFields DEF Live
  <2>q. QED
    BY <1>1, <2>1, <2>2 DEF Good
<1>q. QED
  BY <1>1, <1>2, <1>3, <1>4, AnswerKeeps

\* What a refresh that is accepted carries, and what it is answered with.
LEMMA NextSecret ==
  ASSUME IInv, NEW t \in Tab, Live(refresh[t].carries.sid),
         refresh[t].carries.idx < MaxRotations
  PROVE  LET c == refresh[t].carries
             n == [c EXCEPT !.idx = @ + 1] IN
         /\ n = [sid |-> c.sid, idx |-> c.idx + 1]
         /\ n \in Credential /\ n # Nothing /\ n.sid = c.sid
         /\ n.idx = c.idx + 1 /\ Known(n)
         /\ c # Nothing /\ c.sid \in Sid /\ c.idx \in 0..MaxRotations
         /\ session[c.sid].cur \in 0..MaxRotations
<1> DEFINE c == refresh[t].carries
           n == [c EXCEPT !.idx = @ + 1]
<1>1. /\ TypeOK /\ c \in Credential /\ c.sid \in Sid /\ RowOK(c.sid)
      /\ logins \in 0..MaxLogins
  BY Types, TabFields DEF IInv, Structure, Live
<1>2. c # Nothing /\ c \in [sid : Sid, idx : 0..MaxRotations]
  BY <1>1, CredentialFields
<1>3. n = [sid |-> c.sid, idx |-> c.idx + 1]
  BY <1>2
<1>4. n \in [sid : Sid, idx : 0..MaxRotations]
  BY <1>2, <1>3, LoginAssumption
<1>5. n # Nothing
  BY <1>4, CredentialFields DEF Credential, Sid, Nothing
<1>6. c.sid <= logins
  BY <1>1, <1>2 DEF RowOK, Live, Sid
<1>7. n.sid = c.sid /\ n.idx = c.idx + 1 /\ n \in Credential
  BY <1>3, <1>4, Zenon DEF Credential
<1>8. Known(n)
  BY <1>6, <1>7 DEF Known
<1>9. session[c.sid].cur \in 0..MaxRotations
  BY <1>1, SessionFields
<1> HIDE DEF n
<1>q. QED
  BY <1>1, <1>2, <1>3, <1>5, <1>7, <1>8, <1>9 DEF n

\* The previous secret inside the window is answered with the current one.
LEMMA RefreshRaceKeeps ==
  ASSUME IInv, NEW t \in Tab, RefreshRace(t)
  PROVE  IInv'
<1> DEFINE c == refresh[t].carries
           n == [c EXCEPT !.idx = @ + 1]
<1>1. /\ refresh[t].at = "sent" /\ Answer(t, "ok", n) /\ Live(c.sid)
      /\ c.idx = session[c.sid].cur - 1 /\ session[c.sid].grace
      /\ UNCHANGED <<session, expired, logins, newest, seen, cookie, token,
                     stored, user, cooling, request, form, crossed, disturbed>>
  BY DEF RefreshRace, server, browser, ghosts
<1>2. TypeOK /\ c.sid \in Sid /\ RowOK(c.sid)
  BY <1>1 DEF IInv, Structure, Live
<1>3. c.idx < MaxRotations
  BY <1>1, <1>2, SessionFields, LoginAssumption
<1>4. /\ n \in Credential /\ n # Nothing /\ n.sid = c.sid
      /\ n.idx = c.idx + 1 /\ Known(n) /\ c # Nothing /\ c.idx \in 0..MaxRotations
      /\ session[c.sid].cur \in 0..MaxRotations
  BY <1>1, <1>3, NextSecret
<1> HIDE DEF n
<1>5. disturbed' \in BOOLEAN /\ (disturbed => disturbed')
  BY <1>1, Types
<1>6. n.idx <= session[n.sid].cur
  BY <1>1, <1>4
<1>7. ASSUME ~disturbed'
      PROVE  /\ seen[n.sid] >= 0 /\ n.idx > expired[n.sid]
             /\ session[n.sid].grace
  <2>1. SentGood(t)
    BY <1>1, <1>7 DEF IInv, Undisturbed
  <2>2. c.idx <= seen[c.sid]
    BY <1>4, <2>1 DEF SentGood, Had
  <2>3. expired[c.sid] < session[c.sid].cur
    BY <1>1, <1>2 DEF RowOK
  <2>q. QED
    BY <1>1, <1>2, <1>4, <2>2, <2>3, SessionFields
<1>q. QED
  BY <1>1, <1>4, <1>5, <1>6, <1>7, AnswerKeeps

-----------------------------------------------------------------------------
(* The refresh promise ends without a new token.                           *)

\* Tab t forgets its refresh and closes the requests that waited for it; the
\* cookie stays or is cleared.
LEMMA TabRestsKeeps ==
  ASSUME IInv, NEW t \in Tab, NEW S \in SUBSET Request,
         \A q \in S : TabOf[q] = t,
         \A q \in Request : TabOf[q] = t /\ request[q].at = "wait" => q \in S,
         request' = [q \in Request |-> IF q \in S THEN Closed ELSE request[q]],
         refresh' = [refresh EXCEPT ![t] = NoRefresh],
         form' = form \/ form' = [form EXCEPT ![t] = NoForm],
         UNCHANGED <<session, expired, logins, newest, seen>>,
         cookie' = cookie \/ cookie' = Nothing, token' = cookie',
         user' \in [Tab -> BOOLEAN], stored' \in BOOLEAN,
         cooling' \in [Tab -> BOOLEAN],
         disturbed' \in BOOLEAN, crossed' \in BOOLEAN,
         disturbed => disturbed', crossed => crossed',
         newest = 0 => ~stored' /\ \A u \in Tab : ~user'[u],
         ~disturbed' => refresh[t].next = Nothing,
         ~disturbed' /\ ~crossed' => NewestHeld'
  PROVE  IInv'
<1>1. /\ TypeOK /\ NoOrphanWait /\ UsersOK
      /\ \A p \in Request : Known(request[p].tok)
  BY DEF IInv, Structure
<1>2. NoRefresh \in RefreshType /\ Closed \in RequestType
  BY EmptyTypes, Zenon DEF RefreshType, RequestType
<1>3. /\ request' \in [Request -> RequestType]
      /\ \A q \in Request : request'[q] = Closed \/ request'[q] = request[q]
      /\ \A q \in Request : q \in S => request'[q] = Closed
      /\ \A q \in Request : q \notin S => request'[q] = request[q]
  BY <1>2, Types, Zenon
<1>4. refresh'[t] = NoRefresh /\ \A u \in Tab \ {t} : refresh'[u] = refresh[u]
  BY Types, Zenon
<1>5. NoOrphanWait'
  BY <1>1, <1>3, <1>4, EmptyTypes DEF NoOrphanWait
<1>6. /\ \A q \in Request : Known(request'[q].tok)
      /\ UsersOK'
  BY <1>1, <1>3, EmptyTypes DEF Known, UsersOK
<1>7. cookie' \in Credential /\ Known(cookie')
  BY Types, EmptyTypes DEF Known
<1>8. RefreshOK(t)'
  BY <1>4, EmptyTypes DEF RefreshOK, Known
<1>9. ASSUME ~disturbed'
      PROVE  /\ Had(NoRefresh.carries)
             /\ NoRefresh.at = "sent" => Good(NoRefresh.carries)
             /\ AnswerGood(t)' /\ RefusalOK(t)'
             /\ cookie' # Nothing => cookie'.idx = seen[cookie'.sid]
             /\ \A q \in Request : RetryOK(q)'
  <2>1. Undisturbed
    BY <1>9 DEF IInv
  <2>2. \A q \in Request : RetryOK(q)'
    BY <1>3, <2>1, EmptyTypes DEF Undisturbed, RetryOK, Live
  <2>3. AnswerGood(t)' /\ RefusalOK(t)'
    BY <1>4, EmptyTypes DEF AnswerGood, RefusalOK
  <2>q. QED
    BY <2>1, <2>2, <2>3, EmptyTypes DEF Undisturbed, Had
<1>q. QED
  BY <1>2, <1>3, <1>5, <1>6, <1>7, <1>8, <1>9, TabStepKeeps

\* A disturbance is remembered.
LEMMA Monotone ==
  ASSUME IInv, NEW a, disturbed' = (disturbed \/ a)
  PROVE  disturbed' \in BOOLEAN /\ (disturbed => disturbed')
  BY Types, Zenon

\* A failed refresh: an answer that is lost is a disturbance.
LEMMA RefreshFailsKeeps ==
  ASSUME IInv, NEW t \in Tab, RefreshFails(t)
  PROVE  IInv'
<1>1. /\ refresh' = [refresh EXCEPT ![t] = NoRefresh]
      /\ request' = [q \in Request |-> IF q \in Waiting(t) THEN Closed
                                       ELSE request[q]]
      /\ cooling' = [cooling EXCEPT ![t] = TRUE]
      /\ disturbed' = (disturbed \/ refresh[t].result = "ok")
      /\ UNCHANGED <<session, expired, logins, newest, seen, cookie, token,
                     stored, user, form, crossed>>
  BY DEF RefreshFails, GiveUp, Settle, server
<1>2. /\ Waiting(t) \in SUBSET Request /\ \A q \in Waiting(t) : TabOf[q] = t
      /\ \A q \in Request : TabOf[q] = t /\ request[q].at = "wait"
                            => q \in Waiting(t)
  BY DEF Waiting
<1>3. cooling' \in [Tab -> BOOLEAN] /\ user' \in [Tab -> BOOLEAN]
      /\ stored' \in BOOLEAN /\ crossed' \in BOOLEAN
  BY <1>1, Types, Zenon
<1>4. newest = 0 => ~stored' /\ \A u \in Tab : ~user'[u]
  BY <1>1 DEF IInv, Structure, UsersOK
<1>5. ~disturbed' => refresh[t].next = Nothing
  BY <1>1 DEF IInv, Structure, RefreshOK
<1>6. ~disturbed' /\ ~crossed' => NewestHeld'
  BY <1>1 DEF IInv, NewestHeld
<1>7. token' = cookie' /\ disturbed' \in BOOLEAN /\ (disturbed => disturbed')
  BY <1>1, Types, Monotone
<1>q. QED
  BY <1>1, <1>2, <1>3, <1>4, <1>5, <1>6, <1>7, TabRestsKeeps

\* Without a disturbance, the session of the last login ends by a logout only.
LEMMA NewestLive ==
  ASSUME IInv, ~disturbed, newest # 0, ~Live(newest)
  PROVE  newest \in Sid /\ session[newest].why = "logout"
<1>1. newest \in Sid /\ newest <= logins
  BY Types, LoginAssumption DEF Sid
<1>2. RowOK(newest) /\ session[newest].why # "reuse" /\ TypeOK
  BY <1>1 DEF IInv, Structure, Undisturbed
<1>3. session[newest].status = "revoked"
  BY <1>1, <1>2, SessionFields, Types, LoginAssumption DEF RowOK, Live, Sid
<1>q. QED
  BY <1>1, <1>2, <1>3, SessionFields DEF RowOK

\* A refused refresh clears the cookie: of a session that is over, or one of
\* another session than the refresh was about.
LEMMA RefreshDeniedKeeps ==
  ASSUME IInv, NEW t \in Tab, RefreshDenied(t)
  PROVE  IInv'
<1>1. /\ refresh[t].result = "401"
      /\ refresh' = [refresh EXCEPT ![t] = NoRefresh]
      /\ request' = [q \in Request |-> IF q \in Waiting(t) THEN Closed
                                       ELSE request[q]]
      /\ cooling' = [cooling EXCEPT ![t] = FALSE]
      /\ cookie' = Nothing /\ token' = Nothing /\ Reset(t)
      /\ crossed' = (crossed \/ Crosses(refresh[t].carries))
      /\ UNCHANGED <<session, expired, logins, newest, seen, form, disturbed>>
  BY DEF RefreshDenied, GiveUp, Settle, server
<1>2. /\ Waiting(t) \in SUBSET Request /\ \A q \in Waiting(t) : TabOf[q] = t
      /\ \A q \in Request : TabOf[q] = t /\ request[q].at = "wait"
                            => q \in Waiting(t)
  BY DEF Waiting
<1>3. cooling' \in [Tab -> BOOLEAN] /\ disturbed' \in BOOLEAN
      /\ crossed' \in BOOLEAN /\ (crossed => crossed')
  BY <1>1, Types, Zenon
<1>4. /\ user' \in [Tab -> BOOLEAN] /\ stored' \in BOOLEAN
      /\ newest = 0 => ~stored' /\ \A u \in Tab : ~user'[u]
  BY <1>1, ResetFields DEF IInv, Structure
<1>5. refresh[t].next = Nothing
  BY <1>1 DEF IInv, Structure, RefreshOK
<1>6. ASSUME ~disturbed', ~crossed', newest # 0
      PROVE  session'[newest].why = "logout"
  <2>1. ~disturbed /\ ~crossed /\ ~Crosses(refresh[t].carries) /\ NewestHeld
    BY <1>1, <1>6 DEF IInv
  <2>2. CASE session[newest].why = "logout"
    BY <1>1, <2>2
  <2>3. CASE cookie.sid = newest
    <3>1. cookie # Nothing
      BY <1>6, <2>3 DEF Nothing
    <3>2. refresh[t].carries.sid = newest
      BY <2>1, <2>3, <3>1 DEF Crosses
    <3>3. ~Live(newest)
      BY <1>1, <2>1, <3>2 DEF IInv, Undisturbed, RefusalOK
    <3>q. QED
      BY <1>1, <1>6, <2>1, <3>3, NewestLive
  <2>q. QED
    BY <1>6, <2>1, <2>2, <2>3 DEF NewestHeld
<1>7. ~disturbed' /\ ~crossed' => NewestHeld'
  BY <1>1, <1>6 DEF NewestHeld
<1>q. QED
  BY <1>1, <1>2, <1>3, <1>4, <1>5, <1>7, TabRestsKeeps

\* A reload of tab t.
LEMMA ReloadKeeps ==
  ASSUME IInv, NEW t \in Tab, Reload(t),
         UNCHANGED <<session, expired, logins, newest, seen>>,
         cookie' = cookie \/ cookie' = Nothing, token' = cookie',
         user' \in [Tab -> BOOLEAN], stored' \in BOOLEAN,
         crossed' \in BOOLEAN, crossed => crossed',
         newest = 0 => ~stored' /\ \A u \in Tab : ~user'[u],
         ~disturbed' /\ ~crossed' => NewestHeld'
  PROVE  IInv'
<1> DEFINE S == {q \in Request : TabOf[q] = t}
<1>1. /\ refresh' = [refresh EXCEPT ![t] = NoRefresh]
      /\ form' = [form EXCEPT ![t] = NoForm]
      /\ request' = [q \in Request |-> IF q \in S THEN Closed ELSE request[q]]
      /\ cooling' = [cooling EXCEPT ![t] = FALSE]
      /\ disturbed' = (disturbed \/ refresh[t].result = "ok")
  BY Zenon DEF Reload
<1>2. S \in SUBSET Request /\ \A q \in S : TabOf[q] = t
  OBVIOUS
<1>3. \A q \in Request : TabOf[q] = t /\ request[q].at = "wait" => q \in S
  OBVIOUS
<1> HIDE DEF S
<1>4. cooling' \in [Tab -> BOOLEAN]
  BY <1>1, Types, Zenon
<1>5. ~disturbed' => refresh[t].next = Nothing
  BY <1>1 DEF IInv, Structure, RefreshOK
<1>6. disturbed' \in BOOLEAN /\ (disturbed => disturbed')
  BY <1>1, Monotone
<1>q. QED
  BY <1>1, <1>2, <1>3, <1>4, <1>5, <1>6, TabRestsKeeps

\* A tab opens on a page of a browser that has a user.
LEMMA OpenTabKeeps ==
  ASSUME IInv, NEW t \in Tab, OpenTab(t)
  PROVE  IInv'
<1>1. /\ Reload(t) /\ stored /\ user' = [user EXCEPT ![t] = TRUE]
      /\ UNCHANGED <<session, expired, logins, newest, seen, cookie, token,
                     stored, crossed>>
  BY DEF OpenTab, server
<1>2. newest # 0
  BY <1>1 DEF IInv, Structure, UsersOK
<1>3. user' \in [Tab -> BOOLEAN] /\ stored' \in BOOLEAN /\ crossed' \in BOOLEAN
  BY <1>1, Types, Zenon
<1>4. disturbed => disturbed'
  BY <1>1, Monotone DEF Reload
<1>5. ~disturbed' /\ ~crossed' => NewestHeld'
  BY <1>1, <1>4 DEF IInv, NewestHeld
<1>6. token' = cookie'
  BY <1>1, Types
<1>q. QED
  BY <1>1, <1>2, <1>3, <1>5, <1>6, ReloadKeeps

\* A logout without an answer.
LEMMA LogoutFailsKeeps ==
  ASSUME IInv, NEW t \in Tab, LogoutFails(t)
  PROVE  IInv'
<1>1. /\ Reload(t) /\ Reset(t)
      /\ UNCHANGED <<session, expired, logins, newest, seen, cookie, token,
                     crossed>>
  BY DEF LogoutFails, server
<1>2. /\ user' \in [Tab -> BOOLEAN] /\ stored' \in BOOLEAN
      /\ newest = 0 => ~stored' /\ \A u \in Tab : ~user'[u]
  BY <1>1, ResetFields DEF IInv, Structure
<1>3. crossed' \in BOOLEAN
  BY <1>1, Types
<1>4. disturbed => disturbed'
  BY <1>1, Monotone DEF Reload
<1>5. ~disturbed' /\ ~crossed' => NewestHeld'
  BY <1>1, <1>4 DEF IInv, NewestHeld
<1>6. token' = cookie'
  BY <1>1, Types
<1>q. QED
  BY <1>1, <1>2, <1>3, <1>5, <1>6, ReloadKeeps

\* The answer of a logout clears the cookie of the session it revoked, or one
\* of another session.
LEMMA LogoutSucceedsKeeps ==
  ASSUME IInv, NEW t \in Tab, LogoutSucceeds(t)
  PROVE  IInv'
<1> DEFINE c == form[t].carries
<1>1. /\ form[t].at = "out" /\ Reload(t) /\ Reset(t) /\ token' = Nothing
      /\ cookie' = IF form[t].clears THEN Nothing ELSE cookie
      /\ crossed' = (crossed \/ Crosses(c))
      /\ UNCHANGED <<session, expired, logins, newest, seen>>
  BY DEF LogoutSucceeds, server
<1>2. cookie' = Nothing
  BY <1>1 DEF IInv, Structure, FormOK
<1>3. /\ user' \in [Tab -> BOOLEAN] /\ stored' \in BOOLEAN
      /\ newest = 0 => ~stored' /\ \A u \in Tab : ~user'[u]
  BY <1>1, ResetFields DEF IInv, Structure
<1>4. crossed' \in BOOLEAN /\ (crossed => crossed')
  BY <1>1, Types, Zenon
<1>5. disturbed => disturbed'
  BY <1>1, Monotone DEF Reload
<1>6. ASSUME ~disturbed', ~crossed', newest # 0
      PROVE  session'[newest].why = "logout"
  <2>1. ~disturbed /\ ~crossed /\ ~Crosses(c) /\ NewestHeld
    BY <1>1, <1>5, <1>6 DEF IInv
  <2>2. CASE session[newest].why = "logout"
    BY <1>1, <2>2
  <2>3. CASE cookie.sid = newest
    <3>1. cookie # Nothing
      BY <1>6, <2>3 DEF Nothing
    <3>2. c.sid = newest
      BY <2>1, <2>3, <3>1 DEF Crosses
    <3>3. c # Nothing
      BY <1>6, <3>2 DEF Nothing
    <3>4. session[newest].status = "revoked"
      BY <1>1, <2>1, <3>2, <3>3 DEF IInv, Undisturbed, LogoutRevokes
    <3>5. ~Live(newest)
      BY <3>4 DEF Live
    <3>q. QED
      BY <1>1, <1>6, <2>1, <3>5, NewestLive
  <2>q. QED
    BY <1>6, <2>1, <2>2, <2>3 DEF NewestHeld
<1>7. ~disturbed' /\ ~crossed' => NewestHeld'
  BY <1>1, <1>6 DEF NewestHeld
<1>q. QED
  BY <1>1, <1>2, <1>3, <1>4, <1>7, ReloadKeeps

-----------------------------------------------------------------------------
(* Logins and logouts on their way.                                        *)

\* A step that changes the form of tab t only.
LEMMA OneFormKeeps ==
  ASSUME IInv, NEW t \in Tab, NEW f \in FormType,
         form' = [form EXCEPT ![t] = f],
         UNCHANGED <<session, expired, logins, newest, seen, cookie, token,
                     stored, user, cooling, request, refresh, disturbed,
                     crossed>>,
         f.at \in {"none", "logout"}, Known(f.carries),
         f.at = "logout" => f.tok = f.carries,
         ~disturbed /\ f.at = "logout" => Had(f.carries) /\ Good(f.carries)
  PROVE  IInv'
<1>1. /\ form' \in [Tab -> FormType] /\ form'[t] = f
      /\ \A u \in Tab \ {t} : form'[u] = form[u]
  BY Types, Zenon
<1>2. TypeOK'
  BY <1>1, Zenon DEF IInv, Structure, TypeOK, FormType
<1>3. Structure'
  <2>1. \A u \in Tab : FormOK(u)'
    BY <1>1 DEF IInv, Structure, FormOK, Known
  <2>2. NoOrphanWait' /\ UsersOK'
    BY DEF IInv, Structure, NoOrphanWait, UsersOK
  <2>q. QED
    BY <1>2, <2>1, <2>2 DEF IInv, Structure, RowOK, RefreshOK, Known
<1>4. ASSUME ~disturbed'
      PROVE  Undisturbed'
  <2>1. Undisturbed
    BY <1>4 DEF IInv
  <2>2. \A s \in Sid : FreshRow(s)' /\ SeenGood(s)' /\ session'[s].why # "reuse"
    BY <2>1 DEF Undisturbed, FreshRow, SeenGood, Live
  <2>3. \A u \in Tab : FreshForm(u)'
    BY <1>1, <2>1 DEF Undisturbed, FreshForm
  <2>4. \A u \in Tab : SentGood(u)'
    BY <1>1, <1>4, <2>1 DEF Undisturbed, SentGood, Had, Good, Live
  <2>5. \A u \in Tab : AnswerGood(u)' /\ RefusalOK(u)'
    BY <2>1 DEF Undisturbed, AnswerGood, RefusalOK, Live
  <2>6. LogoutRevokes'
    BY <1>1, <1>4, <2>1 DEF Undisturbed, LogoutRevokes
  <2>7. \A q \in Request : RetryOK(q)'
    BY <2>1 DEF Undisturbed, RetryOK, Live
  <2>q. QED
    BY <2>1, <2>2, <2>3, <2>4, <2>5, <2>6, <2>7 DEF Undisturbed
<1>q. QED
  BY <1>3, <1>4 DEF IInv, NewestHeld

\* The answer of a login is lost.
LEMMA LoginFailsKeeps ==
  ASSUME IInv, NEW t \in Tab, LoginFails(t)
  PROVE  IInv'
<1>1. /\ form' = [form EXCEPT ![t] = NoForm]
      /\ UNCHANGED <<session, expired, logins, newest, seen, cookie, token,
                     stored, user, cooling, request, refresh, disturbed,
                     crossed>>
  BY DEF LoginFails, server, browser, ghosts
<1>2. NoForm \in FormType /\ NoForm.at = "none" /\ Known(NoForm.carries)
  BY EmptyTypes, Zenon DEF FormType, Known
<1>q. QED
  BY <1>1, <1>2, OneFormKeeps

\* A logout carries the token and the cookie of the moment.
LEMMA LogoutKeeps ==
  ASSUME IInv, NEW t \in Tab, Logout(t)
  PROVE  IInv'
<1> DEFINE f == [at |-> "logout", carries |-> cookie, tok |-> token,
                 clears |-> FALSE]
<1>1. /\ form' = [form EXCEPT ![t] = f]
      /\ UNCHANGED <<session, expired, logins, newest, seen, cookie, token,
                     stored, user, cooling, request, refresh, disturbed,
                     crossed>>
  BY DEF Logout, server, browser, ghosts
<1>2. /\ f \in FormType /\ f.at = "logout" /\ f.carries = cookie
      /\ f.tok = cookie
  BY Types DEF FormType
<1> HIDE DEF f
<1>q. QED
  BY <1>1, <1>2, Types, CookieGood, OneFormKeeps

-----------------------------------------------------------------------------
(* The rows of the sessions.                                               *)

SessionType == [status : {"none", "active", "revoked"}, cur : 0..MaxRotations,
                grace : BOOLEAN, why : {"none", "logout", "reuse"}]

\* A step of the server that only changes rows, expiries, refreshes and forms.
LEMMA ServerStructure ==
  ASSUME IInv, UNCHANGED <<newest, seen, cookie, token, stored, user, cooling,
                           request, crossed>>,
         disturbed' \in BOOLEAN, logins' \in 0..MaxLogins, logins <= logins',
         session' \in [Sid -> SessionType], expired' \in [Sid -> -1..MaxRotations],
         refresh' \in [Tab -> RefreshType], form' \in [Tab -> FormType],
         \A t \in Tab : refresh'[t].at # "none" <=> refresh[t].at # "none",
         \A s \in Sid : RowOK(s)',
         \A t \in Tab : RefreshOK(t)' /\ FormOK(t)'
  PROVE  Structure'
<1>1. newest' \in 0..logins'
  BY Types
<1>2. TypeOK'
  BY <1>1, Zenon
     DEF IInv, Structure, TypeOK, SessionType, RefreshType, FormType
<1>3. NoOrphanWait' /\ UsersOK'
  <2>1. NoOrphanWait'
    BY WaitsSame DEF IInv, Structure
  <2>q. QED
    BY <2>1 DEF IInv, Structure, UsersOK
<1>4. ASSUME NEW c \in Credential, Known(c)
      PROVE  c # Nothing => c.sid <= logins'
  BY <1>4, CredentialFields, Types DEF Known
<1>5. Known(cookie)' /\ \A q \in Request : Known(request[q].tok)'
  <2>1. \A q \in Request : request[q].tok \in Credential /\ Known(request[q].tok)
    BY Types, RequestFields DEF IInv, Structure
  <2>q. QED
    BY <1>4, <2>1, Types DEF Known
<1>q. QED
  BY <1>2, <1>3, <1>5 DEF IInv, Structure

\* The rows, and what a change of row s leaves alone.
LEMMA SessionRows ==
  ASSUME IInv, NEW s \in Sid, NEW r \in SessionType,
         session' = [session EXCEPT ![s] = r]
  PROVE  /\ session \in [Sid -> SessionType] /\ session[s] \in SessionType
         /\ session' \in [Sid -> SessionType] /\ session'[s] = r
         /\ \A x \in Sid \ {s} : session'[x] = session[x]
<1>1. session \in [Sid -> SessionType]
  BY Types DEF TypeOK, SessionType
<1>q. QED
  BY <1>1, Zenon

\* The window closes only when nothing that needs it is on its way, unless
\* that is a disturbance.
LEMMA WindowClosesKeeps ==
  ASSUME IInv, NEW s \in Sid, WindowCloses(s)
  PROVE  IInv'
<1> DEFINE old == session[s]
           r == [old EXCEPT !.grace = FALSE]
<1>1. /\ Live(s) /\ session' = [session EXCEPT ![s] = r]
      /\ disturbed' = (disturbed \/ Talking(s))
      /\ UNCHANGED <<expired, logins, newest, seen, cookie, token, stored, user,
                     cooling, request, refresh, form, crossed>>
  BY DEF WindowCloses, browser
<1>2. old \in SessionType /\ TypeOK
  BY Types DEF TypeOK, SessionType
<1>3. /\ r \in SessionType /\ r.status = old.status /\ r.cur = old.cur
      /\ ~r.grace /\ r.why = old.why
  BY <1>2 DEF SessionType
<1> HIDE DEF r
<1>4. /\ session' \in [Sid -> SessionType] /\ session'[s] = r
      /\ \A x \in Sid \ {s} : session'[x] = session[x]
  BY <1>1, <1>3, SessionRows
<1>5. \A x \in Sid : /\ session'[x].status = session[x].status
                     /\ session'[x].cur = session[x].cur
                     /\ session'[x].why = session[x].why
  BY <1>3, <1>4
<1>6. \A x \in Sid : RowOK(x)'
  <2>1. s <= logins /\ old.status = "active"
    BY <1>1, Types DEF IInv, Structure, RowOK, Live, Sid
  <2>q. QED
    BY <1>1, <1>3, <1>4, <2>1 DEF IInv, Structure, RowOK
<1>7. \A t \in Tab : RefreshOK(t)' /\ FormOK(t)'
  <2>1. \A t \in Tab : refresh[t].next # Nothing => refresh[t].next.sid \in Sid
    BY <1>2, TabFields, CredentialFields
  <2>q. QED
    BY <1>1, <1>5, <2>1 DEF IInv, Structure, RefreshOK, FormOK, Known
<1>8. Structure'
  <2>1. /\ disturbed' \in BOOLEAN /\ logins' \in 0..MaxLogins /\ logins <= logins'
        /\ refresh' \in [Tab -> RefreshType] /\ form' \in [Tab -> FormType]
    BY <1>1, Types, Monotone
  <2>2. expired' \in [Sid -> -1..MaxRotations]
    BY <1>1, <1>2 DEF TypeOK
  <2>q. QED
    BY <1>1, <1>4, <1>6, <1>7, <2>1, <2>2, ServerStructure
<1>9. ASSUME ~disturbed'
      PROVE  Undisturbed'
  <2>1. Undisturbed /\ ~Talking(s)
    BY <1>1, <1>9 DEF IInv
  <2>2. \A x \in Sid : Live(x)' <=> Live(x)
    BY <1>5 DEF Live
  <2>3. \A t \in Tab : refresh[t].at = "sent" => refresh[t].carries.sid # s
    BY <2>1 DEF Talking, Underway
  <2>4. \A t \in Tab : form[t].at = "logout" => form[t].carries.sid # s
    BY <2>1 DEF Talking, Underway
  <2>5. \A t \in Tab : refresh[t].next # Nothing => refresh[t].next.sid # s
    BY <2>1 DEF IInv, Structure, RefreshOK, Talking
  <2>6. ASSUME NEW c \in Credential, c.sid # s, Good(c)
        PROVE  Good(c)'
    BY <1>4, <2>2, <2>6 DEF Good, Live
  <2>7. \A x \in Sid : FreshRow(x)' /\ session'[x].why # "reuse"
    BY <1>1, <1>5, <2>1 DEF Undisturbed, FreshRow
  <2>8. ASSUME NEW x \in Sid
        PROVE  SeenGood(x)'
    <3>1. SeenGood(x)
      BY <2>1 DEF Undisturbed
    <3>2. CASE x # s
      BY <1>1, <1>4, <2>2, <3>1, <3>2 DEF SeenGood
    <3>3. CASE x = s
      <4>1. \A t \in Tab : refresh[t].next # [sid |-> s, idx |-> session[s].cur]
        BY <2>5 DEF Nothing, Sid
      <4>q. QED
        BY <1>1, <1>5, <2>2, <3>1, <3>3, <4>1 DEF SeenGood
    <3>q. QED
      BY <3>2, <3>3
  <2>9. ASSUME NEW t \in Tab
        PROVE  /\ FreshForm(t)' /\ SentGood(t)' /\ AnswerGood(t)'
               /\ RefusalOK(t)'
    <3>1. FreshForm(t) /\ SentGood(t) /\ AnswerGood(t) /\ RefusalOK(t)
      BY <2>1 DEF Undisturbed
    <3>2. /\ refresh[t].carries \in Credential /\ refresh[t].next \in Credential
          /\ form[t].carries \in Credential
      BY <1>2, TabFields
    <3>3. FreshForm(t)'
      BY <1>1, <3>1 DEF FreshForm
    <3>4. SentGood(t)'
      <4>1. refresh[t].at = "sent" => Good(refresh[t].carries)'
        BY <1>1, <2>3, <2>6, <3>1, <3>2 DEF SentGood
      <4>2. form[t].at = "logout" => Good(form[t].carries)'
        BY <1>1, <2>4, <2>6, <3>1, <3>2 DEF SentGood
      <4>q. QED
        BY <1>1, <3>1, <4>1, <4>2 DEF SentGood, Had
    <3>5. AnswerGood(t)'
      <4>1. refresh[t].next # Nothing => refresh[t].next.sid \in Sid \ {s}
        BY <2>5, <3>2, CredentialFields
      <4>q. QED
        BY <1>1, <1>4, <2>2, <3>1, <4>1 DEF AnswerGood
    <3>6. RefusalOK(t)'
      BY <1>1, <2>2, <3>1 DEF RefusalOK, Live
    <3>q. QED
      BY <3>3, <3>4, <3>5, <3>6
  <2>10. \A q \in Request : RetryOK(q)'
    BY <1>1, <2>1, <2>2 DEF Undisturbed, RetryOK, Live
  <2>11. LogoutRevokes'
    <3>1. \A t \in Tab : form[t].carries # Nothing => form[t].carries.sid \in Sid
      BY <1>2, TabFields, CredentialFields
    <3>2. LogoutRevokes /\ form' = form /\ ~disturbed
      BY <1>1, <1>9, <2>1 DEF Undisturbed
    <3>q. QED
      BY <1>5, <3>1, <3>2 DEF LogoutRevokes
  <2>q. QED
    BY <1>1, <2>1, <2>7, <2>8, <2>9, <2>10, <2>11 DEF Undisturbed
<1>10. ~disturbed' /\ ~crossed' => NewestHeld'
  <2>1. newest # 0 => newest \in Sid
    BY Types, LoginAssumption DEF Sid
  <2>q. QED
    BY <1>1, <1>5, <2>1 DEF IInv, NewestHeld
<1>q. QED
  BY <1>8, <1>9, <1>10 DEF IInv

\* Tokens expire after the window, so none is on its way in an answer.
LEMMA TokenExpiresKeeps ==
  ASSUME IInv, NEW s \in Sid, TokenExpires(s)
  PROVE  IInv'
<1>1. /\ Live(s) /\ ~session[s].grace
      /\ expired' = [expired EXCEPT ![s] = session[s].cur]
      /\ disturbed' = (disturbed \/ \E q \in Request : request[q].retried)
      /\ UNCHANGED <<session, logins, newest, seen, cookie, token, stored, user,
                     cooling, request, refresh, form, crossed>>
  BY DEF TokenExpires, browser
<1>2. /\ TypeOK /\ expired \in [Sid -> -1..MaxRotations]
      /\ session \in [Sid -> SessionType]
      /\ session[s].cur \in -1..MaxRotations
  BY Types, SessionFields, LoginAssumption DEF TypeOK, SessionType
<1>3. /\ expired' \in [Sid -> -1..MaxRotations] /\ expired'[s] = session[s].cur
      /\ \A x \in Sid \ {s} : expired'[x] = expired[x]
  BY <1>1, <1>2, Zenon
<1>4. \A x \in Sid : RowOK(x)'
  BY <1>1, <1>2, <1>3 DEF IInv, Structure, RowOK
<1>5. \A t \in Tab : RefreshOK(t)' /\ FormOK(t)'
  BY <1>1 DEF IInv, Structure, RefreshOK, FormOK, Known
<1>6. Structure'
  <2>1. /\ disturbed' \in BOOLEAN /\ logins' \in 0..MaxLogins /\ logins <= logins'
        /\ refresh' \in [Tab -> RefreshType] /\ form' \in [Tab -> FormType]
    BY <1>1, Types, Monotone
  <2>q. QED
    BY <1>1, <1>2, <1>3, <1>4, <1>5, <2>1, ServerStructure
<1>7. ASSUME ~disturbed'
      PROVE  Undisturbed'
  <2>1. Undisturbed /\ \A q \in Request : ~request[q].retried
    BY <1>1, <1>7 DEF IInv
  <2>2. \A x \in Sid : FreshRow(x)' /\ SeenGood(x)' /\ session'[x].why # "reuse"
    BY <1>1, <2>1 DEF Undisturbed, FreshRow, SeenGood, Live
  <2>3. \A t \in Tab : FreshForm(t)' /\ SentGood(t)' /\ RefusalOK(t)'
    BY <1>1, <2>1
       DEF Undisturbed, FreshForm, SentGood, Had, Good, RefusalOK, Live
  <2>4. ASSUME NEW t \in Tab
        PROVE  AnswerGood(t)'
    <3>1. AnswerGood(t)
      BY <2>1 DEF Undisturbed
    <3>2. refresh[t].next # Nothing => refresh[t].next.sid \in Sid \ {s}
      BY <1>1, <1>2, <3>1, TabFields, CredentialFields DEF AnswerGood
    <3>q. QED
      BY <1>1, <1>3, <3>1, <3>2 DEF AnswerGood, Live
  <2>5. \A q \in Request : RetryOK(q)'
    BY <1>1, <2>1 DEF RetryOK
  <2>6. LogoutRevokes'
    BY <1>1, <1>7, <2>1 DEF Undisturbed, LogoutRevokes
  <2>q. QED
    BY <1>1, <2>1, <2>2, <2>3, <2>4, <2>5, <2>6 DEF Undisturbed
<1>8. ~disturbed' /\ ~crossed' => NewestHeld'
  BY <1>1 DEF IInv, NewestHeld
<1>q. QED
  BY <1>6, <1>7, <1>8 DEF IInv

\* A previous secret arrives outside the window only after a disturbance.
LEMMA RefreshReuseKeeps ==
  ASSUME IInv, NEW t \in Tab, RefreshReuse(t)
  PROVE  IInv' /\ disturbed
<1> DEFINE c == refresh[t].carries
           old == session[c.sid]
           r == [old EXCEPT !.status = "revoked", !.why = "reuse"]
           a == [at |-> "answered", result |-> "401", carries |-> c,
                 next |-> Nothing]
<1>1. /\ Live(c.sid) /\ c.idx = old.cur - 1 /\ ~old.grace
      /\ refresh[t].at = "sent"
      /\ session' = [session EXCEPT ![c.sid] = r]
      /\ refresh' = [refresh EXCEPT ![t] = a]
      /\ UNCHANGED <<expired, logins, newest, seen, cookie, token, stored, user,
                     cooling, request, form, crossed, disturbed>>
  BY DEF RefreshReuse, Answer, browser, ghosts
<1>2. TypeOK /\ c \in Credential /\ c.sid \in Sid /\ old \in SessionType
      /\ Nothing \in Credential /\ Known(c)
  BY <1>1, Types, TabFields, EmptyTypes
     DEF TypeOK, SessionType, Live, IInv, Structure, RefreshOK
<1>3. disturbed
  <2>1. c.idx \in Int /\ old.cur \in Int
    BY <1>2, CredentialFields DEF SessionType
  <2>2. SUFFICES ASSUME ~disturbed PROVE FALSE
    OBVIOUS
  <2>3. Good(c)
    BY <1>1, <2>2 DEF IInv, Undisturbed, SentGood
  <2>q. QED
    BY <1>1, <2>1, <2>3 DEF Good
<1>4. /\ r \in SessionType /\ r.status = "revoked" /\ r.cur = old.cur
      /\ r.grace = old.grace /\ r.why = "reuse"
  BY <1>2 DEF SessionType
<1>5. /\ a \in RefreshType /\ a.at = "answered" /\ a.result = "401"
      /\ a.carries = c /\ a.next = Nothing
  BY <1>2 DEF RefreshType
<1> HIDE DEF r, a
<1>6. /\ session' \in [Sid -> SessionType] /\ session'[c.sid] = r
      /\ \A x \in Sid \ {c.sid} : session'[x] = session[x]
  BY <1>1, <1>2, <1>4, SessionRows
<1>7. /\ refresh' \in [Tab -> RefreshType] /\ refresh'[t] = a
      /\ \A u \in Tab \ {t} : refresh'[u] = refresh[u]
  BY <1>1, <1>5, Types, Zenon
<1>8. \A x \in Sid : session'[x].cur = session[x].cur
  BY <1>4, <1>6
<1>9. \A x \in Sid : RowOK(x)'
  BY <1>1, <1>4, <1>6 DEF IInv, Structure, RowOK, Live
<1>10. \A u \in Tab : RefreshOK(u)' /\ FormOK(u)'
  <2>1. \A u \in Tab : refresh[u].next # Nothing => refresh[u].next.sid \in Sid
    BY <1>2, TabFields, CredentialFields
  <2>2. RefreshOK(t)'
    BY <1>1, <1>2, <1>5, <1>7, EmptyTypes DEF RefreshOK, Known
  <2>3. \A u \in Tab \ {t} : RefreshOK(u)'
    BY <1>1, <1>7, <1>8, <2>1 DEF IInv, Structure, RefreshOK, Known
  <2>q. QED
    BY <1>1, <2>2, <2>3 DEF IInv, Structure, FormOK, Known
<1>11. Structure'
  <2>1. /\ disturbed' \in BOOLEAN /\ logins' \in 0..MaxLogins /\ logins <= logins'
        /\ form' \in [Tab -> FormType] /\ expired' \in [Sid -> -1..MaxRotations]
    BY <1>1, <1>2, Types DEF TypeOK
  <2>2. \A u \in Tab : refresh'[u].at # "none" <=> refresh[u].at # "none"
    BY <1>1, <1>5, <1>7
  <2>q. QED
    BY <1>1, <1>6, <1>7, <1>9, <1>10, <2>1, <2>2, ServerStructure
<1>q. QED
  BY <1>1, <1>3, <1>11 DEF IInv

\* A logout revokes the session of its cookie: the access token names it, or
\* the cookie proves it.
LEMMA AuthLogoutKeeps ==
  ASSUME IInv, NEW t \in Tab, AuthLogout(t)
  PROVE  IInv'
<1> DEFINE c == form[t].carries
           tok == form[t].tok
           named == tok # Nothing /\ tok.idx > expired[tok.sid]
           target == IF named THEN tok.sid
                     ELSE IF Possesses(c) THEN c.sid ELSE 0
           f == [form[t] EXCEPT !.at = "out",
                                !.clears = named => c.sid = tok.sid]
           gone(s) == [session[s] EXCEPT !.status = "revoked", !.why = "logout"]
<1>1. /\ form[t].at = "logout" /\ form' = [form EXCEPT ![t] = f]
      /\ session' = [s \in Sid |-> IF s = target /\ Live(s) THEN gone(s)
                                   ELSE session[s]]
      /\ UNCHANGED <<expired, logins, newest, seen, cookie, token, stored, user,
                     cooling, request, refresh, disturbed, crossed>>
  BY DEF AuthLogout, browser, ghosts
<1>2. /\ TypeOK /\ form[t] \in FormType /\ tok = c /\ c \in Credential /\ Known(c)
      /\ session \in [Sid -> SessionType]
  BY <1>1, Types, TabFields DEF IInv, Structure, FormOK, TypeOK, SessionType
<1>3. f \in FormType /\ f.at = "out" /\ f.carries = c /\ f.clears
  BY <1>2 DEF FormType
<1>4. \A s \in Sid : /\ gone(s) \in SessionType /\ gone(s).status = "revoked"
                     /\ gone(s).why = "logout" /\ gone(s).cur = session[s].cur
                     /\ gone(s).grace = session[s].grace
  BY <1>2 DEF SessionType
<1> HIDE DEF f, gone
<1>5. /\ form' \in [Tab -> FormType] /\ form'[t] = f
      /\ \A u \in Tab \ {t} : form'[u] = form[u]
  BY <1>1, <1>3, Types, Zenon
<1>6. session' \in [Sid -> SessionType]
  BY <1>1, <1>2, <1>4
<1>7. \A s \in Sid : session'[s] = IF s = target /\ Live(s) THEN gone(s)
                                   ELSE session[s]
  BY <1>1
<1> HIDE DEF target
<1>8. \A s \in Sid : /\ session'[s].cur = session[s].cur
                     /\ session'[s].grace = session[s].grace
                     /\ Live(s)' => Live(s)
                     /\ session[s].status = "none" => session'[s] = session[s]
                     /\ session'[s] = session[s] \/ session'[s].why = "logout"
                     /\ session[s].status = "revoked" => session'[s] = session[s]
  BY <1>4, <1>7 DEF Live
<1>9. \A s \in Sid : RowOK(s)'
  BY <1>1, <1>4, <1>7 DEF IInv, Structure, RowOK, Live
<1>10. \A u \in Tab : RefreshOK(u)' /\ FormOK(u)'
  <2>1. \A u \in Tab : refresh[u].next # Nothing => refresh[u].next.sid \in Sid
    BY <1>2, TabFields, CredentialFields
  <2>2. \A u \in Tab : FormOK(u)'
    BY <1>1, <1>2, <1>3, <1>5 DEF IInv, Structure, FormOK, Known
  <2>q. QED
    BY <1>1, <1>8, <2>1, <2>2 DEF IInv, Structure, RefreshOK, Known
<1>11. Structure'
  <2>1. /\ disturbed' \in BOOLEAN /\ logins' \in 0..MaxLogins /\ logins <= logins'
        /\ refresh' \in [Tab -> RefreshType]
        /\ expired' \in [Sid -> -1..MaxRotations]
    BY <1>1, <1>2, Types DEF TypeOK
  <2>q. QED
    BY <1>1, <1>5, <1>6, <1>9, <1>10, <2>1, ServerStructure
<1>12. ASSUME ~disturbed'
       PROVE  Undisturbed'
  <2>1. Undisturbed
    BY <1>1, <1>12 DEF IInv
  <2>2. ASSUME NEW d \in Credential, Good(d)
        PROVE  Good(d)'
    BY <1>8, <2>2 DEF Good, Live
  <2>3. ASSUME NEW s \in Sid
        PROVE  FreshRow(s)' /\ SeenGood(s)' /\ session'[s].why # "reuse"
    <3>1. FreshRow(s) /\ SeenGood(s) /\ session[s].why # "reuse"
      BY <2>1 DEF Undisturbed
    <3>2. FreshRow(s)' /\ session'[s].why # "reuse"
      BY <1>1, <1>4, <1>7, <3>1 DEF FreshRow
    <3>3. SeenGood(s)'
      BY <1>1, <1>8, <3>1 DEF SeenGood
    <3>q. QED
      BY <3>2, <3>3
  <2>4. ASSUME NEW u \in Tab
        PROVE  /\ FreshForm(u)' /\ SentGood(u)' /\ AnswerGood(u)'
               /\ RefusalOK(u)'
    <3>1. FreshForm(u) /\ SentGood(u) /\ AnswerGood(u) /\ RefusalOK(u)
      BY <2>1 DEF Undisturbed
    <3>2. /\ refresh[u].carries \in Credential /\ refresh[u].next \in Credential
          /\ form[u].carries \in Credential
      BY <1>2, TabFields
    <3>3. FreshForm(u)'
      BY <1>1, <1>3, <1>5, <2>1 DEF Undisturbed, FreshForm
    <3>4. SentGood(u)'
      <4>1. refresh[u].at = "sent" => Good(refresh[u].carries)'
        BY <1>1, <2>2, <3>1, <3>2 DEF SentGood
      <4>2. form'[u].at = "logout" => form'[u] = form[u]
        BY <1>3, <1>5
      <4>3. form[u].at = "logout" =>
              (\A d \in Credential : d = form[u].carries => Good(d)')
        BY <2>2, <3>1 DEF SentGood
      <4>4. form'[u].at = "logout" => Good(form[u].carries)'
        BY <3>2, <4>2, <4>3 DEF Good, Live
      <4>q. QED
        BY <1>1, <3>1, <4>1, <4>2, <4>4 DEF SentGood, Had
    <3>5. AnswerGood(u)'
      BY <1>1, <1>8, <3>1 DEF AnswerGood, Live
    <3>6. RefusalOK(u)'
      BY <1>1, <1>8, <3>1 DEF RefusalOK, Live
    <3>q. QED
      BY <3>3, <3>4, <3>5, <3>6
  <2>5. \A q \in Request : RetryOK(q)'
    BY <1>1, <1>8, <2>1 DEF Undisturbed, RetryOK, Live
  <2>6. c # Nothing => session'[c.sid].status = "revoked"
    <3> SUFFICES ASSUME c # Nothing
                 PROVE  session'[c.sid].status = "revoked"
      OBVIOUS
    <3>1. c.sid \in Sid /\ c.sid <= logins
      BY <1>2, CredentialFields DEF Known
    <3>2. session[c.sid].status \in {"active", "revoked"}
      BY <1>2, <3>1, SessionFields, Types DEF IInv, Structure, RowOK, Sid
    <3>3. CASE session[c.sid].status = "revoked"
      BY <1>8, <3>1, <3>3
    <3>4. CASE session[c.sid].status = "active"
      <4>1. Live(c.sid)
        BY <3>1, <3>4 DEF Live
      <4>2. Possesses(c)
        BY <1>1, <2>1, <4>1 DEF Undisturbed, SentGood, Good, Possesses
      <4>3. target = c.sid
        BY <1>2, <4>2 DEF target
      <4>q. QED
        BY <1>4, <1>7, <3>1, <4>1, <4>3
    <3>q. QED
      BY <3>2, <3>3, <3>4
  <2>7. LogoutRevokes'
    <3>1. \A u \in Tab : form[u].carries # Nothing => form[u].carries.sid \in Sid
      BY <1>2, TabFields, CredentialFields
    <3>q. QED
      BY <1>1, <1>3, <1>5, <1>8, <1>12, <2>1, <2>6, <3>1
         DEF Undisturbed, LogoutRevokes
  <2>q. QED
    BY <1>1, <2>1, <2>3, <2>4, <2>5, <2>7 DEF Undisturbed
<1>13. ~disturbed' /\ ~crossed' => NewestHeld'
  <2>1. newest # 0 => newest \in Sid
    BY Types, LoginAssumption DEF Sid
  <2>q. QED
    BY <1>1, <1>8, <2>1 DEF IInv, NewestHeld
<1>q. QED
  BY <1>11, <1>12, <1>13 DEF IInv

\* A rotation: what is on its way and what the browser holds becomes the
\* previous secret, and the answer brings the current one.
LEMMA RefreshRotatesKeeps ==
  ASSUME IInv, NEW t \in Tab, RefreshRotates(t)
  PROVE  IInv'
<1>c. PICK c : c = refresh[t].carries
  OBVIOUS
<1>s. PICK s : s = c.sid
  OBVIOUS
<1>o. PICK old : old = session[s]
  OBVIOUS
<1>n. PICK n : n = [c EXCEPT !.idx = @ + 1]
  OBVIOUS
<1>r. PICK r : r = [old EXCEPT !.cur = @ + 1, !.grace = TRUE]
  OBVIOUS
<1>a. PICK a : a = [at |-> "answered", result |-> "ok", carries |-> Nothing,
                    next |-> n]
  OBVIOUS
<1>g. /\ refresh[t].at = "sent" /\ Live(s) /\ c.idx = old.cur
      /\ c.idx < MaxRotations
  BY <1>c, <1>s, <1>o DEF RefreshRotates
<1>w. /\ session' = [session EXCEPT ![s] = r]
      /\ refresh' = [refresh EXCEPT ![t] = a]
  BY <1>c, <1>s, <1>o, <1>n, <1>r, <1>a DEF RefreshRotates, Answer
<1>d. disturbed' = (disturbed \/ \E i \in Underway(s) : i < c.idx)
  BY <1>c, <1>s DEF RefreshRotates
<1>u. UNCHANGED <<expired, logins, newest, seen, cookie, token, stored, user,
                  cooling, request, form, crossed>>
  BY DEF RefreshRotates, browser
<1>2. /\ TypeOK /\ s \in Sid /\ old \in SessionType /\ Nothing \in Credential
      /\ session \in [Sid -> SessionType] /\ RowOK(s)
      /\ expired[s] \in -1..MaxRotations /\ seen[s] \in -1..MaxRotations
  <2>1. TypeOK /\ s \in Sid /\ Nothing \in Credential
    BY <1>g, Types, EmptyTypes DEF Live
  <2>2. session \in [Sid -> SessionType]
    BY <2>1 DEF TypeOK, SessionType
  <2>3. RowOK(s)
    BY <2>1 DEF IInv, Structure
  <2>q. QED
    BY <1>o, <2>1, <2>2, <2>3, SessionFields
<1>3. /\ n \in Credential /\ n # Nothing /\ n.sid = s /\ n.idx = c.idx + 1
      /\ n = [sid |-> s, idx |-> c.idx + 1]
      /\ Known(n) /\ c # Nothing /\ c.idx \in 0..MaxRotations
      /\ old.cur \in 0..MaxRotations
  BY <1>c, <1>s, <1>o, <1>n, <1>g, NextSecret
<1>i. /\ c.idx \in Int /\ old.cur \in Int /\ 0 <= old.cur
      /\ expired[s] \in Int /\ seen[s] \in Int
      /\ old.cur + 1 \in 0..MaxRotations
  BY <1>g, <1>2, <1>3, LoginAssumption
<1>4. /\ r \in SessionType /\ r.status = old.status /\ r.cur = old.cur + 1
      /\ r.grace /\ r.why = old.why
  BY <1>r, <1>2, <1>i DEF SessionType
<1>5. /\ a \in RefreshType /\ a.at = "answered" /\ a.result = "ok"
      /\ a.carries = Nothing /\ a.next = n
  BY <1>a, <1>2, <1>3 DEF RefreshType
<1>6. /\ session' \in [Sid -> SessionType] /\ session'[s] = r
      /\ \A x \in Sid \ {s} : session'[x] = session[x]
  BY <1>w, <1>2, <1>4, SessionRows
<1>7. /\ refresh' \in [Tab -> RefreshType] /\ refresh'[t] = a
      /\ \A u \in Tab \ {t} : refresh'[u] = refresh[u]
  BY <1>w, <1>5, Types, Zenon
<1>8. \A x \in Sid : /\ session'[x].status = session[x].status
                     /\ session'[x].why = session[x].why
                     /\ Live(x)' <=> Live(x)
                     /\ session'[x].cur \in Int /\ session[x].cur \in Int
                     /\ session'[x].cur >= session[x].cur
                     /\ session[x].grace => session'[x].grace
  <2>1. \A x \in Sid : session[x].cur \in Int
    BY <1>2, SessionFields
  <2>q. QED
    BY <1>o, <1>4, <1>6, <2>1 DEF Live
<1>9. \A x \in Sid : RowOK(x)'
  <2>1. ASSUME NEW x \in Sid, x = s
        PROVE  RowOK(x)'
    <3>1. /\ old.status = "active" /\ (old.status = "revoked" <=> old.why # "none")
          /\ expired[s] <= old.cur /\ ~(s > logins)
      BY <1>o, <1>g, <1>2 DEF RowOK, Live
    <3>2. /\ r.status = "active" /\ r.why = "none" /\ r.cur = old.cur + 1
      BY <1>4, <3>1
    <3>3. expired[s] < r.cur
      BY <1>i, <3>1, <3>2
    <3>4. session'[x] = r /\ expired' = expired /\ logins' = logins
      BY <1>u, <1>6, <2>1
    <3>5. expired[x] <= r.cur
      BY <2>1, <1>i, <3>2, <3>3
    <3>q. QED
      BY <2>1, <3>1, <3>2, <3>3, <3>4, <3>5 DEF RowOK
  <2>2. ASSUME NEW x \in Sid, x # s
        PROVE  RowOK(x)'
    <3>1. RowOK(x)
      BY DEF IInv, Structure
    <3>2. session'[x] = session[x] /\ expired' = expired /\ logins' = logins
      BY <1>u, <1>6, <2>2
    <3>q. QED
      BY <3>1, <3>2 DEF RowOK
  <2>q. QED
    BY <2>1, <2>2
<1>10. \A u \in Tab : RefreshOK(u)' /\ FormOK(u)'
  <2>1. \A u \in Tab : refresh[u].next # Nothing =>
                          refresh[u].next.sid \in Sid /\ refresh[u].next.idx \in Int
    BY <1>2, TabFields, CredentialFields
  <2>2. RefreshOK(t)'
    <3>1. n.idx = session'[n.sid].cur
      BY <1>g, <1>3, <1>4, <1>6
    <3>2. n.idx \in Int
      BY <1>3, <1>i
    <3>3. Known(n)' /\ Known(Nothing)'
      BY <1>u, <1>3 DEF Known
    <3>q. QED
      BY <1>3, <1>5, <1>7, <3>1, <3>2, <3>3 DEF RefreshOK, Known
  <2>3. ASSUME NEW u \in Tab \ {t}
        PROVE  RefreshOK(u)'
    <3>1. RefreshOK(u) /\ refresh'[u] = refresh[u] /\ logins' = logins
      BY <1>u, <1>7 DEF IInv, Structure
    <3>2. refresh[u].next # Nothing =>
            refresh[u].next.idx <= session'[refresh[u].next.sid].cur
      BY <1>8, <2>1, <3>1 DEF RefreshOK
    <3>q. QED
      BY <3>1, <3>2 DEF RefreshOK, Known
  <2>4. ASSUME NEW u \in Tab
        PROVE  FormOK(u)'
    <3>1. FormOK(u) /\ form' = form /\ logins' = logins
      BY <1>u DEF IInv, Structure
    <3>q. QED
      BY <3>1 DEF FormOK, Known
  <2>q. QED
    BY <2>2, <2>3, <2>4
<1>11. Structure'
  <2>1. /\ disturbed' \in BOOLEAN /\ logins' \in 0..MaxLogins /\ logins <= logins'
    BY <1>u, <1>d, Types, Monotone
  <2>2. /\ form' \in [Tab -> FormType] /\ expired' \in [Sid -> -1..MaxRotations]
    BY <1>u, <1>2, Types DEF TypeOK
  <2>3. \A u \in Tab : refresh'[u].at # "none" <=> refresh[u].at # "none"
    BY <1>g, <1>5, <1>7
  <2>q. QED
    BY <1>u, <1>6, <1>7, <1>9, <1>10, <2>1, <2>2, <2>3, ServerStructure
<1>12. ASSUME ~disturbed'
       PROVE  Undisturbed'
  <2>1. ~disturbed /\ Undisturbed /\ \A i \in Underway(s) : ~(i < c.idx)
    BY <1>d, <1>12 DEF IInv
  <2>2. seen[s] = old.cur
    <3>1. c.idx <= seen[s]
      BY <1>c, <1>s, <1>3, <2>1 DEF Undisturbed, SentGood, Had
    <3>2. old.cur <= seen[s] /\ seen[s] >= 0
      BY <1>g, <1>i, <3>1
    <3>3. seen[s] = old.cur \/ seen[s] = old.cur - 1
      BY <1>o, <1>g, <1>2, <2>1, <3>2 DEF Undisturbed, SeenGood
    <3>q. QED
      BY <1>i, <3>2, <3>3
  <2>3. ASSUME NEW d \in Credential, Good(d), d.sid = s => d.idx \in Underway(s)
        PROVE  Good(d)'
    <3>1. CASE d.sid # s
      BY <1>6, <1>8, <2>3, <3>1 DEF Good, Live
    <3>2. CASE d.sid = s
      <4>1. d.idx \in Int /\ ~(d.idx < old.cur)
        BY <1>g, <2>1, <2>3, <3>2, CredentialFields
      <4>2. d.idx = old.cur \/ d.idx = old.cur - 1
        BY <1>o, <1>g, <2>3, <3>2 DEF Good
      <4>3. d.idx = old.cur
        BY <1>i, <4>1, <4>2
      <4>4. d.idx = session'[d.sid].cur - 1 /\ session'[d.sid].grace
        BY <1>i, <1>4, <1>6, <3>2, <4>3
      <4>q. QED
        BY <4>4 DEF Good
    <3>q. QED
      BY <3>1, <3>2
  <2>4. refresh[t].next = Nothing
    BY <1>g DEF IInv, Structure, RefreshOK
  <2>5. ASSUME NEW x \in Sid
        PROVE  FreshRow(x)' /\ SeenGood(x)' /\ session'[x].why # "reuse"
    <3>1. FreshRow(x) /\ SeenGood(x) /\ session[x].why # "reuse"
      BY <2>1 DEF Undisturbed
    <3>2. session'[x].why # "reuse"
      BY <1>8, <3>1
    <3>3. CASE x = s
      <4>1. seen'[x] = old.cur /\ seen'[x] # -1
        BY <1>u, <1>i, <2>2, <3>3
      <4>2. session'[x].status # "none"
        BY <1>o, <1>g, <1>8, <3>3 DEF Live
      <4>3. FreshRow(x)'
        BY <4>1, <4>2 DEF FreshRow
      <4>4. seen'[x] = session'[x].cur - 1
        BY <1>i, <1>4, <1>6, <3>3, <4>1
      <4>5. session'[x].grace
        BY <1>4, <1>6, <3>3
      <4>6. refresh'[t].next = [sid |-> x, idx |-> session'[x].cur]
        BY <1>g, <1>3, <1>4, <1>5, <1>6, <1>7, <3>3
      <4>7. SeenGood(x)'
        BY <4>4, <4>5, <4>6 DEF SeenGood
      <4>q. QED
        BY <3>2, <4>3, <4>7
    <3>4. CASE x # s
      <4>1. refresh[t].next # [sid |-> x, idx |-> session[x].cur]
        BY <2>4 DEF Nothing, Sid
      <4>2. session'[x] = session[x] /\ seen' = seen
        BY <1>u, <1>6, <3>4
      <4>3. FreshRow(x)'
        BY <3>1, <4>2 DEF FreshRow
      <4>4. SeenGood(x)'
        BY <1>7, <1>8, <3>1, <4>1, <4>2 DEF SeenGood
      <4>q. QED
        BY <3>2, <4>3, <4>4
    <3>q. QED
      BY <3>3, <3>4
  <2>6. ASSUME NEW u \in Tab
        PROVE  /\ FreshForm(u)' /\ SentGood(u)' /\ AnswerGood(u)'
               /\ RefusalOK(u)'
    <3>1. FreshForm(u) /\ SentGood(u) /\ AnswerGood(u) /\ RefusalOK(u)
      BY <2>1 DEF Undisturbed
    <3>2. /\ refresh[u].carries \in Credential /\ refresh[u].next \in Credential
          /\ form[u].carries \in Credential
      BY <1>2, TabFields
    <3>3. FreshForm(u)'
      BY <1>u, <3>1 DEF FreshForm
    <3>4. form[u].at = "logout" => Good(form[u].carries)'
      <4>1. form[u].at = "logout" /\ form[u].carries.sid = s
            => form[u].carries.idx \in Underway(s)
        BY DEF Underway
      <4>2. form[u].at = "logout" => Good(form[u].carries)
        BY <3>1 DEF SentGood
      <4>3. form[u].at = "logout" =>
              (\A d \in Credential : d = form[u].carries => Good(d)')
        BY <2>3, <4>1, <4>2
      <4>4. form' = form
        BY <1>u
      <4>q. QED
        BY <3>2, <4>3, <4>4 DEF Good, Live
    <3>5. CASE u = t
      <4>1. SentGood(u)'
        BY <1>u, <1>5, <1>7, <3>1, <3>4, <3>5 DEF SentGood, Had
      <4>2. AnswerGood(u)'
        <5>1. refresh'[u].next = n
          BY <1>5, <1>7, <3>5
        <5>2. seen'[n.sid] >= 0
          BY <1>u, <1>3, <1>i, <2>2
        <5>3. expired[s] <= old.cur
          BY <1>o, <1>2 DEF RowOK
        <5>4. n.idx > expired'[n.sid]
          BY <1>u, <1>g, <1>3, <1>i, <5>3
        <5>5. session'[n.sid].grace
          BY <1>3, <1>4, <1>6
        <5>q. QED
          BY <5>1, <5>2, <5>4, <5>5 DEF AnswerGood
      <4>3. RefusalOK(u)'
        BY <1>5, <1>7, <3>5 DEF RefusalOK
      <4>q. QED
        BY <3>3, <4>1, <4>2, <4>3
    <3>6. CASE u # t
      <4>1. refresh'[u] = refresh[u]
        BY <1>7, <3>6
      <4>2. refresh[u].at = "sent" => Good(refresh[u].carries)'
        <5>1. refresh[u].at = "sent" /\ refresh[u].carries.sid = s
              => refresh[u].carries.idx \in Underway(s)
          BY DEF Underway
        <5>2. refresh[u].at = "sent" =>
                (\A d \in Credential : d = refresh[u].carries => Good(d)')
          BY <2>3, <3>1, <5>1 DEF SentGood
        <5>q. QED
          BY <3>2, <4>1, <5>2 DEF Good, Live
      <4>3. SentGood(u)'
        BY <1>u, <3>1, <3>4, <4>1, <4>2 DEF SentGood, Had
      <4>4. AnswerGood(u)'
        <5>1. expired' = expired /\ seen' = seen
          BY <1>u
        <5>2. refresh[u].next # Nothing => refresh[u].next.sid \in Sid
          BY <3>2, CredentialFields
        <5>q. QED
          BY <1>8, <3>1, <4>1, <5>1, <5>2 DEF AnswerGood
      <4>5. RefusalOK(u)'
        BY <1>8, <3>1, <4>1 DEF RefusalOK, Live
      <4>q. QED
        BY <3>3, <4>3, <4>4, <4>5
    <3>q. QED
      BY <3>5, <3>6
  <2>7. \A q \in Request : RetryOK(q)'
    <3>1. request' = request /\ expired' = expired
      BY <1>u
    <3>q. QED
      BY <1>8, <2>1, <3>1 DEF Undisturbed, RetryOK, Live
  <2>8. LogoutRevokes'
    <3>1. \A u \in Tab : form[u].carries # Nothing => form[u].carries.sid \in Sid
      BY <1>2, TabFields, CredentialFields
    <3>2. LogoutRevokes /\ form' = form /\ ~disturbed
      BY <1>u, <2>1 DEF Undisturbed
    <3>q. QED
      BY <1>8, <3>1, <3>2 DEF LogoutRevokes
  <2>9. cookie' # Nothing => cookie'.idx = seen'[cookie'.sid]
    BY <1>u, <2>1 DEF Undisturbed
  <2>q. QED
    BY <2>5, <2>6, <2>7, <2>8, <2>9 DEF Undisturbed
<1>13. ~disturbed' /\ ~crossed' => NewestHeld'
  <2>1. newest # 0 => newest \in Sid
    BY Types, LoginAssumption DEF Sid
  <2>2. ~disturbed' => ~disturbed
    BY <1>d
  <2>q. QED
    BY <1>u, <1>8, <2>1, <2>2 DEF IInv, NewestHeld
<1>q. QED
  BY <1>11, <1>12, <1>13 DEF IInv

-----------------------------------------------------------------------------
(* A new token reaches the browser.                                        *)

\* What a step of the browser needs of the ghost seen: a secret of a session
\* that is known is delivered, not older than the last one.
LEMMA Delivered ==
  ASSUME IInv, NEW n \in Credential, n # Nothing, Known(n),
         seen' = [seen EXCEPT ![n.sid] = n.idx]
  PROVE  /\ seen' \in [Sid -> -1..MaxRotations] /\ n.sid \in Sid
         /\ n.idx \in 0..MaxRotations /\ seen'[n.sid] = n.idx
         /\ \A s \in Sid \ {n.sid} : seen'[s] = seen[s]
         /\ session[n.sid].status # "none"
<1>1. n.sid \in Sid /\ n.idx \in 0..MaxRotations
  BY CredentialFields
<1>2. seen \in [Sid -> -1..MaxRotations] /\ n.idx \in -1..MaxRotations
  BY <1>1, Types, LoginAssumption DEF TypeOK
<1>3. session[n.sid].status # "none"
  BY <1>1, Types DEF IInv, Structure, RowOK, Known, Sid
<1>q. QED
  BY <1>1, <1>2, <1>3, Zenon

\* The answer of a refresh is delivered and the waiting requests are repeated.
LEMMA RefreshSucceedsKeeps ==
  ASSUME IInv, NEW t \in Tab, RefreshSucceeds(t)
  PROVE  IInv'
<1>1. PICK n \in Credential : n = refresh[t].next
  BY Types, TabFields
<1> DEFINE again(q) == [request[q] EXCEPT !.at = "sent", !.tok = n,
                                          !.retried = TRUE]
<1>2. /\ refresh[t].at = "answered" /\ refresh[t].result = "ok"
      /\ cookie' = n /\ token' = n
      /\ cooling' = [cooling EXCEPT ![t] = FALSE]
      /\ request' = [q \in Request |-> IF q \in Waiting(t) THEN again(q)
                                       ELSE request[q]]
      /\ refresh' = [refresh EXCEPT ![t] = NoRefresh]
      /\ seen' = [seen EXCEPT ![n.sid] = n.idx]
      /\ disturbed' = (disturbed \/ seen[n.sid] > n.idx)
      /\ crossed' = (crossed \/ Crosses(n))
      /\ UNCHANGED <<session, expired, logins, stored, user, form, newest>>
  BY <1>1 DEF RefreshSucceeds, Settle, server
<1>3. /\ TypeOK /\ NoOrphanWait /\ UsersOK /\ RefreshOK(t)
      /\ n # Nothing /\ Known(n) /\ n.idx <= session[n.sid].cur
  <2>1. TypeOK /\ NoOrphanWait /\ UsersOK /\ RefreshOK(t)
    BY DEF IInv, Structure
  <2>q. QED
    BY <1>1, <1>2, <2>1 DEF RefreshOK
<1>4. /\ seen' \in [Sid -> -1..MaxRotations] /\ n.sid \in Sid
      /\ n.idx \in 0..MaxRotations /\ seen'[n.sid] = n.idx
      /\ \A s \in Sid \ {n.sid} : seen'[s] = seen[s]
      /\ session[n.sid].status # "none"
  BY <1>2, <1>3, Delivered
<1>5. \A q \in Request : /\ again(q) \in RequestType /\ again(q).at = "sent"
                         /\ again(q).tok = n /\ again(q).self = request[q].self
  BY Types DEF RequestType
<1> HIDE DEF again
<1>6. /\ request' \in [Request -> RequestType]
      /\ \A q \in Request : request'[q] = IF q \in Waiting(t) THEN again(q)
                                          ELSE request[q]
  BY <1>2, <1>5, Types
<1>7. /\ refresh' \in [Tab -> RefreshType] /\ refresh'[t] = NoRefresh
      /\ \A u \in Tab \ {t} : refresh'[u] = refresh[u]
  <2>1. NoRefresh \in RefreshType
    BY EmptyTypes, Zenon DEF RefreshType
  <2>q. QED
    BY <1>2, <2>1, Types, Zenon
<1>8. TypeOK'
  <2>1. cooling' \in [Tab -> BOOLEAN] /\ crossed' \in BOOLEAN
        /\ disturbed' \in BOOLEAN
    BY <1>2, Types, Monotone, Zenon
  <2>q. QED
    BY <1>2, <1>3, <1>4, <1>6, <1>7, <2>1, Zenon
       DEF TypeOK, RequestType, RefreshType
<1>9. Structure'
  <2>1. NoOrphanWait'
    BY <1>3, <1>5, <1>6, <1>7, EmptyTypes DEF NoOrphanWait, Waiting
  <2>2. UsersOK'
    BY <1>2, <1>3, <1>5, <1>6 DEF UsersOK
  <2>3. token' = cookie' /\ Known(cookie)'
        /\ \A q \in Request : Known(request[q].tok)'
    BY <1>2, <1>3, <1>5, <1>6 DEF IInv, Structure, Known
  <2>4. \A u \in Tab : RefreshOK(u)'
    BY <1>2, <1>7, EmptyTypes DEF IInv, Structure, RefreshOK, Known
  <2>5. (\A s \in Sid : RowOK(s)') /\ \A u \in Tab : FormOK(u)'
    BY <1>2 DEF IInv, Structure, RowOK, FormOK, Known
  <2>q. QED
    BY <1>8, <2>1, <2>2, <2>3, <2>4, <2>5 DEF Structure
<1>10. ASSUME ~disturbed'
       PROVE  Undisturbed'
  <2>1. Undisturbed /\ ~(seen[n.sid] > n.idx)
    BY <1>2, <1>10 DEF IInv
  <2>2. \A s \in Sid : seen[s] \in Int /\ session[s].cur \in Int
    BY <1>3, SessionFields
  <2>3. /\ seen[n.sid] >= 0 /\ n.idx > expired[n.sid]
    BY <1>1, <1>3, <2>1 DEF Undisturbed, AnswerGood
  <2>4. \A s \in Sid : seen'[s] >= seen[s]
    BY <1>4, <2>1, <2>2
  <2>5. ASSUME NEW s \in Sid
        PROVE  SeenGood(s)'
    <3>1. SeenGood(s)
      BY <2>1 DEF Undisturbed
    <3>2. CASE s # n.sid
      <4>1. n # [sid |-> s, idx |-> session[s].cur]
        BY <3>2
      <4>q. QED
        BY <1>1, <1>2, <1>4, <1>7, <3>1, <3>2, <4>1 DEF SeenGood, Live
    <3>3. CASE s = n.sid
      <4> SUFFICES ASSUME Live(s), n.idx # session[s].cur
                   PROVE  SeenGood(s)'
        BY <1>2, <1>4, <3>3 DEF SeenGood, Live
      <4>1. /\ seen[s] = session[s].cur - 1 /\ session[s].grace
            /\ n.idx = session[s].cur - 1
        BY <1>3, <1>4, <2>1, <2>2, <2>3, <3>1, <3>3 DEF SeenGood
      <4>2. PICK u \in Tab : refresh[u].next = [sid |-> s,
                                                idx |-> session[s].cur]
        BY <2>2, <2>3, <3>1, <3>3, <4>1 DEF SeenGood
      <4>3. refresh[u].next.idx = session[s].cur
        BY <4>2
      <4>4. u # t
        BY <1>1, <4>3
      <4>5. refresh'[u].next = [sid |-> s, idx |-> session'[s].cur]
        BY <1>2, <1>7, <4>2, <4>4
      <4>q. QED
        BY <1>2, <1>4, <3>3, <4>1, <4>5 DEF SeenGood
    <3>q. QED
      BY <3>2, <3>3
  <2>6. \A s \in Sid : FreshRow(s)' /\ session'[s].why # "reuse"
    BY <1>2, <1>4, <2>1 DEF Undisturbed, FreshRow
  <2>7. ASSUME NEW c \in Credential, Had(c)
        PROVE  Had(c)'
    <3>1. c # Nothing => c.sid \in Sid /\ c.idx \in Int
      BY CredentialFields
    <3>2. c # Nothing => seen'[c.sid] \in Int
      BY <1>4, <3>1
    <3>q. QED
      BY <2>2, <2>4, <2>7, <3>1, <3>2 DEF Had
  <2>8. ASSUME NEW u \in Tab
        PROVE  /\ FreshForm(u)' /\ SentGood(u)' /\ AnswerGood(u)'
               /\ RefusalOK(u)'
    <3>1. FreshForm(u) /\ SentGood(u) /\ AnswerGood(u) /\ RefusalOK(u)
      BY <2>1 DEF Undisturbed
    <3>2. /\ refresh[u].carries \in Credential /\ refresh[u].next \in Credential
          /\ form[u].carries \in Credential
      BY <1>3, TabFields
    <3>3. FreshForm(u)'
      <4>1. form[u].at = "login" => form[u].carries.sid \in Sid
        BY <3>2, CredentialFields DEF IInv, Structure, FormOK
      <4>2. form[u].at = "login" => form[u].carries.sid # n.sid
        BY <2>3, <3>1 DEF FreshForm
      <4>q. QED
        BY <1>2, <1>4, <3>1, <4>1, <4>2 DEF FreshForm
    <3>4. form[u].at = "logout" => Had(form[u].carries)' /\ Good(form[u].carries)'
      BY <1>2, <2>7, <3>1, <3>2 DEF SentGood, Good, Live
    <3>5. CASE u = t
      BY <1>2, <1>7, <3>3, <3>4, <3>5, EmptyTypes
         DEF SentGood, AnswerGood, RefusalOK, Had
    <3>6. CASE u # t
      <4>1. refresh'[u] = refresh[u]
        BY <1>7, <3>6
      <4>2. \A c \in Credential : c = refresh[u].carries => Had(c)'
        BY <2>7, <3>1 DEF SentGood
      <4>3. SentGood(u)'
        BY <1>2, <3>1, <3>2, <3>4, <4>1, <4>2 DEF SentGood, Had, Good, Live
      <4>4. AnswerGood(u)'
        <5>1. refresh[u].next # Nothing => refresh[u].next.sid \in Sid
          BY <3>2, CredentialFields
        <5>2. refresh[u].next # Nothing => seen'[refresh[u].next.sid] >= 0
          BY <1>4, <2>2, <2>4, <3>1, <5>1 DEF AnswerGood
        <5>q. QED
          BY <1>2, <3>1, <4>1, <5>2 DEF AnswerGood, Live
      <4>5. RefusalOK(u)'
        BY <1>2, <3>1, <4>1 DEF RefusalOK, Live
      <4>q. QED
        BY <3>3, <4>3, <4>4, <4>5
    <3>q. QED
      BY <3>5, <3>6
  <2>9. \A q \in Request : RetryOK(q)'
    BY <1>2, <1>3, <1>5, <1>6, <2>1, <2>3 DEF Undisturbed, RetryOK, Live
  <2>10. LogoutRevokes'
    BY <1>2, <1>10, <2>1 DEF Undisturbed, LogoutRevokes
  <2>q. QED
    BY <1>2, <1>4, <2>5, <2>6, <2>8, <2>9, <2>10 DEF Undisturbed
<1>11. ASSUME ~disturbed', ~crossed', newest # 0, session[newest].why # "logout"
       PROVE  cookie'.sid = newest
  <2>1. cookie.sid = newest /\ ~Crosses(n)
    BY <1>2, <1>11 DEF IInv, NewestHeld
  <2>2. cookie # Nothing
    BY <1>11, <2>1 DEF Nothing
  <2>q. QED
    BY <1>2, <2>1, <2>2 DEF Crosses
<1>12. ~disturbed' /\ ~crossed' => NewestHeld'
  BY <1>2, <1>11 DEF NewestHeld
<1>q. QED
  BY <1>9, <1>10, <1>12 DEF IInv

-----------------------------------------------------------------------------
(* Signing in.                                                             *)

\* A login creates a session nobody has heard of.
LEMMA LoginKeeps ==
  ASSUME IInv, NEW t \in Tab, Login(t)
  PROVE  IInv'
<1>1. PICK s \in Sid : s = logins + 1
  <2>1. logins \in Nat /\ logins < MaxLogins
    BY Types, LoginAssumption DEF Login
  <2>2. logins + 1 \in Sid
    BY <2>1, LoginAssumption DEF Sid
  <2>q. QED
    BY <2>2
<1> DEFINE old == session[s]
           r == [old EXCEPT !.status = "active"]
           c == [sid |-> s, idx |-> 0]
           f == [NoForm EXCEPT !.at = "login", !.carries = c]
<1>2. /\ logins < MaxLogins /\ logins' = s
      /\ session' = [session EXCEPT ![s] = r]
      /\ form' = [form EXCEPT ![t] = f]
      /\ UNCHANGED <<expired, newest, seen, cookie, token, stored, user, cooling,
                     request, refresh, disturbed, crossed>>
  BY <1>1 DEF Login, browser, ghosts
<1>3. /\ TypeOK /\ old \in SessionType /\ session \in [Sid -> SessionType]
      /\ logins \in Nat /\ RowOK(s)
  BY Types DEF TypeOK, SessionType, IInv, Structure
<1>4. old = NoSession /\ old.status = "none"
  BY <1>1, <1>3 DEF RowOK
<1>5. /\ r \in SessionType /\ r.status = "active" /\ r.cur = 0 /\ ~r.grace
      /\ r.why = "none"
  <2>1. NoSession.cur = 0 /\ NoSession.grace = FALSE /\ NoSession.why = "none"
    BY DEF NoSession
  <2>q. QED
    BY <1>3, <1>4, <2>1 DEF SessionType
<1>6. c \in Credential /\ c # Nothing /\ c.sid = s /\ c.idx = 0
  BY LoginAssumption DEF Credential, Nothing, Sid
<1> HIDE DEF c
<1>7. f \in FormType /\ f.at = "login" /\ f.carries = c
  BY <1>6, EmptyTypes DEF FormType, NoForm
<1> HIDE DEF r, f
<1>8. /\ session' \in [Sid -> SessionType] /\ session'[s] = r
      /\ \A x \in Sid \ {s} : session'[x] = session[x]
  BY <1>2, <1>5, SessionRows
<1>9. /\ form' \in [Tab -> FormType] /\ form'[t] = f
      /\ \A u \in Tab \ {t} : form'[u] = form[u]
  BY <1>2, <1>7, Types, Zenon
<1>10. \A x \in Sid : RowOK(x)'
  <2>1. RowOK(s)'
    <3>1. expired[s] <= 0
      BY <1>3, <1>4 DEF RowOK, NoSession
    <3>q. QED
      BY <1>2, <1>5, <1>8, <3>1 DEF RowOK, Sid
  <2>2. ASSUME NEW x \in Sid \ {s}
        PROVE  RowOK(x)'
    <3>1. RowOK(x) /\ (x > s <=> x > logins)
      BY <1>1, <1>3 DEF IInv, Structure, Sid
    <3>q. QED
      BY <1>2, <1>8, <3>1 DEF RowOK
  <2>q. QED
    BY <2>1, <2>2
<1>11. ASSUME NEW d \in Credential, Known(d)
       PROVE  /\ d # Nothing => d.sid <= s /\ d.sid \in Sid
              /\ d.sid # s /\ (Live(d.sid)' <=> Live(d.sid))
              /\ d # Nothing => session'[d.sid] = session[d.sid]
  <2>1. CASE d = Nothing
    BY <2>1 DEF Live, Nothing, Sid
  <2>2. CASE d # Nothing
    <3>1. d.sid \in Sid /\ d.sid <= logins
      BY <1>11, <2>2, CredentialFields DEF Known
    <3>2. d.sid <= s /\ d.sid # s
      BY <1>1, <1>3, <3>1 DEF Sid
    <3>q. QED
      BY <1>8, <3>1, <3>2 DEF Live
  <2>q. QED
    BY <2>1, <2>2
<1>12. \A u \in Tab : RefreshOK(u)' /\ FormOK(u)'
  <2>1. ASSUME NEW u \in Tab
        PROVE  RefreshOK(u)'
    <3>1. /\ RefreshOK(u) /\ refresh[u].carries \in Credential
          /\ refresh[u].next \in Credential
      BY <1>3, TabFields DEF IInv, Structure
    <3>2. /\ Known(refresh[u].carries)' /\ Known(refresh[u].next)'
      BY <1>2, <1>11, <3>1 DEF RefreshOK, Known
    <3>3. refresh[u].next # Nothing =>
            session'[refresh[u].next.sid] = session[refresh[u].next.sid]
      BY <1>11, <3>1 DEF RefreshOK
    <3>q. QED
      BY <1>2, <3>1, <3>2, <3>3 DEF RefreshOK
  <2>2. ASSUME NEW u \in Tab
        PROVE  FormOK(u)'
    <3>1. CASE u = t
      BY <1>2, <1>3, <1>6, <1>7, <1>9, <3>1 DEF FormOK, Known, Sid
    <3>2. CASE u # t
      <4>1. FormOK(u) /\ form[u].carries \in Credential /\ form'[u] = form[u]
        BY <1>3, <1>9, <3>2, TabFields DEF IInv, Structure
      <4>2. Known(form[u].carries)'
        BY <1>2, <1>11, <4>1 DEF FormOK, Known
      <4>q. QED
        BY <4>1, <4>2 DEF FormOK
    <3>q. QED
      BY <3>1, <3>2
  <2>q. QED
    BY <2>1, <2>2
<1>13. Structure'
  <2>1. /\ disturbed' \in BOOLEAN /\ logins' \in 0..MaxLogins /\ logins <= logins'
        /\ refresh' \in [Tab -> RefreshType]
        /\ expired' \in [Sid -> -1..MaxRotations]
    BY <1>1, <1>2, <1>3, Types, LoginAssumption DEF TypeOK
  <2>q. QED
    BY <1>2, <1>8, <1>9, <1>10, <1>12, <2>1, ServerStructure
<1>14. ASSUME ~disturbed'
       PROVE  Undisturbed'
  <2>1. Undisturbed
    BY <1>2, <1>14 DEF IInv
  <2>2. seen[s] = -1
    BY <1>4, <2>1 DEF Undisturbed, FreshRow
  <2>3. ASSUME NEW x \in Sid
        PROVE  FreshRow(x)' /\ SeenGood(x)' /\ session'[x].why # "reuse"
    <3>1. FreshRow(x) /\ SeenGood(x) /\ session[x].why # "reuse"
      BY <2>1 DEF Undisturbed
    <3>2. CASE x = s
      BY <1>2, <1>5, <1>8, <2>2, <3>2 DEF FreshRow, SeenGood
    <3>3. CASE x # s
      BY <1>2, <1>8, <3>1, <3>3 DEF FreshRow, SeenGood, Live
    <3>q. QED
      BY <3>2, <3>3
  <2>4. ASSUME NEW d \in Credential, Known(d), Good(d)
        PROVE  Good(d)'
    BY <1>8, <1>11, <2>4 DEF Good, Live
  <2>5. ASSUME NEW u \in Tab
        PROVE  /\ SentGood(u)' /\ AnswerGood(u)' /\ RefusalOK(u)'
    <3>1. SentGood(u) /\ AnswerGood(u) /\ RefusalOK(u)
      BY <2>1 DEF Undisturbed
    <3>2. /\ refresh[u].carries \in Credential /\ refresh[u].next \in Credential
          /\ form[u].carries \in Credential
          /\ Known(refresh[u].carries) /\ Known(refresh[u].next)
          /\ Known(form[u].carries)
      BY <1>3, TabFields DEF IInv, Structure, RefreshOK, FormOK
    <3>3. SentGood(u)'
      <4>1. refresh[u].at = "sent" => Good(refresh[u].carries)'
        BY <1>2, <2>4, <3>1, <3>2 DEF SentGood
      <4>2. form'[u].at = "logout" => form'[u] = form[u]
        BY <1>7, <1>9
      <4>3. form[u].at = "logout" =>
              (\A d \in Credential : d = form[u].carries => Good(d)')
        BY <2>4, <3>1, <3>2 DEF SentGood
      <4>4. form'[u].at = "logout" => Good(form[u].carries)'
        BY <3>2, <4>2, <4>3 DEF Good, Live
      <4>q. QED
        BY <1>2, <3>1, <4>1, <4>2, <4>4 DEF SentGood, Had
    <3>4. AnswerGood(u)'
      <4>1. refresh[u].next # Nothing =>
              /\ session'[refresh[u].next.sid] = session[refresh[u].next.sid]
              /\ refresh[u].next.sid \in Sid
        BY <1>11, <3>2
      <4>q. QED
        BY <1>2, <3>1, <4>1 DEF AnswerGood, Live
    <3>5. RefusalOK(u)'
      <4>1. ~Live(refresh[u].carries.sid) =>
              (\A d \in Credential : d = refresh[u].carries => ~Live(d.sid)')
        BY <1>11, <3>2
      <4>q. QED
        BY <1>2, <3>1, <3>2, <4>1 DEF RefusalOK
    <3>q. QED
      BY <3>3, <3>4, <3>5
  <2>6. ASSUME NEW u \in Tab
        PROVE  FreshForm(u)'
    <3>1. \A v \in Tab : form[v].at = "login" => form[v].carries.sid # s
      BY <1>3, <1>11, TabFields DEF IInv, Structure, FormOK
    <3>2. CASE u = t
      BY <1>2, <1>6, <1>7, <1>9, <2>2, <3>1, <3>2 DEF FreshForm
    <3>3. CASE u # t
      BY <1>2, <1>6, <1>7, <1>9, <2>1, <3>1, <3>3 DEF Undisturbed, FreshForm
    <3>q. QED
      BY <3>2, <3>3
  <2>7. ASSUME NEW q \in Request
        PROVE  RetryOK(q)'
    <3>1. RetryOK(q) /\ request[q].tok \in Credential /\ Known(request[q].tok)
      BY <1>3, <2>1, RequestFields DEF Undisturbed, IInv, Structure
    <3>2. ~Live(request[q].tok.sid) =>
            (\A d \in Credential : d = request[q].tok => ~Live(d.sid)')
      BY <1>11, <3>1
    <3>q. QED
      BY <1>2, <3>1, <3>2 DEF RetryOK
  <2>8. LogoutRevokes'
    <3>1. \A u \in Tab : form[u].carries # Nothing =>
             session'[form[u].carries.sid] = session[form[u].carries.sid]
      BY <1>3, <1>11, TabFields DEF IInv, Structure, FormOK
    <3>q. QED
      BY <1>2, <1>7, <1>9, <1>14, <2>1, <3>1 DEF Undisturbed, LogoutRevokes
  <2>q. QED
    BY <1>2, <2>1, <2>3, <2>5, <2>6, <2>7, <2>8 DEF Undisturbed
<1>15. ~disturbed' /\ ~crossed' => NewestHeld'
  <2>1. newest # 0 => newest \in Sid \ {s}
    BY <1>1, Types, LoginAssumption DEF Sid
  <2>q. QED
    BY <1>2, <1>8, <2>1 DEF IInv, NewestHeld
<1>q. QED
  BY <1>13, <1>14, <1>15 DEF IInv

\* The first secret of a session is delivered, and getSelf is sent.
LEMMA LoginSucceedsKeeps ==
  ASSUME IInv, NEW t \in Tab, NEW q \in Request, LoginSucceeds(t, q)
  PROVE  IInv'
<1>1. PICK c \in Credential : c = form[t].carries
  BY Types, TabFields
<1> DEFINE r == [Closed EXCEPT !.at = "sent", !.tok = c, !.self = TRUE]
<1>2. /\ form[t].at = "login" /\ request[q].at = "idle"
      /\ cookie' = c /\ token' = c
      /\ cooling' = [cooling EXCEPT ![t] = FALSE]
      /\ request' = [request EXCEPT ![q] = r]
      /\ form' = [form EXCEPT ![t] = NoForm]
      /\ newest' = c.sid /\ seen' = [seen EXCEPT ![c.sid] = c.idx]
      /\ UNCHANGED <<session, expired, logins, stored, user, refresh, disturbed,
                     crossed>>
  BY <1>1 DEF LoginSucceeds, server
<1>3. TypeOK /\ NoOrphanWait /\ c # Nothing /\ Known(c)
  BY <1>1, <1>2 DEF IInv, Structure, FormOK
<1>4. /\ seen' \in [Sid -> -1..MaxRotations] /\ c.sid \in Sid
      /\ c.idx \in 0..MaxRotations /\ seen'[c.sid] = c.idx
      /\ \A s \in Sid \ {c.sid} : seen'[s] = seen[s]
      /\ session[c.sid].status # "none"
  BY <1>2, <1>3, Delivered
<1>5. r \in RequestType /\ r.at = "sent" /\ r.tok = c /\ ~r.retried
  BY EmptyTypes DEF RequestType, Closed
<1> HIDE DEF r
<1>6. /\ request' \in [Request -> RequestType] /\ request'[q] = r
      /\ \A p \in Request \ {q} : request'[p] = request[p]
  BY <1>2, <1>5, Types, Zenon
<1>7. /\ form' \in [Tab -> FormType] /\ form'[t] = NoForm
      /\ \A u \in Tab \ {t} : form'[u] = form[u]
  <2>1. NoForm \in FormType
    BY EmptyTypes, Zenon DEF FormType
  <2>q. QED
    BY <1>2, <2>1, Types, Zenon
<1>8. newest' \in 0..logins' /\ newest' # 0
  BY <1>2, <1>3, <1>4, Types DEF Known, Sid
<1>9. TypeOK'
  <2>1. cooling' \in [Tab -> BOOLEAN]
    BY <1>2, Types, Zenon
  <2>q. QED
    BY <1>2, <1>3, <1>4, <1>6, <1>7, <1>8, <2>1, Zenon
       DEF TypeOK, RequestType, FormType
<1>10. Structure'
  <2>1. NoOrphanWait'
    <3>1. \A p \in Request : request'[p].at = "wait" <=> request[p].at = "wait"
      BY <1>2, <1>5, <1>6
    <3>q. QED
      BY <1>2, <1>3, <3>1, WaitsSame
  <2>2. UsersOK'
    BY <1>8 DEF UsersOK
  <2>3. token' = cookie' /\ Known(cookie)'
        /\ \A p \in Request : Known(request[p].tok)'
    BY <1>2, <1>3, <1>5, <1>6 DEF IInv, Structure, Known
  <2>4. \A u \in Tab : FormOK(u)'
    BY <1>2, <1>7, EmptyTypes DEF IInv, Structure, FormOK, Known
  <2>5. (\A s \in Sid : RowOK(s)') /\ \A u \in Tab : RefreshOK(u)'
    BY <1>2 DEF IInv, Structure, RowOK, RefreshOK, Known
  <2>q. QED
    BY <1>9, <2>1, <2>2, <2>3, <2>4, <2>5 DEF Structure
<1>11. ASSUME ~disturbed'
       PROVE  Undisturbed'
  <2>1. Undisturbed /\ FreshForm(t)
    BY <1>2, <1>11 DEF IInv, Undisturbed
  <2>2. c.idx = 0 /\ seen[c.sid] = -1 /\ session[c.sid].cur = 0
    BY <1>1, <1>2, <1>4, <2>1 DEF Undisturbed, FreshForm, FreshRow
  <2>3. \A s \in Sid : FreshRow(s)' /\ SeenGood(s)' /\ session'[s].why # "reuse"
    BY <1>2, <1>4, <2>1, <2>2 DEF Undisturbed, FreshRow, SeenGood, Live
  <2>4. ASSUME NEW d \in Credential, Had(d)
        PROVE  Had(d)'
    <3>1. d # Nothing => d.sid \in Sid /\ d.idx >= 0 /\ d.idx \in Int
      BY CredentialFields
    <3>2. d # Nothing => d.sid # c.sid
      BY <2>2, <2>4, <3>1 DEF Had
    <3>q. QED
      BY <1>4, <2>4, <3>1, <3>2 DEF Had
  <2>5. ASSUME NEW u \in Tab
        PROVE  /\ SentGood(u)' /\ AnswerGood(u)' /\ RefusalOK(u)'
               /\ FreshForm(u)'
    <3>1. SentGood(u) /\ AnswerGood(u) /\ RefusalOK(u) /\ FreshForm(u)
      BY <2>1 DEF Undisturbed
    <3>2. /\ refresh[u].carries \in Credential /\ refresh[u].next \in Credential
          /\ form[u].carries \in Credential
      BY <1>3, TabFields
    <3>3. SentGood(u)'
      <4>1. Had(refresh[u].carries)'
        BY <1>2, <2>4, <3>1, <3>2 DEF SentGood
      <4>2. refresh[u].at = "sent" => Good(refresh[u].carries)'
        BY <1>2, <3>1 DEF SentGood, Good, Live
      <4>3. form'[u].at = "logout" => form'[u] = form[u]
        BY <1>7, EmptyTypes
      <4>4. form[u].at = "logout" =>
              (\A d \in Credential : d = form[u].carries => Had(d)')
        BY <2>4, <3>1 DEF SentGood
      <4>5. form'[u].at = "logout" =>
              Had(form[u].carries)' /\ Good(form[u].carries)'
        BY <1>2, <3>1, <3>2, <4>3, <4>4 DEF SentGood, Had, Good, Live
      <4>q. QED
        BY <1>2, <4>1, <4>2, <4>5 DEF SentGood
    <3>4. AnswerGood(u)'
      <4>1. refresh[u].next # Nothing => refresh[u].next.sid \in Sid \ {c.sid}
        BY <2>2, <3>1, <3>2, CredentialFields DEF AnswerGood
      <4>q. QED
        BY <1>2, <1>4, <3>1, <4>1 DEF AnswerGood, Live
    <3>5. RefusalOK(u)'
      BY <1>2, <3>1 DEF RefusalOK, Live
    <3>6. FreshForm(u)'
      <4>1. form[u].at = "login" => form[u].carries.sid \in Sid
        BY <3>2, CredentialFields DEF IInv, Structure, FormOK
      <4>2. form[u].at = "login" /\ u # t => form[u].carries.sid # c.sid
        BY <1>1, <1>2, <2>1 DEF FreshForm
      <4>q. QED
        BY <1>4, <1>7, <3>1, <4>1, <4>2, EmptyTypes DEF FreshForm
    <3>q. QED
      BY <3>3, <3>4, <3>5, <3>6
  <2>6. \A p \in Request : RetryOK(p)'
    BY <1>2, <1>5, <1>6, <2>1 DEF Undisturbed, RetryOK, Live
  <2>7. LogoutRevokes'
    BY <1>2, <1>7, <1>11, <2>1, EmptyTypes DEF Undisturbed, LogoutRevokes
  <2>q. QED
    BY <1>2, <1>4, <2>3, <2>5, <2>6, <2>7 DEF Undisturbed
<1>12. NewestHeld'
  BY <1>2 DEF NewestHeld
<1>q. QED
  BY <1>10, <1>11, <1>12 DEF IInv

-----------------------------------------------------------------------------
(* The theorems.                                                           *)

\* Nobody has signed in yet.
LEMMA InitEstablishes ==
  ASSUME Init
  PROVE  IInv
<1>1. TypeOK
  <2>1. NoSession \in [status : {"none", "active", "revoked"},
                       cur : 0..MaxRotations, grace : BOOLEAN,
                       why : {"none", "logout", "reuse"}]
    BY LoginAssumption DEF NoSession
  <2>2. -1 \in -1..MaxRotations /\ 0 \in 0..MaxLogins /\ 0 \in 0..0
    BY LoginAssumption
  <2>q. QED
    BY <2>1, <2>2, EmptyTypes, Zenon DEF Init, TypeOK
<1>2. Structure
  <2>1. \A s \in Sid : RowOK(s)
    BY DEF Init, RowOK, NoSession, Sid
  <2>2. \A t \in Tab : RefreshOK(t) /\ FormOK(t)
    BY EmptyTypes DEF Init, RefreshOK, FormOK, Known
  <2>3. NoOrphanWait /\ UsersOK /\ token = cookie /\ Known(cookie)
        /\ \A q \in Request : Known(request[q].tok)
    BY EmptyTypes DEF Init, NoOrphanWait, UsersOK, Known
  <2>q. QED
    BY <1>1, <2>1, <2>2, <2>3 DEF Structure
<1>3. Undisturbed
  <2>1. \A s \in Sid : FreshRow(s) /\ SeenGood(s) /\ session[s].why # "reuse"
    BY DEF Init, FreshRow, SeenGood, NoSession
  <2>2. \A t \in Tab : FreshForm(t) /\ SentGood(t) /\ AnswerGood(t)
                       /\ RefusalOK(t)
    BY EmptyTypes DEF Init, FreshForm, SentGood, AnswerGood, RefusalOK, Had
  <2>3. (\A q \in Request : RetryOK(q)) /\ LogoutRevokes
    BY EmptyTypes DEF Init, RetryOK, LogoutRevokes
  <2>q. QED
    BY <2>1, <2>2, <2>3 DEF Init, Undisturbed
<1>q. QED
  BY <1>2, <1>3 DEF Init, IInv, NewestHeld

\* Nothing happens.
LEMMA StutterKeeps ==
  ASSUME IInv, UNCHANGED vars
  PROVE  IInv'
<1>1. UNCHANGED <<session, expired, logins, newest, seen, cookie, token,
                  refresh, form, request, user, stored, cooling, disturbed,
                  crossed>>
  BY DEF vars, server, browser, ghosts
<1>2. /\ request' \in [Request -> [at : {"idle", "sent", "ok", "401", "wait"},
                                   tok : Credential, retried : BOOLEAN,
                                   self : BOOLEAN]]
      /\ user' \in [Tab -> BOOLEAN] /\ stored' \in BOOLEAN
      /\ cooling' \in [Tab -> BOOLEAN]
      /\ disturbed' \in BOOLEAN /\ crossed' \in BOOLEAN
  BY <1>1, Zenon DEF IInv, Structure, TypeOK
<1>3. UsersOK' /\ \A q \in Request : Known(request'[q].tok)
  BY <1>1 DEF IInv, Structure, UsersOK, Known
<1>4. ~disturbed' => \A q \in Request : RetryOK(q)'
  BY <1>1 DEF IInv, Undisturbed, RetryOK, Live
<1>5. NoOrphanWait'
  BY <1>1, WaitsSame DEF IInv, Structure
<1>q. QED
  BY <1>1, <1>2, <1>3, <1>4, <1>5, RequestStepKeeps

\* Every step keeps the invariant.
LEMMA NextKeeps ==
  ASSUME IInv, [Next]_vars
  PROVE  IInv'
<1>1. ASSUME NEW q \in Request, Open(q) \/ RequestStep(q)
      PROVE  IInv'
  BY <1>1, OpenKeeps, ServeKeeps, ServeOutageKeeps, RequestFailsKeeps,
     ReceiveOkKeeps, ReceiveUnauthorizedKeeps, ReceiveRejectedKeeps
     DEF RequestStep
<1>2. ASSUME NEW t \in Tab, RefreshStep(t)
      PROVE  IInv'
  BY <1>2, RefreshThrottledKeeps, RefreshOutageKeeps, RefreshInvalidKeeps,
     RefreshRotatesKeeps, RefreshRaceKeeps, RefreshReuseKeeps,
     RefreshSucceedsKeeps, RefreshDeniedKeeps, RefreshFailsKeeps
     DEF RefreshStep
<1>3. ASSUME NEW t \in Tab, FormStep(t)
      PROVE  IInv'
  BY <1>3, LoginSucceedsKeeps, LoginFailsKeeps, AuthLogoutKeeps,
     LogoutSucceedsKeeps, LogoutFailsKeeps DEF FormStep
<1>4. ASSUME NEW t \in Tab,
             Login(t) \/ Logout(t) \/ OpenTab(t) \/ CooldownEnds(t)
      PROVE  IInv'
  BY <1>4, LoginKeeps, LogoutKeeps, OpenTabKeeps, CooldownEndsKeeps
<1>5. ASSUME NEW s \in Sid, WindowCloses(s) \/ TokenExpires(s)
      PROVE  IInv'
  BY <1>5, WindowClosesKeeps, TokenExpiresKeeps
<1>6. CASE UNCHANGED vars
  BY <1>6, StutterKeeps
<1>q. QED
  BY <1>1, <1>2, <1>3, <1>4, <1>5, <1>6 DEF Next

\* The inductive invariant holds in every reachable state.
THEOREM Inductive == Spec => []IInv
  BY InitEstablishes, NextKeeps, PTL DEF Spec

\* Every variable keeps its type.
THEOREM TypeSafe == Spec => []TypeOK
<1>1. IInv => TypeOK
  BY DEF IInv, Structure
<1>q. QED
  BY <1>1, Inductive, PTL

\* No 401 is held back by a refresh that never settles: a tab has requests
\* that wait exactly while it has a refresh in flight.
THEOREM NoRequestIsOrphaned == Spec => []NoOrphanWait
<1>1. IInv => NoOrphanWait
  BY DEF IInv, Structure
<1>q. QED
  BY <1>1, Inductive, PTL

\* The browser can renew every session it holds a cookie of, whatever its
\* tabs refresh at the same time, until a message is lost or outrun.
THEOREM SessionsStayRenewable == Spec => []SessionRenewable
<1>1. ASSUME IInv
      PROVE  SessionRenewable
  <2> SUFFICES ASSUME ~disturbed, Live(cookie.sid),
                      cookie.idx # session[cookie.sid].cur
               PROVE  LET s == session[cookie.sid] IN
                      /\ cookie.idx = s.cur - 1 /\ s.grace
                      /\ \E t \in Tab :
                           /\ refresh[t].result = "ok"
                           /\ refresh[t].next = [cookie EXCEPT !.idx = s.cur]
    BY DEF SessionRenewable
  <2>1. Undisturbed /\ cookie.sid \in Sid
    BY <1>1 DEF IInv, Live
  <2>2. /\ cookie # Nothing /\ cookie \in [sid : Sid, idx : 0..MaxRotations]
    BY <1>1, <2>1, Types, CredentialFields
  <2>3. cookie.idx = seen[cookie.sid] /\ SeenGood(cookie.sid) /\ cookie.idx >= 0
    BY <2>1, <2>2 DEF Undisturbed
  <2>4. PICK t \in Tab : refresh[t].next = [sid |-> cookie.sid,
                                            idx |-> session[cookie.sid].cur]
    BY <2>3 DEF SeenGood
  <2>5. refresh[t].next # Nothing
    BY <2>1, <2>4 DEF Nothing, Sid
  <2>6. refresh[t].result = "ok"
    BY <1>1, <2>5 DEF IInv, Structure, RefreshOK
  <2>7. refresh[t].next = [cookie EXCEPT !.idx = session[cookie.sid].cur]
    BY <2>2, <2>4
  <2>q. QED
    BY <2>3, <2>6, <2>7 DEF SeenGood
<1>q. QED
  BY <1>1, Inductive, PTL

\* A logout that is answered with success has revoked the session of its
\* cookie, until a message is lost or outrun.
THEOREM LogoutsRevoke == Spec => []LogoutRevokes
<1>1. IInv => LogoutRevokes
  BY DEF IInv, Undisturbed, LogoutRevokes
<1>q. QED
  BY <1>1, Inductive, PTL

\* The steps that take a user away: a rejected request, a refused refresh,
\* and the end of a logout of the tab itself.
LEMMA SignOutSteps ==
  ASSUME TypeOK, Next, NEW t \in Tab, user[t], ~user'[t]
  PROVE  \/ \E q \in Request : ReceiveRejected(q)
         \/ \E u \in Tab : RefreshDenied(u)
         \/ form[t].at \in {"logout", "out"}
<1>1. user \in [Tab -> BOOLEAN] /\ ~(user' = user)
  BY Zenon DEF TypeOK
<1>2. ASSUME NEW u \in Tab, user' = [user EXCEPT ![u] = TRUE]
      PROVE  FALSE
  BY <1>1, <1>2, Zenon
<1>3. ASSUME NEW u \in Tab, Reset(u)
      PROVE  u = t
  BY <1>1, <1>3, Zenon DEF Reset
<1>4. ASSUME NEW q \in Request, Open(q) \/ RequestStep(q)
      PROVE  ReceiveRejected(q)
  <2>1. TabOf[q] \in Tab
    BY LoginAssumption
  <2>2. ~Open(q) /\ ~Serve(q) /\ ~ServeOutage(q) /\ ~RequestFails(q)
        /\ ~ReceiveUnauthorized(q)
    BY <1>1 DEF Open, Serve, ServeOutage, RequestFails, ReceiveUnauthorized,
                browser
  <2>3. ~ReceiveOk(q)
    BY <1>1, <1>2, <2>1 DEF ReceiveOk, SetUser
  <2>q. QED
    BY <1>4, <2>2, <2>3 DEF RequestStep
<1>5. ASSUME NEW u \in Tab, RefreshStep(u)
      PROVE  RefreshDenied(u)
  <2>1. ~RefreshThrottled(u) /\ ~RefreshOutage(u) /\ ~RefreshInvalid(u)
        /\ ~RefreshRotates(u) /\ ~RefreshRace(u) /\ ~RefreshReuse(u)
    BY <1>1 DEF RefreshThrottled, RefreshOutage, RefreshInvalid, RefreshRotates,
                RefreshRace, RefreshReuse, browser
  <2>2. ~RefreshSucceeds(u) /\ ~RefreshFails(u)
    BY <1>1 DEF RefreshSucceeds, RefreshFails
  <2>q. QED
    BY <1>5, <2>1, <2>2 DEF RefreshStep
<1>6. ASSUME NEW u \in Tab, FormStep(u)
      PROVE  form[t].at \in {"logout", "out"}
  <2>1. /\ ~LoginFails(u) /\ ~AuthLogout(u)
        /\ \A q \in Request : ~LoginSucceeds(u, q)
    BY <1>1 DEF LoginFails, AuthLogout, LoginSucceeds, browser
  <2>2. LogoutSucceeds(u) \/ LogoutFails(u)
    BY <1>6, <2>1 DEF FormStep
  <2>q. QED
    BY <1>3, <2>2 DEF LogoutSucceeds, LogoutFails
<1>7. ASSUME NEW u \in Tab
      PROVE  ~Login(u) /\ ~Logout(u) /\ ~OpenTab(u) /\ ~CooldownEnds(u)
  BY <1>1, <1>2, <1>7 DEF Login, Logout, OpenTab, CooldownEnds, browser
<1>8. ASSUME NEW s \in Sid
      PROVE  ~WindowCloses(s) /\ ~TokenExpires(s)
  BY <1>1 DEF WindowCloses, TokenExpires, browser
<1>q. QED
  BY <1>4, <1>5, <1>6, <1>7, <1>8 DEF Next

\* No tab is signed out while the session of the last login is not logged
\* out, except by its own logout, after a message was lost or outrun, or by an
\* answer about an older session.
THEOREM NobodyIsSignedOut == Spec => NoFalseSignOut
<1>1. ASSUME IInv, IInv', [Next]_vars
      PROVE  [\A t \in Tab :
                user[t] /\ ~user'[t] /\ form[t].at \notin {"logout", "out"}
                => disturbed' \/ crossed' \/ session'[newest].why = "logout"]_vars
  <2> SUFFICES ASSUME Next, NEW t \in Tab, user[t], ~user'[t],
                      form[t].at \notin {"logout", "out"},
                      ~disturbed', ~crossed'
               PROVE  session'[newest].why = "logout"
    BY <1>1
  <2>1. newest # 0
    BY <1>1 DEF IInv, Structure, UsersOK
  <2>2. ASSUME NEW u \in Tab, RefreshDenied(u)
        PROVE  session'[newest].why = "logout"
    <3>1. cookie' = Nothing /\ newest' = newest
      BY <2>2 DEF RefreshDenied
    <3>q. QED
      BY <1>1, <2>1, <3>1 DEF IInv, NewestHeld, Nothing
  <2>3. ASSUME NEW q \in Request, ReceiveRejected(q)
        PROVE  session'[newest].why = "logout"
    <3>1. /\ request[q].at = "401" /\ ~CanRefresh(q)
          /\ ~disturbed /\ ~crossed /\ ~Crosses(request[q].tok)
          /\ session' = session
      BY <2>3 DEF ReceiveRejected, server
    <3>2. NewestHeld /\ RetryOK(q)
      BY <1>1, <3>1 DEF IInv, Undisturbed
    <3>3. CASE session[newest].why = "logout"
      BY <3>1, <3>3
    <3>4. CASE cookie.sid = newest
      <4>1. cookie # Nothing /\ token # Nothing
        BY <1>1, <2>1, <3>4, Types DEF Nothing
      <4>2. request[q].retried
        BY <3>1, <4>1 DEF CanRefresh
      <4>3. ~Live(request[q].tok.sid)
        BY <3>1, <3>2, <4>2 DEF RetryOK
      <4>4. request[q].tok.sid = newest
        BY <3>1, <3>4, <4>1 DEF Crosses
      <4>q. QED
        BY <1>1, <2>1, <3>1, <4>3, <4>4, NewestLive
    <3>q. QED
      BY <2>1, <3>2, <3>3, <3>4 DEF NewestHeld
  <2>q. QED
    BY <1>1, <2>2, <2>3, SignOutSteps, Types
<1>q. QED
  BY <1>1, Inductive, PTL DEF Spec, NoFalseSignOut
=============================================================================
