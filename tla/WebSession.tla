----------------------------- MODULE WebSession -----------------------------
(***************************************************************************)
(* The session of a browser.  All tabs share what session.ts keeps in      *)
(* localStorage, and the cookie with a role that proxy.ts looks at; each   *)
(* request reads the stored session anew, and one that is answered with    *)
(* 401 has the session refreshed and is made again.  Requests of one page  *)
(* and of several tabs overlap, their answers may be lost, and guards,     *)
(* sign-ins and sign-outs run while older requests are still under way.    *)
(*                                                                         *)
(* A pair is an access token with its refresh session at the server.  What *)
(* a handler does between two awaits is one step here, in all tabs.  The   *)
(* server ends sessions for reasons of its own too: their time is over, an *)
(* administrator suspends the account, or its password is changed in       *)
(* another browser.                                                        *)
(***************************************************************************)
EXTENDS Naturals

CONSTANTS
  Account,
  AccountRole,  \* [Account -> {"parent", "nanny", "admin"}]
  Tab,
  Req,          \* bound: requests under way at a time
  MaxPairs,     \* bound: sign-ins and refreshes
  Nobody

Area == {"parent", "nanny", "admin"}

ASSUME SessionAssumptions ==
  /\ AccountRole \in [Account -> Area]
  /\ Nobody \notin Account \cup Area \cup Tab
  /\ MaxPairs \in Nat

Pair == 1..MaxPairs

VARIABLES
  pair,     \* user: whose; live: the refresh session exists; fresh: the access token is valid
  store,    \* the stored session: pair and user, and whose profile is kept with them
  cookie,   \* the role cookie
  tab,      \* at: the area of the page, or where it is without one; shown: for whom the guard let it show
  req,      \* requests under way, with what they have read
  inactive, \* the accounts that are suspended, disabled or closed
  ended,    \* pairs whose refresh session was ended by something other than the request that has them
  crossed   \* what the server has done was never heard of, or a refresh landed where its session was
            \* no longer stored

webVars == <<pair, store, cookie, tab, req, inactive, ended, crossed>>

Empty == [pair |-> 0, user |-> Nobody, profile |-> Nobody]
NoRequest == [kind |-> "none", tab |-> Nobody, admin |-> FALSE, active |-> FALSE,
         pc |-> "idle", with |-> 0, held |-> Empty, again |-> FALSE]
Away == [at |-> "sign-in", shown |-> Nobody]
Moving == [at |-> "moving", shown |-> Nobody]

RequestKind == {"none", "guard", "check", "data", "login", "logout", "leave"}
Stage == {"idle", "sent", "refresh", "rotating", "rotated", "refused", "barred", "done"}
NothingUnderWay == \A r \in Req : req[r] = NoRequest

WebTypeOK ==
  /\ pair \in [Pair -> [user : Account \cup {Nobody}, live : BOOLEAN, fresh : BOOLEAN]]
  /\ store \in [pair : 0..MaxPairs, user : Account \cup {Nobody}, profile : Account \cup {Nobody}]
  /\ cookie \in Area \cup {Nobody}
  /\ tab \in [Tab -> [at : Area \cup {"sign-in", "moving"}, shown : Account \cup {Nobody}]]
  /\ \A t \in Tab : tab[t].shown # Nobody => AccountRole[tab[t].shown] = tab[t].at
  /\ \A r \in Req :
       /\ req[r].kind \in RequestKind /\ req[r].pc \in Stage
       /\ req[r].with \in 0..MaxPairs /\ req[r].tab \in Tab \cup {Nobody}
  /\ inactive \subseteq Account /\ ended \subseteq Pair /\ crossed \in BOOLEAN

WebInit ==
  /\ pair = [k \in Pair |-> [user |-> Nobody, live |-> FALSE, fresh |-> FALSE]]
  /\ store = Empty /\ cookie = Nobody
  /\ tab = [t \in Tab |-> Away]
  /\ req = [r \in Req |-> NoRequest]
  /\ inactive = {} /\ ended = {} /\ crossed = FALSE

-----------------------------------------------------------------------------
(* session.ts *)

saveAuthSession(s) == store' = s /\ cookie' = AccountRole[s.user]
clearAuthSession == store' = Empty /\ cookie' = Nobody
KeepSession == UNCHANGED <<store, cookie>>

\* Mutant (OnePersonPerBrowser): merged with what is stored by now.
MergedWithStored(held, k) == [store EXCEPT !.pair = k, !.user = pair[k].user]

(* The session of a new pair, with the profile of the one it replaces. *)
Merged(held, k) == [held EXCEPT !.pair = k, !.user = pair[k].user]

Fresh(k) == k # 0 /\ pair[k].fresh
RoleOfPair(k) == AccountRole[pair[k].user]

(* RequireAuth and RequireRole look at the token alone; who asks who he is
   must have an account that is active, or is answered with 401 too. *)
Unauthorized(r) == ~Fresh(req[r].with)
Forbidden(r) == Fresh(req[r].with) /\ req[r].admin /\ RoleOfPair(req[r].with) # "admin"
Active(k) == pair[k].user \notin inactive
Accepted(r) == Fresh(req[r].with) /\ ~Forbidden(r) /\ Active(req[r].with)
Unknown(r) == req[r].kind \in {"guard", "check"} /\ ~Forbidden(r) /\ ~Accepted(r)

Request(kind, t, admin) ==
  [NoRequest EXCEPT !.kind = kind, !.tab = t, !.admin = admin, !.active = TRUE,
               !.pc = "sent", !.with = store.pair]
Ask(r, request) == req[r] = NoRequest /\ req' = [req EXCEPT ![r] = request]
Finish(r) == req' = [req EXCEPT ![r] = NoRequest]

(* The server has done something that the browser has yet to hear of. *)
Unheard(r) == req[r].pc \in {"rotated", "done"}

(* What is still running for the page that is left must not move the tab. *)
Replace(r, t, request) ==
  /\ req[r] = NoRequest
  /\ req' = [x \in Req |-> IF x = r THEN request
                           ELSE IF req[x].tab = t THEN [req[x] EXCEPT !.active = FALSE] ELSE req[x]]

NewPair(k) == pair[k].user = Nobody /\ \A j \in Pair : j < k => pair[j].user # Nobody
Issued(u) == [user |-> u, live |-> TRUE, fresh |-> TRUE]

-----------------------------------------------------------------------------
(* Pages *)

(* A protected page is asked for: the proxy sends a browser without the
   cookie to sign in and any other to the pages of the cookie's role, where
   the guard asks who it is.  Until it knows, the page has no links. *)
OpenPage(r, t) ==
  /\ tab[t].at \in Area => tab[t].shown # Nobody
  /\ \/ cookie = Nobody /\ tab' = [tab EXCEPT ![t] = Away] /\ tab[t] # Away
        /\ Replace(r, t, NoRequest)
     \/ cookie # Nobody /\ tab' = [tab EXCEPT ![t] = [at |-> cookie, shown |-> Nobody]]
        /\ Replace(r, t, Request("guard", t, cookie = "admin"))
  /\ UNCHANGED <<pair, store, cookie, inactive, ended, crossed>>

(* The page of the administrators' sign-in asks whether there is a session. *)
OpenAdminSignIn(r, t) ==
  /\ tab' = [tab EXCEPT ![t] = Away]
  /\ Replace(r, t, Request("check", t, TRUE))
  /\ UNCHANGED <<pair, store, cookie, inactive, ended, crossed>>

(* Any query or mutation of a page that is shown. *)
LoadData(r, t) ==
  /\ tab[t].shown # Nobody
  /\ Ask(r, Request("data", t, tab[t].at = "admin"))
  /\ UNCHANGED <<pair, store, cookie, tab, inactive, ended, crossed>>

(* The server has answered with a new pair, to be tried and then stored; of
   an account that is active (Accounts has the race with a suspension). *)
Receives(r, t, k, u) ==
  /\ tab[t] = Away /\ NewPair(k) /\ u \notin inactive
  /\ pair' = [pair EXCEPT ![k] = Issued(u)]
  /\ Ask(r, [Request("login", t, FALSE) EXCEPT !.with = k])
  /\ UNCHANGED <<store, cookie, tab, inactive, ended, crossed>>

(* The password is right. *)
LogIn(r, t, k, u) == Receives(r, t, k, u)

(* An account is made and signed in at once; administrators are invited. *)
Register(r, t, k, u) ==
  /\ AccountRole[u] # "admin" /\ \A j \in Pair : pair[j].user # u
  /\ Receives(r, t, k, u)

(* useLogout: the session to end is the one stored at the click. *)
LogOut(r, t) ==
  /\ tab[t].shown # Nobody
  /\ Ask(r, [Request("logout", t, tab[t].at = "admin") EXCEPT !.pc = IF store = Empty THEN "done" ELSE "sent"])
  /\ UNCHANGED <<pair, store, cookie, tab, inactive, ended, crossed>>

(* A new password or the end of the account, on the page of settings. *)
LeaveAccount(r, t) ==
  /\ tab[t].at = "parent" /\ tab[t].shown # Nobody
  /\ Ask(r, Request("leave", t, FALSE))
  /\ UNCHANGED <<pair, store, cookie, tab, inactive, ended, crossed>>

(* The tab is closed or loaded anew: nobody waits for its requests. *)
CloseTab(t) ==
  /\ tab[t] # Away
  /\ \A r \in Req : req[r].tab = t => req[r].pc # "rotating"
  /\ crossed' = (crossed \/ \E r \in Req : req[r].tab = t /\ Unheard(r))
  /\ req' = [r \in Req |-> IF req[r].tab = t THEN NoRequest ELSE req[r]]
  /\ tab' = [tab EXCEPT ![t] = Away]
  /\ UNCHANGED <<pair, store, cookie, inactive, ended>>

-----------------------------------------------------------------------------
(* The server *)

Expire(k) ==
  /\ pair[k].fresh
  /\ pair' = [pair EXCEPT ![k].fresh = FALSE]
  /\ UNCHANGED <<store, cookie, tab, req, inactive, ended, crossed>>

(* Refresh reads the session, which must not have been revoked or be older
   than its time, then the account, which must be active and, at their
   endpoint, an administrator's; and rotates the session without another look. *)
RefreshReads(r) ==
  /\ req[r].pc = "refresh"
  /\ LET k == req[r].held.pair
         known == pair[k].live /\ (req[r].admin => RoleOfPair(k) = "admin")
     IN req' = [req EXCEPT ![r].pc = IF ~known THEN "refused" ELSE IF Active(k) THEN "rotating" ELSE "barred"]
  /\ UNCHANGED <<pair, store, cookie, tab, inactive, ended, crossed>>

RefreshRotates(r, k) ==
  /\ req[r].pc = "rotating" /\ NewPair(k)
  /\ pair' = [pair EXCEPT ![k] = Issued(pair[req[r].held.pair].user), ![req[r].held.pair].live = FALSE]
  /\ req' = [req EXCEPT ![r].pc = "rotated", ![r].with = k]
  /\ UNCHANGED <<store, cookie, tab, inactive, ended, crossed>>

(* Logout deletes one session, of an administrator if it is their endpoint. *)
LogoutRevokes(r) ==
  /\ req[r].kind = "logout" /\ req[r].pc = "sent"
  /\ pair' = IF req[r].admin /\ RoleOfPair(req[r].with) # "admin" THEN pair
             ELSE [pair EXCEPT ![req[r].with].live = FALSE]
  /\ req' = [req EXCEPT ![r].pc = "done"]
  /\ UNCHANGED <<store, cookie, tab, inactive, ended, crossed>>

EndAll(u) ==
  pair' = [k \in Pair |-> IF pair[k].user = u THEN [pair[k] EXCEPT !.live = FALSE] ELSE pair[k]]
LivesOf(u) == {k \in Pair : pair[k].user = u /\ pair[k].live}

(* ... and an account that is left is closed, or has a new password; a
   sign-in to it that is under way is ended by it. *)
LeaveRevokes(r) ==
  /\ req[r].kind = "leave" /\ req[r].pc = "sent" /\ Accepted(r)
  /\ LET u == pair[req[r].with].user
     IN /\ EndAll(u)
        /\ ended' = ended \cup {k \in LivesOf(u) : \E x \in Req : req[x].kind = "login" /\ req[x].with = k}
        /\ inactive' \in {inactive, inactive \cup {u}}
  /\ req' = [req EXCEPT ![r].pc = "done"]
  /\ UNCHANGED <<store, cookie, tab, crossed>>

(* A session has a time to live, and its access token a shorter one. *)
SessionExpires(k) ==
  /\ pair[k].live /\ ~pair[k].fresh
  /\ pair' = [pair EXCEPT ![k].live = FALSE] /\ ended' = ended \cup {k}
  /\ UNCHANGED <<store, cookie, tab, req, inactive, crossed>>

(* A new password, from the page of a recovery link or in another browser:
   the sessions of the account end.  Administrators have neither page. *)
ResetPassword(u) ==
  /\ AccountRole[u] # "admin" /\ u \notin inactive /\ LivesOf(u) # {}
  /\ EndAll(u) /\ ended' = ended \cup LivesOf(u)
  /\ UNCHANGED <<store, cookie, tab, req, inactive, crossed>>

(* An administrator suspends the account or disables one of their own, or it
   is closed in another browser; and takes that back. *)
LockOut(u) ==
  /\ u \notin inactive /\ \E k \in Pair : pair[k].user = u
  /\ EndAll(u) /\ ended' = ended \cup LivesOf(u)
  /\ inactive' = inactive \cup {u}
  /\ UNCHANGED <<store, cookie, tab, req, crossed>>

LetBackIn(u) ==
  /\ u \in inactive /\ inactive' = inactive \ {u}
  /\ UNCHANGED <<pair, store, cookie, tab, req, ended, crossed>>

-----------------------------------------------------------------------------
(* apiRequest and refreshStoredSession *)

\* Mutant (LiveSessionIsKept): every failure ends the session.
FailForAll(r) ==
  /\ Finish(r) /\ clearAuthSession
  /\ tab' = [tab EXCEPT ![req[r].tab] = Away]

(* A request has failed for good.  The guards and the check take that for
   the end of the session, whatever failed. *)
FailFor(r) ==
  /\ Finish(r)
  /\ IF req[r].kind \in {"guard", "check"} THEN clearAuthSession ELSE KeepSession
  /\ tab' = IF req[r].kind = "guard" /\ req[r].active
            THEN [tab EXCEPT ![req[r].tab] = Away] ELSE tab

(* 401, which a wrong password is answered with as well: refresh, once. *)
Retries(r) == req[r].kind \in {"guard", "check", "data", "leave"} /\ ~req[r].again
Answer401(r) ==
  /\ req[r].pc = "sent" /\ Retries(r)
  /\ Unauthorized(r) \/ Unknown(r) \/ req[r].kind = "leave"
  /\ IF store = Empty
     THEN FailFor(r)
     ELSE /\ req' = [req EXCEPT ![r].pc = "refresh", ![r].held = store, ![r].again = TRUE]
          /\ KeepSession /\ UNCHANGED tab
  /\ UNCHANGED <<pair, inactive, ended, crossed>>

(* The answer to a refresh replaces what is stored by then.  An answer
   without a user, as the administrators' endpoint gives it, counts as a
   refusal, and a refusal ends whatever session is stored by then. *)
RefreshAnswered(r) ==
  /\ req[r].pc = "rotated" /\ ~req[r].admin
  /\ saveAuthSession(Merged(req[r].held, req[r].with))
  /\ req' = [req EXCEPT ![r].pc = "sent", ![r].held = Empty]
  /\ crossed' = (crossed \/ store # req[r].held)
  /\ UNCHANGED <<pair, tab, inactive, ended>>

RefreshRefused(r) ==
  /\ req[r].pc \in {"refused", "barred"} \/ (req[r].pc = "rotated" /\ req[r].admin)
  /\ Finish(r) /\ clearAuthSession
  /\ tab' = IF req[r].kind = "guard" /\ req[r].active THEN [tab EXCEPT ![req[r].tab] = Away] ELSE tab
  /\ UNCHANGED <<pair, inactive, ended, crossed>>

(* A request that is refused for good, or whose answer does not arrive. *)
RequestFails(r) ==
  /\ req[r].kind \in {"guard", "check", "data", "leave"}
  /\ req[r].pc \in {"sent", "refresh", "rotated"}
  /\ FailFor(r)
  /\ crossed' = (crossed \/ Unheard(r))
  /\ UNCHANGED <<pair, inactive, ended>>

-----------------------------------------------------------------------------
(* What the callers do with the answer *)

GuardLetsIn(r) ==
  /\ req[r].kind = "guard" /\ req[r].pc = "sent" /\ Accepted(r)
  /\ Finish(r) /\ KeepSession
  /\ LET t == req[r].tab
         u == pair[req[r].with].user
     IN tab' = IF ~req[r].active THEN tab
               ELSE [tab EXCEPT ![t] = IF AccountRole[u] = tab[t].at
                                       THEN [at |-> tab[t].at, shown |-> u] ELSE Moving]
  /\ UNCHANGED <<pair, inactive, ended, crossed>>

CheckFindsAdmin(r) ==
  /\ req[r].kind = "check" /\ req[r].pc = "sent" /\ Accepted(r)
  /\ Finish(r) /\ KeepSession
  /\ tab' = IF req[r].active THEN [tab EXCEPT ![req[r].tab] = Moving] ELSE tab
  /\ UNCHANGED <<pair, inactive, ended, crossed>>

Loaded(r) ==
  /\ req[r].kind = "data" /\ req[r].pc = "sent" /\ ~Unauthorized(r)
  /\ Finish(r)
  /\ UNCHANGED <<pair, store, cookie, tab, inactive, ended, crossed>>

(* establishAuthSession: the new tokens are tried before they are stored. *)
LoginEnds(r) ==
  /\ req[r].kind = "login" /\ req[r].pc = "sent"
  /\ Finish(r)
  /\ LET u == pair[req[r].with].user
     IN \/ /\ Accepted(r)
           /\ saveAuthSession([pair |-> req[r].with, user |-> u, profile |-> u])
           /\ tab' = [tab EXCEPT ![req[r].tab] = Moving]
        \/ clearAuthSession /\ UNCHANGED tab
  /\ UNCHANGED <<pair, inactive, ended, crossed>>

\* Mutant (StoredSessionLives): only the page is left.
SignOutOfPage(r) ==
  /\ req[r].kind = "logout" /\ req[r].pc \in {"sent", "done"}
  /\ Finish(r) /\ KeepSession
  /\ tab' = [tab EXCEPT ![req[r].tab] = Away]
  /\ UNCHANGED <<pair, inactive, ended, crossed>>

(* Sign-out is final for the browser whether or not the server heard of it;
   a new password and a closed account only once it is known to have worked. *)
SignOut(r) ==
  /\ \/ req[r].kind = "logout" /\ req[r].pc \in {"sent", "done"}
     \/ req[r].kind = "leave" /\ req[r].pc = "done"
  /\ Finish(r) /\ clearAuthSession
  /\ tab' = [tab EXCEPT ![req[r].tab] = Away]
  /\ UNCHANGED <<pair, inactive, ended, crossed>>

LeaveIsNotHeardOf(r) ==
  /\ req[r].kind = "leave" /\ req[r].pc = "done"
  /\ Finish(r) /\ crossed' = TRUE
  /\ UNCHANGED <<pair, store, cookie, tab, inactive, ended>>

-----------------------------------------------------------------------------
ServerActs(r) ==
  \/ \E k \in Pair : RefreshRotates(r, k)
  \/ RefreshReads(r) \/ LogoutRevokes(r) \/ LeaveRevokes(r)

BrowserActs(r) ==
  \/ Answer401(r) \/ RefreshAnswered(r) \/ RefreshRefused(r) \/ RequestFails(r)
  \/ GuardLetsIn(r) \/ CheckFindsAdmin(r) \/ Loaded(r) \/ LoginEnds(r)
  \/ SignOut(r) \/ LeaveIsNotHeardOf(r)

WebNext ==
  \/ \E r \in Req : ServerActs(r) \/ BrowserActs(r)
  \/ \E r \in Req, t \in Tab :
       \/ OpenPage(r, t) \/ OpenAdminSignIn(r, t) \/ LoadData(r, t) \/ LogOut(r, t) \/ LeaveAccount(r, t)
       \/ \E k \in Pair, u \in Account : LogIn(r, t, k, u) \/ Register(r, t, k, u)
  \/ \E t \in Tab : CloseTab(t)
  \/ \E k \in Pair : Expire(k) \/ SessionExpires(k)
  \/ \E u \in Account : ResetPassword(u) \/ LockOut(u) \/ LetBackIn(u)

(* A request is served, or fails, in the end. *)
WebFairness == \A r \in Req : WF_webVars(ServerActs(r) \/ BrowserActs(r))

WebSpec == WebInit /\ [][WebNext]_webVars /\ WebFairness

-----------------------------------------------------------------------------
(* The stored tokens, user and profile and the role cookie are always of
   one account, whichever tab wrote them and whatever it had read before. *)
OnePersonPerBrowser ==
  IF store = Empty THEN cookie = Nobody
  ELSE /\ pair[store.pair].user = store.user /\ store.profile = store.user
       /\ cookie = AccountRole[store.user]

(* When nothing is under way, the server still knows the stored session,
   unless it ended without a request of its own: its time was over, the
   account was suspended, disabled or closed elsewhere, or its password was
   changed elsewhere or while this browser signed in (ended); or an answer was
   lost, or a refresh brought back a session that was no longer stored
   (crossed).  No refresh, sign-out or change of the password that is heard of
   leaves a dead session behind. *)
StoredSessionLives ==
  NothingUnderWay /\ store # Empty =>
    pair[store.pair].live \/ store.pair \in ended \/ crossed

(* A session that the server still knows is thrown away only by a sign-out,
   by a guard, a check or a sign-in that failed, by a refusal that was about
   another session or an account that was not active, and by the refresh of an
   administrator. *)
LiveSessionIsKept ==
  [][store # Empty /\ store' = Empty /\ pair[store.pair].live =>
       \E r \in Req : /\ req[r] # NoRequest /\ req'[r] = NoRequest
                      /\ \/ req[r].kind # "data" \/ req[r].admin
                         \/ req[r].pc = "refused" /\ req[r].held # store
                         \/ req[r].pc = "barred"]_webVars

(* A refreshed session is stored when the answer arrives ("rotate admin
   access/refresh tokens", ENDPOINTS.md:29); without one nothing changes. *)
RotatedSessionIsStored ==
  [][\A r \in Req : req[r].kind = "data" /\ req[r].pc = "rotated" /\ req'[r].pc # "rotated" =>
       store'.pair = req[r].with \/ store' = store]_webVars
=============================================================================
