-------------------------- MODULE WebSessionProofs --------------------------
(***************************************************************************)
(* What is stored in a browser is of one person, for any number of         *)
(* accounts, tabs, requests and refreshes.  The argument: the server never *)
(* gives a pair of tokens another owner and never revives an ended session *)
(* (PairStep), so that what a request has read stays true of the pair it   *)
(* has read, although the store may have changed; and a refresh writes     *)
(* back all that it had read, never a part of it.                          *)
(***************************************************************************)
EXTENDS WebSession, TLAPS

Session == [pair : 0..MaxPairs, user : Account \cup {Nobody}, profile : Account \cup {Nobody}]
TokenPair == [user : Account \cup {Nobody}, live : BOOLEAN, fresh : BOOLEAN]
Page == [at : Area \cup {"sign-in", "moving"}, shown : Account \cup {Nobody}]
RequestState ==
  [kind : RequestKind, tab : Tab \cup {Nobody}, admin : BOOLEAN, active : BOOLEAN,
   pc : Stage, with : 0..MaxPairs, held : Session, again : BOOLEAN]

\* A session is empty or of one account, which p says is the owner of its pair.
Coherent(s, p) ==
  s = Empty \/ (s.pair \in Pair /\ s.user \in Account /\ p[s.pair].user = s.user /\ s.profile = s.user)

\* What a request has read and received is true of the pairs p.
Good(q, p) ==
  /\ q \in RequestState
  /\ Coherent(q.held, p)
  /\ q.with # 0 => p[q.with].user \in Account
  /\ q.pc \in {"refresh", "rotating", "rotated"} => q.held # Empty
  /\ q.pc = "rotated" => q.with \in Pair /\ p[q.with].user = q.held.user
  /\ q.pc = "refused" /\ ~q.admin => q.held # Empty /\ ~p[q.held.pair].live

PageOK(x) == x \in Page /\ (x.shown # Nobody => AccountRole[x.shown] = x.at)

FlagsOK == inactive \subseteq Account /\ ended \subseteq Pair /\ crossed \in BOOLEAN

IInv ==
  /\ pair \in [Pair -> TokenPair]
  /\ store \in Session /\ Coherent(store, pair)
  /\ cookie = IF store = Empty THEN Nobody ELSE AccountRole[store.user]
  /\ DOMAIN tab = Tab /\ tab = [t \in Tab |-> tab[t]] /\ \A t \in Tab : PageOK(tab[t])
  /\ DOMAIN req = Req /\ req = [r \in Req |-> req[r]] /\ \A r \in Req : Good(req[r], pair)
  /\ FlagsOK

USE SessionAssumptions

-----------------------------------------------------------------------------
(* What a step may do to each part of the state *)

\* An owner is for ever, and so is the end of a session.
PairStep ==
  /\ pair' \in [Pair -> TokenPair]
  /\ \A k \in Pair : pair[k].user \in Account =>
       pair'[k].user = pair[k].user /\ (~pair[k].live => ~pair'[k].live)

StoreStep ==
  \/ UNCHANGED <<store, cookie>>
  \/ clearAuthSession
  \/ \E s \in Session : s # Empty /\ Coherent(s, pair') /\ saveAuthSession(s)

TabStep == DOMAIN tab' = Tab /\ tab' = [t \in Tab |-> tab'[t]] /\ \A t \in Tab : PageOK(tab'[t])
ReqStep == DOMAIN req' = Req /\ req' = [r \in Req |-> req'[r]] /\ \A r \in Req : Good(req'[r], pair')

LEMMA CoherentStays ==
  ASSUME PairStep, NEW s, Coherent(s, pair)
  PROVE  Coherent(s, pair')
  BY DEF Coherent, PairStep

LEMMA GoodStays ==
  ASSUME PairStep, NEW q, Good(q, pair)
  PROVE  Good(q, pair')
  <1>1. q \in RequestState /\ Coherent(q.held, pair) /\ Coherent(q.held, pair')
    BY CoherentStays DEF Good
  <1>2. q.with # 0 => q.with \in Pair
    BY <1>1 DEF RequestState, Pair
  <1>3. q.held # Empty => q.held.pair \in Pair /\ pair[q.held.pair].user \in Account
    BY <1>1 DEF Coherent
  <1>4. q.with # 0 => pair'[q.with].user = pair[q.with].user
    BY <1>2 DEF Good, PairStep
  <1>5. q.held # Empty /\ ~pair[q.held.pair].live => ~pair'[q.held.pair].live
    BY <1>3 DEF PairStep
  <1>6. q.pc = "rotated" => q.with # 0
    BY SMT DEF Good, Pair
  <1> QED BY <1>1, <1>4, <1>5, <1>6 DEF Good

LEMMA EmptySession == Empty \in Session /\ Empty.pair = 0 /\ \A p : Coherent(Empty, p)
  BY DEF Empty, Session, Coherent

LEMMA NoRequestIsGood == \A p : Good(NoRequest, p)
  <1>1. NoRequest \in RequestState /\ NoRequest.held = Empty /\ NoRequest.with = 0 /\ NoRequest.pc = "idle"
    BY EmptySession DEF NoRequest, RequestState, RequestKind, Stage
  <1> QED BY <1>1, EmptySession DEF Good

LEMMA PagesAreOK == PageOK(Away) /\ PageOK(Moving)
  BY DEF PageOK, Page, Away, Moving

LEMMA Step ==
  ASSUME IInv, PairStep, StoreStep, TabStep, ReqStep, FlagsOK'
  PROVE  IInv'
  <1>1. store' \in Session /\ Coherent(store', pair')
    <2>1. CASE UNCHANGED <<store, cookie>>
      BY <2>1, CoherentStays DEF IInv
    <2>2. CASE clearAuthSession
      BY <2>2, EmptySession DEF clearAuthSession
    <2>3. CASE \E s \in Session : s # Empty /\ Coherent(s, pair') /\ saveAuthSession(s)
      BY <2>3 DEF saveAuthSession
    <2> QED BY <2>1, <2>2, <2>3 DEF StoreStep
  <1>2. cookie' = IF store' = Empty THEN Nobody ELSE AccountRole[store'.user]
    BY DEF StoreStep, IInv, clearAuthSession, saveAuthSession
  <1> QED BY <1>1, <1>2 DEF IInv, PairStep, TabStep, ReqStep

LEMMA PairKept == IInv /\ UNCHANGED pair => PairStep
  BY DEF IInv, PairStep

LEMMA TabKept == IInv /\ UNCHANGED tab => TabStep
  BY DEF IInv, TabStep

LEMMA TabMoves ==
  ASSUME IInv, NEW t, NEW x, PageOK(x), tab' = [tab EXCEPT ![t] = x]
  PROVE  TabStep
  BY DEF IInv, TabStep

LEMMA ReqKept == IInv /\ PairStep /\ UNCHANGED req => ReqStep
  BY GoodStays DEF IInv, ReqStep

LEMMA ReqMoves ==
  ASSUME IInv, PairStep, NEW r \in Req, NEW q, Good(q, pair'), req' = [req EXCEPT ![r] = q]
  PROVE  ReqStep
  BY GoodStays DEF IInv, ReqStep

LEMMA ReqFinishes ==
  ASSUME IInv, PairStep, NEW r \in Req, Finish(r)
  PROVE  ReqStep
  BY ReqMoves, NoRequestIsGood DEF Finish

\* A request that is made now, with the session that is stored now.
LEMMA RequestIsGood ==
  ASSUME IInv, NEW kind \in RequestKind, NEW t \in Tab, NEW admin \in BOOLEAN
  PROVE  Good(Request(kind, t, admin), pair)
  <1>1. store.pair \in 0..MaxPairs /\ (store.pair # 0 => pair[store.pair].user \in Account)
    BY EmptySession DEF IInv, Session, Coherent
  <1>2. NoRequest \in RequestState /\ NoRequest.held = Empty
    BY NoRequestIsGood DEF Good, NoRequest
  <1> DEFINE none == NoRequest
             q == [none EXCEPT !.kind = kind, !.tab = t, !.admin = admin, !.active = TRUE,
                               !.pc = "sent", !.with = store.pair]
  <1>3. Request(kind, t, admin) = q
    BY DEF Request
  <1> HIDE DEF none
  <1>4. q \in RequestState /\ q.held = Empty /\ q.pc = "sent" /\ q.with = store.pair
    <2>1. none \in RequestState /\ none.held = Empty
      BY <1>2 DEF none
    <2> QED BY <1>1, <2>1 DEF RequestState, Stage
  <1> HIDE DEF q
  <1>5. Good(q, pair)
    BY <1>1, <1>4, EmptySession DEF Good
  <1> QED BY <1>3, <1>5

LEMMA RequestIsHeld ==
  ASSUME IInv, NEW r \in Req
  PROVE  Good(req[r], pair) /\ req[r] \in RequestState
  BY DEF IInv, Good

\* A request that goes on to another stage with what it has.
LEMMA GoodAtStage ==
  ASSUME NEW p, NEW q, Good(q, p), NEW pc \in {"sent", "done"}
  PROVE  Good([q EXCEPT !.pc = pc], p)
  <1> DEFINE n == [q EXCEPT !.pc = pc]
  <1>1. q \in RequestState
    BY DEF Good
  <1>2. n \in RequestState /\ n.pc = pc /\ n.held = q.held /\ n.with = q.with /\ n.admin = q.admin
    BY <1>1 DEF RequestState, Stage
  <1> HIDE DEF n
  <1>3. Good(n, p)
    BY <1>2 DEF Good
  <1> QED BY <1>3 DEF n

LEMMA ReqReplaced ==
  ASSUME IInv, NEW r \in Req, NEW t, NEW q, Good(q, pair), UNCHANGED pair, Replace(r, t, q)
  PROVE  ReqStep
  <1>1. req' = [x \in Req |-> IF x = r THEN q
                ELSE IF req[x].tab = t THEN [req[x] EXCEPT !.active = FALSE] ELSE req[x]]
    BY DEF Replace
  <1>2. ASSUME NEW x \in Req PROVE Good([req[x] EXCEPT !.active = FALSE], pair)
    <2> DEFINE n == [req[x] EXCEPT !.active = FALSE]
    <2>1. n \in RequestState /\ n.pc = req[x].pc /\ n.held = req[x].held /\ n.with = req[x].with
          /\ n.admin = req[x].admin
      BY RequestIsHeld DEF RequestState
    <2> HIDE DEF n
    <2>2. Good(n, pair)
      BY <2>1, RequestIsHeld DEF Good
    <2> QED BY <2>2 DEF n
  <1>3. ASSUME NEW x \in Req PROVE Good(req'[x], pair')
    BY <1>1, <1>2, <1>3, RequestIsHeld
  <1> QED BY <1>1, <1>3 DEF ReqStep

-----------------------------------------------------------------------------
(* Pages *)

LEMMA InvOpenPage == ASSUME IInv, NEW r \in Req, NEW t \in Tab, OpenPage(r, t) PROVE IInv'
  <1>1. UNCHANGED pair /\ UNCHANGED <<store, cookie>> /\ UNCHANGED <<inactive, ended, crossed>>
    BY DEF OpenPage
  <1>2. PairStep /\ StoreStep /\ FlagsOK'
    BY <1>1, PairKept DEF StoreStep, IInv, FlagsOK
  <1>3. CASE cookie = Nobody /\ tab' = [tab EXCEPT ![t] = Away] /\ Replace(r, t, NoRequest)
    BY <1>1, <1>2, <1>3, TabMoves, PagesAreOK, NoRequestIsGood, ReqReplaced, Step
  <1>4. CASE cookie # Nobody /\ tab' = [tab EXCEPT ![t] = [at |-> cookie, shown |-> Nobody]]
             /\ Replace(r, t, Request("guard", t, cookie = "admin"))
    <2>1. PageOK([at |-> cookie, shown |-> Nobody])
      <3>1. cookie \in Area
        BY <1>4 DEF IInv, Coherent
      <3> QED BY <3>1 DEF PageOK, Page
    <2>2. (cookie = "admin") \in BOOLEAN /\ "guard" \in RequestKind
      BY DEF RequestKind
    <2>3. Good(Request("guard", t, cookie = "admin"), pair)
      BY <2>2, RequestIsGood
    <2> QED BY <1>1, <1>2, <1>4, <2>1, <2>3, TabMoves, ReqReplaced, Step
  <1> QED BY <1>3, <1>4 DEF OpenPage

LEMMA InvOpenAdminSignIn ==
  ASSUME IInv, NEW r \in Req, NEW t \in Tab, OpenAdminSignIn(r, t) PROVE IInv'
  <1>1. PairStep /\ StoreStep /\ FlagsOK' /\ UNCHANGED pair
    BY PairKept DEF OpenAdminSignIn, StoreStep, IInv, FlagsOK
  <1>2. Good(Request("check", t, TRUE), pair)
    BY RequestIsGood DEF RequestKind
  <1> QED BY <1>1, <1>2, TabMoves, PagesAreOK, ReqReplaced, Step DEF OpenAdminSignIn

LEMMA InvAsks ==
  ASSUME IInv, NEW r \in Req, NEW t \in Tab, LoadData(r, t) \/ LogOut(r, t) \/ LeaveAccount(r, t)
  PROVE  IInv'
  <1>1. UNCHANGED <<pair, store, cookie, tab, inactive, ended, crossed>>
    BY DEF LoadData, LogOut, LeaveAccount
  <1>2. PairStep /\ StoreStep /\ TabStep /\ FlagsOK'
    BY <1>1, PairKept, TabKept DEF StoreStep, IInv, FlagsOK
  <1>3. \A kind \in {"data", "leave", "logout"}, admin \in BOOLEAN : Good(Request(kind, t, admin), pair)
    BY RequestIsGood DEF RequestKind
  <1>4. \E q : Good(q, pair) /\ req' = [req EXCEPT ![r] = q]
    <2>1. CASE LoadData(r, t)
      BY <1>3, <2>1 DEF LoadData, Ask
    <2>2. CASE LeaveAccount(r, t)
      BY <1>3, <2>2 DEF LeaveAccount, Ask
    <2>3. CASE LogOut(r, t)
      <3> DEFINE q == Request("logout", t, tab[t].at = "admin")
      <3>1. Good(q, pair)
        BY <1>3
      <3>2. (IF store = Empty THEN "done" ELSE "sent") \in {"sent", "done"}
        OBVIOUS
      <3>3. Good([q EXCEPT !.pc = IF store = Empty THEN "done" ELSE "sent"], pair)
        BY <3>1, <3>2, GoodAtStage
      <3> QED BY <2>3, <3>3 DEF LogOut, Ask
    <2> QED BY <2>1, <2>2, <2>3
  <1>5. ReqStep
    BY <1>1, <1>2, <1>4, ReqMoves
  <1> QED BY <1>2, <1>5, Step

LEMMA InvReceives ==
  ASSUME IInv, NEW r \in Req, NEW t \in Tab, NEW k \in Pair, NEW u \in Account, Receives(r, t, k, u)
  PROVE  IInv'
  <1>1. /\ pair[k].user = Nobody /\ pair' = [pair EXCEPT ![k] = Issued(u)]
        /\ UNCHANGED <<store, cookie, tab, inactive, ended, crossed>>
        /\ req' = [req EXCEPT ![r] = [Request("login", t, FALSE) EXCEPT !.with = k]]
    BY DEF Receives, NewPair, Ask
  <1>2. Issued(u) \in TokenPair /\ Issued(u).user = u
    BY DEF Issued, TokenPair
  <1>3. PairStep
    BY <1>1, <1>2 DEF PairStep, IInv
  <1>4. pair'[k].user = u
    BY <1>1, <1>2 DEF IInv
  <1>5. Good([Request("login", t, FALSE) EXCEPT !.with = k], pair')
    <2> DEFINE q == Request("login", t, FALSE)
               n == [q EXCEPT !.with = k]
    <2>1. Good(q, pair') /\ q.pc = "sent"
      <3>1. Good(q, pair)
        BY RequestIsGood DEF RequestKind
      <3> QED BY <1>3, <3>1, GoodStays DEF Request, NoRequest
    <2> HIDE DEF q
    <2>2. n \in RequestState /\ n.pc = q.pc /\ n.held = q.held /\ n.with = k /\ n.admin = q.admin
      BY <2>1 DEF Good, RequestState, Pair
    <2> HIDE DEF n
    <2>3. Good(n, pair')
      BY <1>4, <2>1, <2>2 DEF Good
    <2> QED BY <2>3 DEF n, q
  <1>6. StoreStep /\ TabStep /\ ReqStep /\ FlagsOK'
    BY <1>1, <1>3, <1>5, TabKept, ReqMoves DEF StoreStep, IInv, FlagsOK
  <1> QED BY <1>3, <1>6, Step

LEMMA InvCloseTab == ASSUME IInv, NEW t \in Tab, CloseTab(t) PROVE IInv'
  <1>1. UNCHANGED pair /\ StoreStep /\ FlagsOK'
    BY DEF CloseTab, StoreStep, IInv, FlagsOK
  <1>2. PairStep
    BY <1>1, PairKept
  <1>3. TabStep
    BY TabMoves, PagesAreOK DEF CloseTab
  <1>4. req' = [r \in Req |-> IF req[r].tab = t THEN NoRequest ELSE req[r]]
    BY DEF CloseTab
  <1>5. ASSUME NEW r \in Req PROVE Good(req'[r], pair')
    BY <1>1, <1>4, NoRequestIsGood, RequestIsHeld
  <1> QED BY <1>1, <1>2, <1>3, <1>4, <1>5, Step DEF ReqStep

-----------------------------------------------------------------------------
(* The server *)

LEMMA PairsAreTyped == IInv => pair \in [Pair -> TokenPair] /\ \A k \in Pair : pair[k] \in TokenPair
  BY DEF IInv

LEMMA Ended ==
  ASSUME NEW x \in TokenPair
  PROVE  /\ [x EXCEPT !.live = FALSE] \in TokenPair /\ [x EXCEPT !.fresh = FALSE] \in TokenPair
         /\ [x EXCEPT !.live = FALSE].user = x.user /\ [x EXCEPT !.live = FALSE].live = FALSE
         /\ [x EXCEPT !.fresh = FALSE].user = x.user /\ [x EXCEPT !.fresh = FALSE].live = x.live
  BY DEF TokenPair

\* One session ends, or one access token does.
LEMMA PairEnds ==
  ASSUME IInv, NEW k,
         pair' = [pair EXCEPT ![k] = [pair[k] EXCEPT !.live = FALSE]] \/
         pair' = [pair EXCEPT ![k] = [pair[k] EXCEPT !.fresh = FALSE]]
  PROVE  PairStep
  <1>1. ASSUME NEW j \in Pair
        PROVE  /\ pair'[j] \in TokenPair /\ pair'[j].user = pair[j].user
               /\ ~pair[j].live => ~pair'[j].live
    <2>1. pair[j] \in TokenPair
      BY PairsAreTyped
    <2>2. pair'[j] \in {pair[j], [pair[j] EXCEPT !.live = FALSE], [pair[j] EXCEPT !.fresh = FALSE]}
      BY PairsAreTyped
    <2> QED BY <2>1, <2>2, Ended
  <1>2. DOMAIN pair' = Pair /\ pair' = [j \in Pair |-> pair'[j]]
    BY PairsAreTyped
  <1>3. pair' \in [Pair -> TokenPair]
    BY <1>1, <1>2
  <1> QED BY <1>1, <1>3 DEF PairStep

\* Fresh tokens and live sessions come and go; owners do not.
LEMMA InvExpire == ASSUME IInv, NEW k \in Pair, Expire(k) PROVE IInv'
  <1>1. pair' = [pair EXCEPT ![k] = [pair[k] EXCEPT !.fresh = FALSE]] /\ UNCHANGED <<store, cookie, tab, req, inactive, ended, crossed>>
    BY DEF Expire
  <1>2. PairStep
    BY <1>1, PairEnds
  <1>3. FlagsOK'
    BY <1>1 DEF IInv, FlagsOK
  <1> QED BY <1>1, <1>2, <1>3, TabKept, ReqKept, Step DEF StoreStep

\* The sessions of one account end.
LEMMA PairsRevoked ==
  ASSUME IInv, NEW u, pair' = [k \in Pair |-> IF pair[k].user = u THEN [pair[k] EXCEPT !.live = FALSE] ELSE pair[k]]
  PROVE  PairStep
  <1>1. ASSUME NEW k \in Pair
        PROVE  /\ pair'[k] \in TokenPair /\ pair'[k].user = pair[k].user
               /\ ~pair[k].live => ~pair'[k].live
    <2>1. pair[k] \in TokenPair
      BY PairsAreTyped
    <2>2. pair'[k] = pair[k] \/ pair'[k] = [pair[k] EXCEPT !.live = FALSE]
      OBVIOUS
    <2> QED BY <2>1, <2>2, Ended
  <1>2. pair' \in [Pair -> TokenPair]
    BY <1>1
  <1> QED BY <1>1, <1>2 DEF PairStep

LEMMA InvEndings ==
  ASSUME IInv, NEW u \in Account, ResetPassword(u) \/ LockOut(u) \/ LetBackIn(u)
  PROVE  IInv'
  <1>1. PairStep
    BY PairsRevoked, PairKept DEF ResetPassword, LockOut, LetBackIn, EndAll
  <1>2. UNCHANGED <<store, cookie, tab, req>> /\ FlagsOK'
    BY DEF ResetPassword, LockOut, LetBackIn, LivesOf, IInv, FlagsOK
  <1> QED BY <1>1, <1>2, TabKept, ReqKept, Step DEF StoreStep

LEMMA InvSessionExpires == ASSUME IInv, NEW k \in Pair, SessionExpires(k) PROVE IInv'
  <1>1. /\ pair' = [pair EXCEPT ![k] = [pair[k] EXCEPT !.live = FALSE]]
        /\ UNCHANGED <<store, cookie, tab, req>> /\ FlagsOK'
    BY DEF SessionExpires, IInv, FlagsOK
  <1>2. PairStep
    BY <1>1, PairEnds
  <1> QED BY <1>1, <1>2, TabKept, ReqKept, Step DEF StoreStep

\* What the server finds out about a session and its account.
LEMMA ReadsFacts ==
  ASSUME NEW r \in Req, RefreshReads(r)
  PROVE  /\ UNCHANGED <<pair, store, cookie, tab, inactive, ended, crossed>> /\ req[r].pc = "refresh"
         /\ \E pc \in {"rotating", "refused", "barred"} :
              /\ req' = [req EXCEPT ![r] = [req[r] EXCEPT !.pc = pc]]
              /\ pc = "refused" /\ ~req[r].admin => ~pair[req[r].held.pair].live
  <1> DEFINE k == req[r].held.pair
             known == pair[k].live /\ (req[r].admin => RoleOfPair(k) = "admin")
             pc == IF ~known THEN "refused" ELSE IF Active(k) THEN "rotating" ELSE "barred"
  <1>1. req' = [req EXCEPT ![r] = [req[r] EXCEPT !.pc = pc]]
    BY DEF RefreshReads
  <1>2. pc \in {"rotating", "refused", "barred"} /\ (pc = "refused" => ~known)
    OBVIOUS
  <1> HIDE DEF pc
  <1> QED BY <1>1, <1>2 DEF RefreshReads

LEMMA InvRefreshReads == ASSUME IInv, NEW r \in Req, RefreshReads(r) PROVE IInv'
  <1> DEFINE q == req[r]
  <1>1. PICK pc \in {"rotating", "refused", "barred"} :
          /\ req' = [req EXCEPT ![r] = [q EXCEPT !.pc = pc]]
          /\ pc = "refused" /\ ~q.admin => ~pair[q.held.pair].live
    BY ReadsFacts
  <1>2. Good(q, pair) /\ q.pc = "refresh"
    BY RequestIsHeld, ReadsFacts
  <1> DEFINE n == [q EXCEPT !.pc = pc]
  <1>3. req' = [req EXCEPT ![r] = n]
    BY <1>1
  <1> HIDE DEF q
  <1>4. n \in RequestState /\ n.held = q.held /\ n.with = q.with /\ n.admin = q.admin /\ n.pc = pc
    BY <1>2 DEF Good, RequestState, Stage
  <1> HIDE DEF n
  <1>5. Good(n, pair)
    BY <1>1, <1>2, <1>4 DEF Good
  <1>6. UNCHANGED pair /\ PairStep /\ TabStep /\ StoreStep /\ FlagsOK'
    BY ReadsFacts, PairKept, TabKept DEF StoreStep, IInv, FlagsOK
  <1>7. ReqStep
    BY <1>3, <1>5, <1>6, ReqMoves
  <1> QED BY <1>6, <1>7, Step

LEMMA InvRefreshRotates ==
  ASSUME IInv, NEW r \in Req, NEW k \in Pair, RefreshRotates(r, k) PROVE IInv'
  <1> DEFINE q == req[r]
             n == [[q EXCEPT !.pc = "rotated"] EXCEPT !.with = k]
             old == q.held.pair
             issued == Issued(pair[old].user)
  <1>1. /\ q.pc = "rotating" /\ pair[k].user = Nobody /\ UNCHANGED <<store, cookie, tab, inactive, ended, crossed>>
        /\ pair' = [[pair EXCEPT ![k] = issued] EXCEPT ![old].live = FALSE]
        /\ req' = [[req EXCEPT ![r].pc = "rotated"] EXCEPT ![r].with = k]
    BY DEF RefreshRotates, NewPair
  <1>2. Good(q, pair) /\ q \in RequestState
    BY RequestIsHeld
  <1>3. old \in Pair /\ pair[old].user \in Account /\ pair[old].user = q.held.user /\ old # k
    BY <1>1, <1>2 DEF Good, Coherent
  <1>4. req' = [req EXCEPT ![r] = n]
    BY <1>1 DEF IInv
  <1>5. issued \in TokenPair /\ issued.user = pair[old].user
    BY <1>3 DEF Issued, TokenPair
  <1> HIDE DEF issued
  <1>6. PairStep /\ pair'[k] = issued
    BY <1>1, <1>3, <1>5 DEF PairStep, IInv, TokenPair
  <1> HIDE DEF q
  <1>7. n \in RequestState /\ n.pc = "rotated" /\ n.held = q.held /\ n.with = k
    <2>1. k \in 0..MaxPairs /\ "rotated" \in Stage
      BY DEF Pair, Stage
    <2> QED BY <1>2, <2>1 DEF RequestState
  <1>8. Coherent(q.held, pair')
    BY <1>2, <1>6, CoherentStays DEF Good
  <1> HIDE DEF n
  <1>9. Good(n, pair')
    BY <1>1, <1>2, <1>3, <1>5, <1>6, <1>7, <1>8 DEF Good
  <1>10. StoreStep /\ TabStep /\ ReqStep /\ FlagsOK'
    BY <1>1, <1>4, <1>6, <1>9, TabKept, ReqMoves DEF StoreStep, IInv, FlagsOK
  <1> QED BY <1>6, <1>10, Step

LEMMA InvRevokes == ASSUME IInv, NEW r \in Req, LogoutRevokes(r) \/ LeaveRevokes(r) PROVE IInv'
  <1>1. UNCHANGED <<store, cookie, tab>> /\ FlagsOK'
    <2>1. CASE LogoutRevokes(r)
      BY <2>1 DEF LogoutRevokes, IInv, FlagsOK
    <2>2. CASE LeaveRevokes(r)
      <3>1. pair[req[r].with].user \in Account
        BY <2>2, RequestIsHeld DEF LeaveRevokes, Accepted, Fresh, Good
      <3> QED BY <2>2, <3>1 DEF LeaveRevokes, LivesOf, IInv, FlagsOK
    <2> QED BY <2>1, <2>2
  <1>2. PairStep
    <2>1. CASE LeaveRevokes(r)
      <3>1. EndAll(pair[req[r].with].user)
        BY <2>1 DEF LeaveRevokes
      <3>2. PICK u : pair' = [k \in Pair |-> IF pair[k].user = u THEN [pair[k] EXCEPT !.live = FALSE] ELSE pair[k]]
        BY <3>1 DEF EndAll
      <3> QED BY <3>2, PairsRevoked
    <2>2. CASE LogoutRevokes(r)
      <3>1. pair' = pair \/ pair' = [pair EXCEPT ![req[r].with] = [pair[req[r].with] EXCEPT !.live = FALSE]]
        BY <2>2 DEF LogoutRevokes
      <3> QED BY <3>1, PairEnds, PairKept
    <2> QED BY <2>1, <2>2
  <1>3. req' = [req EXCEPT ![r] = [req[r] EXCEPT !.pc = "done"]]
    BY DEF LogoutRevokes, LeaveRevokes
  <1>4. Good([req[r] EXCEPT !.pc = "done"], pair')
    BY <1>2, RequestIsHeld, GoodStays, GoodAtStage
  <1> QED BY <1>1, <1>2, <1>3, <1>4, TabKept, ReqMoves, Step DEF StoreStep

-----------------------------------------------------------------------------
(* The browser *)

\* A request is over, and at most its tab has moved.
LEMMA InvEnds ==
  ASSUME IInv, NEW r \in Req, Finish(r), UNCHANGED pair, StoreStep, FlagsOK',
         UNCHANGED tab \/ \E t, x : PageOK(x) /\ tab' = [tab EXCEPT ![t] = x]
  PROVE  IInv'
  <1>1. PairStep /\ TabStep
    BY PairKept, TabKept, TabMoves
  <1>2. ReqStep
    BY <1>1, ReqFinishes
  <1> QED BY <1>1, <1>2, Step

LEMMA InvFailFor ==
  ASSUME IInv, NEW r \in Req, FailFor(r), UNCHANGED pair, FlagsOK'
  PROVE  IInv'
  <1>1. StoreStep
    BY DEF FailFor, StoreStep, KeepSession
  <1>2. UNCHANGED tab \/ tab' = [tab EXCEPT ![req[r].tab] = Away]
    BY DEF FailFor
  <1> QED BY <1>1, <1>2, PagesAreOK, InvEnds DEF FailFor

LEMMA InvAnswer401 == ASSUME IInv, NEW r \in Req, Answer401(r) PROVE IInv'
  <1>1. UNCHANGED <<pair, inactive, ended, crossed>> /\ FlagsOK'
    BY DEF Answer401, IInv, FlagsOK
  <1>2. CASE store = Empty
    BY <1>1, <1>2, InvFailFor DEF Answer401
  <1>3. CASE store # Empty
    <2> DEFINE q == req[r]
               n == [[[q EXCEPT !.pc = "refresh"] EXCEPT !.held = store] EXCEPT !.again = TRUE]
    <2>1. req' = [req EXCEPT ![r] = n] /\ UNCHANGED <<store, cookie, tab>>
      BY <1>3 DEF Answer401, KeepSession, IInv
    <2>2. Good(q, pair) /\ store \in Session /\ Coherent(store, pair)
      BY RequestIsHeld DEF IInv
    <2> HIDE DEF q
    <2>3. n \in RequestState /\ n.pc = "refresh" /\ n.held = store /\ n.with = q.with
      BY <2>2 DEF Good, RequestState, Stage
    <2> HIDE DEF n
    <2>4. Good(n, pair)
      BY <1>3, <2>2, <2>3 DEF Good
    <2>5. PairStep /\ TabStep /\ StoreStep
      BY <1>1, <2>1, PairKept, TabKept DEF StoreStep
    <2>6. ReqStep
      BY <1>1, <2>1, <2>4, <2>5, ReqMoves
    <2> QED BY <1>1, <2>5, <2>6, Step
  <1> QED BY <1>2, <1>3

LEMMA InvRefreshAnswered == ASSUME IInv, NEW r \in Req, RefreshAnswered(r) PROVE IInv'
  <1> DEFINE q == req[r]
             k == q.with
             n == [[q EXCEPT !.pc = "sent"] EXCEPT !.held = Empty]
             h == q.held
             s == [[h EXCEPT !.pair = k] EXCEPT !.user = pair[k].user]
  <1>1. /\ q.pc = "rotated" /\ saveAuthSession(s) /\ UNCHANGED <<pair, tab>> /\ FlagsOK'
        /\ req' = [req EXCEPT ![r] = n]
    BY DEF RefreshAnswered, Merged, IInv, FlagsOK
  <1>2. Good(q, pair) /\ q \in RequestState
    BY RequestIsHeld
  <1> HIDE DEF q
  <1>3. h \in Session /\ h # Empty /\ Coherent(h, pair) /\ k \in Pair /\ pair[k].user = h.user
    BY <1>1, <1>2 DEF Good, RequestState
  <1> HIDE DEF h
  <1>4. s \in Session /\ s.pair = k /\ s.user = pair[k].user /\ s.profile = h.profile
    <2>1. k \in 0..MaxPairs /\ pair[k].user \in Account \cup {Nobody}
      BY <1>3 DEF Pair, Coherent
    <2> QED BY <1>3, <2>1 DEF Session
  <1> HIDE DEF s
  <1>5. s # Empty /\ Coherent(s, pair)
    <2>1. s.pair # 0
      BY <1>3, <1>4 DEF Pair
    <2> QED BY <1>3, <1>4, <2>1, EmptySession DEF Coherent
  <1>6. n \in RequestState /\ n.pc = "sent" /\ n.held = Empty /\ n.with = k
    BY <1>2, EmptySession DEF RequestState, Stage
  <1> HIDE DEF n
  <1>7. Good(n, pair)
    BY <1>2, <1>6, EmptySession DEF Good
  <1>8. PairStep /\ TabStep /\ StoreStep
    BY <1>1, <1>4, <1>5, PairKept, TabKept DEF StoreStep
  <1>9. ReqStep
    BY <1>1, <1>7, <1>8, ReqMoves
  <1> QED BY <1>1, <1>8, <1>9, Step

LEMMA InvRefreshRefused == ASSUME IInv, NEW r \in Req, RefreshRefused(r) PROVE IInv'
  <1>1. Finish(r) /\ clearAuthSession /\ UNCHANGED pair /\ FlagsOK'
    BY DEF RefreshRefused, IInv, FlagsOK
  <1>2. UNCHANGED tab \/ tab' = [tab EXCEPT ![req[r].tab] = Away]
    BY DEF RefreshRefused
  <1> QED BY <1>1, <1>2, PagesAreOK, InvEnds DEF StoreStep

LEMMA InvRequestFails == ASSUME IInv, NEW r \in Req, RequestFails(r) PROVE IInv'
  <1>1. FailFor(r) /\ UNCHANGED pair /\ FlagsOK'
    BY DEF RequestFails, IInv, FlagsOK
  <1> QED BY <1>1, InvFailFor

LEMMA InvLetsIn == ASSUME IInv, NEW r \in Req, GuardLetsIn(r) \/ CheckFindsAdmin(r) PROVE IInv'
  <1>1. Finish(r) /\ UNCHANGED <<pair, store, cookie>> /\ FlagsOK'
    BY DEF GuardLetsIn, CheckFindsAdmin, KeepSession, IInv, FlagsOK
  <1>2. UNCHANGED tab \/ \E t, x : PageOK(x) /\ tab' = [tab EXCEPT ![t] = x]
    <2>1. CASE CheckFindsAdmin(r)
      BY <2>1, PagesAreOK DEF CheckFindsAdmin
    <2>2. CASE GuardLetsIn(r)
      <3> DEFINE t == req[r].tab
                 u == pair[req[r].with].user
                 x == [at |-> tab[t].at, shown |-> u]
      <3>1. tab' = tab \/ tab' = [tab EXCEPT ![t] = Moving]
            \/ (AccountRole[u] = tab[t].at /\ tab' = [tab EXCEPT ![t] = x])
        BY <2>2 DEF GuardLetsIn
      <3>2. CASE AccountRole[u] = tab[t].at /\ tab' = [tab EXCEPT ![t] = x]
        <4>1. CASE t \in Tab
          <5>1. u \in Account
            BY <2>2, RequestIsHeld DEF GuardLetsIn, Accepted, Fresh, Good
          <5>2. PageOK(x)
            BY <3>2, <4>1, <5>1 DEF PageOK, Page, Area
          <5> QED BY <3>2, <5>2
        <4>2. CASE t \notin Tab
          BY <3>2, <4>2 DEF IInv
        <4> QED BY <4>1, <4>2
      <3> QED BY <3>1, <3>2, PagesAreOK
    <2> QED BY <2>1, <2>2
  <1> QED BY <1>1, <1>2, InvEnds DEF StoreStep

LEMMA InvLoginEnds == ASSUME IInv, NEW r \in Req, LoginEnds(r) PROVE IInv'
  <1> DEFINE u == pair[req[r].with].user
             s == [pair |-> req[r].with, user |-> u, profile |-> u]
  <1>1. Finish(r) /\ UNCHANGED pair /\ FlagsOK'
    BY DEF LoginEnds, IInv, FlagsOK
  <1>2. CASE Accepted(r) /\ saveAuthSession(s) /\ tab' = [tab EXCEPT ![req[r].tab] = Moving]
    <2>1. req[r].with \in Pair /\ u \in Account
      BY <1>2, RequestIsHeld DEF Accepted, Fresh, Good, RequestState, Pair
    <2>2. s \in Session /\ s # Empty /\ Coherent(s, pair)
      BY <2>1 DEF Session, Empty, Coherent, Pair
    <2> QED BY <1>1, <1>2, <2>2, PagesAreOK, InvEnds DEF StoreStep
  <1>3. CASE clearAuthSession /\ UNCHANGED tab
    BY <1>1, <1>3, InvEnds DEF StoreStep
  <1> QED BY <1>2, <1>3 DEF LoginEnds

LEMMA InvOver ==
  ASSUME IInv, NEW r \in Req, Loaded(r) \/ SignOut(r) \/ LeaveIsNotHeardOf(r)
  PROVE  IInv'
  <1>1. Finish(r) /\ UNCHANGED pair /\ FlagsOK'
    BY DEF Loaded, SignOut, LeaveIsNotHeardOf, IInv, FlagsOK
  <1>2. StoreStep
    BY DEF Loaded, SignOut, LeaveIsNotHeardOf, StoreStep
  <1>3. UNCHANGED tab \/ tab' = [tab EXCEPT ![req[r].tab] = Away]
    BY DEF Loaded, SignOut, LeaveIsNotHeardOf
  <1> QED BY <1>1, <1>2, <1>3, PagesAreOK, InvEnds

-----------------------------------------------------------------------------
LEMMA InvInit == WebInit => IInv
  <1> SUFFICES ASSUME WebInit PROVE IInv
    OBVIOUS
  <1>1. pair \in [Pair -> TokenPair]
    BY DEF WebInit, TokenPair
  <1>2. store \in Session /\ Coherent(store, pair) /\ store = Empty /\ cookie = Nobody /\ crossed \in BOOLEAN
    BY EmptySession DEF WebInit
  <1>3. DOMAIN tab = Tab /\ tab = [t \in Tab |-> tab[t]] /\ \A t \in Tab : PageOK(tab[t])
    BY PagesAreOK DEF WebInit
  <1>4. DOMAIN req = Req /\ req = [r \in Req |-> req[r]] /\ \A r \in Req : Good(req[r], pair)
    BY NoRequestIsGood DEF WebInit
  <1>5. FlagsOK
    BY DEF WebInit, FlagsOK
  <1> QED BY <1>1, <1>2, <1>3, <1>4, <1>5 DEF IInv

LEMMA InvNext == IInv /\ [WebNext]_webVars => IInv'
  <1> SUFFICES ASSUME IInv, [WebNext]_webVars PROVE IInv'
    OBVIOUS
  <1>1. CASE UNCHANGED webVars
    <2>1. FlagsOK'
      BY <1>1 DEF webVars, IInv, FlagsOK
    <2> QED BY <1>1, <2>1, PairKept, TabKept, ReqKept, Step DEF webVars, StoreStep
  <1>2. ASSUME NEW r \in Req, ServerActs(r) PROVE IInv'
    BY <1>2, InvRefreshReads, InvRefreshRotates, InvRevokes DEF ServerActs
  <1>3. ASSUME NEW r \in Req, BrowserActs(r) PROVE IInv'
    BY <1>3, InvAnswer401, InvRefreshAnswered, InvRefreshRefused, InvRequestFails, InvLetsIn, InvLoginEnds,
       InvOver DEF BrowserActs
  <1>4. ASSUME NEW r \in Req, NEW t \in Tab,
               OpenPage(r, t) \/ OpenAdminSignIn(r, t) \/ LoadData(r, t) \/ LogOut(r, t) \/ LeaveAccount(r, t)
        PROVE  IInv'
    BY <1>4, InvOpenPage, InvOpenAdminSignIn, InvAsks
  <1>5. ASSUME NEW r \in Req, NEW t \in Tab, NEW k \in Pair, NEW u \in Account,
               LogIn(r, t, k, u) \/ Register(r, t, k, u)
        PROVE  IInv'
    BY <1>5, InvReceives DEF LogIn, Register
  <1>6. ASSUME NEW t \in Tab, CloseTab(t) PROVE IInv'
    BY <1>6, InvCloseTab
  <1>7. ASSUME NEW k \in Pair, Expire(k) \/ SessionExpires(k) PROVE IInv'
    BY <1>7, InvExpire, InvSessionExpires
  <1>8. ASSUME NEW u \in Account, ResetPassword(u) \/ LockOut(u) \/ LetBackIn(u) PROVE IInv'
    BY <1>8, InvEndings
  <1> QED BY <1>1, <1>2, <1>3, <1>4, <1>5, <1>6, <1>7, <1>8 DEF WebNext

\* The invariant: what is stored and what every request has read is of one person.
THEOREM Invariance == WebSpec => []IInv
  BY InvInit, InvNext, PTL DEF WebSpec

\* WebTypeOK: with it, that no page is ever shown to somebody of another role.
THEOREM TypeCorrect == WebSpec => []WebTypeOK
  <1>1. IInv => WebTypeOK
    <2> SUFFICES ASSUME IInv PROVE WebTypeOK
      OBVIOUS
    <2>1. cookie \in Area \cup {Nobody}
      BY DEF IInv, Coherent
    <2>2. tab \in [Tab -> Page]
      BY DEF IInv, PageOK
    <2>3. \A t \in Tab : tab[t].shown # Nobody => AccountRole[tab[t].shown] = tab[t].at
      BY DEF IInv, PageOK
    <2>4. \A r \in Req : req[r].kind \in RequestKind /\ req[r].pc \in Stage
            /\ req[r].with \in 0..MaxPairs /\ req[r].tab \in Tab \cup {Nobody}
      BY RequestIsHeld DEF RequestState
    <2> QED BY <2>1, <2>2, <2>3, <2>4 DEF IInv, FlagsOK, WebTypeOK, TokenPair, Session, Page
  <1> QED BY <1>1, Invariance, PTL

\* OnePersonPerBrowser: the tokens, the user, the profile and the role cookie are of one account.
THEOREM OnePerson == WebSpec => []OnePersonPerBrowser
  <1>1. IInv => OnePersonPerBrowser
    BY DEF IInv, Coherent, OnePersonPerBrowser
  <1> QED BY <1>1, Invariance, PTL

-----------------------------------------------------------------------------
LEMMA RefreshKeeps == ASSUME IInv, NEW r \in Req, RefreshAnswered(r) PROVE store' # Empty
  <1> DEFINE h == req[r].held
             k == req[r].with
             s == [[h EXCEPT !.pair = k] EXCEPT !.user = pair[k].user]
  <1>1. store' = s /\ k \in Pair /\ h # Empty /\ h \in Session
    BY RequestIsHeld DEF RefreshAnswered, saveAuthSession, Merged, Good, RequestState
  <1> HIDE DEF h
  <1>2. s.pair = k /\ k # 0
    BY <1>1 DEF Session, Pair
  <1> QED BY <1>1, <1>2, EmptySession

\* A refusal of the very session that is stored means that it has ended.
LEMMA GivenUpByStep ==
  ASSUME IInv, WebNext, store # Empty, store' = Empty, pair[store.pair].live
  PROVE  \E r \in Req : /\ req[r] # NoRequest /\ req'[r] = NoRequest
                        /\ \/ req[r].kind # "data" \/ req[r].admin
                           \/ req[r].pc = "refused" /\ req[r].held # store
                           \/ req[r].pc = "barred"
  <1>1. \E r \in Req : RequestFails(r) \/ RefreshRefused(r) \/ LoginEnds(r) \/ SignOut(r)
    <2>1. \A r \in Req : ~RefreshAnswered(r)
      BY RefreshKeeps
    <2>2. \A r \in Req : ~ServerActs(r)
      BY DEF ServerActs, RefreshReads, RefreshRotates, LogoutRevokes, LeaveRevokes
    <2>3. \A r \in Req : BrowserActs(r) =>
            RefreshAnswered(r) \/ RequestFails(r) \/ RefreshRefused(r) \/ LoginEnds(r) \/ SignOut(r)
      BY DEF BrowserActs, Answer401, GuardLetsIn, CheckFindsAdmin, Loaded, LeaveIsNotHeardOf, KeepSession
    <2>4. \A k \in Pair : ~Expire(k) /\ ~SessionExpires(k)
      BY DEF Expire, SessionExpires
    <2>5. \A u \in Account : ~ResetPassword(u) /\ ~LockOut(u) /\ ~LetBackIn(u)
      BY DEF ResetPassword, LockOut, LetBackIn
    <2>6. \A r \in Req, t \in Tab :
            /\ ~OpenPage(r, t) /\ ~OpenAdminSignIn(r, t) /\ ~LoadData(r, t) /\ ~LogOut(r, t)
            /\ ~LeaveAccount(r, t)
            /\ \A k \in Pair, u \in Account : ~LogIn(r, t, k, u) /\ ~Register(r, t, k, u)
      <3>1. \A r \in Req, t \in Tab : ~OpenPage(r, t) /\ ~OpenAdminSignIn(r, t)
        BY DEF OpenPage, OpenAdminSignIn
      <3>2. \A r \in Req, t \in Tab : ~LoadData(r, t) /\ ~LogOut(r, t) /\ ~LeaveAccount(r, t)
        BY DEF LoadData, LogOut, LeaveAccount
      <3>3. \A r \in Req, t \in Tab, k \in Pair, u \in Account : ~Receives(r, t, k, u)
        BY DEF Receives
      <3> QED BY <3>1, <3>2, <3>3 DEF LogIn, Register
    <2>7. \A t \in Tab : ~CloseTab(t)
      BY DEF CloseTab
    <2> QED BY <2>1, <2>2, <2>3, <2>4, <2>5, <2>6, <2>7 DEF WebNext
  <1>2. PICK r \in Req : RequestFails(r) \/ RefreshRefused(r) \/ LoginEnds(r) \/ SignOut(r)
    BY <1>1
  <1>3. Finish(r) /\ req'[r] = NoRequest
    BY <1>2 DEF RequestFails, FailFor, RefreshRefused, LoginEnds, SignOut, Finish, IInv
  <1>4. req[r] # NoRequest
    BY <1>2 DEF RequestFails, RefreshRefused, LoginEnds, SignOut, NoRequest
  <1>5. CASE RequestFails(r)
    BY <1>3, <1>4, <1>5 DEF RequestFails, FailFor, KeepSession
  <1>6. CASE LoginEnds(r) \/ SignOut(r)
    BY <1>3, <1>4, <1>6 DEF LoginEnds, SignOut
  <1>7. CASE RefreshRefused(r)
    <2>1. req[r].admin \/ req[r].pc \in {"refused", "barred"}
      BY <1>7 DEF RefreshRefused
    <2>2. req[r].pc = "refused" /\ ~req[r].admin => req[r].held # store
      BY RequestIsHeld DEF Good
    <2> QED BY <1>3, <1>4, <2>1, <2>2
  <1> QED BY <1>2, <1>5, <1>6, <1>7

\* LiveSessionIsKept: a session that lives is given up only by those that may.
THEOREM LiveIsKept == WebSpec => LiveSessionIsKept
  <1>1. IInv /\ [WebNext]_webVars =>
          [store # Empty /\ store' = Empty /\ pair[store.pair].live =>
             \E r \in Req : /\ req[r] # NoRequest /\ req'[r] = NoRequest
                            /\ \/ req[r].kind # "data" \/ req[r].admin
                               \/ req[r].pc = "refused" /\ req[r].held # store
                               \/ req[r].pc = "barred"]_webVars
    BY GivenUpByStep
  <1> QED BY <1>1, Invariance, PTL DEF WebSpec, LiveSessionIsKept

-----------------------------------------------------------------------------
(* A session that is stored has not ended, but for what the server or another *)
(* browser has done to it (Kept), or somebody is about to notice.  Pairs that *)
(* are still on their way to the browser are of no other request (Apart), so  *)
(* that a stored session ends by a revocation whose request ends with a       *)
(* sign-out, or by a refresh whose answer brings its successor (Noticed).     *)

Kept(p, e, k) == p[k].live \/ k \in e
Owns(q) == q.kind = "login" \/ q.pc = "rotated"
Over(q) == q.kind \in {"logout", "leave"} /\ q.pc = "done"
Ending == \E r \in Req : Over(req[r])

Apart ==
  \A x \in Req :
    /\ req[x].kind = "login" => req[x].pc = "sent"
    /\ Owns(req[x]) =>
         /\ req[x].with \notin {0, store.pair}
         /\ \A y \in Req : /\ req[y].held.pair # req[x].with
                           /\ y # x => req[y].with # req[x].with

Noticed ==
  ~crossed =>
    /\ store # Empty /\ ~Kept(pair, ended, store.pair) =>
         Ending \/ \E r \in Req : req[r].pc = "rotated" /\ req[r].held.pair = store.pair
    /\ \A r \in Req : req[r].pc = "rotated" /\ ~Kept(pair, ended, req[r].with) =>
         Ending \/ req[r].held.pair # store.pair
    /\ \A r \in Req : req[r].kind = "login" => Kept(pair, ended, req[r].with)

LInv == IInv /\ Apart /\ Noticed

Alike(q, n) == n.kind = q.kind /\ n.pc = q.pc /\ n.with = q.with /\ n.held = q.held

LEMMA RotatedHolds ==
  ASSUME IInv, NEW r \in Req, req[r].pc = "rotated"
  PROVE  req[r].held.pair # 0 /\ req[r].with # 0 /\ req[r].held.pair \in Pair
  BY RequestIsHeld DEF Good, Coherent, Pair

\* A request goes on or ends without a pair of its own.
LEMMA MovesOn ==
  ASSUME LInv, NEW r \in Req, \A x \in Req \ {r} : Alike(req[x], req'[x]),
         ~Owns(req'[r]),
         req'[r].with \in {0, store.pair} \/ (~Owns(req[r]) /\ req'[r].with = req[r].with),
         req'[r].held.pair \in {0, store.pair, req[r].held.pair},
         pair' = pair, ended' = ended, store' \in {store, Empty}, crossed' = crossed \/ crossed' = TRUE,
         crossed' \/ store' = Empty \/ (~Over(req[r]) /\ req[r].pc # "rotated")
  PROVE  Apart' /\ Noticed'
  <1>1. Empty.pair = 0
    BY EmptySession
  <1>2. Apart'
    <2> SUFFICES ASSUME NEW x \in Req
                 PROVE  /\ req'[x].kind = "login" => req'[x].pc = "sent"
                        /\ Owns(req'[x]) =>
                             /\ req'[x].with \notin {0, store'.pair}
                             /\ \A y \in Req : /\ req'[y].held.pair # req'[x].with
                                               /\ y # x => req'[y].with # req'[x].with
      BY DEF Apart, Owns
    <2>1. CASE x = r
      BY <2>1 DEF Owns
    <2>2. CASE x # r
      <3>1. Alike(req[x], req'[x])
        BY <2>2
      <3>2. CASE ~Owns(req[x])
        BY <3>1, <3>2 DEF LInv, Apart, Owns, Alike
      <3>3. CASE Owns(req[x])
        <4>1. /\ req[x].with # 0 /\ req[x].with # store.pair
              /\ req[x].kind = "login" => req[x].pc = "sent"
              /\ \A y \in Req : /\ req[y].held.pair # req[x].with
                                /\ y # x => req[y].with # req[x].with
          BY <3>3 DEF LInv, Apart
        <4>2. \A y \in Req : /\ req'[y].held.pair # req[x].with
                             /\ y # x => req'[y].with # req[x].with
          BY <2>2, <4>1 DEF Alike
        <4>3. store'.pair # req[x].with
          BY <1>1, <4>1
        <4> QED BY <3>1, <4>1, <4>2, <4>3 DEF Alike
      <3> QED BY <3>2, <3>3
    <2> QED BY <2>1, <2>2
  <1>3. Noticed'
    <2>1. CASE crossed'
      BY <2>1 DEF Noticed
    <2>2. CASE ~crossed' /\ store' = Empty
      <3>1. \A x \in Req : req'[x].pc = "rotated" => req'[x].held.pair # store'.pair
        BY <1>1, <2>2, RotatedHolds DEF Alike, Owns, LInv
      <3>2. \A x \in Req : req'[x].kind = "login" => Kept(pair', ended', req'[x].with)
        BY <2>2 DEF Alike, Owns, LInv, Noticed
      <3> QED BY <2>2, <3>1, <3>2 DEF Noticed
    <2>3. CASE ~crossed' /\ store' = store /\ ~Over(req[r]) /\ req[r].pc # "rotated"
      <3>1. ~crossed
        BY <2>3
      <3>2. Ending => Ending'
        BY <2>3 DEF Ending, Over, Alike
      <3>3. \A x \in Req : req'[x].pc = "rotated" => Alike(req[x], req'[x]) /\ req[x].pc = "rotated"
        BY DEF Owns, Alike
      <3>4. \A x \in Req : req[x].pc = "rotated" => Alike(req[x], req'[x]) /\ req'[x].pc = "rotated"
        BY <2>3 DEF Alike
      <3>5. \A x \in Req : req'[x].kind = "login" => Alike(req[x], req'[x]) /\ req[x].kind = "login"
        BY DEF Owns, Alike
      <3>6. store' # Empty /\ ~Kept(pair', ended', store'.pair) =>
              Ending' \/ \E x \in Req : req'[x].pc = "rotated" /\ req'[x].held.pair = store'.pair
        BY <2>3, <3>1, <3>2, <3>4 DEF LInv, Noticed, Alike
      <3>7. \A x \in Req : req'[x].pc = "rotated" /\ ~Kept(pair', ended', req'[x].with) =>
              Ending' \/ req'[x].held.pair # store'.pair
        BY <2>3, <3>1, <3>2, <3>3 DEF LInv, Noticed, Alike
      <3>8. \A x \in Req : req'[x].kind = "login" => Kept(pair', ended', req'[x].with)
        BY <3>1, <3>5 DEF LInv, Noticed, Alike
      <3> QED BY <3>6, <3>7, <3>8 DEF Noticed
    <2> QED BY <2>1, <2>2, <2>3
  <1> QED BY <1>2, <1>3

LEMMA NoRequestFields ==
  NoRequest.kind = "none" /\ NoRequest.pc = "idle" /\ NoRequest.with = 0 /\ NoRequest.held = Empty
  BY DEF NoRequest

LEMMA EndsQuietly ==
  ASSUME LInv, NEW r \in Req, Finish(r),
         pair' = pair, ended' = ended, store' \in {store, Empty}, crossed' = crossed \/ crossed' = TRUE,
         crossed' \/ store' = Empty \/ (~Over(req[r]) /\ req[r].pc # "rotated")
  PROVE  Apart' /\ Noticed'
  <1>1. req'[r] = NoRequest /\ \A x \in Req \ {r} : Alike(req[x], req'[x])
    BY DEF Finish, Alike, LInv, IInv
  <1>2. ~Owns(req'[r]) /\ req'[r].with = 0 /\ req'[r].held.pair = 0
    BY <1>1, NoRequestFields, EmptySession DEF Owns
  <1> QED BY <1>1, <1>2, MovesOn

LEMMA RequestFields ==
  ASSUME IInv, NEW kind \in RequestKind, NEW t \in Tab, NEW admin \in BOOLEAN
  PROVE  LET q == Request(kind, t, admin)
         IN  q \in RequestState /\ q.kind = kind /\ q.pc = "sent" /\ q.with = store.pair /\ q.held = Empty
  <1>1. store.pair \in 0..MaxPairs
    BY DEF IInv, Session
  <1> DEFINE none == NoRequest
             q == [none EXCEPT !.kind = kind, !.tab = t, !.admin = admin, !.active = TRUE,
                               !.pc = "sent", !.with = store.pair]
  <1>2. none \in RequestState /\ none.held = Empty
    BY NoRequestIsGood, NoRequestFields DEF Good
  <1>3. Request(kind, t, admin) = q
    BY DEF Request
  <1> HIDE DEF none
  <1>4. q \in RequestState /\ q.kind = kind /\ q.pc = "sent" /\ q.with = store.pair /\ q.held = Empty
    BY <1>1, <1>2 DEF RequestState, Stage
  <1> QED BY <1>3, <1>4

\* A page asks, and what still runs for the page that was left goes on.
LEMMA PageAsks ==
  ASSUME LInv, NEW r \in Req, NEW t, NEW q, Replace(r, t, q),
         ~Owns(q), q.with \in {0, store.pair}, q.held = Empty,
         UNCHANGED <<pair, store, ended, crossed>>
  PROVE  Apart' /\ Noticed'
  <1>1. /\ req[r] = NoRequest
        /\ req' = [x \in Req |-> IF x = r THEN q
                     ELSE IF req[x].tab = t THEN [req[x] EXCEPT !.active = FALSE] ELSE req[x]]
    BY DEF Replace
  <1>2. ASSUME NEW x \in Req \ {r} PROVE Alike(req[x], req'[x])
    <2>1. req[x] \in RequestState
      BY RequestIsHeld DEF LInv
    <2>2. Alike(req[x], [req[x] EXCEPT !.active = FALSE]) /\ Alike(req[x], req[x])
      BY <2>1 DEF Alike, RequestState
    <2> QED BY <1>1, <2>2
  <1>3. req'[r] = q /\ q.held.pair = 0
    BY <1>1, EmptySession
  <1>4. ~Over(req[r]) /\ req[r].pc # "rotated"
    BY <1>1, NoRequestFields DEF Over
  <1> QED BY <1>2, <1>3, <1>4, MovesOn

LEMMA AsksApart ==
  ASSUME LInv, NEW r \in Req, NEW t \in Tab,
         OpenPage(r, t) \/ OpenAdminSignIn(r, t) \/ LoadData(r, t) \/ LogOut(r, t) \/ LeaveAccount(r, t)
  PROVE  Apart' /\ Noticed'
  <1>1. IInv /\ UNCHANGED <<pair, store, ended, crossed>>
    BY DEF LInv, OpenPage, OpenAdminSignIn, LoadData, LogOut, LeaveAccount
  <1>2. \A kind \in {"guard", "check", "data", "leave"}, admin \in BOOLEAN :
          LET q == Request(kind, t, admin)
          IN  ~Owns(q) /\ q.with \in {0, store.pair} /\ q.held = Empty
    BY <1>1, RequestFields DEF RequestKind, Owns
  <1>3. CASE OpenPage(r, t)
    <2>1. CASE Replace(r, t, NoRequest)
      BY <1>1, <2>1, NoRequestFields, PageAsks DEF Owns
    <2>2. CASE Replace(r, t, Request("guard", t, cookie = "admin"))
      BY <1>1, <1>2, <2>2, PageAsks
    <2> QED BY <1>3, <2>1, <2>2 DEF OpenPage
  <1>4. CASE OpenAdminSignIn(r, t)
    BY <1>1, <1>2, <1>4, PageAsks DEF OpenAdminSignIn
  <1>5. CASE LoadData(r, t) \/ LogOut(r, t) \/ LeaveAccount(r, t)
    <2>1. req[r] = NoRequest /\ ~Over(req[r]) /\ req[r].pc # "rotated"
      BY <1>5, NoRequestFields DEF LoadData, LogOut, LeaveAccount, Ask, Over
    <2>2. \E q : req' = [req EXCEPT ![r] = q] /\ ~Owns(q) /\ q.with \in {0, store.pair} /\ q.held = Empty
      <3>1. CASE LoadData(r, t)
        BY <1>2, <3>1 DEF LoadData, Ask
      <3>2. CASE LeaveAccount(r, t)
        BY <1>2, <3>2 DEF LeaveAccount, Ask
      <3>3. CASE LogOut(r, t)
        <4> DEFINE q == Request("logout", t, tab[t].at = "admin")
                   pc == IF store = Empty THEN "done" ELSE "sent"
                   n == [q EXCEPT !.pc = pc]
        <4>1. q \in RequestState /\ q.kind = "logout" /\ q.with = store.pair /\ q.held = Empty
          BY <1>1, RequestFields DEF RequestKind
        <4>2. req' = [req EXCEPT ![r] = n] /\ pc \in {"sent", "done"}
          BY <3>3 DEF LogOut, Ask
        <4> HIDE DEF q, pc
        <4>3. n.kind = "logout" /\ n.pc = pc /\ n.with = store.pair /\ n.held = Empty
          BY <4>1 DEF RequestState
        <4> QED BY <4>2, <4>3 DEF Owns
      <3> QED BY <1>5, <3>1, <3>2, <3>3
    <2>3. \A x \in Req \ {r} : Alike(req[x], req'[x])
      BY <2>2 DEF Alike
    <2>4. ~Owns(req'[r]) /\ req'[r].with \in {0, store.pair} /\ req'[r].held.pair = 0
      BY <1>1, <2>2, EmptySession DEF IInv
    <2> QED BY <1>1, <2>1, <2>3, <2>4, MovesOn
  <1> QED BY <1>3, <1>4, <1>5

\* The actions that only end a request.
LEMMA OverApart ==
  ASSUME LInv, NEW r \in Req,
         \/ RefreshRefused(r) \/ RequestFails(r) \/ GuardLetsIn(r) \/ CheckFindsAdmin(r) \/ Loaded(r)
         \/ SignOut(r) \/ LeaveIsNotHeardOf(r)
  PROVE  Apart' /\ Noticed'
  <1>1. Finish(r) /\ pair' = pair /\ ended' = ended /\ store' \in {store, Empty}
    BY DEF RefreshRefused, RequestFails, FailFor, GuardLetsIn, CheckFindsAdmin, Loaded, SignOut,
           LeaveIsNotHeardOf, clearAuthSession, KeepSession
  <1>2. /\ crossed' = crossed \/ crossed' = TRUE
        /\ crossed' \/ store' = Empty \/ (~Over(req[r]) /\ req[r].pc # "rotated")
    <2>1. CASE RequestFails(r)
      <3>1. crossed' = (crossed \/ Unheard(r)) /\ ~Over(req[r]) /\ (req[r].pc = "rotated" => Unheard(r))
        BY <2>1 DEF RequestFails, Over, Unheard
      <3> QED BY <3>1 DEF LInv, IInv, FlagsOK
    <2>2. CASE RefreshRefused(r) \/ SignOut(r)
      BY <2>2 DEF RefreshRefused, SignOut, clearAuthSession
    <2>3. CASE GuardLetsIn(r) \/ CheckFindsAdmin(r) \/ Loaded(r)
      BY <2>3 DEF GuardLetsIn, CheckFindsAdmin, Loaded, Over
    <2>4. CASE LeaveIsNotHeardOf(r)
      BY <2>4 DEF LeaveIsNotHeardOf
    <2> QED BY <2>1, <2>2, <2>3, <2>4
  <1> QED BY <1>1, <1>2, EndsQuietly

LEMMA AnswerApart ==
  ASSUME LInv, NEW r \in Req, Answer401(r) PROVE Apart' /\ Noticed'
  <1>1. /\ req[r].pc = "sent" /\ req[r].kind \in {"guard", "check", "data", "leave"}
        /\ pair' = pair /\ ended' = ended /\ crossed' = crossed /\ ~Over(req[r]) /\ ~Owns(req[r])
    BY DEF Answer401, Retries, Over, Owns
  <1>2. CASE store = Empty
    BY <1>1, <1>2, EndsQuietly DEF Answer401, FailFor, clearAuthSession, KeepSession
  <1>3. CASE store # Empty
    <2> DEFINE q == req[r]
               n == [[[q EXCEPT !.pc = "refresh"] EXCEPT !.held = store] EXCEPT !.again = TRUE]
    <2>1. req' = [req EXCEPT ![r] = n] /\ store' = store
      BY <1>3 DEF Answer401, KeepSession, LInv, IInv
    <2>2. q \in RequestState
      BY RequestIsHeld DEF LInv
    <2>3. q.kind # "login"
      BY <1>1
    <2> HIDE DEF q
    <2>4. n.kind = q.kind /\ n.pc = "refresh" /\ n.held = store /\ n.with = q.with
      BY <2>2 DEF RequestState
    <2> HIDE DEF n
    <2>5. ~Owns(n)
      BY <2>3, <2>4 DEF Owns
    <2>6. req'[r] = n /\ req'[r].with = req[r].with /\ \A x \in Req \ {r} : Alike(req[x], req'[x])
      BY <2>1, <2>4 DEF Alike, LInv, IInv, q
    <2> QED BY <1>1, <2>1, <2>4, <2>5, <2>6, MovesOn
  <1> QED BY <1>2, <1>3

LEMMA ReadsApart ==
  ASSUME LInv, NEW r \in Req, RefreshReads(r) PROVE Apart' /\ Noticed'
  <1> DEFINE q == req[r]
  <1>1. PICK pc \in {"rotating", "refused", "barred"} : req' = [req EXCEPT ![r] = [q EXCEPT !.pc = pc]]
    BY ReadsFacts
  <1>2. q.pc = "refresh" /\ UNCHANGED <<pair, store, ended, crossed>>
    BY ReadsFacts
  <1>3. q \in RequestState /\ q.kind # "login"
    BY <1>2, RequestIsHeld DEF LInv, Apart
  <1>4. ~Over(q) /\ ~Owns(q) /\ q.pc # "rotated"
    BY <1>2, <1>3 DEF Over, Owns
  <1> DEFINE n == [q EXCEPT !.pc = pc]
  <1>5. req' = [req EXCEPT ![r] = n]
    BY <1>1
  <1> HIDE DEF q
  <1>6. n.kind = q.kind /\ n.pc = pc /\ n.held = q.held /\ n.with = q.with
    BY <1>3 DEF RequestState
  <1> HIDE DEF n
  <1>7. ~Owns(n)
    BY <1>3, <1>6 DEF Owns
  <1>8. req'[r] = n /\ \A x \in Req \ {r} : Alike(req[x], req'[x])
    BY <1>5 DEF Alike, LInv, IInv
  <1> QED BY <1>2, <1>4, <1>6, <1>7, <1>8, MovesOn DEF q

LEMMA ApartStays ==
  ASSUME Apart, store' = store,
         \A x \in Req : \/ Alike(req[x], req'[x])
                        \/ /\ ~Owns(req'[x]) /\ req'[x].with \in {0, req[x].with}
                           /\ req'[x].held.pair \in {0, req[x].held.pair}
  PROVE  Apart'
  <1> SUFFICES ASSUME NEW x \in Req
               PROVE  /\ req'[x].kind = "login" => req'[x].pc = "sent"
                      /\ Owns(req'[x]) =>
                           /\ req'[x].with \notin {0, store'.pair}
                           /\ \A y \in Req : /\ req'[y].held.pair # req'[x].with
                                             /\ y # x => req'[y].with # req'[x].with
    BY DEF Apart, Owns
  <1>1. CASE Alike(req[x], req'[x]) /\ Owns(req[x])
    <2>1. /\ req[x].with # 0 /\ req[x].with # store.pair
          /\ req[x].kind = "login" => req[x].pc = "sent"
          /\ \A y \in Req : /\ req[y].held.pair # req[x].with
                            /\ y # x => req[y].with # req[x].with
      BY <1>1 DEF Apart
    <2>2. \A y \in Req : /\ req'[y].held.pair # req[x].with
                         /\ y # x => req'[y].with # req[x].with
      BY <2>1 DEF Alike
    <2> QED BY <1>1, <2>1, <2>2 DEF Alike
  <1>2. CASE ~Owns(req'[x])
    BY <1>2 DEF Owns
  <1>3. CASE Alike(req[x], req'[x]) /\ ~Owns(req[x])
    BY <1>2, <1>3 DEF Owns, Alike
  <1> QED BY <1>1, <1>2, <1>3

LEMMA CloseApart == ASSUME LInv, NEW t \in Tab, CloseTab(t) PROVE Apart' /\ Noticed'
  <1>1. /\ UNCHANGED <<pair, store, ended>>
        /\ crossed' = (crossed \/ \E r \in Req : req[r].tab = t /\ Unheard(r))
        /\ req' = [r \in Req |-> IF req[r].tab = t THEN NoRequest ELSE req[r]]
    BY DEF CloseTab
  <1>2. ~Owns(NoRequest) /\ ~Over(NoRequest) /\ NoRequest.with = 0 /\ NoRequest.held.pair = 0
    BY NoRequestFields, EmptySession DEF Owns, Over
  <1>3. Apart'
    BY <1>1, <1>2, ApartStays DEF LInv, Alike
  <1>4. ASSUME ~crossed' PROVE Noticed'
    <2>1. ~crossed /\ \A r \in Req : Over(req[r]) \/ req[r].pc = "rotated" => req'[r] = req[r]
      BY <1>1, <1>4 DEF Unheard, Over
    <2>2. \A r \in Req : req'[r] = req[r] \/ req'[r] = NoRequest
      BY <1>1
    <2>3. \A r \in Req : req'[r].pc = "rotated" \/ req'[r].kind = "login" => req'[r] = req[r]
      BY <2>2, NoRequestFields
    <2>4. Ending => Ending'
      BY <2>1 DEF Ending
    <2> QED BY <1>1, <2>1, <2>3, <2>4 DEF LInv, Noticed
  <1> QED BY <1>3, <1>4 DEF Noticed

\* What is kept stays kept when no request and no stored session changes.
LEMMA OutsideApart ==
  ASSUME LInv, UNCHANGED <<store, req, crossed>>,
         \A k \in Pair : Kept(pair, ended, k) => Kept(pair', ended', k)
  PROVE  Apart' /\ Noticed'
  <1>1. Apart'
    BY ApartStays DEF LInv, Alike
  <1>2. store # Empty => store.pair \in Pair
    BY DEF LInv, IInv, Coherent
  <1>3. \A x \in Req : Owns(req[x]) => req[x].with \in Pair
    BY RequestIsHeld DEF LInv, Apart, RequestState, Pair
  <1>4. Noticed'
    BY <1>2, <1>3 DEF LInv, Noticed, Ending, Owns
  <1> QED BY <1>1, <1>4

\* Access tokens expire, and sessions end behind the browser's back.
LEMMA EndingsApart ==
  ASSUME LInv,
         \/ \E k \in Pair : Expire(k) \/ SessionExpires(k)
         \/ \E u \in Account : ResetPassword(u) \/ LockOut(u) \/ LetBackIn(u)
  PROVE  Apart' /\ Noticed'
  <1>1. pair \in [Pair -> TokenPair] /\ \A k \in Pair : pair[k] \in TokenPair
    BY DEF LInv, IInv
  <1>2. UNCHANGED <<store, req, crossed>>
    BY DEF Expire, SessionExpires, ResetPassword, LockOut, LetBackIn
  <1>3. ASSUME NEW j \in Pair, Kept(pair, ended, j) PROVE Kept(pair', ended', j)
    <2>1. CASE \E k \in Pair : Expire(k)
      <3>1. PICK k \in Pair : pair' = [pair EXCEPT ![k] = [pair[k] EXCEPT !.fresh = FALSE]] /\ ended' = ended
        BY <2>1 DEF Expire
      <3>2. pair'[j].live = pair[j].live
        BY <1>1, <3>1, Ended
      <3> QED BY <1>3, <3>1, <3>2 DEF Kept
    <2>2. CASE \E k \in Pair : SessionExpires(k)
      <3>1. PICK k \in Pair : pair' = [pair EXCEPT ![k] = [pair[k] EXCEPT !.live = FALSE]]
                             /\ ended' = ended \cup {k}
        BY <2>2 DEF SessionExpires
      <3>2. j = k \/ pair'[j] = pair[j]
        BY <1>1, <3>1
      <3> QED BY <1>3, <3>1, <3>2 DEF Kept
    <2>3. CASE \E u \in Account : ResetPassword(u) \/ LockOut(u)
      <3>1. PICK u \in Account : EndAll(u) /\ ended' = ended \cup LivesOf(u)
        BY <2>3 DEF ResetPassword, LockOut
      <3>2. pair'[j] = pair[j] \/ j \in LivesOf(u) \/ ~pair[j].live
        BY <3>1 DEF EndAll, LivesOf
      <3> QED BY <1>3, <3>1, <3>2 DEF Kept
    <2>4. CASE \E u \in Account : LetBackIn(u)
      BY <1>3, <2>4 DEF LetBackIn
    <2> QED BY <2>1, <2>2, <2>3, <2>4
  <1> QED BY <1>2, <1>3, OutsideApart

\* The server ends sessions, and no request changes but the one that asked.
LEMMA RevokesApart ==
  ASSUME LInv, NEW r \in Req, LogoutRevokes(r) \/ LeaveRevokes(r)
  PROVE  Apart' /\ Noticed'
  <1>2. /\ req[r].kind \in {"logout", "leave"} /\ store' = store
        /\ req' = [req EXCEPT ![r] = [req[r] EXCEPT !.pc = "done"]]
    BY DEF LogoutRevokes, LeaveRevokes
  <1>3. /\ req'[r].kind = req[r].kind /\ req'[r].pc = "done"
        /\ req'[r].with = req[r].with /\ req'[r].held = req[r].held
    <2> DEFINE q == req[r]
    <2>1. q \in RequestState
      BY RequestIsHeld DEF LInv
    <2>2. req'[r] = [q EXCEPT !.pc = "done"]
      BY <1>2 DEF LInv, IInv
    <2> HIDE DEF q
    <2>3. LET n == [q EXCEPT !.pc = "done"]
          IN  n.kind = q.kind /\ n.pc = "done" /\ n.with = q.with /\ n.held = q.held
      BY <2>1 DEF RequestState
    <2> QED BY <2>2, <2>3 DEF q
  <1>4. \A x \in Req \ {r} : req'[x] = req[x]
    BY <1>2 DEF LInv, IInv
  <1>5. Apart'
    BY <1>2, <1>3, <1>4, ApartStays DEF LInv, Alike, Owns
  <1>6. Ending'
    BY <1>2, <1>3 DEF Ending, Over
  <1>7. ASSUME ~crossed', NEW x \in Req, req'[x].kind = "login" PROVE Kept(pair', ended', req'[x].with)
    <2>1. x # r /\ req'[x] = req[x] /\ req[x].kind = "login" /\ ~crossed
      BY <1>2, <1>3, <1>4, <1>7 DEF LogoutRevokes, LeaveRevokes
    <2>2. Kept(pair, ended, req[x].with) /\ req[x].with # 0 /\ req[x].with # req[r].with
      BY <2>1 DEF LInv, Apart, Noticed, Owns
    <2>3. req[x].with \in Pair
      BY <2>2, RequestIsHeld DEF LInv, RequestState, Pair
    <2>4. CASE LogoutRevokes(r)
      <3>1. pair' = pair \/ pair' = [pair EXCEPT ![req[r].with] = [pair[req[r].with] EXCEPT !.live = FALSE]]
        BY <2>4 DEF LogoutRevokes
      <3>2. pair'[req[x].with] = pair[req[x].with] /\ ended' = ended
        BY <2>2, <2>3, <2>4, <3>1 DEF LogoutRevokes, LInv, IInv
      <3> QED BY <2>1, <2>2, <3>2 DEF Kept
    <2>5. CASE LeaveRevokes(r)
      <3>1. PICK u : /\ EndAll(u)
                     /\ ended' = ended \cup {k \in LivesOf(u) : \E y \in Req : req[y].kind = "login" /\ req[y].with = k}
        BY <2>5 DEF LeaveRevokes
      <3>2. pair'[req[x].with] = pair[req[x].with] \/ req[x].with \in LivesOf(u) \/ ~pair[req[x].with].live
        BY <2>3, <3>1 DEF EndAll, LivesOf
      <3> QED BY <2>1, <2>2, <3>1, <3>2 DEF Kept
    <2> QED BY <2>4, <2>5
  <1>8. Noticed'
    BY <1>6, <1>7 DEF Noticed
  <1> QED BY <1>5, <1>8

\* Nobody has a pair that is new.
LEMMA NewPairIsApart ==
  ASSUME LInv, NEW r \in Req, NEW k \in Pair, pair[k].user = Nobody, store' = store,
         \A x \in Req \ {r} : req'[x] = req[x],
         req'[r].with = k, req'[r].held.pair \in {0, req[r].held.pair},
         req'[r].kind = "login" => req'[r].pc = "sent"
  PROVE  /\ Apart' /\ store.pair # k
         /\ \A x \in Req : req[x].with # k /\ req[x].held.pair # k
  <1>1. k # 0 /\ store.pair # k
    BY EmptySession DEF LInv, IInv, Coherent, Pair
  <1>2. \A x \in Req : req[x].with # k /\ req[x].held.pair # k
    BY <1>1, RequestIsHeld, EmptySession DEF LInv, Good, Coherent
  <1>3. \A y \in Req : req'[y].held.pair # k /\ (y # r => req'[y].with # k)
    BY <1>1, <1>2
  <1>4. ASSUME NEW x \in Req \ {r}, Owns(req[x])
        PROVE  \A y \in Req : /\ req'[y].held.pair # req[x].with
                              /\ y # x => req'[y].with # req[x].with
    <2>1. /\ req[x].with # 0
          /\ \A y \in Req : /\ req[y].held.pair # req[x].with
                            /\ y # x => req[y].with # req[x].with
      BY <1>4 DEF LInv, Apart
    <2> QED BY <1>2, <2>1
  <1>5. Apart'
    <2> SUFFICES ASSUME NEW x \in Req
                 PROVE  /\ req'[x].kind = "login" => req'[x].pc = "sent"
                        /\ Owns(req'[x]) =>
                             /\ req'[x].with \notin {0, store'.pair}
                             /\ \A y \in Req : /\ req'[y].held.pair # req'[x].with
                                               /\ y # x => req'[y].with # req'[x].with
      BY DEF Apart, Owns
    <2>1. CASE x = r
      BY <1>1, <1>3, <2>1
    <2>2. CASE x # r
      BY <1>4, <2>2 DEF LInv, Apart
    <2> QED BY <2>1, <2>2
  <1> QED BY <1>1, <1>2, <1>5

LEMMA ReceivesApart ==
  ASSUME LInv, NEW r \in Req, NEW t \in Tab, NEW k \in Pair, NEW u \in Account, Receives(r, t, k, u)
  PROVE  Apart' /\ Noticed'
  <1> DEFINE q == Request("login", t, FALSE)
             n == [q EXCEPT !.with = k]
  <1>1. /\ pair[k].user = Nobody /\ pair' = [pair EXCEPT ![k] = Issued(u)]
        /\ UNCHANGED <<store, ended, crossed>>
        /\ req[r] = NoRequest /\ req' = [req EXCEPT ![r] = n]
    BY DEF Receives, NewPair, Ask
  <1>2. q \in RequestState /\ q.kind = "login" /\ q.pc = "sent" /\ q.held = Empty
    BY RequestFields DEF LInv, RequestKind
  <1> HIDE DEF q
  <1>3. n.kind = "login" /\ n.pc = "sent" /\ n.held.pair = 0 /\ n.with = k
    BY <1>2, EmptySession DEF RequestState
  <1> HIDE DEF n
  <1>4. req'[r] = n /\ \A x \in Req \ {r} : req'[x] = req[x]
    BY <1>1 DEF LInv, IInv
  <1>5. Apart' /\ store.pair # k /\ \A x \in Req : req[x].with # k /\ req[x].held.pair # k
    BY <1>1, <1>3, <1>4, NewPairIsApart
  <1>6. /\ Kept(pair', ended', k)
        /\ \A j \in Pair \ {k} : Kept(pair', ended', j) <=> Kept(pair, ended, j)
    BY <1>1 DEF LInv, IInv, Issued, Kept
  <1>7. ASSUME ~crossed' PROVE Noticed'
    <2>1. ~crossed
      BY <1>1, <1>7
    <2>2. Ending => Ending'
      BY <1>1, <1>4, NoRequestFields DEF Ending, Over
    <2>3. store # Empty => store.pair \in Pair \ {k}
      BY <1>5 DEF LInv, IInv, Coherent
    <2>4. store' # Empty /\ ~Kept(pair', ended', store'.pair) =>
            Ending' \/ \E x \in Req : req'[x].pc = "rotated" /\ req'[x].held.pair = store'.pair
      <3>1. \A x \in Req : req[x].pc = "rotated" => req'[x] = req[x]
        BY <1>1, <1>4, NoRequestFields
      <3> QED BY <1>1, <1>6, <2>1, <2>2, <2>3, <3>1 DEF LInv, Noticed
    <2>5. \A x \in Req : req'[x].pc = "rotated" => req'[x] = req[x] /\ req[x].with \in Pair \ {k}
      BY <1>3, <1>4, <1>5, RequestIsHeld DEF LInv, Good
    <2>6. \A x \in Req : req'[x].pc = "rotated" /\ ~Kept(pair', ended', req'[x].with) =>
            Ending' \/ req'[x].held.pair # store'.pair
      BY <1>1, <1>6, <2>1, <2>2, <2>5 DEF LInv, Noticed
    <2>7. \A x \in Req : req'[x].kind = "login" => Kept(pair', ended', req'[x].with)
      <3> SUFFICES ASSUME NEW x \in Req, req'[x].kind = "login" PROVE Kept(pair', ended', req'[x].with)
        OBVIOUS
      <3>1. CASE x = r
        BY <1>3, <1>4, <1>6, <3>1
      <3>2. CASE x # r
        <4>1. req'[x] = req[x] /\ req[x].with \in 0..MaxPairs /\ req[x].with # k
          BY <1>4, <1>5, <3>2, RequestIsHeld DEF LInv, RequestState
        <4>2. req[x].with # 0 /\ Kept(pair, ended, req[x].with)
          BY <2>1, <4>1 DEF LInv, Apart, Noticed, Owns
        <4>3. req[x].with \in Pair \ {k}
          BY <4>1, <4>2 DEF Pair
        <4> QED BY <1>6, <4>1, <4>2, <4>3
      <3> QED BY <3>1, <3>2
    <2> QED BY <2>4, <2>6, <2>7 DEF Noticed
  <1> QED BY <1>5, <1>7 DEF Noticed

\* The session that ends has a successor on its way.
LEMMA RotatesApart ==
  ASSUME LInv, NEW r \in Req, NEW k \in Pair, RefreshRotates(r, k) PROVE Apart' /\ Noticed'
  <1> DEFINE q == req[r]
             n == [[q EXCEPT !.pc = "rotated"] EXCEPT !.with = k]
             old == q.held.pair
             issued == Issued(pair[old].user)
  <1>1. /\ q.pc = "rotating" /\ pair[k].user = Nobody /\ UNCHANGED <<store, ended, crossed>>
        /\ pair' = [[pair EXCEPT ![k] = issued] EXCEPT ![old].live = FALSE]
        /\ req' = [[req EXCEPT ![r].pc = "rotated"] EXCEPT ![r].with = k]
    BY DEF RefreshRotates, NewPair
  <1>2. Good(q, pair) /\ q \in RequestState /\ q.kind # "login"
    BY <1>1, RequestIsHeld DEF LInv, Apart
  <1>3. old \in Pair /\ old # k
    BY <1>1, <1>2 DEF Good, Coherent
  <1>4. req' = [req EXCEPT ![r] = n]
    BY <1>1 DEF LInv, IInv
  <1>5. issued.live
    BY DEF Issued
  <1> HIDE DEF issued
  <1>6. /\ Kept(pair', ended', k)
        /\ \A j \in Pair \ {k, old} : Kept(pair', ended', j) <=> Kept(pair, ended, j)
    BY <1>1, <1>3, <1>5 DEF LInv, IInv, Kept
  <1>7. \A x \in Req \ {r} : req'[x] = req[x]
    BY <1>4 DEF LInv, IInv
  <1>8. req'[r] = n
    BY <1>4 DEF LInv, IInv
  <1>9. ~Over(req[r]) /\ req[r].pc = "rotating" /\ req[r].held.pair = old
    BY <1>1 DEF Over
  <1> HIDE DEF q
  <1>10. n.kind = q.kind /\ n.pc = "rotated" /\ n.held = q.held /\ n.with = k
    BY <1>2 DEF RequestState
  <1> HIDE DEF n
  <1>11. Apart' /\ store.pair # k /\ \A x \in Req : req[x].with # k /\ req[x].held.pair # k
    BY <1>1, <1>2, <1>7, <1>8, <1>10, NewPairIsApart DEF q
  <1>12. ASSUME ~crossed' PROVE Noticed'
    <2>1. ~crossed /\ req'[r].pc = "rotated" /\ req'[r].held.pair = old /\ req'[r].with = k
          /\ req'[r].kind # "login"
      BY <1>1, <1>2, <1>8, <1>10, <1>12 DEF q
    <2>2. Ending => Ending'
      BY <1>7, <1>9 DEF Ending
    <2>3. \A x \in Req \ {r} : Owns(req[x]) => req[x].with # 0 /\ req[x].with # old /\ req[x].with # k
      BY <1>9, <1>11 DEF LInv, Apart
    <2>4. \A x \in Req \ {r} : Owns(req[x]) =>
            (Kept(pair', ended', req[x].with) <=> Kept(pair, ended, req[x].with))
      <3>1. \A x \in Req : req[x].with \in 0..MaxPairs
        BY RequestIsHeld DEF LInv, RequestState
      <3> QED BY <1>6, <2>3, <3>1 DEF Pair
    <2>5. store' # Empty /\ ~Kept(pair', ended', store'.pair) =>
            Ending' \/ \E x \in Req : req'[x].pc = "rotated" /\ req'[x].held.pair = store'.pair
      <3>1. CASE store.pair = old
        BY <1>1, <2>1, <3>1
      <3>2. CASE store.pair # old /\ store # Empty
        <4>1. store.pair \in Pair \ {k, old}
          BY <1>11, <3>2 DEF LInv, IInv, Coherent
        <4>2. \A x \in Req : req[x].pc = "rotated" => req'[x] = req[x]
          BY <1>7, <1>9
        <4>3. store' = store /\ (Kept(pair', ended', store'.pair) <=> Kept(pair, ended, store.pair))
          BY <1>1, <1>6, <4>1
        <4>4. ~Kept(pair, ended, store.pair) =>
                Ending \/ \E x \in Req : req[x].pc = "rotated" /\ req[x].held.pair = store.pair
          BY <2>1, <3>2 DEF LInv, Noticed
        <4> QED BY <2>2, <4>2, <4>3, <4>4
      <3> QED BY <1>1, <3>1, <3>2
    <2>6. \A x \in Req : req'[x].pc = "rotated" /\ ~Kept(pair', ended', req'[x].with) =>
            Ending' \/ req'[x].held.pair # store'.pair
      <3> SUFFICES ASSUME NEW x \in Req, req'[x].pc = "rotated", ~Kept(pair', ended', req'[x].with)
                   PROVE  Ending' \/ req'[x].held.pair # store'.pair
        OBVIOUS
      <3>1. x # r
        BY <1>6, <2>1
      <3>2. req'[x] = req[x] /\ ~Kept(pair, ended, req[x].with)
        BY <1>7, <2>4, <3>1 DEF Owns
      <3> QED BY <1>1, <2>1, <2>2, <3>2 DEF LInv, Noticed
    <2>7. \A x \in Req : req'[x].kind = "login" => Kept(pair', ended', req'[x].with)
      BY <1>7, <2>1, <2>4 DEF Owns, LInv, Noticed
    <2> QED BY <2>5, <2>6, <2>7 DEF Noticed
  <1> QED BY <1>11, <1>12 DEF Noticed

\* A request hands its pair over to the browser.
LEMMA HandsOver ==
  ASSUME LInv, NEW r \in Req, Owns(req[r]), ~Over(req[r]),
         \A x \in Req \ {r} : req'[x] = req[x],
         ~Owns(req'[r]), req'[r].with \in {0, req[r].with}, req'[r].held.pair = 0,
         pair' = pair, ended' = ended, store'.pair = req[r].with,
         crossed' \/ (~crossed /\ (Kept(pair, ended, req[r].with) \/ Ending))
  PROVE  Apart' /\ Noticed'
  <1>1. /\ req[r].with # 0
        /\ \A y \in Req : /\ req[y].held.pair # req[r].with
                          /\ y # r => req[y].with # req[r].with
    BY DEF LInv, Apart
  <1>2. Apart'
    <2> SUFFICES ASSUME NEW x \in Req
                 PROVE  /\ req'[x].kind = "login" => req'[x].pc = "sent"
                        /\ Owns(req'[x]) =>
                             /\ req'[x].with \notin {0, store'.pair}
                             /\ \A y \in Req : /\ req'[y].held.pair # req'[x].with
                                               /\ y # x => req'[y].with # req'[x].with
      BY DEF Apart, Owns
    <2>1. CASE x = r \/ ~Owns(req'[x])
      BY <2>1 DEF Owns
    <2>2. CASE x # r /\ Owns(req'[x])
      <3>1. req'[x] = req[x] /\ Owns(req[x])
        BY <2>2
      <3>2. /\ req[x].kind = "login" => req[x].pc = "sent"
            /\ req[x].with # 0
            /\ \A y \in Req : /\ req[y].held.pair # req[x].with
                              /\ y # x => req[y].with # req[x].with
        BY <3>1 DEF LInv, Apart
      <3>3. \A y \in Req : /\ req'[y].held.pair # req[x].with
                           /\ y # x => req'[y].with # req[x].with
        BY <2>2, <3>2
      <3>4. store'.pair # req[x].with
        BY <2>2, <3>2
      <3> QED BY <3>1, <3>2, <3>3, <3>4
    <2> QED BY <2>1, <2>2
  <1>3. ASSUME ~crossed' PROVE Noticed'
    <2>1. ~crossed /\ (Kept(pair, ended, req[r].with) \/ Ending)
      BY <1>3
    <2>2. Ending => Ending'
      BY DEF Ending
    <2>3. \A x \in Req : Owns(req'[x]) => req'[x] = req[x]
      OBVIOUS
    <2>4. \A x \in Req : req'[x].pc = "rotated" => req'[x].held.pair # store'.pair
      BY <1>1, <2>3 DEF Owns
    <2>5. \A x \in Req : req'[x].kind = "login" => Kept(pair', ended', req'[x].with)
      BY <2>1, <2>3 DEF Owns, LInv, Noticed
    <2> QED BY <2>1, <2>2, <2>4, <2>5 DEF Noticed
  <1> QED BY <1>2, <1>3 DEF Noticed

LEMMA AnsweredApart == ASSUME LInv, NEW r \in Req, RefreshAnswered(r) PROVE Apart' /\ Noticed'
  <1> DEFINE q == req[r]
             k == q.with
             n == [[q EXCEPT !.pc = "sent"] EXCEPT !.held = Empty]
             h == q.held
             s == [[h EXCEPT !.pair = k] EXCEPT !.user = pair[k].user]
  <1>1. /\ q.pc = "rotated" /\ store' = s /\ pair' = pair /\ ended' = ended
        /\ crossed' = (crossed \/ store # h)
        /\ req' = [req EXCEPT ![r] = n]
    BY DEF RefreshAnswered, saveAuthSession, Merged, LInv, IInv
  <1>2. q \in RequestState /\ h \in Session /\ q.kind # "login" /\ Owns(q) /\ ~Over(q)
    BY <1>1, RequestIsHeld DEF LInv, Apart, RequestState, Owns, Over
  <1>3. \A x \in Req \ {r} : req'[x] = req[x]
    BY <1>1 DEF LInv, IInv
  <1>4. req'[r] = n
    BY <1>1 DEF LInv, IInv
  <1>5. crossed' \/ (~crossed /\ (Kept(pair, ended, req[r].with) \/ Ending))
    <2> SUFFICES ASSUME ~crossed' PROVE ~crossed /\ (Kept(pair, ended, req[r].with) \/ Ending)
      OBVIOUS
    <2>1. ~crossed /\ store = req[r].held
      BY <1>1
    <2> QED BY <1>1, <2>1 DEF LInv, Noticed
  <1>6. s.pair = k
    <2> HIDE DEF h, k
    <2>1. s.pair = k
      BY <1>2 DEF Session
    <2> QED BY <2>1
  <1> HIDE DEF q
  <1>7. n.kind = q.kind /\ n.pc = "sent" /\ n.held = Empty /\ n.with = q.with
    BY <1>2 DEF RequestState
  <1> HIDE DEF n, s
  <1>8. ~Owns(n)
    BY <1>2, <1>7 DEF Owns
  <1> QED BY <1>1, <1>2, <1>3, <1>4, <1>5, <1>6, <1>7, <1>8, EmptySession, HandsOver DEF q

LEMMA LoginApart == ASSUME LInv, NEW r \in Req, LoginEnds(r) PROVE Apart' /\ Noticed'
  <1>1. Finish(r) /\ pair' = pair /\ ended' = ended /\ crossed' = crossed /\ req[r].kind = "login" /\ req[r].pc = "sent"
    BY DEF LoginEnds
  <1>2. CASE clearAuthSession
    BY <1>1, <1>2, EndsQuietly DEF clearAuthSession
  <1>3. CASE store'.pair = req[r].with
    <2>1. req'[r] = NoRequest /\ \A x \in Req \ {r} : req'[x] = req[x]
      BY <1>1 DEF Finish, LInv, IInv
    <2>2. ~Owns(req'[r]) /\ req'[r].with = 0 /\ req'[r].held.pair = 0
      BY <2>1, NoRequestFields, EmptySession DEF Owns
    <2>3. crossed' \/ (~crossed /\ (Kept(pair, ended, req[r].with) \/ Ending))
      BY <1>1 DEF LInv, Noticed
    <2>4. Owns(req[r]) /\ ~Over(req[r])
      BY <1>1 DEF Owns, Over
    <2> QED BY <1>1, <1>3, <2>1, <2>2, <2>3, <2>4, HandsOver
  <1> QED BY <1>2, <1>3 DEF LoginEnds, saveAuthSession

LEMMA NoticedNext == LInv /\ [WebNext]_webVars => LInv'
  <1> SUFFICES ASSUME LInv, [WebNext]_webVars PROVE Apart' /\ Noticed'
    BY InvNext DEF LInv
  <1>1. CASE UNCHANGED webVars
    BY <1>1 DEF webVars, LInv, Apart, Noticed, Ending
  <1>2. ASSUME NEW r \in Req, ServerActs(r) PROVE Apart' /\ Noticed'
    BY <1>2, RotatesApart, ReadsApart, RevokesApart DEF ServerActs
  <1>3. ASSUME NEW r \in Req, BrowserActs(r) PROVE Apart' /\ Noticed'
    BY <1>3, AnswerApart, AnsweredApart, OverApart, LoginApart DEF BrowserActs
  <1>4. ASSUME NEW r \in Req, NEW t \in Tab,
               OpenPage(r, t) \/ OpenAdminSignIn(r, t) \/ LoadData(r, t) \/ LogOut(r, t) \/ LeaveAccount(r, t)
        PROVE  Apart' /\ Noticed'
    BY <1>4, AsksApart
  <1>5. ASSUME NEW r \in Req, NEW t \in Tab, NEW k \in Pair, NEW u \in Account,
               LogIn(r, t, k, u) \/ Register(r, t, k, u)
        PROVE  Apart' /\ Noticed'
    BY <1>5, ReceivesApart DEF LogIn, Register
  <1>6. ASSUME NEW t \in Tab, CloseTab(t)
        PROVE  Apart' /\ Noticed'
    BY <1>6, CloseApart
  <1>7. ASSUME NEW k \in Pair, Expire(k) \/ SessionExpires(k) PROVE Apart' /\ Noticed'
    BY <1>7, EndingsApart
  <1>8. ASSUME NEW u \in Account, ResetPassword(u) \/ LockOut(u) \/ LetBackIn(u)
        PROVE  Apart' /\ Noticed'
    BY <1>8, EndingsApart
  <1> QED BY <1>1, <1>2, <1>3, <1>4, <1>5, <1>6, <1>7, <1>8 DEF WebNext

\* StoredSessionLives: when no request is under way the server still knows the
\* stored session, unless it ran out of time, its account was suspended, closed
\* or given a new password behind the browser's back, or an answer was lost or
\* two sessions crossed: a sign-out ends with the session gone, and a rotation
\* of refreshStoredSession with its successor stored.
THEOREM StoredLives == WebSpec => []StoredSessionLives
  <1>1. WebInit => LInv
    <2> SUFFICES ASSUME WebInit PROVE Apart /\ Noticed
      BY InvInit DEF LInv
    <2> QED BY NoRequestFields DEF WebInit, Apart, Noticed, Owns
  <1>2. LInv => StoredSessionLives
    BY NoRequestFields DEF LInv, Noticed, Kept, Ending, Over, StoredSessionLives, NothingUnderWay
  <1> QED BY <1>1, <1>2, NoticedNext, PTL DEF WebSpec
=============================================================================
