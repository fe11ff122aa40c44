---------------------------- MODULE AccountsProofs ----------------------------
(***************************************************************************)
(* Theorems about Accounts, for every set of addresses, sessions, links    *)
(* and handlers.                                                           *)
(*                                                                         *)
(* LinkWorksOnce and SuspensionsAreLifted are inductive together with what *)
(* the handlers may rely on (JobsOK): whoever is about to suspend or       *)
(* reactivate an account has found one, so that an address without an      *)
(* account has no audit records when it gets one (LogsOK); and a link that *)
(* was issued has a user (LinksOK).                                        *)
(***************************************************************************)
EXTENDS Accounts, FiniteSetTheorems, TLAPS

USE DEF PC, Member, Role, LinkState

\* What a handler with job j remembers is there.
Fits(j) ==
  /\ j.pc = "idle" \/ j.user \in User
  /\ j.pc = "create" => j.arg \in Member
  /\ j.pc \in {"refresh", "rotate"} => j.arg \in Session
  /\ j.pc \in {"suspend", "reactivate"} => role[j.user] # None

JobsOK == \A p \in Handler : Fits(h[p])
LinksOK == \A l \in Link : link[l].state # "unissued" => link[l].user \in User
LogsOK == \A u \in User : role[u] = None => log[u] = <<>>

IInv == TypeOK /\ JobsOK /\ LinksOK /\ LogsOK /\ LinkWorksOnce /\ SuspensionsAreLifted

Tables == <<role, active, password, session, link, invite, log, resets>>

-----------------------------------------------------------------------------
(* The handlers *)

LEMMA TaskType ==
  ASSUME NEW pc \in PC, NEW u \in User \cup {None},
         NEW arg \in Member \cup Session \cup Link \cup {None}
  PROVE  /\ Task(pc, u, arg) \in Job
         /\ Task(pc, u, arg).pc = pc
         /\ Task(pc, u, arg).user = u
         /\ Task(pc, u, arg).arg = arg
  BY DEF Task, Job

LEMMA IdleFits ==
  Idle \in Job /\ Idle.pc = "idle" /\ Fits(Idle) /\ Fits(Idle)'
  <1>1. Idle \in Job /\ Idle.pc = "idle" BY DEF Idle, Task, Job
  <1> HIDE DEF Idle
  <1> QED BY <1>1 DEF Fits

\* Go changes what is next and nothing else.
LEMMA GoEffect ==
  ASSUME TypeOK, NEW p \in Handler, NEW pc \in PC, Go(p, pc)
  PROVE  \E j \in Job : /\ h' = [h EXCEPT ![p] = j]
                        /\ j.pc = pc /\ j.user = h[p].user /\ j.arg = h[p].arg
  <1> DEFINE j == [h[p] EXCEPT !.pc = pc]
  <1>1. h[p] \in Job BY DEF TypeOK
  <1>2. j \in Job /\ j.pc = pc /\ j.user = h[p].user /\ j.arg = h[p].arg
    BY <1>1 DEF Job
  <1>3. h' = [h EXCEPT ![p] = j] BY DEF Go
  <1> HIDE DEF j
  <1> QED BY <1>2, <1>3

\* A handler takes on job j while accounts come and none goes.
LEMMA JobsKeep ==
  ASSUME TypeOK, JobsOK, NEW p \in Handler, NEW j \in Job,
         h' = [h EXCEPT ![p] = j], Fits(j)',
         \A u \in User : role[u] # None => role'[u] # None
  PROVE  JobsOK' /\ h' \in [Handler -> Job]
  <1>1. h \in [Handler -> Job] BY DEF TypeOK
  <1>2. h' \in [Handler -> Job] /\ h'[p] = j BY <1>1
  <1>3. ASSUME NEW q \in Handler PROVE Fits(h[q])'
    <2>1. CASE q = p BY <2>1, <1>2 DEF Fits
    <2>2. CASE q # p
      <3>1. h'[q] = h[q] /\ Fits(h[q]) BY <2>2, <1>1 DEF JobsOK
      <3> QED BY <3>1 DEF Fits
    <2> QED BY <2>1, <2>2
  <1> QED BY <1>2, <1>3 DEF JobsOK

\* Nor does anything change for them when no handler moves.
LEMMA JobsStay ==
  ASSUME TypeOK, JobsOK, h' = h, \A u \in User : role[u] # None => role'[u] # None
  PROVE  JobsOK' /\ h' \in [Handler -> Job]
  <1>1. h' \in [Handler -> Job] BY DEF TypeOK
  <1>2. ASSUME NEW q \in Handler PROVE Fits(h[q])' BY DEF JobsOK, Fits
  <1> QED BY <1>1, <1>2 DEF JobsOK

\* A step that writes nothing.
LEMMA HandlerStep ==
  ASSUME IInv, NEW p \in Handler, NEW j \in Job,
         h' = [h EXCEPT ![p] = j], Fits(j), UNCHANGED Tables
  PROVE  IInv'
  <1>1. Fits(j)' BY DEF Fits, Tables
  <1>2. JobsOK' /\ h' \in [Handler -> Job] BY <1>1, JobsKeep DEF IInv, Tables
  <1>3. TypeOK' BY <1>2 DEF IInv, TypeOK, Tables
  <1>4. LinksOK' /\ LogsOK' BY DEF IInv, LinksOK, LogsOK, Tables
  <1>5. LinkWorksOnce' BY DEF IInv, LinkWorksOnce, Tables
  <1>6. SuspensionsAreLifted' BY DEF IInv, SuspensionsAreLifted, Tables
  <1> QED BY <1>2, <1>3, <1>4, <1>5, <1>6 DEF IInv

LEMMA ArriveStep ==
  ASSUME IInv, NEW p \in Handler, Arrive(p)
  PROVE  IInv'
  <1> USE DEF Tables
  <1>1. ASSUME NEW u \in User, NEW pc \in PC, NEW arg \in Member \cup Session \cup Link \cup {None},
               h' = [h EXCEPT ![p] = Task(pc, u, arg)], UNCHANGED Tables,
               pc = "create" => arg \in Member,
               pc \in {"refresh", "rotate"} => arg \in Session,
               pc \in {"suspend", "reactivate"} => role[u] # None
        PROVE  IInv'
    <2> DEFINE j == Task(pc, u, arg)
    <2>1. j \in Job /\ j.pc = pc /\ j.user = u /\ j.arg = arg BY TaskType
    <2>2. h' = [h EXCEPT ![p] = j] BY <1>1
    <2> HIDE DEF j
    <2>3. Fits(j) BY <2>1, <1>1 DEF Fits
    <2> QED BY <2>1, <2>2, <2>3, <1>1, HandlerStep
  <1>2. ASSUME NEW u \in User, LoginStart(p, u) PROVE IInv'
    BY <1>1, <1>2 DEF LoginStart, Begin
  <1>3. ASSUME NEW u \in User, ChangeStart(p, u) PROVE IInv'
    BY <1>1, <1>3 DEF ChangeStart, Begin
  <1>4. ASSUME NEW u \in User, DeactivateStart(p, u) PROVE IInv'
    BY <1>1, <1>4 DEF DeactivateStart, Begin
  <1>5. ASSUME NEW u \in User, RecoveryStart(p, u) PROVE IInv'
    BY <1>1, <1>5 DEF RecoveryStart, Begin
  <1>6. ASSUME NEW u \in User, SuspendStart(p, u) PROVE IInv'
    <2>1. role[u] # None
      BY <1>6, AccountsAssumption DEF SuspendStart
    <2> QED BY <2>1, <1>1, <1>6 DEF SuspendStart, Begin
  <1>7. ASSUME NEW u \in User, ReactivateStart(p, u) PROVE IInv'
    BY <1>1, <1>7 DEF ReactivateStart, Begin
  <1>8. ASSUME NEW u \in User, NEW r \in Member, RegisterStart(p, u, r) PROVE IInv'
    BY <1>1, <1>8 DEF RegisterStart, Begin
  <1>9. ASSUME NEW s \in Session, RefreshStart(p, s) PROVE IInv'
    BY <1>1, <1>9 DEF RefreshStart, Begin
  <1>10. ASSUME NEW l \in Link, ResetStart(p, l) PROVE IInv'
    <2>1. link[l].user \in User BY <1>10 DEF ResetStart, IInv, LinksOK
    <2> QED BY <2>1, <1>1, <1>10 DEF ResetStart, Begin
  <1> QED BY <1>2, <1>3, <1>4, <1>5, <1>6, <1>7, <1>8, <1>9, <1>10 DEF Arrive

\* A step of a handler that goes on to another call, or ends, and writes nothing.
LEMMA QuietStep ==
  ASSUME IInv, NEW p \in Handler,
         RefreshUser(p) \/ ResetUser(p) \/ GiveUp(p)
  PROVE  IInv'
  <1> USE DEF Tables
  <1>1. CASE GiveUp(p) BY <1>1, IdleFits, HandlerStep DEF GiveUp, Done
  <1>2. ASSUME NEW pc \in {"rotate", "reset"}, Go(p, pc), UNCHANGED Tables,
               h[p].pc \in {"refresh", "recover"},
               pc = "rotate" => h[p].pc = "refresh"
        PROVE  IInv'
    <2>1. PICK j \in Job : /\ h' = [h EXCEPT ![p] = j]
                           /\ j.pc = pc /\ j.user = h[p].user /\ j.arg = h[p].arg
      BY <1>2, GoEffect DEF IInv
    <2>2. Fits(h[p]) BY DEF IInv, JobsOK
    <2>3. Fits(j) BY <2>1, <2>2, <1>2 DEF Fits
    <2> QED BY <2>1, <2>3, <1>2, HandlerStep
  <1>3. CASE RefreshUser(p) BY <1>2, <1>3 DEF RefreshUser
  <1>4. CASE ResetUser(p) BY <1>2, <1>4 DEF ResetUser
  <1> QED BY <1>1, <1>3, <1>4

-----------------------------------------------------------------------------
(* Steps that write *)

LEMMA RevokeType ==
  ASSUME TypeOK, NEW u \in User, Revoke(u)
  PROVE  session' \in [Session -> User \cup {Ended, None}]
  BY DEF TypeOK, Revoke

\* What stands while nobody's role, activity or audit records change.
LEMMA AccountsStand ==
  ASSUME IInv, UNCHANGED <<role, active, log>>
  PROVE  /\ LogsOK' /\ SuspensionsAreLifted'
         /\ \A u \in User : role[u] # None => role'[u] # None
  <1>1. LogsOK' BY DEF IInv, LogsOK
  <1>2. SuspensionsAreLifted' BY DEF IInv, SuspensionsAreLifted
  <1> QED BY <1>1, <1>2

\* ... and while no link does.
LEMMA LinksStand ==
  ASSUME IInv, UNCHANGED <<link, resets>>
  PROVE  LinksOK' /\ LinkWorksOnce'
  BY DEF IInv, LinksOK, LinkWorksOnce

LEMMA SessionStep ==
  ASSUME IInv, NEW p \in Handler, NEW s \in Session, Issue(p, s) \/ Rotate(p, s)
  PROVE  IInv'
  <1>1. /\ h' = [h EXCEPT ![p] = Idle]
        /\ UNCHANGED <<role, active, password, link, invite, log, resets>>
    BY DEF Issue, Rotate, Done
  <1>2. JobsOK' /\ h' \in [Handler -> Job]
    BY <1>1, IdleFits, JobsKeep DEF IInv
  <1>3. session' \in [Session -> User \cup {Ended, None}]
    <2>1. h[p].user \in User /\ Fits(h[p]) /\ TypeOK
      BY DEF Issue, Rotate, IInv, JobsOK, Fits
    <2>2. CASE Issue(p, s) BY <2>1, <2>2 DEF Issue, TypeOK
    <2>3. CASE Rotate(p, s) BY <2>1, <2>3 DEF Rotate, TypeOK
    <2> QED BY <2>2, <2>3
  <1>4. TypeOK' BY <1>1, <1>2, <1>3 DEF IInv, TypeOK
  <1> QED BY <1>1, <1>2, <1>4, AccountsStand, LinksStand DEF IInv

LEMMA LogoutStep ==
  ASSUME IInv, NEW s \in Session, Logout(s)
  PROVE  IInv'
  <1>1. UNCHANGED <<role, active, password, link, invite, log, resets, h>> BY DEF Logout
  <1>2. JobsOK' /\ h' \in [Handler -> Job] BY <1>1, JobsStay DEF IInv
  <1>3. session' \in [Session -> User \cup {Ended, None}] BY DEF Logout, IInv, TypeOK
  <1>4. TypeOK' BY <1>1, <1>2, <1>3 DEF IInv, TypeOK
  <1> QED BY <1>1, <1>2, <1>4, AccountsStand, LinksStand DEF IInv

LEMMA ChangePasswordStep ==
  ASSUME IInv, NEW p \in Handler, NEW u \in User, ChangePassword(p, u)
  PROVE  IInv'
  <1>1. /\ h' = [h EXCEPT ![p] = Idle]
        /\ password' = [password EXCEPT ![u] = @ + 1]
        /\ Revoke(u)
        /\ UNCHANGED <<role, active, link, invite, log, resets>>
    BY DEF ChangePassword, Done
  <1>2. JobsOK' /\ h' \in [Handler -> Job] BY <1>1, IdleFits, JobsKeep DEF IInv
  <1>3. session' \in [Session -> User \cup {Ended, None}] BY <1>1, RevokeType DEF IInv
  <1>4. password' \in [User -> Nat] BY <1>1 DEF IInv, TypeOK
  <1>5. TypeOK' BY <1>1, <1>2, <1>3, <1>4 DEF IInv, TypeOK
  <1> QED BY <1>1, <1>2, <1>5, AccountsStand, LinksStand DEF IInv

-----------------------------------------------------------------------------
(* Recovery links *)

LEMMA LinkStep ==
  ASSUME IInv, NEW l \in Link, LinkExpires(l) \/ Cleanup(l)
  PROVE  IInv'
  <1>1. UNCHANGED <<role, active, password, session, invite, log, resets, h>>
    BY DEF LinkExpires, Cleanup
  <1>2. JobsOK' /\ h' \in [Handler -> Job] BY <1>1, JobsStay DEF IInv
  <1>3. PICK st \in {"expired", "deleted"} :
          /\ link' = [link EXCEPT ![l].state = st]
          /\ st = "expired" => link[l].state = "open"
          /\ link[l].state # "unissued"
    BY DEF LinkExpires, Cleanup
  <1> DEFINE new == [link[l] EXCEPT !.state = st]
  <1>4. TypeOK /\ link[l] \in [user : User \cup {None}, state : LinkState] BY DEF IInv, TypeOK
  <1>5. new \in [user : User \cup {None}, state : LinkState] /\ new.state = st /\ new.user = link[l].user
    BY <1>4
  <1>6. link' = [link EXCEPT ![l] = new] BY <1>3
  <1> HIDE DEF new
  <1>7. link' \in [Link -> [user : User \cup {None}, state : LinkState]]
    BY <1>4, <1>5, <1>6 DEF TypeOK
  <1>8. TypeOK' BY <1>1, <1>2, <1>7 DEF IInv, TypeOK
  <1>9. LinksOK' BY <1>3, <1>4, <1>5, <1>6 DEF IInv, TypeOK, LinksOK
  <1>10. LinkWorksOnce' BY <1>1, <1>3, <1>4, <1>5, <1>6 DEF IInv, TypeOK, LinkWorksOnce
  <1> QED BY <1>1, <1>2, <1>8, <1>9, <1>10, AccountsStand DEF IInv

LEMMA SupersedeStep ==
  ASSUME IInv, NEW p \in Handler, NEW u \in User, Supersede(p, u)
  PROVE  IInv'
  <1> DEFINE Spent(l) == [link[l] EXCEPT !.state = "used"]
             LinkRow == [user : User \cup {None}, state : LinkState]
  <1>1. /\ Go(p, "link") /\ h[p].pc = "supersede"
        /\ link' = [l \in Link |-> IF link[l].user = u /\ link[l].state \in {"open", "expired"}
                                   THEN Spent(l) ELSE link[l]]
        /\ UNCHANGED <<role, active, password, session, invite, log, resets>>
    BY DEF Supersede
  <1>2. JobsOK' /\ h' \in [Handler -> Job]
    <2>1. PICK j \in Job : /\ h' = [h EXCEPT ![p] = j]
                           /\ j.pc = "link" /\ j.user = h[p].user /\ j.arg = h[p].arg
      BY <1>1, GoEffect DEF IInv
    <2>2. Fits(h[p]) BY DEF IInv, JobsOK
    <2>3. Fits(j)' BY <2>1, <2>2, <1>1 DEF Fits
    <2> QED BY <2>1, <2>3, <1>1, JobsKeep DEF IInv
  <1>3. ASSUME NEW l \in Link
        PROVE  /\ Spent(l) \in LinkRow /\ Spent(l).state = "used" /\ Spent(l).user = link[l].user
               /\ link[l] \in LinkRow
    <2>1. link[l] \in LinkRow BY DEF IInv, TypeOK
    <2> QED BY <2>1
  <1> HIDE DEF Spent
  <1>4. link' \in [Link -> LinkRow] BY <1>1, <1>3
  <1>5. TypeOK' BY <1>1, <1>2, <1>4 DEF IInv, TypeOK
  <1>6. ASSUME NEW l \in Link
        PROVE  /\ link'[l].user = link[l].user
               /\ \/ link'[l].state = link[l].state
                  \/ link[l].state \in {"open", "expired"} /\ link'[l].state = "used"
    <2>1. CASE link[l].user = u /\ link[l].state \in {"open", "expired"}
      <3>1. link'[l] = Spent(l) BY <2>1, <1>1
      <3> QED BY <3>1, <2>1, <1>3
    <2>2. CASE ~(link[l].user = u /\ link[l].state \in {"open", "expired"})
      <3>1. link'[l] = link[l] BY <2>2, <1>1
      <3> QED BY <3>1
    <2> QED BY <2>1, <2>2
  <1>7. LinksOK' BY <1>6 DEF IInv, LinksOK
  <1>8. LinkWorksOnce' BY <1>1, <1>6 DEF IInv, LinkWorksOnce
  <1> QED BY <1>1, <1>2, <1>5, <1>7, <1>8, AccountsStand DEF IInv

LEMMA CreateLinkStep ==
  ASSUME IInv, NEW p \in Handler, NEW l \in Link, CreateLink(p, l)
  PROVE  IInv'
  <1> DEFINE new == [user |-> h[p].user, state |-> "open"]
  <1>1. /\ h' = [h EXCEPT ![p] = Idle] /\ h[p].pc = "link"
        /\ link[l].state = "unissued" /\ link' = [link EXCEPT ![l] = new]
        /\ UNCHANGED <<role, active, password, session, invite, log, resets>>
    BY DEF CreateLink, Done
  <1>2. JobsOK' /\ h' \in [Handler -> Job] BY <1>1, IdleFits, JobsKeep DEF IInv
  <1>3. h[p].user \in User BY <1>1 DEF IInv, JobsOK, Fits
  <1>4. new \in [user : User \cup {None}, state : LinkState] /\ new.user \in User /\ new.state = "open"
    BY <1>3
  <1> HIDE DEF new
  <1>5. link' \in [Link -> [user : User \cup {None}, state : LinkState]]
    BY <1>1, <1>4 DEF IInv, TypeOK
  <1>6. TypeOK' BY <1>1, <1>2, <1>5 DEF IInv, TypeOK
  <1>7. LinksOK' BY <1>1, <1>4 DEF IInv, TypeOK, LinksOK
  <1>8. LinkWorksOnce' BY <1>1, <1>4 DEF IInv, TypeOK, LinkWorksOnce
  <1> QED BY <1>1, <1>2, <1>6, <1>7, <1>8, AccountsStand DEF IInv

LEMMA ResetStep ==
  ASSUME IInv, NEW p \in Handler, NEW u \in User, NEW l \in Link, Reset(p, u, l)
  PROVE  IInv'
  <1> DEFINE new == [link[l] EXCEPT !.state = "used"]
  <1>1. /\ h' = [h EXCEPT ![p] = Idle]
        /\ link[l].state = "open" /\ link' = [link EXCEPT ![l] = new]
        /\ resets' = [resets EXCEPT ![l] = @ + 1]
        /\ password' = [password EXCEPT ![u] = @ + 1]
        /\ Revoke(u)
        /\ UNCHANGED <<role, active, invite, log>>
    BY DEF Reset, Done
  <1>2. JobsOK' /\ h' \in [Handler -> Job] BY <1>1, IdleFits, JobsKeep DEF IInv
  <1>3. session' \in [Session -> User \cup {Ended, None}] BY <1>1, RevokeType DEF IInv
  <1>4. link[l] \in [user : User \cup {None}, state : LinkState] BY DEF IInv, TypeOK
  <1>5. /\ new \in [user : User \cup {None}, state : LinkState]
        /\ new.user = link[l].user /\ new.state = "used"
    BY <1>4
  <1> HIDE DEF new
  <1>6. link' \in [Link -> [user : User \cup {None}, state : LinkState]]
    BY <1>1, <1>5 DEF IInv, TypeOK
  <1>7. resets' \in [Link -> Nat] /\ password' \in [User -> Nat] BY <1>1 DEF IInv, TypeOK
  <1>8. TypeOK' BY <1>1, <1>2, <1>3, <1>6, <1>7 DEF IInv, TypeOK
  <1>9. LinksOK' BY <1>1, <1>5 DEF IInv, TypeOK, LinksOK
  <1>10. LinkWorksOnce'
    <2>1. resets[l] = 0
      <3>1. resets[l] \in Nat /\ resets[l] <= 1 BY DEF IInv, TypeOK, LinkWorksOnce
      <3>2. resets[l] # 1 BY <1>1 DEF IInv, LinkWorksOnce
      <3> QED BY <3>1, <3>2
    <2>2. resets'[l] = 1 /\ link'[l].state = "used" BY <2>1, <1>1, <1>5 DEF IInv, TypeOK
    <2>3. \A k \in Link \ {l} : resets'[k] = resets[k] /\ link'[k] = link[k]
      BY <1>1 DEF IInv, TypeOK
    <2> QED BY <2>2, <2>3 DEF IInv, LinkWorksOnce
  <1> QED BY <1>1, <1>2, <1>8, <1>9, <1>10, AccountsStand DEF IInv

-----------------------------------------------------------------------------
(* Accounts and their audit records *)

\* What SuspensionsAreLifted says of one account.
Lifted(l, act) ==
  /\ \A i \in DOMAIN l : i > 1 /\ l[i] = "suspend" => l[i - 1] = "reactivate"
  /\ Len(l) > 0 /\ l[Len(l)] = "suspend" => ~act

LEMMA Suspended ==
  ASSUME NEW l \in Seq({"suspend", "reactivate"}), Lifted(l, TRUE)
  PROVE  /\ Append(l, "suspend") \in Seq({"suspend", "reactivate"})
         /\ Lifted(Append(l, "suspend"), FALSE)
  <1> DEFINE m == Append(l, "suspend")
             n == Len(l)
  <1>1. /\ n \in Nat /\ DOMAIN l = 1 .. n
        /\ \A i \in 1 .. n : l[i] \in {"suspend", "reactivate"}
    OBVIOUS
  <1>2. /\ m \in Seq({"suspend", "reactivate"}) /\ DOMAIN m = 1 .. n + 1
        /\ m[n + 1] = "suspend" /\ \A i \in 1 .. n : m[i] = l[i]
    OBVIOUS
  <1>3. n > 0 => l[n] = "reactivate" BY <1>1 DEF Lifted
  <1>4. ASSUME NEW i \in DOMAIN m, i > 1, m[i] = "suspend" PROVE m[i - 1] = "reactivate"
    <2>1. i \in 1 .. n + 1 BY <1>2
    <2> HIDE DEF m, n
    <2>2. CASE i = n + 1 BY <2>2, <1>1, <1>2, <1>3, <1>4
    <2>3. CASE i # n + 1
      <3>1. i \in 1 .. n /\ i - 1 \in 1 .. n BY <2>1, <2>3, <1>1, <1>4
      <3>2. l[i] = "suspend" BY <3>1, <1>2, <1>4
      <3>3. l[i - 1] = "reactivate" BY <3>1, <3>2, <1>1, <1>4 DEF Lifted
      <3> QED BY <3>1, <3>3, <1>2
    <2> QED BY <2>2, <2>3
  <1>5. Lifted(m, FALSE) BY <1>4 DEF Lifted
  <1> QED BY <1>2, <1>5

LEMMA Reactivated ==
  ASSUME NEW l \in Seq({"suspend", "reactivate"}), Lifted(l, FALSE)
  PROVE  /\ Append(l, "reactivate") \in Seq({"suspend", "reactivate"})
         /\ Lifted(Append(l, "reactivate"), TRUE)
  <1> DEFINE m == Append(l, "reactivate")
             n == Len(l)
  <1>1. n \in Nat /\ DOMAIN l = 1 .. n OBVIOUS
  <1>2. /\ m \in Seq({"suspend", "reactivate"}) /\ DOMAIN m = 1 .. n + 1 /\ Len(m) = n + 1
        /\ m[n + 1] = "reactivate" /\ \A i \in 1 .. n : m[i] = l[i]
    OBVIOUS
  <1>3. ASSUME NEW i \in DOMAIN m, i > 1, m[i] = "suspend" PROVE m[i - 1] = "reactivate"
    <2>1. i \in 1 .. n + 1 BY <1>2
    <2> HIDE DEF m, n
    <2>2. i \in 1 .. n /\ i - 1 \in 1 .. n BY <2>1, <1>1, <1>2, <1>3
    <2>3. l[i - 1] = "reactivate" BY <2>2, <1>1, <1>2, <1>3 DEF Lifted
    <2> QED BY <2>2, <2>3, <1>2
  <1>4. Lifted(m, TRUE)
    <2>1. m[Len(m)] = "reactivate" BY <1>2
    <2> HIDE DEF m, n
    <2> QED BY <2>1, <1>3 DEF Lifted
  <1> QED BY <1>2, <1>4

\* Inactive accounts need no audit record.
LEMMA Closed ==
  ASSUME NEW l, NEW act \in BOOLEAN, Lifted(l, act)
  PROVE  Lifted(l, FALSE)
  BY DEF Lifted

LEMMA Unrecorded ==
  ASSUME NEW act
  PROVE  Lifted(<<>>, act)
  BY DEF Lifted

\* The account u comes to be active or not, and the others stay as they are.
LEMMA OneAccount ==
  ASSUME IInv, NEW u \in User, NEW act \in BOOLEAN,
         active' = [active EXCEPT ![u] = act],
         log' \in [User -> Seq({"suspend", "reactivate"})],
         \A v \in User \ {u} : log'[v] = log[v],
         Lifted(log'[u], act)
  PROVE  /\ active' \in [User -> BOOLEAN]
         /\ SuspensionsAreLifted'
  <1>1. active' \in [User -> BOOLEAN] /\ active'[u] = act
        /\ \A v \in User \ {u} : active'[v] = active[v]
    BY DEF IInv, TypeOK
  <1>2. \A v \in User : Lifted(log[v], active[v])
    BY DEF IInv, SuspensionsAreLifted, Lifted
  <1>3. \A v \in User : Lifted(log'[v], active'[v]) BY <1>1, <1>2
  <1> QED BY <1>1, <1>3 DEF SuspensionsAreLifted, Lifted

\* The record of an account, as it stands before a step.
LEMMA LiftedNow ==
  ASSUME IInv, NEW u \in User
  PROVE  /\ Lifted(log[u], active[u]) /\ active[u] \in BOOLEAN
         /\ log[u] \in Seq({"suspend", "reactivate"})
         /\ role[u] = None => log[u] = <<>>
  BY DEF IInv, SuspensionsAreLifted, Lifted, TypeOK, LogsOK

LEMMA CreateStep ==
  ASSUME IInv, NEW p \in Handler, NEW u \in User, Create(p, u)
  PROVE  IInv'
  <1> DEFINE j == Task("issue", u, None)
             r == h[p].arg
  <1>1. /\ h[p].pc = "create" /\ role[u] = None /\ h' = [h EXCEPT ![p] = j]
        /\ role' = [role EXCEPT ![u] = r]
        /\ active' = [active EXCEPT ![u] = TRUE]
        /\ password' = [password EXCEPT ![u] = 1]
        /\ UNCHANGED <<session, link, invite, log, resets>>
    BY DEF Create
  <1>2. r \in Member /\ r # None BY <1>1, AccountsAssumption DEF IInv, JobsOK, Fits
  <1>3. j \in Job /\ j.pc = "issue" /\ j.user = u BY DEF Task, Job
  <1> HIDE DEF j, r
  <1>4. role' \in [User -> Role \cup {None}] /\ password' \in [User -> Nat]
    BY <1>1, <1>2 DEF IInv, TypeOK
  <1>5. \A v \in User : role[v] # None => role'[v] # None BY <1>1 DEF IInv, TypeOK
  <1>6. Fits(j)' BY <1>3 DEF Fits
  <1>7. JobsOK' /\ h' \in [Handler -> Job] BY <1>1, <1>3, <1>5, <1>6, JobsKeep DEF IInv
  <1>8. log[u] = <<>> /\ Lifted(log[u], TRUE) BY <1>1, LiftedNow, Unrecorded
  <1>9. active' \in [User -> BOOLEAN] /\ SuspensionsAreLifted'
    BY <1>1, <1>8, OneAccount DEF IInv, TypeOK
  <1>10. LogsOK' BY <1>1, <1>2 DEF IInv, TypeOK, LogsOK
  <1>11. TypeOK' BY <1>1, <1>4, <1>7, <1>9 DEF IInv, TypeOK
  <1> QED BY <1>1, <1>7, <1>9, <1>10, <1>11, LinksStand DEF IInv

LEMMA AcceptInviteStep ==
  ASSUME IInv, NEW u \in User, AcceptInvite(u)
  PROVE  IInv'
  <1>1. /\ role[u] = None
        /\ invite' = [invite EXCEPT ![u] = "none"]
        /\ role' = [role EXCEPT ![u] = "admin"]
        /\ active' = [active EXCEPT ![u] = TRUE]
        /\ password' = [password EXCEPT ![u] = 1]
        /\ UNCHANGED <<session, link, log, resets, h>>
    BY DEF AcceptInvite
  <1>2. "admin" # None BY AccountsAssumption
  <1>3. role' \in [User -> Role \cup {None}] /\ password' \in [User -> Nat]
    BY <1>1 DEF IInv, TypeOK
  <1>4. invite' \in [User -> {"none", "open", "expired"}] BY <1>1 DEF IInv, TypeOK
  <1>5. \A v \in User : role[v] # None => role'[v] # None BY <1>1, <1>2 DEF IInv, TypeOK
  <1>6. JobsOK' /\ h' \in [Handler -> Job] BY <1>1, <1>5, JobsStay DEF IInv
  <1>7. log[u] = <<>> /\ Lifted(log[u], TRUE) BY <1>1, LiftedNow, Unrecorded
  <1>8. active' \in [User -> BOOLEAN] /\ SuspensionsAreLifted'
    BY <1>1, <1>7, OneAccount DEF IInv, TypeOK
  <1>9. LogsOK' BY <1>1, <1>2 DEF IInv, TypeOK, LogsOK
  <1>10. TypeOK' BY <1>1, <1>3, <1>4, <1>6, <1>8 DEF IInv, TypeOK
  <1> QED BY <1>1, <1>6, <1>8, <1>9, <1>10, LinksStand DEF IInv

LEMMA DeactivateStep ==
  ASSUME IInv, NEW p \in Handler, NEW u \in User, Deactivate(p, u)
  PROVE  IInv'
  <1>1. /\ h' = [h EXCEPT ![p] = Idle]
        /\ active' = [active EXCEPT ![u] = FALSE]
        /\ Revoke(u)
        /\ UNCHANGED <<role, password, link, invite, log, resets>>
    BY DEF Deactivate, Done
  <1>2. JobsOK' /\ h' \in [Handler -> Job] BY <1>1, IdleFits, JobsKeep DEF IInv
  <1>3. session' \in [Session -> User \cup {Ended, None}] BY <1>1, RevokeType DEF IInv
  <1>4. Lifted(log[u], FALSE) BY LiftedNow, Closed
  <1>5. active' \in [User -> BOOLEAN] /\ SuspensionsAreLifted'
    BY <1>1, <1>4, OneAccount DEF IInv, TypeOK
  <1>6. LogsOK' BY <1>1 DEF IInv, LogsOK
  <1>7. TypeOK' BY <1>1, <1>2, <1>3, <1>5 DEF IInv, TypeOK
  <1> QED BY <1>1, <1>2, <1>5, <1>6, <1>7, LinksStand DEF IInv

LEMMA DisableAdminStep ==
  ASSUME IInv, NEW u \in User, DisableAdmin(u)
  PROVE  IInv'
  <1>1. /\ active' = [active EXCEPT ![u] = FALSE]
        /\ Revoke(u)
        /\ UNCHANGED <<role, password, link, invite, log, resets, h>>
    BY DEF DisableAdmin
  <1>2. JobsOK' /\ h' \in [Handler -> Job] BY <1>1, JobsStay DEF IInv
  <1>3. session' \in [Session -> User \cup {Ended, None}] BY <1>1, RevokeType DEF IInv
  <1>4. Lifted(log[u], FALSE) BY LiftedNow, Closed
  <1>5. active' \in [User -> BOOLEAN] /\ SuspensionsAreLifted'
    BY <1>1, <1>4, OneAccount DEF IInv, TypeOK
  <1>6. LogsOK' BY <1>1 DEF IInv, LogsOK
  <1>7. TypeOK' BY <1>1, <1>2, <1>3, <1>5 DEF IInv, TypeOK
  <1> QED BY <1>1, <1>2, <1>5, <1>6, <1>7, LinksStand DEF IInv

LEMMA SuspendStep ==
  ASSUME IInv, NEW p \in Handler, NEW u \in User, Suspend(p, u)
  PROVE  IInv'
  <1> DEFINE l == Append(log[u], "suspend")
  <1>1. /\ h[p].pc = "suspend" /\ h[p].user = u /\ h' = [h EXCEPT ![p] = Idle]
        /\ active[u] /\ active' = [active EXCEPT ![u] = FALSE]
        /\ Revoke(u)
        /\ log' = [log EXCEPT ![u] = l]
        /\ UNCHANGED <<role, password, link, invite, resets>>
    BY DEF Suspend, Done, IInv, TypeOK
  <1>2. JobsOK' /\ h' \in [Handler -> Job] BY <1>1, IdleFits, JobsKeep DEF IInv
  <1>3. session' \in [Session -> User \cup {Ended, None}] BY <1>1, RevokeType DEF IInv
  <1>4. l \in Seq({"suspend", "reactivate"}) /\ Lifted(l, FALSE)
    <2>1. active[u] = TRUE /\ log[u] \in Seq({"suspend", "reactivate"})
      BY <1>1, LiftedNow
    <2> QED BY <2>1, LiftedNow, Suspended
  <1>5. role[u] # None BY <1>1 DEF IInv, JobsOK, Fits
  <1> HIDE DEF l
  <1>6. /\ log' \in [User -> Seq({"suspend", "reactivate"})] /\ log'[u] = l
        /\ \A v \in User \ {u} : log'[v] = log[v]
    BY <1>1, <1>4 DEF IInv, TypeOK
  <1>7. active' \in [User -> BOOLEAN] /\ SuspensionsAreLifted'
    BY <1>1, <1>4, <1>6, OneAccount
  <1>8. LogsOK' BY <1>1, <1>5, <1>6 DEF IInv, LogsOK
  <1>9. TypeOK' BY <1>1, <1>2, <1>3, <1>6, <1>7 DEF IInv, TypeOK
  <1> QED BY <1>1, <1>2, <1>7, <1>8, <1>9, LinksStand DEF IInv

LEMMA ReactivateStep ==
  ASSUME IInv, NEW p \in Handler, NEW u \in User, Reactivate(p, u)
  PROVE  IInv'
  <1> DEFINE l == Append(log[u], "reactivate")
  <1>1. /\ h[p].pc = "reactivate" /\ h[p].user = u /\ h' = [h EXCEPT ![p] = Idle]
        /\ ~active[u] /\ active' = [active EXCEPT ![u] = TRUE]
        /\ log' = [log EXCEPT ![u] = l]
        /\ UNCHANGED <<role, password, session, link, invite, resets>>
    BY DEF Reactivate, Done, IInv, TypeOK
  <1>2. JobsOK' /\ h' \in [Handler -> Job] BY <1>1, IdleFits, JobsKeep DEF IInv
  <1>3. l \in Seq({"suspend", "reactivate"}) /\ Lifted(l, TRUE)
    <2>1. active[u] = FALSE /\ log[u] \in Seq({"suspend", "reactivate"})
      BY <1>1, LiftedNow
    <2> QED BY <2>1, LiftedNow, Reactivated
  <1>4. role[u] # None BY <1>1 DEF IInv, JobsOK, Fits
  <1> HIDE DEF l
  <1>5. /\ log' \in [User -> Seq({"suspend", "reactivate"})] /\ log'[u] = l
        /\ \A v \in User \ {u} : log'[v] = log[v]
    BY <1>1, <1>3 DEF IInv, TypeOK
  <1>6. active' \in [User -> BOOLEAN] /\ SuspensionsAreLifted'
    BY <1>1, <1>3, <1>5, OneAccount
  <1>7. LogsOK' BY <1>1, <1>4, <1>5 DEF IInv, LogsOK
  <1>8. TypeOK' BY <1>1, <1>2, <1>5, <1>6 DEF IInv, TypeOK
  <1> QED BY <1>1, <1>2, <1>6, <1>7, <1>8, LinksStand DEF IInv

LEMMA InviteStep ==
  ASSUME IInv, NEW u \in User, Invite(u) \/ InviteExpires(u)
  PROVE  IInv'
  <1>1. /\ UNCHANGED <<role, active, password, session, link, log, resets, h>>
        /\ invite' \in [User -> {"none", "open", "expired"}]
    BY DEF Invite, InviteExpires, IInv, TypeOK
  <1>2. JobsOK' /\ h' \in [Handler -> Job] BY <1>1, JobsStay DEF IInv
  <1>3. TypeOK' BY <1>1, <1>2 DEF IInv, TypeOK
  <1> QED BY <1>1, <1>2, <1>3, AccountsStand, LinksStand DEF IInv

-----------------------------------------------------------------------------
(* Theorems *)

LEMMA InitInvariant ==
  ASSUME Init
  PROVE  IInv
  <1>1. TypeOK BY IdleFits DEF Init, TypeOK
  <1>2. JobsOK BY IdleFits DEF Init, JobsOK
  <1>3. LinksOK /\ LogsOK /\ LinkWorksOnce BY DEF Init, LinksOK, LogsOK, LinkWorksOnce
  <1>4. SuspensionsAreLifted BY Unrecorded DEF Init, SuspensionsAreLifted, Lifted
  <1> QED BY <1>1, <1>2, <1>3, <1>4 DEF IInv

LEMMA StepInvariant ==
  ASSUME IInv, [Next]_vars
  PROVE  IInv'
  <1>1. CASE UNCHANGED vars
    <2>1. UNCHANGED Tables /\ h' = h BY <1>1 DEF vars, Tables
    <2>2. JobsOK' /\ h' \in [Handler -> Job] BY <2>1, JobsStay DEF IInv, Tables
    <2>3. TypeOK' BY <2>1, <2>2 DEF IInv, TypeOK, Tables
    <2> QED BY <2>1, <2>2, <2>3, AccountsStand, LinksStand DEF IInv, Tables
  <1>2. ASSUME NEW p \in Handler, Arrive(p) PROVE IInv' BY <1>2, ArriveStep
  <1>3. ASSUME NEW p \in Handler, Proceed(p) PROVE IInv'
    <2>1. ASSUME NEW u \in User, Create(p, u) PROVE IInv' BY <2>1, CreateStep
    <2>2. ASSUME NEW u \in User, ChangePassword(p, u) PROVE IInv' BY <2>2, ChangePasswordStep
    <2>3. ASSUME NEW u \in User, Deactivate(p, u) PROVE IInv' BY <2>3, DeactivateStep
    <2>4. ASSUME NEW u \in User, Supersede(p, u) PROVE IInv' BY <2>4, SupersedeStep
    <2>5. ASSUME NEW u \in User, Suspend(p, u) PROVE IInv' BY <2>5, SuspendStep
    <2>6. ASSUME NEW u \in User, Reactivate(p, u) PROVE IInv' BY <2>6, ReactivateStep
    <2>7. ASSUME NEW u \in User, NEW l \in Link, Reset(p, u, l) PROVE IInv' BY <2>7, ResetStep
    <2>8. ASSUME NEW s \in Session, Issue(p, s) \/ Rotate(p, s) PROVE IInv' BY <2>8, SessionStep
    <2>9. ASSUME NEW l \in Link, CreateLink(p, l) PROVE IInv' BY <2>9, CreateLinkStep
    <2>10. CASE RefreshUser(p) \/ ResetUser(p) \/ GiveUp(p) BY <2>10, QuietStep
    <2> QED BY <1>3, <2>1, <2>2, <2>3, <2>4, <2>5, <2>6, <2>7, <2>8, <2>9, <2>10 DEF Proceed
  <1>4. ASSUME NEW s \in Session, Logout(s) PROVE IInv' BY <1>4, LogoutStep
  <1>5. ASSUME NEW l \in Link, LinkExpires(l) \/ Cleanup(l) PROVE IInv' BY <1>5, LinkStep
  <1>6. ASSUME NEW u \in User,
               DisableAdmin(u) \/ Invite(u) \/ InviteExpires(u) \/ AcceptInvite(u)
        PROVE  IInv'
    BY <1>6, DisableAdminStep, InviteStep, AcceptInviteStep
  <1> QED BY <1>1, <1>2, <1>3, <1>4, <1>5, <1>6 DEF Next

THEOREM AccountsInvariance == Spec => []IInv
  BY InitInvariant, StepInvariant, PTL DEF Spec

\* Every variable keeps its type.
THEOREM AccountsTypeCorrect == Spec => []TypeOK
  BY AccountsInvariance, PTL DEF IInv

\* A recovery link sets one password at most, for any number of requests that
\* present it at once.
THEOREM LinksWorkOnce == Spec => []LinkWorksOnce
  BY AccountsInvariance, PTL DEF IInv

\* No account is suspended twice in a row, and while its last record says
\* suspended it is not active, for any number of admins and owners.
THEOREM SuspensionsHold == Spec => []SuspensionsAreLifted
  BY AccountsInvariance, PTL DEF IInv

\* An address keeps the role its account got first.
THEOREM RolesStand == Spec => RoleStands
  <1> DEFINE Stands == \A u \in User : role[u] # None => role'[u] = role[u]
  <1>1. ASSUME TypeOK, [Next]_vars PROVE Stands
    <2>1. CASE UNCHANGED role BY <2>1
    <2>2. ASSUME NEW p \in Handler, NEW u \in User, Create(p, u) PROVE Stands
      BY <1>1, <2>2 DEF Create, TypeOK
    <2>3. ASSUME NEW u \in User, AcceptInvite(u) PROVE Stands
      BY <1>1, <2>3 DEF AcceptInvite, TypeOK
    <2>4. ASSUME NEW p \in Handler, Arrive(p) PROVE UNCHANGED role
      BY <2>4 DEF Arrive, LoginStart, ChangeStart, DeactivateStart, RecoveryStart, SuspendStart,
                  ReactivateStart, RegisterStart, RefreshStart, ResetStart
    <2>5. ASSUME NEW p \in Handler, Proceed(p), \A u \in User : ~Create(p, u)
          PROVE UNCHANGED role
      BY <2>5 DEF Proceed, ChangePassword, Deactivate, Supersede, Suspend, Reactivate, Reset,
                  Issue, Rotate, CreateLink, RefreshUser, ResetUser, GiveUp
    <2>6. CASE \/ UNCHANGED vars
               \/ \E s \in Session : Logout(s)
               \/ \E l \in Link : LinkExpires(l) \/ Cleanup(l)
               \/ \E u \in User : DisableAdmin(u) \/ Invite(u) \/ InviteExpires(u)
      BY <2>1, <2>6 DEF vars, Logout, LinkExpires, Cleanup, DisableAdmin, Invite, InviteExpires
    <2> QED BY <1>1, <2>1, <2>2, <2>3, <2>4, <2>5, <2>6 DEF Next
  <1>2. TypeOK /\ [Next]_vars => [Stands]_vars BY <1>1
  <1> QED BY <1>2, AccountsTypeCorrect, PTL DEF Spec, RoleStands

\* An account that is not active keeps its password.
THEOREM PasswordsRest == Spec => PasswordRests
  <1> DEFINE Rests == \A u \in User : role[u] # None /\ ~active[u] => password'[u] = password[u]
  <1>1. ASSUME TypeOK, [Next]_vars PROVE Rests
    <2>1. CASE UNCHANGED password BY <2>1
    <2>2. ASSUME NEW p \in Handler, NEW u \in User,
                 Create(p, u) \/ ChangePassword(p, u) \/ \E l \in Link : Reset(p, u, l)
          PROVE Rests
      BY <1>1, <2>2 DEF Create, ChangePassword, Reset, TypeOK
    <2>3. ASSUME NEW u \in User, AcceptInvite(u) PROVE Rests
      BY <1>1, <2>3 DEF AcceptInvite, TypeOK
    <2>4. ASSUME NEW p \in Handler, Arrive(p) PROVE UNCHANGED password
      BY <2>4 DEF Arrive, LoginStart, ChangeStart, DeactivateStart, RecoveryStart, SuspendStart,
                  ReactivateStart, RegisterStart, RefreshStart, ResetStart
    <2>5. ASSUME NEW p \in Handler, Proceed(p),
                 ~\E u \in User : Create(p, u) \/ ChangePassword(p, u) \/ \E l \in Link : Reset(p, u, l)
          PROVE UNCHANGED password
      BY <2>5 DEF Proceed, Deactivate, Supersede, Suspend, Reactivate,
                  Issue, Rotate, CreateLink, RefreshUser, ResetUser, GiveUp
    <2>6. CASE \/ UNCHANGED vars
               \/ \E s \in Session : Logout(s)
               \/ \E l \in Link : LinkExpires(l) \/ Cleanup(l)
               \/ \E u \in User : DisableAdmin(u) \/ Invite(u) \/ InviteExpires(u)
      BY <2>1, <2>6 DEF vars, Logout, LinkExpires, Cleanup, DisableAdmin, Invite, InviteExpires
    <2> QED BY <1>1, <2>1, <2>2, <2>3, <2>4, <2>5, <2>6 DEF Next
  <1>2. TypeOK /\ [Next]_vars => [Rests]_vars BY <1>1
  <1> QED BY <1>2, AccountsTypeCorrect, PTL DEF Spec, PasswordRests

\* Accounts keep their role for good, and their password while not active.
THEOREM AccountsStandStill == Spec => AccountsRest
  BY RolesStand, PasswordsRest DEF AccountsRest

-----------------------------------------------------------------------------
(* Sessions of accounts that are not active *)

\* The step gives no handler the means to store a session for u ...
Barren(u) == \A p \in Handler : Gains(p, u)' => Gains(p, u)
\* ... and stores none.
Birthless(u) == \A s \in Session : session'[s] = u => session[s] = u

LEMMA NewTask ==
  ASSUME TypeOK, NEW p \in Handler, NEW u \in User, NEW j \in Job,
         h' = [h EXCEPT ![p] = j], j.pc \in {"issue", "rotate"} => j.user # u
  PROVE  Barren(u) /\ ~Gains(p, u)'
  BY DEF TypeOK, Barren, Gains

LEMMA RevokeBirthless ==
  ASSUME NEW u \in User, NEW v, Revoke(v)
  PROVE  Birthless(u)
  BY AccountsAssumption DEF Revoke, Birthless

LEMMA ArriveBarren ==
  ASSUME TypeOK, LinksOK, NEW p \in Handler, Arrive(p), NEW u \in User, ~active[u]
  PROVE  Barren(u) /\ Birthless(u)
  <1>1. ASSUME NEW pc \in PC, NEW v \in User, NEW arg \in Member \cup Session \cup Link \cup {None},
               h' = [h EXCEPT ![p] = Task(pc, v, arg)], pc \in {"issue", "rotate"} => v # u
        PROVE  Barren(u)
    <2> DEFINE j == Task(pc, v, arg)
    <2>1. j \in Job /\ j.pc = pc /\ j.user = v BY TaskType
    <2>2. h' = [h EXCEPT ![p] = j] BY <1>1
    <2> HIDE DEF j
    <2> QED BY <1>1, <2>1, <2>2, NewTask
  <1>2. ASSUME NEW v \in User, LoginStart(p, v) PROVE Barren(u)
    <2>1. v # u /\ h' = [h EXCEPT ![p] = Task("issue", v, None)] BY <1>2 DEF LoginStart, Begin
    <2> QED BY <2>1, <1>1
  <1>3. ASSUME NEW v \in User, ChangeStart(p, v) PROVE Barren(u)
    BY <1>1, <1>3 DEF ChangeStart, Begin
  <1>4. ASSUME NEW v \in User, DeactivateStart(p, v) PROVE Barren(u)
    BY <1>1, <1>4 DEF DeactivateStart, Begin
  <1>5. ASSUME NEW v \in User, RecoveryStart(p, v) PROVE Barren(u)
    BY <1>1, <1>5 DEF RecoveryStart, Begin
  <1>6. ASSUME NEW v \in User, SuspendStart(p, v) PROVE Barren(u)
    BY <1>1, <1>6 DEF SuspendStart, Begin
  <1>7. ASSUME NEW v \in User, ReactivateStart(p, v) PROVE Barren(u)
    BY <1>1, <1>7 DEF ReactivateStart, Begin
  <1>8. ASSUME NEW v \in User, NEW r \in Member, RegisterStart(p, v, r) PROVE Barren(u)
    BY <1>1, <1>8 DEF RegisterStart, Begin
  <1>9. ASSUME NEW s \in Session, RefreshStart(p, s) PROVE Barren(u)
    BY <1>1, <1>9 DEF RefreshStart, Begin
  <1>10. ASSUME NEW l \in Link, ResetStart(p, l) PROVE Barren(u)
    <2>1. link[l].user \in User BY <1>10 DEF ResetStart, LinksOK
    <2> QED BY <2>1, <1>1, <1>10 DEF ResetStart, Begin
  <1>11. UNCHANGED session
    BY DEF Arrive, LoginStart, ChangeStart, DeactivateStart, RecoveryStart, SuspendStart,
           ReactivateStart, RegisterStart, RefreshStart, ResetStart
  <1>12. Birthless(u) BY <1>11 DEF Birthless
  <1> QED BY <1>2, <1>3, <1>4, <1>5, <1>6, <1>7, <1>8, <1>9, <1>10, <1>12 DEF Arrive

\* Handlers that end, and those that store a session.
LEMMA ProceedBarren ==
  ASSUME TypeOK, NEW p \in Handler, Proceed(p),
         NEW u \in User, role[u] # None, ~active[u]
  PROVE  /\ Barren(u)
         /\ Birthless(u) \/ \A s \in Session : session'[s] = u /\ session[s] # u =>
                                Gains(p, u) /\ ~Gains(p, u)'
  <1>1. ASSUME Done(p) PROVE Barren(u) /\ ~Gains(p, u)'
    BY <1>1, IdleFits, NewTask DEF Done
  <1>2. ASSUME NEW pc \in {"rotate", "reset", "link"}, Go(p, pc),
               pc = "rotate" => h[p].user # u
        PROVE  Barren(u)
    <2>1. PICK j \in Job : /\ h' = [h EXCEPT ![p] = j]
                           /\ j.pc = pc /\ j.user = h[p].user /\ j.arg = h[p].arg
      BY <1>2, GoEffect
    <2> QED BY <2>1, <1>2, NewTask
  <1>3. ASSUME NEW v \in User, Create(p, v) PROVE Barren(u) /\ Birthless(u)
    <2>1. v # u /\ h' = [h EXCEPT ![p] = Task("issue", v, None)] /\ UNCHANGED session
      BY <1>3 DEF Create
    <2> DEFINE j == Task("issue", v, None)
    <2>2. j \in Job /\ j.pc = "issue" /\ j.user = v BY DEF Task, Job
    <2>3. h' = [h EXCEPT ![p] = j] BY <2>1
    <2> HIDE DEF j
    <2>4. Barren(u) BY <2>1, <2>2, <2>3, NewTask
    <2> QED BY <2>1, <2>4 DEF Birthless
  <1>4. ASSUME NEW v \in User, ChangePassword(p, v) \/ Deactivate(p, v) \/ Suspend(p, v)
                                 \/ \E l \in Link : Reset(p, v, l)
        PROVE  Barren(u) /\ Birthless(u)
    <2>1. Done(p) /\ Revoke(v) BY <1>4 DEF ChangePassword, Deactivate, Suspend, Reset
    <2> QED BY <2>1, <1>1, RevokeBirthless
  <1>5. ASSUME NEW v \in User, Reactivate(p, v) PROVE Barren(u) /\ Birthless(u)
    BY <1>5, <1>1 DEF Reactivate, Birthless
  <1>6. ASSUME NEW v \in User, Supersede(p, v) PROVE Barren(u) /\ Birthless(u)
    BY <1>6, <1>2 DEF Supersede, Birthless
  <1>7. ASSUME NEW l \in Link, CreateLink(p, l) PROVE Barren(u) /\ Birthless(u)
    BY <1>7, <1>1 DEF CreateLink, Birthless
  <1>8. CASE RefreshUser(p) BY <1>8, <1>2 DEF RefreshUser, Birthless
  <1>9. CASE ResetUser(p) BY <1>9, <1>2 DEF ResetUser, Birthless
  <1>10. CASE GiveUp(p) BY <1>10, <1>1 DEF GiveUp, Birthless
  <1>11. ASSUME NEW s \in Session, Issue(p, s) \/ Rotate(p, s)
         PROVE  /\ Barren(u)
                /\ \A t \in Session : session'[t] = u /\ session[t] # u =>
                     Gains(p, u) /\ ~Gains(p, u)'
    <2>1. Done(p) /\ h[p].pc \in {"issue", "rotate"} BY <1>11 DEF Issue, Rotate
    <2>2. ASSUME NEW t \in Session, session'[t] = u, session[t] # u PROVE h[p].user = u
      BY <1>11, <2>2, AccountsAssumption DEF Issue, Rotate, TypeOK
    <2> QED BY <2>1, <2>2, <1>1 DEF Gains
  <1> QED BY <1>3, <1>4, <1>5, <1>6, <1>7, <1>8, <1>9, <1>10, <1>11 DEF Proceed

\* An account that is not active gains no sessions but those that requests were
\* about to store when it ceased to be, one for each.
THEOREM InactiveAccountsGainNothing == Spec => InactiveGainsNothing
  <1> DEFINE Runs(u) ==
        role[u] # None /\ ~active[u] /\ ~active'[u] =>
          /\ \A p \in Handler : Gains(p, u)' => Gains(p, u)
          /\ \A s \in Session : session'[s] = u /\ session[s] # u =>
               \E p \in Handler : Gains(p, u) /\ ~Gains(p, u)'
  <1>1. ASSUME IInv, [Next]_vars PROVE \A u \in User : Runs(u)
    <2> SUFFICES ASSUME NEW u \in User, role[u] # None, ~active[u] PROVE Runs(u)
      OBVIOUS
    <2>1. ASSUME Barren(u), Birthless(u) PROVE Runs(u) BY <2>1 DEF Barren, Birthless
    <2>2. ASSUME UNCHANGED <<session, h>> PROVE Runs(u)
      BY <2>1, <2>2 DEF Barren, Birthless, Gains
    <2>3. ASSUME NEW p \in Handler, Arrive(p) PROVE Runs(u)
      BY <1>1, <2>1, <2>3, ArriveBarren DEF IInv
    <2>4. ASSUME NEW p \in Handler, Proceed(p) PROVE Runs(u)
      <3>1. TypeOK BY <1>1 DEF IInv
      <3>2. CASE Birthless(u) BY <3>1, <3>2, <2>1, <2>4, ProceedBarren
      <3>3. CASE ~Birthless(u) BY <3>1, <3>3, <2>4, ProceedBarren DEF Barren
      <3> QED BY <3>2, <3>3
    <2>5. ASSUME NEW s \in Session, Logout(s) PROVE Runs(u)
      <3>1. Birthless(u) BY <1>1, <2>5, AccountsAssumption DEF Logout, Birthless, IInv, TypeOK
      <3>2. Barren(u) BY <2>5 DEF Logout, Barren, Gains
      <3> QED BY <3>1, <3>2, <2>1
    <2>6. ASSUME NEW l \in Link, LinkExpires(l) \/ Cleanup(l) PROVE Runs(u)
      BY <2>2, <2>6 DEF LinkExpires, Cleanup
    <2>7. ASSUME NEW v \in User, DisableAdmin(v) PROVE Runs(u)
      <3>1. Birthless(u) BY <2>7, RevokeBirthless DEF DisableAdmin
      <3>2. Barren(u) BY <2>7 DEF DisableAdmin, Barren, Gains
      <3> QED BY <3>1, <3>2, <2>1
    <2>8. ASSUME NEW v \in User, Invite(v) \/ InviteExpires(v) \/ AcceptInvite(v) PROVE Runs(u)
      BY <2>2, <2>8 DEF Invite, InviteExpires, AcceptInvite
    <2>9. CASE UNCHANGED vars BY <2>2, <2>9 DEF vars
    <2> HIDE DEF Runs
    <2> QED BY <1>1, <2>3, <2>4, <2>5, <2>6, <2>7, <2>8, <2>9 DEF Next
  <1>2. IInv /\ [Next]_vars => [\A u \in User : Runs(u)]_vars BY <1>1
  <1> QED BY <1>2, AccountsInvariance, PTL DEF Spec, InactiveGainsNothing

-----------------------------------------------------------------------------
(* How many sessions there can be.  The sets that are counted are finite,    *)
(* however many sessions and handlers there may be, because they start empty *)
(* and a step adds one at most.                                              *)

Counted == \A u \in User : IsFiniteSet(Held(u)) /\ IsFiniteSet(Underway(u))

LEMMA NoMore ==
  ASSUME NEW A, NEW B, IsFiniteSet(A), IsFiniteSet(B),
         NEW C \in SUBSET A, NEW D \in SUBSET B
  PROVE  Cardinality(C) + Cardinality(D) <= Cardinality(A) + Cardinality(B)
  <1>1. /\ Cardinality(A) \in Nat /\ Cardinality(B) \in Nat
        /\ IsFiniteSet(C) /\ Cardinality(C) <= Cardinality(A)
        /\ IsFiniteSet(D) /\ Cardinality(D) <= Cardinality(B)
    BY FS_Subset, FS_CardinalityType
  <1>2. Cardinality(C) \in Nat /\ Cardinality(D) \in Nat BY <1>1, FS_CardinalityType
  <1> QED BY <1>1, <1>2

\* One comes and another goes.
LEMMA Exchanged ==
  ASSUME NEW A, NEW B, IsFiniteSet(A), IsFiniteSet(B), NEW a, NEW b \in B,
         NEW C \in SUBSET (A \cup {a}), NEW D \in SUBSET (B \ {b})
  PROVE  Cardinality(C) + Cardinality(D) <= Cardinality(A) + Cardinality(B)
  <1> DEFINE E == A \cup {a}
             F == B \ {b}
  <1>1. Cardinality(A) \in Nat /\ Cardinality(B) \in Nat BY FS_CardinalityType
  <1>2. IsFiniteSet(E) /\ Cardinality(E) <= Cardinality(A) + 1
    <2>1. Cardinality(E) = Cardinality(A) \/ Cardinality(E) = Cardinality(A) + 1
      BY FS_AddElement
    <2> QED BY <1>1, <2>1, FS_AddElement
  <1>3. IsFiniteSet(F) /\ Cardinality(F) = Cardinality(B) - 1 BY FS_RemoveElement
  <1>4. Cardinality(E) \in Nat /\ Cardinality(F) \in Nat BY <1>2, <1>3, FS_CardinalityType
  <1>5. C \in SUBSET E /\ D \in SUBSET F OBVIOUS
  <1> HIDE DEF E, F
  <1>6. Cardinality(C) + Cardinality(D) <= Cardinality(E) + Cardinality(F)
    BY <1>2, <1>3, <1>5, NoMore
  <1>7. Cardinality(C) \in Nat /\ Cardinality(D) \in Nat
    BY <1>2, <1>3, <1>5, FS_Subset, FS_CardinalityType
  <1> QED BY <1>1, <1>2, <1>3, <1>4, <1>6, <1>7

\* A step of one handler leaves the others alone ...
LEMMA OneHandler ==
  ASSUME TypeOK, NEW p \in Handler, Arrive(p) \/ Proceed(p)
  PROVE  \A q \in Handler \ {p} : h'[q] = h[q]
  <1>1. CASE Arrive(p)
    <2>1. PICK task : Begin(p, task)
      BY <1>1 DEF Arrive, LoginStart, ChangeStart, DeactivateStart, RecoveryStart, SuspendStart,
         ReactivateStart, RegisterStart, RefreshStart, ResetStart
    <2> QED BY <2>1 DEF Begin, TypeOK
  <1>2. CASE Proceed(p)
    <2>1. \/ Done(p)
          \/ \E pc \in PC : Go(p, pc)
          \/ \E u \in User : Create(p, u)
      BY <1>2 DEF Proceed, ChangePassword, Deactivate, Supersede, Suspend, Reactivate, Reset,
         Issue, Rotate, CreateLink, RefreshUser, ResetUser, GiveUp
    <2>2. PICK j : h' = [h EXCEPT ![p] = j]
      BY <2>1, GoEffect DEF Done, Create
    <2> QED BY <2>2 DEF TypeOK
  <1> QED BY <1>1, <1>2

\* ... and gives one session to an account, if any.
LEMMA OneSession ==
  ASSUME TypeOK, NEW p \in Handler, Arrive(p) \/ Proceed(p), NEW u \in User
  PROVE  \E s : \A t \in Session \ {s} : session'[t] = u => session[t] = u
  <1>1. CASE \E s \in Session : Issue(p, s) \/ Rotate(p, s)
    <2>1. PICK s \in Session : Issue(p, s) \/ Rotate(p, s) BY <1>1
    <2>2. \A t \in Session \ {s} : session'[t] \in {session[t], Ended}
      BY <2>1 DEF Issue, Rotate, TypeOK
    <2>3. \A t \in Session \ {s} : session'[t] = u => session[t] = u
      BY <2>2, AccountsAssumption
    <2> QED BY <2>3
  <1>2. CASE ~ \E s \in Session : Issue(p, s) \/ Rotate(p, s)
    <2>1. UNCHANGED session \/ \E v \in User : Revoke(v)
      BY <1>2 DEF Arrive, LoginStart, ChangeStart, DeactivateStart, RecoveryStart, SuspendStart,
         ReactivateStart, RegisterStart, RefreshStart, ResetStart, Proceed, Create,
         ChangePassword, Deactivate, Supersede, Suspend, Reactivate, Reset, CreateLink,
         RefreshUser, ResetUser, GiveUp
    <2>2. Birthless(u) BY <2>1, RevokeBirthless DEF Birthless
    <2> QED BY <2>2 DEF Birthless
  <1> QED BY <1>1, <1>2

\* Steps of nobody's handler give nothing to anybody.
LEMMA OtherSteps ==
  ASSUME IInv, [Next]_vars, ~ \E p \in Handler : Arrive(p) \/ Proceed(p), NEW u \in User
  PROVE  Barren(u) /\ Birthless(u)
  <1>1. ASSUME NEW s \in Session, Logout(s) PROVE Birthless(u) /\ h' = h
    BY <1>1, AccountsAssumption DEF Logout, Birthless, IInv, TypeOK
  <1>2. ASSUME NEW v \in User, DisableAdmin(v) PROVE Birthless(u) /\ h' = h
    BY <1>2, RevokeBirthless DEF DisableAdmin
  <1>3. CASE \/ UNCHANGED vars
             \/ \E l \in Link : LinkExpires(l) \/ Cleanup(l)
             \/ \E v \in User : Invite(v) \/ InviteExpires(v) \/ AcceptInvite(v)
    BY <1>3 DEF vars, LinkExpires, Cleanup, Invite, InviteExpires, AcceptInvite, Birthless,
                Barren, Gains
  <1>4. (Birthless(u) /\ h' = h) \/ (Barren(u) /\ Birthless(u))
    BY <1>1, <1>2, <1>3 DEF Next
  <1> QED BY <1>4 DEF Barren, Gains

LEMMA CountedStep ==
  ASSUME IInv, Counted, [Next]_vars
  PROVE  Counted'
  <1> SUFFICES ASSUME NEW u \in User
               PROVE  IsFiniteSet(Held(u)') /\ IsFiniteSet(Underway(u)')
    BY DEF Counted
  <1>1. IsFiniteSet(Held(u)) /\ IsFiniteSet(Underway(u)) BY DEF Counted
  <1>2. \E s, p : Held(u)' \subseteq Held(u) \cup {s} /\ Underway(u)' \subseteq Underway(u) \cup {p}
    <2>1. CASE \E p \in Handler : Arrive(p) \/ Proceed(p)
      <3>1. PICK p \in Handler : Arrive(p) \/ Proceed(p) BY <2>1
      <3>2. PICK s : \A t \in Session \ {s} : session'[t] = u => session[t] = u
        BY <3>1, OneSession DEF IInv
      <3>3. Held(u)' \subseteq Held(u) \cup {s} BY <3>2 DEF Held
      <3>4. \A q \in Handler \ {p} : h'[q] = h[q] BY <3>1, OneHandler DEF IInv
      <3>5. Underway(u)' \subseteq Underway(u) \cup {p} BY <3>4 DEF Underway, Gains
      <3> QED BY <3>3, <3>5
    <2>2. CASE ~ \E p \in Handler : Arrive(p) \/ Proceed(p)
      <3>1. Barren(u) /\ Birthless(u) BY <2>2, OtherSteps
      <3>2. Held(u)' \subseteq Held(u) /\ Underway(u)' \subseteq Underway(u)
        BY <3>1 DEF Barren, Birthless, Held, Underway
      <3> QED BY <3>2
    <2> QED BY <2>1, <2>2
  <1>3. PICK s, p : Held(u)' \in SUBSET (Held(u) \cup {s})
                    /\ Underway(u)' \in SUBSET (Underway(u) \cup {p})
    BY <1>2
  <1>4. IsFiniteSet(Held(u) \cup {s}) /\ IsFiniteSet(Underway(u) \cup {p})
    BY <1>1, FS_AddElement
  <1> QED BY <1>3, <1>4, FS_Subset

\* One step of a system in which u has an account that is not active.
LEMMA AccessStep ==
  ASSUME IInv, Counted, [Next]_vars, NEW u \in User, role[u] # None, ~active[u]
  PROVE  Cardinality(Held(u)') + Cardinality(Underway(u)')
           <= Cardinality(Held(u)) + Cardinality(Underway(u))
  <1>1. IsFiniteSet(Held(u)) /\ IsFiniteSet(Underway(u)) BY DEF Counted
  <1>2. CASE Barren(u) /\ Birthless(u)
    <2>1. Held(u)' \in SUBSET Held(u) /\ Underway(u)' \in SUBSET Underway(u)
      BY <1>2 DEF Barren, Birthless, Held, Underway
    <2> QED BY <1>1, <2>1, NoMore
  <1>3. ASSUME NEW p \in Handler, Proceed(p), ~Birthless(u)
        PROVE  Cardinality(Held(u)') + Cardinality(Underway(u)')
                 <= Cardinality(Held(u)) + Cardinality(Underway(u))
    <2>1. PICK s : \A t \in Session \ {s} : session'[t] = u => session[t] = u
      BY <1>3, OneSession DEF IInv
    <2>2. Held(u)' \in SUBSET (Held(u) \cup {s}) BY <2>1 DEF Held
    <2>3. Barren(u) /\ Gains(p, u) /\ ~Gains(p, u)'
      BY <1>3, ProceedBarren DEF Birthless, IInv
    <2>4. p \in Underway(u) /\ Underway(u)' \in SUBSET (Underway(u) \ {p})
      BY <2>3 DEF Barren, Underway
    <2> QED BY <1>1, <2>2, <2>4, Exchanged
  <1>4. ASSUME NEW p \in Handler, Arrive(p) \/ Proceed(p)
        PROVE  Barren(u) /\ (Birthless(u) \/ Proceed(p))
    BY <1>4, ArriveBarren, ProceedBarren DEF IInv
  <1>5. (Barren(u) /\ Birthless(u)) \/ \E p \in Handler : Proceed(p) /\ ~Birthless(u)
    BY <1>4, OtherSteps
  <1> QED BY <1>2, <1>3, <1>5

\* The sessions of an account that is not active and the requests about to store
\* one together never become more, for any number of overlapping refreshes.
THEOREM AccessNeverGrows == Spec => AccessRunsOut
  <1> DEFINE Shrinks(u) ==
        role[u] # None /\ ~active[u] /\ ~active'[u] =>
          Cardinality(Held(u)') + Cardinality(Underway(u)')
            <= Cardinality(Held(u)) + Cardinality(Underway(u))
  <1>1. Init => Counted
    <2> SUFFICES ASSUME Init, NEW u \in User PROVE Held(u) = {} /\ Underway(u) = {}
      BY FS_EmptySet DEF Counted
    <2>1. Held(u) = {} BY AccountsAssumption DEF Init, Held
    <2>2. Underway(u) = {} BY IdleFits DEF Init, Underway, Gains
    <2> QED BY <2>1, <2>2
  <1>2. IInv /\ Counted /\ [Next]_vars => Counted' BY CountedStep
  <1>3. IInv /\ Counted /\ [Next]_vars => [\A u \in User : Shrinks(u)]_vars BY AccessStep
  <1>4. Spec => [][\A u \in User : Shrinks(u)]_vars
    BY <1>1, <1>2, <1>3, AccountsInvariance, PTL DEF Spec
  <1> QED BY <1>4 DEF AccessRunsOut

\* Suspending or deactivating an account bounds the access to it for good.
THEOREM AccessHasItsEnd == Spec => AccessEnds
  BY InactiveAccountsGainNothing, AccessNeverGrows DEF AccessEnds
=============================================================================
