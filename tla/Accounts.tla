------------------------------- MODULE Accounts -------------------------------
(***************************************************************************)
(* Accounts and their sessions (apps/api/auth, admin/auth,                 *)
(* repositories/account) and what administrators do to accounts            *)
(* (admin/pipes/account.suspension.pipe.go, admin.users.pipe.go).          *)
(*                                                                         *)
(* A handler reads the account, decides, and writes in a later statement   *)
(* or transaction.  What a write asks again in its WHERE clause is a guard *)
(* of its action; what was only read may no longer be so.  A transaction   *)
(* is one action: each locks the row of its user or its recovery link      *)
(* first and looks again at what it locked.                                *)
(*                                                                         *)
(* An operator whose comment begins with "Mutant" is no part of the model: *)
(* it is the definition after it with a plausible mistake in it, kept to   *)
(* see that the property it names notices the mistake.                     *)
(***************************************************************************)
EXTENDS Integers, Sequences, FiniteSets

CONSTANTS
  User,         \* e-mail addresses, each of at most one account
  Session,      \* identifiers of refresh sessions
  Link,         \* password recovery links
  Handler,      \* HTTP requests being served at the same time
  MaxPasswords, \* bound on the passwords an account has in turn
  MaxActions,   \* bound on the audit records of an account
  Ended,        \* what is left of a session that was deleted or has expired
  None          \* the absent value

Member == {"parent", "nanny"}
Role == Member \cup {"admin"}

ASSUME AccountsAssumption ==
  /\ MaxPasswords \in Nat
  /\ MaxActions \in Nat
  /\ None # Ended
  /\ {None, Ended} \cap User = {}
  /\ None \notin Role
LinkState == {"unissued", "open", "expired", "used", "deleted"}

VARIABLES
  role,         \* users.role, None while there is no such user
  active,       \* users.is_active
  password,     \* users.password_hash: which of the passwords it had in turn
  session,      \* refresh_sessions: the user of each live one
  link,         \* password_recovery_tokens
  invite,       \* admin_invites that are not accepted, by address
  log,          \* admin_account_actions, by account
  resets,       \* history: how many passwords were set with each link
  h             \* what each handler is doing

vars == <<role, active, password, session, link, invite, log, resets, h>>

\* What a handler does next, for which account, and what else it remembers: the
\* role to register, the session to replace or the link to use.
PC == {"idle", "create", "issue", "refresh", "rotate", "change", "deactivate",
       "supersede", "link", "recover", "reset", "suspend", "reactivate"}
Job == [pc : PC, user : User \cup {None}, arg : Member \cup Session \cup Link \cup {None}]
Task(pc, u, arg) == [pc |-> pc, user |-> u, arg |-> arg]
Idle == Task("idle", None, None)

Begin(p, task) == h[p] = Idle /\ h' = [h EXCEPT ![p] = task]
Go(p, pc) == h' = [h EXCEPT ![p].pc = pc]
Done(p) == h' = [h EXCEPT ![p] = Idle]

\* DELETE FROM refresh_sessions WHERE user_id = u
Revoke(u) == session' = [s \in Session |-> IF session[s] = u THEN Ended ELSE session[s]]

-----------------------------------------------------------------------------
(* Registration, log-in and sessions *)

\* UserExistsByEmail says no.
RegisterStart(p, u, r) ==
  /\ role[u] = None
  /\ Begin(p, Task("create", u, r))
  /\ UNCHANGED <<role, active, password, session, link, invite, log, resets>>

\* The row of the user and of the profile; users.email is UNIQUE.
Create(p, u) ==
  /\ h[p].pc = "create" /\ h[p].user = u
  /\ role[u] = None
  /\ role' = [role EXCEPT ![u] = h[p].arg]
  /\ active' = [active EXCEPT ![u] = TRUE]
  /\ password' = [password EXCEPT ![u] = 1]
  /\ h' = [h EXCEPT ![p] = Task("issue", u, None)]
  /\ UNCHANGED <<session, link, invite, log, resets>>

\* The row of the user says that the account is active and the password right.
LoginStart(p, u) ==
  /\ role[u] # None /\ active[u]
  /\ Begin(p, Task("issue", u, None))
  /\ UNCHANGED <<role, active, password, session, link, invite, log, resets>>

\* generateTokenPair
Issue(p, s) ==
  /\ h[p].pc = "issue"
  /\ session[s] = None
  /\ session' = [session EXCEPT ![s] = h[p].user]
  /\ Done(p)
  /\ UNCHANGED <<role, active, password, link, invite, log, resets>>

\* The session of the token is there ...
RefreshStart(p, s) ==
  /\ session[s] \in User
  /\ Begin(p, Task("refresh", session[s], s))
  /\ UNCHANGED <<role, active, password, session, link, invite, log, resets>>

\* Mutant (AccessEnds): the account is not looked at.
RefreshUnseen(p) ==
  /\ h[p].pc = "refresh"
  /\ Go(p, "rotate")
  /\ UNCHANGED <<role, active, password, session, link, invite, log, resets>>

\* ... and its user is active.
RefreshUser(p) ==
  /\ h[p].pc = "refresh"
  /\ active[h[p].user]
  /\ Go(p, "rotate")
  /\ UNCHANGED <<role, active, password, session, link, invite, log, resets>>

\* RotateRefreshSession does not look whether the DELETE found the old session.
Rotate(p, s) ==
  /\ h[p].pc = "rotate"
  /\ session[s] = None
  /\ session' = [session EXCEPT ![h[p].arg] = Ended, ![s] = h[p].user]
  /\ Done(p)
  /\ UNCHANGED <<role, active, password, link, invite, log, resets>>

\* One statement.  Time does the same to a session that expires.
Logout(s) ==
  /\ session[s] \in User
  /\ session' = [session EXCEPT ![s] = Ended]
  /\ UNCHANGED <<role, active, password, link, invite, log, resets, h>>

-----------------------------------------------------------------------------
(* What the owner does with the account *)

\* The account is active and the current password right.
ChangeStart(p, u) ==
  /\ role[u] # None /\ active[u]
  /\ Begin(p, Task("change", u, None))
  /\ UNCHANGED <<role, active, password, session, link, invite, log, resets>>

\* Mutant (AccountsRest): the UPDATE does not ask whether the account is active.
ChangeAnyway(p, u) ==
  /\ h[p].pc = "change" /\ h[p].user = u
  /\ password[u] < MaxPasswords
  /\ password' = [password EXCEPT ![u] = @ + 1]
  /\ Revoke(u)
  /\ Done(p)
  /\ UNCHANGED <<role, active, link, invite, log, resets>>

ChangePassword(p, u) ==
  /\ h[p].pc = "change" /\ h[p].user = u
  /\ active[u]
  /\ password[u] < MaxPasswords
  /\ password' = [password EXCEPT ![u] = @ + 1]
  /\ Revoke(u)
  /\ Done(p)
  /\ UNCHANGED <<role, active, link, invite, log, resets>>

DeactivateStart(p, u) ==
  /\ role[u] # None /\ active[u]
  /\ Begin(p, Task("deactivate", u, None))
  /\ UNCHANGED <<role, active, password, session, link, invite, log, resets>>

Deactivate(p, u) ==
  /\ h[p].pc = "deactivate" /\ h[p].user = u
  /\ active[u]
  /\ active' = [active EXCEPT ![u] = FALSE]
  /\ Revoke(u)
  /\ Done(p)
  /\ UNCHANGED <<role, password, link, invite, log, resets>>

-----------------------------------------------------------------------------
(* Password recovery *)

\* Limits on how often one may ask only refuse, and are left out.
RecoveryStart(p, u) ==
  /\ role[u] \in Member /\ active[u]
  /\ Begin(p, Task("supersede", u, None))
  /\ UNCHANGED <<role, active, password, session, link, invite, log, resets>>

\* The links the account has are marked as used ...
Supersede(p, u) ==
  /\ h[p].pc = "supersede" /\ h[p].user = u
  /\ link' = [l \in Link |-> IF link[l].user = u /\ link[l].state \in {"open", "expired"}
                             THEN [link[l] EXCEPT !.state = "used"] ELSE link[l]]
  /\ Go(p, "link")
  /\ UNCHANGED <<role, active, password, session, invite, log, resets>>

\* ... and another statement stores a new one, which is mailed.
CreateLink(p, l) ==
  /\ h[p].pc = "link"
  /\ link[l].state = "unissued"
  /\ link' = [link EXCEPT ![l] = [user |-> h[p].user, state |-> "open"]]
  /\ Done(p)
  /\ UNCHANGED <<role, active, password, session, invite, log, resets>>

LinkExpires(l) ==
  /\ link[l].state = "open"
  /\ link' = [link EXCEPT ![l].state = "expired"]
  /\ UNCHANGED <<role, active, password, session, invite, log, resets, h>>

\* The worker deletes old links, here one by one.
Cleanup(l) ==
  /\ link[l].state \in {"expired", "used"}
  /\ link' = [link EXCEPT ![l].state = "deleted"]
  /\ UNCHANGED <<role, active, password, session, invite, log, resets, h>>

\* The link is there, neither used nor expired ...
ResetStart(p, l) ==
  /\ link[l].state = "open"
  /\ Begin(p, Task("recover", link[l].user, l))
  /\ UNCHANGED <<role, active, password, session, link, invite, log, resets>>

\* ... and its user is active.
ResetUser(p) ==
  /\ h[p].pc = "recover"
  /\ role[h[p].user] \in Member /\ active[h[p].user]
  /\ Go(p, "reset")
  /\ UNCHANGED <<role, active, password, session, link, invite, log, resets>>

\* Mutant (LinkWorksOnce): the transaction does not look at the link again.
ResetAgain(p, u, l) ==
  /\ h[p].pc = "reset" /\ h[p].user = u /\ h[p].arg = l
  /\ active[u]
  /\ password[u] < MaxPasswords
  /\ link' = [link EXCEPT ![l].state = "used"]
  /\ resets' = [resets EXCEPT ![l] = @ + 1]
  /\ password' = [password EXCEPT ![u] = @ + 1]
  /\ Revoke(u)
  /\ Done(p)
  /\ UNCHANGED <<role, active, invite, log>>

\* The link is used and the password set together, or not at all.
Reset(p, u, l) ==
  /\ h[p].pc = "reset" /\ h[p].user = u /\ h[p].arg = l
  /\ link[l].state = "open"
  /\ active[u]
  /\ password[u] < MaxPasswords
  /\ link' = [link EXCEPT ![l].state = "used"]
  /\ resets' = [resets EXCEPT ![l] = @ + 1]
  /\ password' = [password EXCEPT ![u] = @ + 1]
  /\ Revoke(u)
  /\ Done(p)
  /\ UNCHANGED <<role, active, invite, log>>

-----------------------------------------------------------------------------
(* What administrators do *)

SuspendStart(p, u) ==
  /\ role[u] \in Member /\ active[u]
  /\ Begin(p, Task("suspend", u, None))
  /\ UNCHANGED <<role, active, password, session, link, invite, log, resets>>

\* Mutant (SuspensionsAreLifted): the UPDATE does not ask whether the account is active.
SuspendAnyway(p, u) ==
  /\ h[p].pc = "suspend" /\ h[p].user = u
  /\ Len(log[u]) < MaxActions
  /\ active' = [active EXCEPT ![u] = FALSE]
  /\ Revoke(u)
  /\ log' = [log EXCEPT ![u] = Append(@, "suspend")]
  /\ Done(p)
  /\ UNCHANGED <<role, password, link, invite, resets>>

Suspend(p, u) ==
  /\ h[p].pc = "suspend" /\ h[p].user = u
  /\ active[u]
  /\ Len(log[u]) < MaxActions
  /\ active' = [active EXCEPT ![u] = FALSE]
  /\ Revoke(u)
  /\ log' = [log EXCEPT ![u] = Append(@, "suspend")]
  /\ Done(p)
  /\ UNCHANGED <<role, password, link, invite, resets>>

\* Of a parent, a nanny or another admin.
ReactivateStart(p, u) ==
  /\ role[u] # None /\ ~active[u]
  /\ Begin(p, Task("reactivate", u, None))
  /\ UNCHANGED <<role, active, password, session, link, invite, log, resets>>

Reactivate(p, u) ==
  /\ h[p].pc = "reactivate" /\ h[p].user = u
  /\ ~active[u]
  /\ Len(log[u]) < MaxActions
  /\ active' = [active EXCEPT ![u] = TRUE]
  /\ log' = [log EXCEPT ![u] = Append(@, "reactivate")]
  /\ Done(p)
  /\ UNCHANGED <<role, password, session, link, invite, resets>>

\* Some other admin disables an admin: no audit record, and no question whether
\* it is active.
DisableAdmin(u) ==
  /\ role[u] = "admin"
  /\ active' = [active EXCEPT ![u] = FALSE]
  /\ Revoke(u)
  /\ UNCHANGED <<role, password, link, invite, log, resets, h>>

\* An address has one invite that is not accepted, and may have an account.
Invite(u) ==
  /\ invite[u] = "none"
  /\ invite' = [invite EXCEPT ![u] = "open"]
  /\ UNCHANGED <<role, active, password, session, link, log, resets, h>>

InviteExpires(u) ==
  /\ invite[u] = "open"
  /\ invite' = [invite EXCEPT ![u] = "expired"]
  /\ UNCHANGED <<role, active, password, session, link, log, resets, h>>

\* One transaction, which holds the row of the invite.
AcceptInvite(u) ==
  /\ invite[u] = "open"
  /\ role[u] = None
  /\ invite' = [invite EXCEPT ![u] = "none"]
  /\ role' = [role EXCEPT ![u] = "admin"]
  /\ active' = [active EXCEPT ![u] = TRUE]
  /\ password' = [password EXCEPT ![u] = 1]
  /\ UNCHANGED <<session, link, log, resets, h>>

\* A check or a statement fails, the client goes away or the process dies.
GiveUp(p) ==
  /\ h[p] # Idle
  /\ Done(p)
  /\ UNCHANGED <<role, active, password, session, link, invite, log, resets>>

-----------------------------------------------------------------------------
Init ==
  /\ role = [u \in User |-> None]
  /\ active = [u \in User |-> FALSE]
  /\ password = [u \in User |-> 0]
  /\ session = [s \in Session |-> None]
  /\ link = [l \in Link |-> [user |-> None, state |-> "unissued"]]
  /\ invite = [u \in User |-> "none"]
  /\ log = [u \in User |-> <<>>]
  /\ resets = [l \in Link |-> 0]
  /\ h = [p \in Handler |-> Idle]

\* A request arrives.
Arrive(p) ==
  \/ \E u \in User :
       \/ LoginStart(p, u)
       \/ ChangeStart(p, u)
       \/ DeactivateStart(p, u)
       \/ RecoveryStart(p, u)
       \/ SuspendStart(p, u)
       \/ ReactivateStart(p, u)
       \/ \E r \in Member : RegisterStart(p, u, r)
  \/ \E s \in Session : RefreshStart(p, s)
  \/ \E l \in Link : ResetStart(p, l)

\* A request goes on.
Proceed(p) ==
  \/ \E u \in User :
       \/ Create(p, u)
       \/ ChangePassword(p, u)
       \/ Deactivate(p, u)
       \/ Supersede(p, u)
       \/ Suspend(p, u)
       \/ Reactivate(p, u)
       \/ \E l \in Link : Reset(p, u, l)
  \/ \E s \in Session : Issue(p, s) \/ Rotate(p, s)
  \/ \E l \in Link : CreateLink(p, l)
  \/ RefreshUser(p)
  \/ ResetUser(p)
  \/ GiveUp(p)

Next ==
  \/ \E p \in Handler : Arrive(p) \/ Proceed(p)
  \/ \E s \in Session : Logout(s)
  \/ \E l \in Link : LinkExpires(l) \/ Cleanup(l)
  \/ \E u \in User : DisableAdmin(u) \/ Invite(u) \/ InviteExpires(u) \/ AcceptInvite(u)

Spec == Init /\ [][Next]_vars

-----------------------------------------------------------------------------
(***************************************************************************)
(* Properties                                                              *)
(***************************************************************************)

\* Every variable has its type.
TypeOK ==
  /\ role \in [User -> Role \cup {None}]
  /\ active \in [User -> BOOLEAN]
  /\ password \in [User -> Nat]
  /\ session \in [Session -> User \cup {Ended, None}]
  /\ link \in [Link -> [user : User \cup {None}, state : LinkState]]
  /\ invite \in [User -> {"none", "open", "expired"}]
  /\ log \in [User -> Seq({"suspend", "reactivate"})]
  /\ resets \in [Link -> Nat]
  /\ h \in [Handler -> Job]

\* A recovery link sets one password at most, however many requests present it
\* at once and whatever supersedes, expires or deletes it meanwhile.
LinkWorksOnce ==
  \A l \in Link :
    /\ resets[l] <= 1
    /\ resets[l] = 1 => link[l].state \in {"used", "deleted"}

\* The audit records of an account: it is never suspended twice without having
\* been reactivated in between, and while the last record says suspended it is
\* not active, although admins may act at once and owners deactivate accounts
\* without a record.
SuspensionsAreLifted ==
  \A u \in User :
    LET l == log[u] IN
    /\ \A i \in DOMAIN l : i > 1 /\ l[i] = "suspend" => l[i - 1] = "reactivate"
    /\ Len(l) > 0 /\ l[Len(l)] = "suspend" => ~active[u]

\* An address keeps the account and the role it got first, although two
\* registrations and an invite may all have found it free.
RoleStands == [][\A u \in User : role[u] # None => role'[u] = role[u]]_vars

\* An account that is not active keeps its password: a change or a recovery that
\* was let in before comes too late.
PasswordRests ==
  [][\A u \in User : role[u] # None /\ ~active[u] => password'[u] = password[u]]_vars

\* Both, whatever requests were let in when they were allowed.
AccountsRest == RoleStands /\ PasswordRests

\* The handler is about to store a session for u without asking again.
Gains(p, u) == h[p].pc \in {"issue", "rotate"} /\ h[p].user = u

\* An account that is not active gains no sessions but those of requests that
\* were let in while it was, one for each: with those its sessions run out.
InactiveGainsNothing ==
  [][\A u \in User : role[u] # None /\ ~active[u] /\ ~active'[u] =>
       /\ \A p \in Handler : Gains(p, u)' => Gains(p, u)
       /\ \A s \in Session : session'[s] = u /\ session[s] # u =>
            \E p \in Handler : Gains(p, u) /\ ~Gains(p, u)']_vars

\* The sessions of u and the requests about to store one for it.
Held(u) == {s \in Session : session[s] = u}
Underway(u) == {p \in Handler : Gains(p, u)}

\* Together they never become more while the account is not active: a refresh
\* replaces one session by one, although its DELETE may find nothing, and a
\* request stores one, however many of them overlap.
AccessRunsOut ==
  [][\A u \in User : role[u] # None /\ ~active[u] /\ ~active'[u] =>
       Cardinality(Held(u)') + Cardinality(Underway(u)')
         <= Cardinality(Held(u)) + Cardinality(Underway(u))]_vars

\* Nobody gets into an account that is not active who was not in it or on the
\* way when it ceased to be.
AccessEnds == InactiveGainsNothing /\ AccessRunsOut
=============================================================================
