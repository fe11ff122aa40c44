---------------------------- MODULE PayoutAccounts ----------------------------
(***************************************************************************)
(* The Stripe account that pays one nanny out, and what the database knows *)
(* of it (payments/pipes/nanny.connect.pipe, the account.updated branch of *)
(* webhook.pipe).  The link to Stripe, the payments page and the webhook   *)
(* all write stripe_onboarded, each from an answer or an event that may be *)
(* old by then; events come in any order and come again until they are     *)
(* answered.  The payout schedule is left out.                             *)
(***************************************************************************)
EXTENDS Naturals, FiniteSets

CONSTANTS
  Account,       \* identifiers that Stripe may give
  Caller,        \* requests and deliveries under way at a time
  MaxChanges,    \* bound: how often the account starts or ceases to be complete
  MaxDrops,      \* bound: requests and deliveries that end half way
  NoAccount      \* ''

ASSUME PayoutAccountsAssumptions ==
  /\ Account # {} /\ NoAccount \notin Account
  /\ MaxChanges \in Nat /\ MaxDrops \in Nat

VARIABLES
  account,     \* nanny_profiles.stripe_account_id
  onboarded,   \* nanny_profiles.stripe_onboarded
  accounts,    \* at Stripe: those made for the nanny
  changes,     \* at Stripe: how often the account in use has changed
  handled,     \* stripe_webhook_events
  call,        \* requests and deliveries under way
  drops        \* how many of them have ended half way

payoutVars == <<account, onboarded, accounts, changes, handled, call, drops>>

\* charges_enabled, payouts_enabled and details_submitted: not so at first.
Complete(n) == n % 2 = 1

Uncalled == [pc |-> "idle", account |-> NoAccount, of |-> 0, noted |-> FALSE]
Calls(p, work) == call[p] = Uncalled /\ call' = [call EXCEPT ![p] = work]
InCall(p, pc) == call[p].pc = pc
GoesOn(p, pc) == call' = [call EXCEPT ![p].pc = pc]
Returns(p) == call' = [call EXCEPT ![p] = Uncalled]

PayoutInit ==
  /\ account = NoAccount /\ onboarded = FALSE
  /\ accounts = {} /\ changes = 0 /\ handled = {}
  /\ call = [p \in Caller |-> Uncalled] /\ drops = 0

-----------------------------------------------------------------------------
(* CreateNannyConnectLink; the nanny then fills in the form of the link. *)

LinkReads(p) ==
  /\ Calls(p, [Uncalled EXCEPT !.pc = IF account = NoAccount THEN "create" ELSE "form",
                               !.account = account])
  /\ UNCHANGED <<account, onboarded, accounts, changes, handled, drops>>

NewAccount == CHOOSE a \in Account \ accounts : TRUE
AccountIs(p, a) ==
  /\ accounts' = accounts \cup {a}
  /\ call' = [call EXCEPT ![p].pc = "record", ![p].account = a]
  /\ UNCHANGED <<account, onboarded, changes, handled, drops>>

\* The key names the nanny: one account, and the answer of the first time.
AccountCreated(p) ==
  /\ InCall(p, "create")
  /\ AccountIs(p, IF accounts = {} THEN NewAccount ELSE CHOOSE a \in accounts : TRUE)

\* That answer is of an account nobody has filled in yet.
AccountRecorded(p) ==
  /\ InCall(p, "record")
  /\ account' = call[p].account /\ onboarded' = FALSE
  /\ GoesOn(p, "form")
  /\ UNCHANGED <<accounts, changes, handled, drops>>

\* The form is left: Stripe has what it needs now, or finds it lacks something.
FormClosed(p) ==
  /\ InCall(p, "form")
  /\ \/ changes < MaxChanges /\ changes' = changes + 1
     \/ UNCHANGED changes
  /\ Returns(p)
  /\ UNCHANGED <<account, onboarded, accounts, handled, drops>>

-----------------------------------------------------------------------------
(* GetNannyStripeStatus: the payments page. *)

StatusReads(p) ==
  /\ account # NoAccount
  /\ Calls(p, [Uncalled EXCEPT !.pc = "status", !.account = account, !.noted = onboarded])
  /\ UNCHANGED <<account, onboarded, accounts, changes, handled, drops>>

\* Mutant (OnboardingIsNoticed): the page answers from the database.
StatusAnswered(p) ==
  /\ InCall(p, "status")
  /\ Returns(p)
  /\ UNCHANGED <<account, onboarded, accounts, changes, handled, drops>>

StatusAsked(p) ==
  /\ InCall(p, "status")
  /\ IF Complete(changes) = call[p].noted
     THEN Returns(p)
     ELSE call' = [call EXCEPT ![p].pc = "note", ![p].of = changes]
  /\ UNCHANGED <<account, onboarded, accounts, changes, handled, drops>>

StatusNoted(p) ==
  /\ InCall(p, "note")
  /\ account' = call[p].account /\ onboarded' = Complete(call[p].of)
  /\ Returns(p)
  /\ UNCHANGED <<accounts, changes, handled, drops>>

-----------------------------------------------------------------------------
(* HandleStripeWebhook, for account.updated: an event tells of change n and
   carries the account as it was after it. *)

EventArrives(p, n) ==
  /\ n \notin handled /\ account # NoAccount
  /\ Calls(p, [Uncalled EXCEPT !.pc = "apply", !.account = account, !.of = n])
  /\ UNCHANGED <<account, onboarded, accounts, changes, handled, drops>>

EventApplied(p) ==
  /\ InCall(p, "apply")
  /\ onboarded' = IF account = call[p].account THEN Complete(call[p].of) ELSE onboarded
  /\ GoesOn(p, "settle")
  /\ UNCHANGED <<account, accounts, changes, handled, drops>>

EventSettled(p) ==
  /\ InCall(p, "settle")
  /\ handled' = handled \cup {call[p].of}
  /\ Returns(p)
  /\ UNCHANGED <<account, onboarded, accounts, changes, drops>>

-----------------------------------------------------------------------------
(* A call fails, its client goes away or its process dies. *)
CallDropped(p) ==
  /\ call[p] # Uncalled /\ drops < MaxDrops
  /\ drops' = drops + 1
  /\ Returns(p)
  /\ UNCHANGED <<account, onboarded, accounts, changes, handled>>

CallProceeds(p) ==
  \/ AccountCreated(p) \/ AccountRecorded(p) \/ FormClosed(p)
  \/ StatusAsked(p) \/ StatusNoted(p)
  \/ EventApplied(p) \/ EventSettled(p)

PayoutNext ==
  \E p \in Caller :
    \/ LinkReads(p) \/ StatusReads(p) \/ CallProceeds(p) \/ CallDropped(p)
    \/ \E n \in 1..changes : EventArrives(p, n)

PayoutSpec == PayoutInit /\ [][PayoutNext]_payoutVars

-----------------------------------------------------------------------------
(* However often a link is asked for, at once or again after a failure, the
   account on record is the one account the nanny may have filled in. *)
AccountIsOnRecord ==
  changes > 0 => accounts = {account}

(* The nanny is taken for one who can be paid, and approvals and charges rely on
   it, only on the one account there is and when Stripe has said so of it at some
   time, whichever answers and events come late, twice or out of order. *)
OnboardingIsEarned ==
  onboarded => accounts = {account} /\ \E n \in 1..changes : Complete(n)

(* A nanny who looks at the payments page again and again is found able to be
   paid once the account is and stays complete, though a link that was asked
   for twice wrote it down as unfinished and an event arrived late. *)
OnboardingIsNoticed ==
  <>[](Complete(changes)) /\ []<>(\E p \in Caller : InCall(p, "status")) => <>[]onboarded
=============================================================================
