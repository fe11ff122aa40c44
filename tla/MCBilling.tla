------------------------------ MODULE MCBilling ------------------------------
(***************************************************************************)
(* The payment of a booking and what surrounds it, for TLC: the cards of   *)
(* the parent, the account of the nanny and the reminders.  They share no  *)
(* state, and a run looks at some of them one by one: `part' says at which.*)
(***************************************************************************)
EXTENDS MCBookingPayments, SavedCards, PayoutAccounts, Reminders

CONSTANT Parts

VARIABLE part     \* what the behaviour is about; it never changes

billingVars == <<part, vars, cardVars, payoutVars, reminderVars>>

BillingInit ==
  /\ part \in Parts
  /\ Init /\ SavedCardsInit /\ PayoutInit /\ RemindersInit
  /\ part = "charge" \/ fault = CHOOSE f \in Faults : TRUE

BillingNext ==
  /\ part' = part
  /\ \/ part = "charge" /\ Next /\ UNCHANGED <<cardVars, payoutVars, reminderVars>>
     \/ part = "cards" /\ SavedCardsNext /\ UNCHANGED <<vars, payoutVars, reminderVars>>
     \/ part = "payouts" /\ PayoutNext /\ UNCHANGED <<vars, cardVars, reminderVars>>
     \/ part = "reminders" /\ RemindersNext /\ UNCHANGED <<vars, cardVars, payoutVars>>

BillingSpec == BillingInit /\ [][BillingNext]_billingVars

\* In a part that is not looked at no work is under way, and nothing is due.
BillingFairSpec ==
  /\ BillingSpec /\ Fairness
  /\ \A p \in Asker : WF_cardVars(AskProceeds(p))
  /\ \A p \in Caller : WF_payoutVars(CallProceeds(p))

(* Of the cards and of the account for payouts alike, what is at Stripe is
   what the database knows of, though setups and links are asked for twice,
   at once or again after a failure. *)
MoneyIsOnRecord == CardsAreOnRecord /\ AccountIsOnRecord /\ OnboardingIsEarned
=============================================================================
