------------------------------ MODULE SavedCards ------------------------------
(***************************************************************************)
(* The saved cards of one parent (payments/pipes/parent.billing.pipe) and  *)
(* what the handlers that approve and charge a booking make of them        *)
(* (resolvePaymentMethod).                                                 *)
(*                                                                         *)
(* Stripe holds the customer, the cards and a default of its own; the      *)
(* database remembers the customer and a default.  A handler reads one,    *)
(* asks the other and writes both, one call after the other, while other   *)
(* requests do the same.  The nanny is set up here, and the charge is one  *)
(* step: modules PayoutAccounts and BookingPayments have the rest.         *)
(***************************************************************************)
EXTENDS Naturals, FiniteSets

CONSTANTS
  Card,
  Customer,      \* identifiers that Stripe may give
  Sitting,       \* bookings of the parent
  Asker,         \* requests under way at a time
  MaxFailures,   \* bound: requests that end half way
  Missing        \* '' and NULL

ASSUME SavedCardsAssumptions ==
  /\ Missing \notin Card \cup Customer \cup Sitting \cup {"new", "gone"}
  /\ Customer # {} /\ {"new", "gone"} \cap Customer = {}
  /\ MaxFailures \in Nat

VARIABLES
  customer,    \* parent_profiles.stripe_customer_id
  default,     \* parent_profiles.stripe_default_payment_method_id
  customers,   \* at Stripe: those made for the parent
  holder,      \* at Stripe: the customer a card is attached to; "new" before, "gone" after
  preferred,   \* at Stripe: invoice_settings.default_payment_method
  sitting,     \* bookings.status
  ask,         \* requests under way
  overtaken,   \* history: deletions since whose look at the cards one was removed or a booking approved
  failures     \* how many requests have ended half way

billing == <<customer, default>>
atStripe == <<customers, holder, preferred>>
cardVars == <<billing, atStripe, sitting, ask, overtaken, failures>>

\* ListCardPaymentMethods.
Saved == {k \in Card : holder[k] = customer}

Unasked == [pc |-> "idle", card |-> Missing, sitting |-> Missing, with |-> Missing]
Asks(p, work) == ask[p] = Unasked /\ ask' = [ask EXCEPT ![p] = work]
On(p, pc) == ask[p].pc = pc
Then(p, pc) == ask' = [ask EXCEPT ![p].pc = pc]
ThenWith(p, pc, k) == ask' = [ask EXCEPT ![p].pc = pc, ![p].card = k]
Ends(p) == ask' = [ask EXCEPT ![p] = Unasked]

(* Deletions that rely on how many cards or approved bookings there were. *)
Looking == {p \in Asker : ask[p].pc \in {"check", "detach"}}
Overtakes(p) == overtaken' = overtaken \cup (Looking \ {p})
Alone == UNCHANGED <<overtaken, failures>>

SavedCardsInit ==
  /\ customer = Missing /\ default = Missing
  /\ customers = {} /\ holder = [k \in Card |-> "new"] /\ preferred = Missing
  /\ sitting = [v \in Sitting |-> "pending"]
  /\ ask = [p \in Asker |-> Unasked]
  /\ overtaken = {} /\ failures = 0

-----------------------------------------------------------------------------
(* CreateParentSetupIntent; the browser then saves a card with the intent.
   Bound: nothing is set up when no card is left to enter. *)

SetupReads(p) ==
  /\ \E k \in Card : holder[k] = "new"
  /\ Asks(p, [Unasked EXCEPT !.pc = IF customer = Missing THEN "create" ELSE "intent",
                             !.with = customer])
  /\ UNCHANGED <<billing, atStripe, sitting>> /\ Alone

NewCustomer == CHOOSE c \in Customer \ customers : TRUE
CustomerIs(p, c) ==
  /\ customers' = customers \cup {c}
  /\ ask' = [ask EXCEPT ![p].pc = "record", ![p].with = c]

\* Mutant (MoneyIsOnRecord): the call has no idempotency key.
CustomerCreatedAnew(p) ==
  /\ On(p, "create") /\ customers # Customer
  /\ CustomerIs(p, NewCustomer)
  /\ UNCHANGED <<billing, holder, preferred, sitting>> /\ Alone

\* The key names the parent: Stripe makes one customer and repeats the answer.
CustomerCreated(p) ==
  /\ On(p, "create")
  /\ CustomerIs(p, IF customers = {} THEN NewCustomer ELSE CHOOSE c \in customers : TRUE)
  /\ UNCHANGED <<billing, holder, preferred, sitting>> /\ Alone

CustomerRecorded(p) ==
  /\ On(p, "record")
  /\ customer' = ask[p].with
  /\ Then(p, "intent")
  /\ UNCHANGED <<default, atStripe, sitting>> /\ Alone

\* The form of the intent is left, or a card is entered.
FormLeft(p) ==
  /\ On(p, "intent")
  /\ Ends(p)
  /\ UNCHANGED <<billing, atStripe, sitting>> /\ Alone

CardSaved(p, k) ==
  /\ On(p, "intent") /\ holder[k] = "new"
  /\ holder' = [holder EXCEPT ![k] = ask[p].with]
  /\ Ends(p)
  /\ UNCHANGED <<billing, customers, preferred, sitting>> /\ Alone

-----------------------------------------------------------------------------
(* UpdateParentPaymentMethod *)

DefaultAsked(p, k) ==
  /\ customer # Missing /\ k \in Saved
  /\ Asks(p, [Unasked EXCEPT !.pc = "prefer", !.card = k])
  /\ UNCHANGED <<billing, atStripe, sitting>> /\ Alone

\* Stripe refuses a card that is no longer the customer's.
DefaultPreferred(p) ==
  /\ On(p, "prefer")
  /\ IF ask[p].card \in Saved
     THEN preferred' = ask[p].card /\ Then(p, "store")
     ELSE Ends(p) /\ UNCHANGED preferred
  /\ UNCHANGED <<billing, customers, holder, sitting>> /\ Alone

DefaultStored(p) ==
  /\ On(p, "store")
  /\ default' = ask[p].card
  /\ Ends(p)
  /\ UNCHANGED <<customer, atStripe, sitting>> /\ Alone

-----------------------------------------------------------------------------
(* DeleteParentPaymentMethod, of a card that some page has shown: `with' is
   the default it has read. *)

DeleteReads(p, k) ==
  /\ customer # Missing /\ holder[k] # "new"
  /\ Asks(p, [Unasked EXCEPT !.pc = "list", !.card = k, !.with = default])
  /\ UNCHANGED <<billing, atStripe, sitting>> /\ Alone

\* Mutant (LastCardIsKept): the last card is not asked about.
DeleteListsAnyway(p) ==
  /\ On(p, "list")
  /\ IF ask[p].card \in Saved THEN Then(p, "detach") ELSE Ends(p)
  /\ overtaken' = overtaken \ {p}
  /\ UNCHANGED <<billing, atStripe, sitting, failures>>

DeleteLists(p) ==
  /\ On(p, "list")
  /\ CASE ask[p].card \notin Saved   -> Ends(p)
       [] Saved = {ask[p].card}      -> Then(p, "check")
       [] OTHER                      -> Then(p, "detach")
  /\ overtaken' = overtaken \ {p}
  /\ UNCHANGED <<billing, atStripe, sitting, failures>>

DeleteChecks(p) ==
  /\ On(p, "check")
  /\ IF \E v \in Sitting : sitting[v] = "approved" THEN Ends(p) ELSE Then(p, "detach")
  /\ UNCHANGED <<billing, atStripe, sitting>> /\ Alone

\* Stripe forgets a default that is detached, and refuses a second detach.
CardDetached(p) ==
  /\ On(p, "detach") /\ ask[p].card \in Saved
  /\ holder' = [holder EXCEPT ![ask[p].card] = "gone"]
  /\ preferred' = IF preferred = ask[p].card THEN Missing ELSE preferred
  /\ IF ask[p].with = ask[p].card THEN Then(p, "clear") ELSE Ends(p)
  /\ Overtakes(p)
  /\ UNCHANGED <<billing, customers, sitting, failures>>

DetachRefused(p) ==
  /\ On(p, "detach") /\ ask[p].card \notin Saved
  /\ Ends(p)
  /\ UNCHANGED <<billing, atStripe, sitting>> /\ Alone

DefaultCleared(p) ==
  /\ On(p, "clear")
  /\ default' = Missing
  /\ Ends(p)
  /\ UNCHANGED <<customer, atStripe, sitting>> /\ Alone

-----------------------------------------------------------------------------
(* EnsureBookingPaymentReady, before an approval, and ChargeCompletedBooking,
   for an approved booking: `with' is which of the two. *)

CardSought(p, v, act) ==
  /\ customer # Missing /\ (act = "charge" => sitting[v] = "approved")
  /\ Asks(p, [pc |-> IF default # Missing THEN "stored" ELSE "preferred",
              card |-> default, sitting |-> v, with |-> act])
  /\ UNCHANGED <<billing, atStripe, sitting>> /\ Alone

\* A card that was detached is no customer's, which is accepted.
StoredFound(p) ==
  /\ On(p, "stored") /\ holder[ask[p].card] \in {customer, "gone"}
  /\ Then(p, ask[p].with)
  /\ UNCHANGED <<billing, atStripe, sitting>> /\ Alone

\* The call fails: the stored default is given up.
StoredStale(p) ==
  /\ On(p, "stored") /\ failures < MaxFailures
  /\ failures' = failures + 1
  /\ Then(p, "forget")
  /\ UNCHANGED <<billing, atStripe, sitting, overtaken>>

DefaultForgotten(p) ==
  /\ On(p, "forget")
  /\ default' = Missing
  /\ Then(p, "preferred")
  /\ UNCHANGED <<customer, atStripe, sitting>> /\ Alone

\* Mutant (SavedCardIsCharged): without a default there is no card.
PreferredOnly(p) ==
  /\ On(p, "preferred")
  /\ IF preferred # Missing THEN ThenWith(p, "look", preferred) ELSE Ends(p)
  /\ UNCHANGED <<billing, atStripe, sitting>> /\ Alone

PreferredRead(p) ==
  /\ On(p, "preferred")
  /\ IF preferred # Missing THEN ThenWith(p, "look", preferred) ELSE Then(p, "first")
  /\ UNCHANGED <<billing, atStripe, sitting>> /\ Alone

PreferredFound(p) ==
  /\ On(p, "look") /\ holder[ask[p].card] \in {customer, "gone"}
  /\ Then(p, "adopt")
  /\ UNCHANGED <<billing, atStripe, sitting>> /\ Alone

\* The customer or its default cannot be read: any card will do.
PreferredUnread(p) ==
  /\ On(p, "preferred") \/ On(p, "look")
  /\ failures < MaxFailures
  /\ failures' = failures + 1
  /\ Then(p, "first")
  /\ UNCHANGED <<billing, atStripe, sitting, overtaken>>

FirstRead(p) ==
  /\ On(p, "first")
  /\ IF Saved = {} THEN Ends(p) ELSE \E k \in Saved : ThenWith(p, "adopt", k)
  /\ UNCHANGED <<billing, atStripe, sitting>> /\ Alone

\* Whether the new default could be written is not looked at.
CardAdopted(p) ==
  /\ On(p, "adopt")
  /\ default' \in {ask[p].card, default}
  /\ Then(p, ask[p].with)
  /\ UNCHANGED <<customer, atStripe, sitting>> /\ Alone

SittingApproved(p) ==
  /\ On(p, "approve")
  /\ sitting' = [sitting EXCEPT ![ask[p].sitting] = IF @ = "pending" THEN "approved" ELSE @]
  /\ IF sitting' = sitting THEN UNCHANGED overtaken ELSE Overtakes(p)
  /\ Ends(p)
  /\ UNCHANGED <<billing, atStripe, failures>>

\* Stripe charges a customer's own card only.
SittingCharged(p) ==
  /\ On(p, "charge")
  /\ sitting' = [sitting EXCEPT ![ask[p].sitting] =
                   IF @ = "approved" /\ ask[p].card \in Saved THEN "closed" ELSE @]
  /\ Ends(p)
  /\ UNCHANGED <<billing, atStripe>> /\ Alone

IsCharged(v) == \E p \in Asker : ask[p].sitting = v /\ ask[p].with = "charge"

SittingCancelled(v) ==
  /\ sitting[v] \in {"pending", "approved"}
  /\ sitting' = [sitting EXCEPT ![v] = "closed"]
  /\ UNCHANGED <<billing, atStripe, ask>> /\ Alone

-----------------------------------------------------------------------------
(* A call of a request fails, its client goes away or its process dies. *)
AskGivenUp(p) ==
  /\ ask[p] # Unasked /\ failures < MaxFailures
  /\ failures' = failures + 1
  /\ Ends(p)
  /\ UNCHANGED <<billing, atStripe, sitting, overtaken>>

SavesCard(p) ==
  \/ CustomerCreated(p) \/ CustomerRecorded(p) \/ FormLeft(p)
  \/ \E k \in Card : CardSaved(p, k)
SetsDefault(p) == DefaultPreferred(p) \/ DefaultStored(p)
DeletesCard(p) ==
  DeleteLists(p) \/ DeleteChecks(p) \/ CardDetached(p) \/ DetachRefused(p) \/ DefaultCleared(p)
UsesCard(p) ==
  \/ StoredFound(p) \/ DefaultForgotten(p) \/ PreferredRead(p) \/ PreferredFound(p)
  \/ FirstRead(p) \/ CardAdopted(p)
  \/ SittingApproved(p) \/ SittingCharged(p)
AskProceeds(p) == SavesCard(p) \/ SetsDefault(p) \/ DeletesCard(p) \/ UsesCard(p)

SavedCardsNext ==
  \/ \E p \in Asker :
       \/ SetupReads(p) \/ AskProceeds(p) \/ StoredStale(p) \/ PreferredUnread(p) \/ AskGivenUp(p)
       \/ \E k \in Card : DefaultAsked(p, k) \/ DeleteReads(p, k)
       \/ \E v \in Sitting, act \in {"approve", "charge"} : CardSought(p, v, act)
  \/ \E v \in Sitting : SittingCancelled(v)

SavedCardsSpec == SavedCardsInit /\ [][SavedCardsNext]_cardVars

-----------------------------------------------------------------------------
(* However often a setup is started, at once or again after a failure, the
   cards are saved with the customer that is on record. *)
CardsAreOnRecord == \A k \in Card : holder[k] \in Customer => holder[k] = customer

(* "Keep one saved card while you have approved bookings waiting to be
   charged" (apps/web/src/utils/api/api.ts:32): the last card is removed from
   a parent with an approved booking only when, since the request looked, the
   booking was approved or another card was removed. *)
LastCardIsKept ==
  [][Saved # {} /\ Saved' = {} /\ (\E v \in Sitting : sitting[v] = "approved")
       => \E p \in overtaken : On(p, "detach")]_cardVars

(* Completing a booking whose parent has a card, and no default that was
   detached, is not asked for again and again in vain, whichever default is
   missing, stale or written late. *)
SavedCardIsCharged ==
  \A v \in Sitting :
    <>[](Saved # {} /\ default \in Saved \cup {Missing}) => <>[](~ IsCharged(v))
=============================================================================
