--------------------------- MODULE BookingPayments ---------------------------
(***************************************************************************)
(* Charging and refunding bookings (apps/api/payments, with the handlers   *)
(* of apps/api/bookings and apps/api/admin that call it).                  *)
(*                                                                         *)
(* Three parties keep a record of the same money: Stripe (intents), the    *)
(* table booking_payments (row) and the table bookings (status).  Nothing  *)
(* ties them together but the order in which a handler talks to them, the  *)
(* idempotency key of the first charge, and the webhooks by which Stripe   *)
(* reports afterwards, in any order and more than once.                    *)
(*                                                                         *)
(* The bookings here have been approved and their hours are over: how they *)
(* got there is module Bookings.  fault says what may go wrong, and never  *)
(* changes:                                                                *)
(*   "decline"  Stripe refuses a charge                                    *)
(*   "async"    Stripe answers "processing" and settles later              *)
(*   "lost"     Stripe acts, but its answer misses the client's timeout    *)
(*   "crash"    a handler ends between two of its calls                    *)
(*   "nocard"   the parent's card or the nanny's account comes and goes    *)
(*                                                                         *)
(* An operator whose comment begins with "Mutant" is no part of the model: *)
(* see module Bookings.                                                    *)
(***************************************************************************)
EXTENDS Integers

CONSTANTS
  Booking,      \* approved bookings whose hours are over
  Intent,       \* identifiers of Stripe's payment intents; each has one charge
  Handler,      \* HTTP requests and webhooks being served at the same time
  Faults,       \* sets of things that may go wrong together
  None          \* the absent value: NULL, '' and no row

ASSUME PaymentsAssumption ==
  /\ Faults \subseteq SUBSET {"decline", "async", "lost", "crash", "nocard"}
  /\ None \notin Booking \cup Intent

VARIABLES
  status,       \* bookings.status
  row,          \* booking_payments, by booking_id
  intents,      \* Stripe's payment intents
  sent,         \* the events Stripe has sent, or will send again, to the webhook
  processed,    \* stripe_webhook_events: the events recorded as processed
  ready,        \* bookings whose parent and nanny are set up for payment
  fault,        \* what may go wrong in this behaviour
  h             \* what each handler is doing

stripe == <<intents, sent>>
database == <<status, row, processed>>
world == <<ready, fault>>
vars == <<database, stripe, world, h>>

Closable == {"pending", "approved", "completed"}

\* Statuses that normalizePaymentStatus lets through and that Stripe reports
\* of an intent confirmed when it is created.
IntentStatus == {"processing", "succeeded", "requires_payment_method"}
RowStatus == IntentStatus \cup {"failed", "refunded"}

\* intent is '' after a charge that gave none, and '' is a value like any other
\* to the UNIQUE constraint of the column.
NoRow == [intent |-> None, charge |-> None, status |-> "none"]

FreeIntent == [b |-> None, key |-> None, status |-> "free", answer |-> None]

Event == [i : Intent, status : IntentStatus \cup {"refunded"}]

Idle == [pc |-> "idle", b |-> None, i |-> None, st |-> None]

Begin(p, work) == h[p] = Idle /\ h' = [h EXCEPT ![p] = work]
At(p, pc, b) == h[p].pc = pc /\ h[p].b = b
Go(p, pc) == h' = [h EXCEPT ![p].pc = pc]
Done(p) == h' = [h EXCEPT ![p] = Idle]

\* The row UpsertBookingPayment would leave for b, unless the UNIQUE constraint
\* of the intent refuses it.
Upsertable(b, i) ==
  \A o \in Booking \ {b} : row[o] # NoRow => row[o].intent # i

\* The intent's latest charge is recorded with it, whatever came of it.
Upsert(b, i, st) == row' = [row EXCEPT ![b] = [intent |-> i, status |-> st, charge |-> i]]

-----------------------------------------------------------------------------
(***************************************************************************)
(* Completing a booking: the nanny's request, her payment retry and the    *)
(* admin's request take the same steps.                                    *)
(***************************************************************************)

CompleteStart(p, b) ==
  /\ status[b] = "approved"
  /\ Begin(p, [Idle EXCEPT !.pc = "setup", !.b = b])
  /\ UNCHANGED <<database, stripe, world>>

\* A failed payment is recorded, if it can be, over whatever was there.
ChargeSetupMissing(p, b) ==
  /\ At(p, "setup", b)
  /\ b \notin ready
  /\ IF Upsertable(b, None) THEN Upsert(b, None, "failed") ELSE UNCHANGED row
  /\ Done(p)
  /\ UNCHANGED <<status, processed, stripe, world>>

ChargeSetupFound(p, b) ==
  /\ At(p, "setup", b)
  /\ b \in ready
  /\ Go(p, "lookup")
  /\ UNCHANGED <<database, stripe, world>>

\* Mutant (ChargedOnce): every attempt has a fresh key.
FreshKeyEveryTime(p, b) ==
  /\ At(p, "lookup", b)
  /\ CASE row[b].status = "succeeded" -> Go(p, "complete")
       [] row[b].status = "processing" -> Done(p)
       [] OTHER -> h' = [h EXCEPT ![p].pc = "charge", ![p].st = "retry"]
  /\ UNCHANGED <<database, stripe, world>>

\* Mutant (RetryCompletes): a failed payment ends the matter.
NoRetryAfterFailure(p, b) ==
  /\ At(p, "lookup", b)
  /\ CASE row[b].status = "succeeded" -> Go(p, "complete")
       [] row[b].status \in {"processing", "failed"} -> Done(p)
       [] OTHER -> h' = [h EXCEPT ![p].pc = "charge", ![p].st = "first"]
  /\ UNCHANGED <<database, stripe, world>>

ChargeLookup(p, b) ==
  /\ At(p, "lookup", b)
  /\ CASE row[b].status = "succeeded" -> Go(p, "complete")
       [] row[b].status = "processing" -> Done(p)
       [] OTHER ->
            h' = [h EXCEPT ![p].pc = "charge",
                           ![p].st = IF row[b].status = "failed" THEN "retry" ELSE "first"]
  /\ UNCHANGED <<database, stripe, world>>

\* The answer of CreateDestinationPaymentIntent.  The client turns every error,
\* a timeout included, into a failed payment without an intent.
Answer(p, i, st) == h' = [h EXCEPT ![p].pc = "record", ![p].i = i, ![p].st = st]
Refused(p) == Answer(p, None, "failed")
Answered(p, i, st) == Answer(p, i, st) \/ ("lost" \in fault /\ Refused(p))

ChargeRefused(p, b) ==
  /\ At(p, "charge", b)
  /\ "decline" \in fault
  /\ Refused(p)
  /\ UNCHANGED <<database, stripe, world>>

\* The first key of a booking is always the same, the others are fresh.
FirstOf(b) == {i \in Intent : intents[i].b = b /\ intents[i].key = "first"}

\* Stripe repeats the answer it gave to the same key.
ChargeReplayed(p, b) ==
  \E i \in FirstOf(b) :
    /\ At(p, "charge", b)
    /\ h[p].st = "first"
    /\ Answered(p, i, intents[i].answer)
    /\ UNCHANGED <<database, stripe, world>>

ChargeCreated(p, b) ==
  \E i \in Intent, st \in {"succeeded"} \cup (IF "async" \in fault THEN {"processing"} ELSE {}) :
    /\ At(p, "charge", b)
    /\ h[p].st = "retry" \/ FirstOf(b) = {}
    /\ intents[i] = FreeIntent
    /\ intents' = [intents EXCEPT ![i] = [b |-> b, key |-> h[p].st, status |-> st, answer |-> st]]
    /\ sent' = sent \cup {[i |-> i, status |-> st]}
    /\ Answered(p, i, st)
    /\ UNCHANGED <<database, world>>

\* Mutant (ImplementsMoney): any payment that could be written down will do.
RecordChargeOfAnyStatus(p, b) ==
  /\ At(p, "record", b)
  /\ IF Upsertable(b, h[p].i)
       THEN Upsert(b, h[p].i, h[p].st) /\ Go(p, "complete")
       ELSE Done(p) /\ UNCHANGED row
  /\ UNCHANGED <<status, processed, stripe, world>>

\* The payment is written down, and the booking completed next if it is paid.
RecordCharge(p, b) ==
  /\ At(p, "record", b)
  /\ IF Upsertable(b, h[p].i)
       THEN /\ Upsert(b, h[p].i, h[p].st)
            /\ IF h[p].st = "succeeded" THEN Go(p, "complete") ELSE Done(p)
       ELSE Done(p) /\ UNCHANGED row
  /\ UNCHANGED <<status, processed, stripe, world>>

CompleteBooking(p, b) ==
  /\ At(p, "complete", b)
  /\ status' = [status EXCEPT ![b] = IF @ = "approved" THEN "completed" ELSE @]
  /\ Done(p)
  /\ UNCHANGED <<row, processed, stripe, world>>

-----------------------------------------------------------------------------
(***************************************************************************)
(* Cancelling: the admin refunds and then cancels; the two parties who     *)
(* agree to cancel (Bookings!AcceptCancel) do not touch the payment.       *)
(***************************************************************************)

CancelStart(p, b) ==
  /\ status[b] \in Closable
  /\ Begin(p, [Idle EXCEPT !.pc = "refundLookup", !.b = b])
  /\ UNCHANGED <<database, stripe, world>>

\* Mutant (RowIsBacked): the row is marked before Stripe is asked.
RefundLookupMarksFirst(p, b) ==
  /\ At(p, "refundLookup", b)
  /\ h' = IF row[b].charge # None /\ row[b].status \in {"succeeded", "processing"}
            THEN [h EXCEPT ![p].pc = "recordRefund", ![p].i = row[b].charge]
            ELSE [h EXCEPT ![p].pc = "cancel"]
  /\ UNCHANGED <<database, stripe, world>>

RefundLookup(p, b) ==
  /\ At(p, "refundLookup", b)
  /\ h' = IF row[b].charge # None /\ row[b].status \in {"succeeded", "processing"}
            THEN [h EXCEPT ![p].pc = "refund", ![p].i = row[b].charge]
            ELSE [h EXCEPT ![p].pc = "cancel"]
  /\ UNCHANGED <<database, stripe, world>>

\* Stripe gives back what a charge has taken, which a charge under way or one
\* that failed has not.  The refund's key is the booking's: Stripe repeats its
\* answer for the same charge and refuses another one.
Refundable(i, b) ==
  /\ intents[i].status \in {"succeeded", "refunded"}
  /\ \A j \in Intent : intents[j].b = b /\ intents[j].status = "refunded" => j = i

RefundCreated(p, b) ==
  /\ At(p, "refund", b)
  /\ Refundable(h[p].i, b)
  /\ intents' = [intents EXCEPT ![h[p].i].status = "refunded"]
  /\ sent' = sent \cup {[i |-> h[p].i, status |-> "refunded"]}
  /\ Go(p, "recordRefund") \/ ("lost" \in fault /\ Go(p, "refundFailed"))
  /\ UNCHANGED <<database, world>>

RefundRefused(p, b) ==
  /\ At(p, "refund", b)
  /\ ~ Refundable(h[p].i, b)
  /\ Go(p, "refundFailed")
  /\ UNCHANGED <<database, stripe, world>>

\* Both parties are notified, and the admin's request ends.
RefundFailed(p, b) ==
  /\ At(p, "refundFailed", b)
  /\ Done(p)
  /\ UNCHANGED <<database, stripe, world>>

\* UpdatePaymentRefundedByChargeID, which the webhook uses too.
MarkRefunded(i) ==
  row' = [b \in Booking |-> IF row[b].charge = i THEN [row[b] EXCEPT !.status = "refunded"]
                                                 ELSE row[b]]

RecordRefund(p, b) ==
  /\ At(p, "recordRefund", b)
  /\ MarkRefunded(h[p].i)
  /\ Go(p, "cancel")
  /\ UNCHANGED <<status, processed, stripe, world>>

\* Mutant (RacesAreReconciled): the UPDATE forgets completed bookings.
CancelBookingIfOpen(p, b) ==
  /\ At(p, "cancel", b)
  /\ status' = [status EXCEPT ![b] = IF @ \in {"pending", "approved"} THEN "cancelled" ELSE @]
  /\ Done(p)
  /\ UNCHANGED <<row, processed, stripe, world>>

CancelBooking(p, b) ==
  /\ At(p, "cancel", b)
  /\ status' = [status EXCEPT ![b] = IF @ \in Closable THEN "cancelled" ELSE @]
  /\ Done(p)
  /\ UNCHANGED <<row, processed, stripe, world>>

AgreedCancel(b) ==
  /\ status[b] = "approved"
  /\ status' = [status EXCEPT ![b] = "cancelled"]
  /\ UNCHANGED <<row, processed, stripe, world, h>>

-----------------------------------------------------------------------------
(***************************************************************************)
(* Webhooks.  Stripe sends an event until a handler answers well, which it *)
(* does once the event is recorded; an event recorded before changes       *)
(* nothing.                                                                *)
(***************************************************************************)

WebhookStart(p, e) ==
  /\ e \in sent \ processed
  /\ Begin(p, [pc |-> "applyEvent", b |-> None, i |-> e.i, st |-> e.status])
  /\ UNCHANGED <<database, stripe, world>>

\* UpdatePaymentStatusByIntentID, for the payment_intent events.
MarkStatus(i, st) ==
  row' = [b \in Booking |->
            IF row[b] # NoRow /\ row[b].intent = i /\ row[b].status # "refunded"
              THEN [row[b] EXCEPT !.status = st, !.charge = i]
              ELSE row[b]]

ApplyEvent(p) ==
  /\ h[p].pc = "applyEvent"
  /\ IF h[p].st = "refunded" THEN MarkRefunded(h[p].i) ELSE MarkStatus(h[p].i, h[p].st)
  /\ Go(p, "recordEvent")
  /\ UNCHANGED <<status, processed, stripe, world>>

RecordEvent(p) ==
  /\ h[p].pc = "recordEvent"
  /\ processed' = processed \cup {[i |-> h[p].i, status |-> h[p].st]}
  /\ Done(p)
  /\ UNCHANGED <<status, row, stripe, world>>

-----------------------------------------------------------------------------
(* Stripe and the world *)

\* A payment that was processing is settled, one way or the other.
Settle(i) ==
  \E st \in {"succeeded", "requires_payment_method"} :
    /\ intents[i].status = "processing"
    /\ intents' = [intents EXCEPT ![i].status = st]
    /\ sent' = sent \cup {[i |-> i, status |-> st]}
    /\ UNCHANGED <<database, world, h>>

SetupChanges(b) ==
  /\ "nocard" \in fault
  /\ ready' = IF b \in ready THEN ready \ {b} ELSE ready \cup {b}
  /\ UNCHANGED <<database, stripe, fault, h>>

Crash(p) ==
  /\ "crash" \in fault
  /\ h[p] # Idle
  /\ Done(p)
  /\ UNCHANGED <<database, stripe, world>>

-----------------------------------------------------------------------------

Init ==
  /\ status = [b \in Booking |-> "approved"]
  /\ row = [b \in Booking |-> NoRow]
  /\ intents = [i \in Intent |-> FreeIntent]
  /\ sent = {}
  /\ processed = {}
  /\ ready = Booking
  /\ fault \in Faults
  /\ h = [p \in Handler |-> Idle]

\* What a handler that serves a request does next.
Work(p, b) ==
  \/ ChargeSetupMissing(p, b) \/ ChargeSetupFound(p, b) \/ ChargeLookup(p, b)
  \/ ChargeRefused(p, b) \/ ChargeReplayed(p, b) \/ ChargeCreated(p, b)
  \/ RecordCharge(p, b) \/ CompleteBooking(p, b)
  \/ RefundLookup(p, b) \/ RefundCreated(p, b) \/ RefundRefused(p, b)
  \/ RefundFailed(p, b) \/ RecordRefund(p, b) \/ CancelBooking(p, b)

Report(p) == ApplyEvent(p) \/ RecordEvent(p)

Next ==
  \/ \E p \in Handler, b \in Booking : CompleteStart(p, b) \/ CancelStart(p, b) \/ Work(p, b)
  \/ \E p \in Handler, e \in Event : WebhookStart(p, e)
  \/ \E p \in Handler : Report(p) \/ Crash(p)
  \/ \E b \in Booking : AgreedCancel(b) \/ SetupChanges(b)
  \/ \E i \in Intent : Settle(i)

Spec == Init /\ [][Next]_vars

\* Handlers run, and a charge that is tried again and again is not refused every
\* time.
Fairness ==
  /\ \A p \in Handler, b \in Booking : WF_vars(Work(p, b))
  /\ \A p \in Handler : WF_vars(Report(p))
  /\ \A p \in Handler, b \in Booking : SF_vars(ChargeCreated(p, b) \/ ChargeReplayed(p, b))

-----------------------------------------------------------------------------
(***************************************************************************)
(* Properties                                                              *)
(***************************************************************************)

Row == [intent : Intent \cup {None}, charge : Intent \cup {None}, status : RowStatus \cup {"none"}]

Payment == [b : Booking, key : {"first", "retry"}, status : IntentStatus \cup {"refunded"},
            answer : {"succeeded", "processing"}]

Job == [pc : {"idle", "setup", "lookup", "charge", "record", "complete", "refundLookup", "refund",
              "refundFailed", "recordRefund", "cancel", "applyEvent", "recordEvent"},
        b : Booking \cup {None}, i : Intent \cup {None},
        st : RowStatus \cup {"first", "retry", None}]

TypeOK ==
  /\ status \in [Booking -> {"approved", "completed", "cancelled"}]
  /\ row \in [Booking -> Row]
  /\ intents \in [Intent -> Payment \cup {FreeIntent}]
  /\ sent \subseteq Event /\ processed \subseteq sent
  /\ ready \subseteq Booking /\ fault \in Faults
  /\ h \in [Handler -> Job]

\* Stripe has taken the money of intent i for booking b, and may have given it
\* back.
Captured(i, b) == intents[i].b = b /\ intents[i].status \in {"succeeded", "refunded"}

\* Whatever fails, is lost, is reported late or twice: a booking is completed
\* only after the parent has been charged for it.
CompletedOnlyIfCharged ==
  \A b \in Booking : status[b] = "completed" => \E i \in Intent : Captured(i, b)

\* An intent's key and Stripe's first answer to it are forgotten.
Money == [i \in Intent |-> [b |-> intents[i].b, status |-> intents[i].status]]

Lifecycle == INSTANCE PaymentLifecycle WITH payment <- Money

\* However requests, webhooks, crashes and lost answers interleave, the money
\* moves as PaymentLifecycle promises: it is taken, settled and given back once,
\* and a booking is completed only after its parent was charged.
ImplementsMoney == Lifecycle!Spec

\* The payment row never claims what Stripe does not know: its charge, which a
\* refund goes by, is one of this very booking, settled or not; a succeeded payment
\* was captured, a refunded one was given back.
RowIsBacked ==
  \A b \in Booking :
    /\ row[b].charge # None => intents[row[b].charge].b = b
    /\ row[b].status = "succeeded" => Captured(row[b].charge, b)
    /\ row[b].status = "refunded" => intents[row[b].charge].status = "refunded"

\* As long as no attempt can fail, a booking is charged once, although handlers
\* complete it at the same time, crash between the charge and its record, and
\* try again.
ChargedOnce ==
  fault \subseteq {"async", "crash"} =>
    \A i, j \in Intent, b \in Booking : Captured(i, b) /\ Captured(j, b) => i = j

\* No handler is at work and Stripe has nothing left to report.
Quiet == (\A p \in Handler : h[p] = Idle) /\ sent \subseteq processed

\* ListPaymentReconciliationIssues.
Listed(b) ==
  \/ row[b].status = "succeeded" /\ status[b] # "completed"
  \/ status[b] = "completed" /\ row[b].status # "succeeded"
  \/ status[b] = "cancelled" /\ row[b].status \in {"succeeded", "processing"} /\ row[b].charge # None
  \/ row[b].status = "refunded" /\ status[b] # "cancelled"

Kept(b) == \E i \in Intent : intents[i].b = b /\ intents[i].status = "succeeded"

\* When all is quiet, a booking with the parent's money that was not completed,
\* or one completed without it, shows up in the reconciliation ("list
\* booking/payment state mismatches for admin review", ENDPOINTS.md:160).
MismatchesAreListed ==
  Quiet => \A b \in Booking : (Kept(b) # (status[b] = "completed")) => Listed(b)

\* Completions, refunds and cancellations that race leave nothing behind that
\* the reconciliation misses, as long as nothing fails.
RacesAreReconciled == fault = {} => MismatchesAreListed

\* The completion of a booking whose parties stay set up for payment is not asked
\* for again and again in vain, as none is once it is completed ("retry payment and complete an
\* eligible approved booking after billing is fixed", ENDPOINTS.md:154).
RetryCompletes ==
  \A b \in Booking :
    <>[](b \in ready) => <>[](~ \E p \in Handler : At(p, "setup", b))
=============================================================================
