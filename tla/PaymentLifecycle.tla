-------------------------- MODULE PaymentLifecycle --------------------------
(***************************************************************************)
(* What charging and refunding promise about the money of approved         *)
(* bookings, whoever asks for it, however often, and whatever fails in     *)
(* between: an intent belongs to one booking for good, money that was      *)
(* taken is given back at most once and only once per booking, and a       *)
(* booking is completed only if its parent has paid.  Every operation is   *)
(* one step, and there is neither row, event nor handler: BookingPayments  *)
(* implements this specification.                                          *)
(***************************************************************************)

CONSTANTS
  Booking,      \* approved bookings whose hours are over
  Intent,       \* identifiers of Stripe's payment intents
  None          \* the booking of an intent that is not in use

VARIABLES
  status,       \* bookings.status
  payment       \* for each intent its booking, and what has become of it

moneyVars == <<status, payment>>

\* The intents of b at one of the statuses sts.
Paid(b, sts) == {i \in Intent : payment[i].b = b /\ payment[i].status \in sts}

\* An intent is used for b, and is confirmed at once or later.
Charge(i, b) ==
  \E st \in {"succeeded", "processing"} :
    /\ payment[i].status = "free"
    /\ payment' = [payment EXCEPT ![i] = [b |-> b, status |-> st]]
    /\ UNCHANGED status

Settle(i) ==
  \E st \in {"succeeded", "requires_payment_method"} :
    /\ payment[i].status = "processing"
    /\ payment' = [payment EXCEPT ![i].status = st]
    /\ UNCHANGED status

\* Only what was taken is given back, and for one booking only once.
GiveBack(i, b) ==
  /\ i \in Paid(b, {"succeeded"})
  /\ Paid(b, {"refunded"}) = {}
  /\ payment' = [payment EXCEPT ![i].status = "refunded"]
  /\ UNCHANGED status

\* The money may have been given back while the completion was under way.
Complete(b) ==
  /\ status[b] = "approved"
  /\ Paid(b, {"succeeded", "refunded"}) # {}
  /\ status' = [status EXCEPT ![b] = "completed"]
  /\ UNCHANGED payment

\* A cancelled booking stays cancelled, paid or not.
Cancel(b) ==
  /\ status[b] \in {"approved", "completed"}
  /\ status' = [status EXCEPT ![b] = "cancelled"]
  /\ UNCHANGED payment

Init ==
  /\ status = [b \in Booking |-> "approved"]
  /\ payment = [i \in Intent |-> [b |-> None, status |-> "free"]]

Next ==
  \/ \E i \in Intent, b \in Booking : Charge(i, b) \/ GiveBack(i, b)
  \/ \E i \in Intent : Settle(i)
  \/ \E b \in Booking : Complete(b) \/ Cancel(b)

Spec == Init /\ [][Next]_moneyVars
=============================================================================
