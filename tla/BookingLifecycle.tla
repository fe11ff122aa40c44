-------------------------- MODULE BookingLifecycle --------------------------
(***************************************************************************)
(* What the booking component promises about one booking, whoever acts on  *)
(* it and however the requests interleave: the status a booking may move   *)
(* to from each status, and that a booking is approved together with the   *)
(* conversation its two parties talk in.  Every operation is one step.     *)
(* Bookings (scheduling, change requests) implements this specification.   *)
(***************************************************************************)

CONSTANT Booking        \* identifiers of bookings

VARIABLES
  status,               \* status[b], "none" before the row is inserted
  convos                \* bookings that have a conversation

lifecycleVars == <<status, convos>>

\* b has one of the statuses from and is given the status to.
Move(b, from, to) ==
  /\ status[b] \in from
  /\ status' = [status EXCEPT ![b] = to]

Ask(b)      == Move(b, {"none"}, "pending") /\ UNCHANGED convos
Decline(b)  == Move(b, {"pending"}, "declined") /\ UNCHANGED convos
Approve(b)  == Move(b, {"pending"}, "approved") /\ convos' = convos \cup {b}
Complete(b) == Move(b, {"approved"}, "completed") /\ UNCHANGED convos

\* The parent withdraws a pending booking, the parties agree to cancel an
\* approved one, an admin cancels any of the three.
Cancel(b) ==
  Move(b, {"pending", "approved", "completed"}, "cancelled") /\ UNCHANGED convos

Init ==
  /\ status = [b \in Booking |-> "none"]
  /\ convos = {}

Next == \E b \in Booking :
  Ask(b) \/ Decline(b) \/ Approve(b) \/ Complete(b) \/ Cancel(b)

Spec == Init /\ [][Next]_lifecycleVars
=============================================================================
