----------------------------- MODULE MCBookings -----------------------------
(***************************************************************************)
(* One booking for TLC, with everything that can happen to it.             *)
(***************************************************************************)
EXTENDS Bookings, TLC

CONSTANTS b1, mum, ann

ParentOfOne == (b1 :> mum)
NannyOfOne == (b1 :> ann)

\* A slot that is over before the other begins.
ApartSlots == {[start |-> 1, dur |-> 1], [start |-> 3, dur |-> 1]}

RequestSymmetry == Permutations(Handler) \cup Permutations(Request)
=============================================================================
