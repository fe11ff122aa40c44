-------------------------- MODULE MCBookingPayments --------------------------
(***************************************************************************)
(* Instances of BookingPayments for TLC.                                   *)
(***************************************************************************)
EXTENDS BookingPayments, TLC

\* Identifiers are only compared with each other.
PaymentSymmetry == Permutations(Handler) \cup Permutations(Intent) \cup Permutations(Booking)
=============================================================================
