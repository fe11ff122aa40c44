------------------------------ MODULE MCReviews ------------------------------
(***************************************************************************)
(* Instances of Reviews for TLC.                                           *)
(***************************************************************************)
EXTENDS Reviews, TLC

CONSTANTS b1, b2, ann

\* Both bookings are of one nanny: their reviews share one rating.
OneNanny == (b1 :> ann @@ b2 :> ann)

ReviewSymmetry == Permutations(Handler) \cup Permutations(Booking)
=============================================================================
