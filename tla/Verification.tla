---------------------------- MODULE Verification ----------------------------
(***************************************************************************)
(* What the screening of a nanny promises, apart from how requests are     *)
(* served: a status that goes one way, a record of every change, and no    *)
(* verification before each step of the screening has been confirmed,      *)
(* which is done while the nanny is under review.                          *)
(***************************************************************************)
EXTENDS Sequences

CONSTANT Step      \* the steps of a screening

VARIABLES
  verification,    \* nanny_profiles.verification_status
  confirmed,       \* the steps an administrator has ever confirmed
  trail            \* admin_nanny_actions, in the order of their transactions

verificationVars == <<verification, confirmed, trail>>

VerificationInit == verification = "pending" /\ confirmed = {} /\ trail = <<>>

Change(from, to) ==
  /\ verification = from /\ verification' = to
  /\ trail' = Append(trail, [from |-> from, to |-> to])
  /\ UNCHANGED confirmed

Start == Change("pending", "under_review")
Verify == confirmed = Step /\ Change("under_review", "verified")
Reject == Change("under_review", "rejected")
Reset == Change("rejected", "pending")

Confirm ==
  /\ verification = "under_review"
  /\ \E S \in SUBSET Step : confirmed' = confirmed \cup S
  /\ UNCHANGED <<verification, trail>>

VerificationNext == Start \/ Verify \/ Reject \/ Reset \/ Confirm
VerificationSpec == VerificationInit /\ [][VerificationNext]_verificationVars
=============================================================================
