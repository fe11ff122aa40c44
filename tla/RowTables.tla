------------------------------ MODULE RowTables ------------------------------
(***************************************************************************)
(* What the pages offer to do with a row, and what the API does when it is *)
(* asked.  For each kind of row: its states as far as a button or a guard  *)
(* tells them apart, the states in which each component enables a button   *)
(* (...Offers), the states in which the handler acts (...Takes), the state *)
(* it leaves (...After) and the changes nobody asks for on these pages     *)
(* (...Drift).                                                             *)
(***************************************************************************)

(* Nannies: the status of their screening ("ticked" is under review with
   all three steps done) and whether the account is active. *)
NannyRow == [status : {"pending", "reviewing", "ticked", "verified", "rejected"}, active : BOOLEAN]
UnderReview(n) == n.status \in {"reviewing", "ticked"}
ActiveNannies == {n \in NannyRow : n.active}

AllNannyOffers ==
  [ verify  |-> {n \in NannyRow : n.active /\ n.status = "ticked"},
    reject  |-> ActiveNannies,
    suspend |-> ActiveNannies ]
NannyDetailOffers == [ reactivate |-> NannyRow \ ActiveNannies ]
ScreeningOffers ==
  [ start  |-> {n \in NannyRow : n.status = "pending"},
    tick   |-> {n \in NannyRow : n.status = "reviewing"},
    untick |-> {n \in NannyRow : n.status = "ticked"},
    reset  |-> {n \in NannyRow : n.status = "rejected"} ]

ScreeningTakes ==
  [ start  |-> {n \in NannyRow : n.status = "pending"},
    tick   |-> {n \in NannyRow : UnderReview(n)},
    untick |-> {n \in NannyRow : UnderReview(n)},
    reset  |-> {n \in NannyRow : n.status = "rejected"} ]
VerdictTakes ==
  [ verify  |-> {n \in NannyRow : n.status = "ticked"},
    reject  |-> {n \in NannyRow : UnderReview(n)},
    suspend |-> ActiveNannies ]
NannyDetailTakes == [ reactivate |-> NannyRow \ ActiveNannies ]

Leaving(status) == [n \in NannyRow |-> [n EXCEPT !.status = status]]
ScreeningAfter ==
  [ start |-> Leaving("reviewing"), tick |-> Leaving("ticked"),
    untick |-> Leaving("reviewing"), reset |-> Leaving("pending") ]
VerdictAfter ==
  [ verify |-> Leaving("verified"), reject |-> Leaving("rejected"),
    suspend |-> [n \in NannyRow |-> [n EXCEPT !.active = FALSE]] ]
NannyDetailAfter == [ reactivate |-> [n \in NannyRow |-> [n EXCEPT !.active = TRUE]] ]

-----------------------------------------------------------------------------
(* Accounts of parents and of administrators. *)
AccountRow == {"active", "inactive"}

ParentOffers == [ suspend |-> {"active"} ]
ParentDetailOffers == [ reactivate |-> {"inactive"} ]
AdminOffers == [ disable |-> {"active"}, reactivate |-> {"inactive"} ]

ParentTakes == [ suspend |-> {"active"} ]
ParentDetailTakes == [ reactivate |-> {"inactive"} ]
AdminTakes == [ disable |-> AccountRow, reactivate |-> {"inactive"} ]

Becoming(R, s) == [r \in R |-> s]
ParentAfter == [ suspend |-> Becoming(AccountRow, "inactive") ]
ParentDetailAfter == [ reactivate |-> Becoming(AccountRow, "active") ]
AdminAfter ==
  [ disable |-> Becoming(AccountRow, "inactive"), reactivate |-> Becoming(AccountRow, "active") ]

-----------------------------------------------------------------------------
(* Bookings: "due" is approved and over, "failed" the same after a charge
   that failed.  Modules Bookings and BookingPayments have the handlers. *)
BookingRow == {"pending", "approved", "due", "failed", "completed", "declined", "cancelled"}

RequestOffers ==
  [ approve  |-> {"pending"},
    decline  |-> {"pending"},
    complete |-> {"approved", "due"},
    retry    |-> {"failed"} ]
ParentBookingOffers == [ cancel |-> {"pending"} ]
AdminBookingOffers ==
  [ adminCancel   |-> {"pending", "approved", "due", "failed"},
    adminComplete |-> {"approved", "due", "failed"} ]

RequestTakes ==
  [ approve  |-> {"pending"},
    decline  |-> {"pending"},
    complete |-> {"due", "failed"},
    retry    |-> {"due", "failed"} ]
ParentBookingTakes == [ cancel |-> {"pending"} ]
AdminBookingTakes ==
  [ adminCancel   |-> {"pending", "approved", "due", "failed", "completed"},
    adminComplete |-> {"due", "failed"} ]

RequestAfter ==
  [ approve |-> Becoming(BookingRow, "approved"), decline |-> Becoming(BookingRow, "declined"),
    complete |-> Becoming(BookingRow, "completed"), retry |-> Becoming(BookingRow, "completed") ]
ParentBookingAfter == [ cancel |-> Becoming(BookingRow, "cancelled") ]
AdminBookingAfter ==
  [ adminCancel |-> Becoming(BookingRow, "cancelled"), adminComplete |-> Becoming(BookingRow, "completed") ]

(* Time passes and accepted change requests move or end a booking. *)
BookingDrift ==
  { <<"approved", "due">>, <<"due", "approved">>, <<"failed", "approved">>,
    <<"approved", "cancelled">>, <<"due", "cancelled">>, <<"failed", "cancelled">> }

(* Approving asks for a free calendar and for payments that are set up, and
   completing or cancelling for Stripe; a charge that fails is remembered. *)
MayBeRefused == {"approve", "complete", "retry", "adminCancel", "adminComplete"}
Charges == {"complete", "retry", "adminComplete"}
AfterFailedCharge == "failed"

-----------------------------------------------------------------------------
(* Moderation: conversations, messages and reviews. *)
ConversationRow == {"open", "locked"}
VisibleRow == {"shown", "hidden"}

ConversationOffers == [ lock |-> {"open"}, unlock |-> {"locked"} ]
MessageOffers == [ hide |-> {"shown"} ]
ReviewOffers == [ flag |-> {"shown"}, unflag |-> {"hidden"} ]

ConversationTakes == [ lock |-> ConversationRow, unlock |-> ConversationRow ]
MessageTakes == [ hide |-> VisibleRow ]
ReviewTakes == [ flag |-> {"shown"}, unflag |-> {"hidden"} ]

ConversationAfter == [ lock |-> Becoming(ConversationRow, "locked"), unlock |-> Becoming(ConversationRow, "open") ]
MessageAfter == [ hide |-> Becoming(VisibleRow, "hidden") ]
ReviewAfter == [ flag |-> Becoming(VisibleRow, "hidden"), unflag |-> Becoming(VisibleRow, "shown") ]
=============================================================================
