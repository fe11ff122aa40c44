----------------------------- MODULE NannyPages -----------------------------
(***************************************************************************)
(* The pages of a nanny as tables for QueryCache, in the form that         *)
(* ParentPages explains; the files of requests for conversations and       *)
(* notifications serve both.  Queries of the same name in the tabs of      *)
(* different users are different entries.                                  *)
(***************************************************************************)
EXTENDS ParentPages

NannyBookingAnswers ==
  [ nanny_bookings       |-> {"bookings", "payments"},
    nanny_bookings_badge |-> {"bookings"},
    nanny_booking        |-> {"bookings", "payments"} ]
(* An approval opens the conversation, and writes to the nanny when the
   payment is not set up.  A retry of the payment is a completion: either
   charges the card, tells her, and changes the status that the conversation
   shows. *)
Completion == {"bookings", "payments", "chats", "notifications", "stripe balance"}
NannyBookingWrites ==
  [ approveNannyBooking  |-> {"bookings", "new chats", "chats", "notifications"},
    declineNannyBooking  |-> {"bookings"},
    completeNannyBooking |-> Completion,
    retryBookingPayment  |-> Completion ]

NannyReviewAnswers ==
  [ nanny_reviews       |-> {"reviews of parents"},
    nanny_reviewed_ids  |-> {"reviews of parents"} ]
NannyReviewWrites == [ createNannyReview |-> {"reviews of parents"} ]

NannyProfileAnswers ==
  [ nanny_profile   |-> {"account", "nannies"},
    nanny_documents |-> {"documents"},
    auth_me         |-> {"account", "nannies"} ]
NannyProfileWrites ==
  [ updateNannyProfile |-> {"account", "nannies"},
    uploadAvatar       |-> {"nannies"},
    deleteAvatar       |-> {"nannies"},
    uploadDocument     |-> {"documents"},
    deleteDocument     |-> {"documents"} ]

(* What Stripe holds of the nanny, and the payments of completed bookings. *)
PayoutAnswers ==
  [ stripe_status    |-> {"stripe account"},
    stripe_balance   |-> {"stripe balance"},
    stripe_payouts   |-> {"stripe payouts"},
    payout_settings  |-> {"payout schedule"},
    earnings         |-> {"bookings", "payments"},
    earnings_summary |-> {"bookings", "payments"} ]
PayoutWrites ==
  [ connectStripe        |-> {"stripe account"},
    updatePayoutSettings |-> {"payout schedule"} ]

-----------------------------------------------------------------------------
(* One mutation with four requests; it tells whether or not they succeed. *)
RequestsTold == {"nanny_bookings", "nanny_bookings_badge"}
NannyRequestsView ==
  [ shows |-> {"nanny_bookings", "nanny_reviewed_ids"},
    lists |-> {"nanny_reviewed_ids"},
    asks  |->
      [ approveNannyBooking  |-> RequestsTold, declineNannyBooking |-> RequestsTold,
        completeNannyBooking |-> RequestsTold, retryBookingPayment |-> RequestsTold,
        createNannyReview    |-> RequestsTold \cup {"nanny_reviews", "nanny_reviewed_ids"} ] ]
NannySettles == {"approveNannyBooking", "declineNannyBooking", "completeNannyBooking", "retryBookingPayment"}

NannyRequestDetailView == [ shows |-> {"nanny_booking"}, lists |-> {}, asks |-> NoOps ]

NannyReviewsView == [ shows |-> {"nanny_reviews"}, lists |-> {}, asks |-> NoOps ]

NannyDashboardView == [ shows |-> {"auth_me", "nanny_bookings"}, lists |-> {}, asks |-> NoOps ]

(* Payouts are asked for only when the account is set up. *)
NannyEarningsView ==
  [ shows |-> {"earnings_summary", "earnings", "stripe_status", "stripe_payouts", "payout_settings"},
    lists |-> {"earnings", "stripe_payouts"}, asks |-> NoOps ]

NannyPaymentsView ==
  [ shows |-> {"stripe_status", "stripe_balance", "stripe_payouts", "payout_settings"},
    lists |-> {"stripe_balance", "stripe_payouts"},
    asks  |->
      [ connectStripe        |-> {"stripe_status"},
        updatePayoutSettings |-> {"payout_settings"} ] ]

NannyProfileView ==
  [ shows |-> {"nanny_profile", "nanny_documents"}, lists |-> {},
    asks  |->
      [ updateNannyProfile |-> {"nanny_profile", "auth_me"},
        uploadAvatar |-> {"nanny_profile"}, deleteAvatar |-> {"nanny_profile"},
        uploadDocument |-> {"nanny_documents"}, deleteDocument |-> {"nanny_documents"} ] ]

NannyMessagesView ==
  [ shows |-> {"conversations", "conversation_messages"},
    lists |-> {"conversations", "conversation_messages"},
    asks  |->
      [ sendMessage      |-> {"conversation_messages", "conversations"},
        markConversation |-> {"conversations"} ] ]

NannyNotificationsPanel ==
  [ shows |-> {"notifications"}, lists |-> {},
    asks  |->
      [ markNotificationRead     |-> {"notifications", "notifications_count"},
        markAllNotificationsRead |-> {"notifications", "notifications_count"} ] ]

(* The sidebar counts pending requests and unread messages.  The count is a
   query of its own, whose key begins as that of the list of bookings does. *)
NannySidebar == {"auth_me", "nanny_bookings_badge", "conversations_badge", "notifications_count"}

NannyViews ==
  [ NannyRequestsView |-> NannyRequestsView, NannyRequestDetailView |-> NannyRequestDetailView,
    NannyReviewsView |-> NannyReviewsView, NannyDashboardView |-> NannyDashboardView,
    NannyEarningsView |-> NannyEarningsView, NannyPaymentsView |-> NannyPaymentsView,
    NannyProfileView |-> NannyProfileView, NannyMessagesView |-> NannyMessagesView,
    NannyNotificationsPanel |-> NannyNotificationsPanel ]

(* What a nanny's own work leaves out of date: the page of one request, the
   earnings, the balance, the conversations, what she was notified of, and the
   picture in the sidebar. *)
NannyGaps ==
  {<<q, o>> : q \in {"nanny_booking", "earnings", "earnings_summary"}, o \in NannySettles}
  \cup {<<q, o>> : q \in {"conversations", "notifications", "notifications_count"},
                   o \in NannySettles \ {"declineNannyBooking"}}
  \cup {<<"stripe_balance", o>> : o \in {"completeNannyBooking", "retryBookingPayment"}}
  \cup {<<"conversations_badge", "approveNannyBooking">>}
  \cup {<<"auth_me", o>> : o \in {"uploadAvatar", "deleteAvatar"}}
=============================================================================
