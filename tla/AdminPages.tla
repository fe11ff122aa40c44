----------------------------- MODULE AdminPages -----------------------------
(***************************************************************************)
(* The pages of an administrator as tables for QueryCache, in the form     *)
(* that ParentPages explains.  An invalidation names a prefix of keys:     *)
(* <<"admin", "nanny">> is the details of any nanny, and neither the list  *)
(* of nannies nor the list of what was done to one.                        *)
(***************************************************************************)
EXTENDS NannyPages

AdminNannyAnswers ==
  [ admin_nannies       |-> {"nannies", "steps", "nanny accounts", "ratings"},
    admin_nanny         |-> {"nannies", "steps", "nanny accounts", "ratings", "documents"},
    admin_nanny_actions |-> {"nanny actions", "nanny account actions"} ]
AdminNannyWrites ==
  [ verifyNanny     |-> {"nannies", "nanny actions"},
    rejectNanny     |-> {"nannies", "nanny actions"},
    suspendNanny    |-> {"nanny accounts", "nanny account actions"},
    reactivateNanny |-> {"nanny accounts", "nanny account actions"} ]

AdminScreeningAnswers ==
  [ admin_screening       |-> {"nannies", "steps"},
    admin_screening_badge |-> {"nannies"} ]
AdminScreeningWrites ==
  [ startScreening |-> {"nannies", "nanny actions"},
    updateSteps    |-> {"steps"},
    resetScreening |-> {"nannies", "steps", "nanny actions"} ]

AdminParentAnswers ==
  [ admin_parents        |-> {"parents", "parent accounts", "spending"},
    admin_parent         |-> {"parents", "parent accounts", "spending"},
    admin_parent_actions |-> {"parent account actions"} ]
AdminParentWrites ==
  [ suspendParent    |-> {"parent accounts", "parent account actions"},
    reactivateParent |-> {"parent accounts", "parent account actions"} ]

AdminBookingAnswers ==
  [ admin_bookings        |-> {"bookings", "payments"},
    admin_booking         |-> {"bookings", "payments"},
    admin_booking_actions |-> {"booking actions"} ]
AdminBookingWrites ==
  [ cancelBooking   |-> {"bookings", "payments", "chats", "booking actions"},
    completeBooking |-> {"bookings", "payments", "spending", "chats", "booking actions"} ]

AdminConversationAnswers ==
  [ admin_conversations         |-> {"chats", "locks", "messages"},
    admin_conversation_messages |-> {"chats", "locks", "messages"},
    admin_conversation_actions  |-> {"chat actions"} ]
AdminConversationWrites ==
  [ lockConversation   |-> {"locks", "chat actions"},
    unlockConversation |-> {"locks", "chat actions"},
    hideMessage        |-> {"messages", "chat actions"} ]

AdminReviewAnswers ==
  [ admin_reviews        |-> {"reviews"},
    admin_reviews_badge  |-> {"reviews"},
    admin_review         |-> {"reviews"},
    admin_review_actions |-> {"review actions"} ]
AdminReviewWrites ==
  [ flagReview   |-> {"reviews", "ratings", "review actions"},
    unflagReview |-> {"reviews", "ratings", "review actions"} ]

AnalyticsAnswers == [ admin_analytics |-> {"bookings", "nannies", "ratings", "users"} ]

AdminUserAnswers == [ admin_users |-> {"admins"}, admin_auth_me |-> {"own account"} ]
AdminUserWrites ==
  [ inviteAdmin     |-> {"invites"},
    disableAdmin    |-> {"admins"},
    reactivateAdmin |-> {"admins"} ]

-----------------------------------------------------------------------------
(* The keys of the badges begin as those of the lists do. *)
ScreeningsTold == {"admin_screening", "admin_screening_badge"}
ReviewsTold == {"admin_reviews", "admin_reviews_badge"}

NannyListsTold ==
  ScreeningsTold \cup ReviewsTold
  \cup {"admin_nannies", "admin_analytics", "admin_bookings", "admin_conversations"}
AllNanniesView ==
  [ shows |-> {"admin_nannies"}, lists |-> {"admin_nannies"},
    asks  |-> [ verifyNanny |-> NannyListsTold, rejectNanny |-> NannyListsTold,
                suspendNanny |-> NannyListsTold ] ]

NannyTold ==
  ReviewsTold \cup {"admin_nannies", "admin_nanny", "admin_nanny_actions", "admin_analytics",
                    "admin_bookings", "admin_conversations"}
AdminNannyDetailView ==
  [ shows |-> {"admin_nanny", "admin_nanny_actions"}, lists |-> {"admin_nanny_actions"},
    asks  |-> [ reactivateNanny |-> NannyTold ] ]

ScreeningTold == ScreeningsTold \cup {"admin_nannies", "admin_analytics"}
ScreeningQueueView ==
  [ shows |-> {"admin_screening"}, lists |-> {"admin_screening"},
    asks  |-> [ startScreening |-> ScreeningTold, updateSteps |-> ScreeningTold,
                resetScreening |-> ScreeningTold ] ]

ParentsModerationView ==
  [ shows |-> {"admin_parents"}, lists |-> {"admin_parents"},
    asks  |-> [ suspendParent |-> ReviewsTold \cup {"admin_parents", "admin_analytics",
                                                     "admin_bookings", "admin_conversations"} ] ]

AdminParentDetailView ==
  [ shows |-> {"admin_parent", "admin_parent_actions"}, lists |-> {"admin_parent_actions"},
    asks  |-> [ reactivateParent |-> ReviewsTold \cup {"admin_parents", "admin_parent", "admin_parent_actions",
                                                        "admin_analytics", "admin_bookings", "admin_conversations"} ] ]

AdminBookingsView == [ shows |-> {"admin_bookings"}, lists |-> {"admin_bookings"}, asks |-> NoOps ]

BookingTold == {"admin_bookings", "admin_booking", "admin_booking_actions", "admin_analytics",
                "admin_conversations", "admin_nanny", "admin_parent"}
AdminBookingDetailView ==
  [ shows |-> {"admin_booking", "admin_booking_actions"}, lists |-> {"admin_booking_actions"},
    asks  |-> [ cancelBooking |-> BookingTold, completeBooking |-> BookingTold ] ]

ConversationsModerationView ==
  [ shows |-> {"admin_conversations"}, lists |-> {"admin_conversations"}, asks |-> NoOps ]

ConversationTold == {"admin_conversations", "admin_conversation_messages", "admin_conversation_actions",
                     "admin_bookings", "admin_analytics"}
AdminConversationDetailView ==
  [ shows |-> {"admin_conversation_messages", "admin_conversation_actions"},
    lists |-> {"admin_conversation_messages", "admin_conversation_actions"},
    asks  |-> [ lockConversation |-> ConversationTold, unlockConversation |-> ConversationTold,
                hideMessage |-> ConversationTold ] ]

ReviewTold == ReviewsTold \cup {"admin_review", "admin_review_actions", "admin_nanny",
                                "admin_parent", "admin_analytics"}
FlaggedReviewsView ==
  [ shows |-> {"admin_reviews", "admin_review", "admin_review_actions"},
    lists |-> {"admin_reviews", "admin_review", "admin_review_actions"},
    asks  |-> [ flagReview |-> ReviewTold, unflagReview |-> ReviewTold ] ]

AnalyticsView == [ shows |-> {"admin_analytics"}, lists |-> {"admin_analytics"}, asks |-> NoOps ]

AdminManagementView ==
  [ shows |-> {"admin_users", "admin_auth_me"}, lists |-> {"admin_users"},
    asks  |-> [ inviteAdmin |-> {"admin_users"}, disableAdmin |-> {"admin_users"},
                reactivateAdmin |-> {"admin_users"} ] ]

(* The badges of the sidebar count pending screenings and flagged reviews. *)
AdminSidebar == {"admin_screening_badge", "admin_reviews_badge"}

AdminViews ==
  [ AllNanniesView |-> AllNanniesView, AdminNannyDetailView |-> AdminNannyDetailView,
    ScreeningQueueView |-> ScreeningQueueView, ParentsModerationView |-> ParentsModerationView,
    AdminParentDetailView |-> AdminParentDetailView, AdminBookingsView |-> AdminBookingsView,
    AdminBookingDetailView |-> AdminBookingDetailView,
    ConversationsModerationView |-> ConversationsModerationView,
    AdminConversationDetailView |-> AdminConversationDetailView, FlaggedReviewsView |-> FlaggedReviewsView,
    AnalyticsView |-> AnalyticsView, AdminManagementView |-> AdminManagementView ]

(* What an administrator's own work leaves out of date on other pages. *)
AdminGaps ==
  {<<q, o>> : q \in {"admin_nanny", "admin_nanny_actions"},
              o \in {"verifyNanny", "rejectNanny", "suspendNanny", "startScreening", "resetScreening"}}
  \cup {<<"admin_nanny", "updateSteps">>, <<"admin_nannies", "flagReview">>, <<"admin_nannies", "unflagReview">>}
  \cup {<<q, "suspendParent">> : q \in {"admin_parent", "admin_parent_actions"}}
  \cup {<<"admin_conversation_messages", o>> : o \in {"cancelBooking", "completeBooking"}}
  \cup {<<"admin_parents", "completeBooking">>}
=============================================================================
