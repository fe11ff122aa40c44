----------------------------- MODULE ParentPages -----------------------------
(***************************************************************************)
(* The pages of a parent as tables for QueryCache.  For each file of       *)
(* requests: the facts an endpoint's answer is made of, as far as a page   *)
(* shows them, and the facts its handler writes.  For each component: the  *)
(* queries it mounts, those whose page, filter or condition the user can   *)
(* change (lists), and its mutations (asks) with the queries each of them  *)
(* invalidates when it is done.                                            *)
(*                                                                         *)
(* Facts are what the server stores, as far as the answers differ: chats   *)
(* are the conversations with the status of their bookings, new chats that *)
(* there are any, which is all the badge of the shell shows; reads is what *)
(* was read of them, and ratings what a nanny's reviews come to.           *)
(***************************************************************************)

ParentBookingAnswers ==
  [ parent_bookings |-> {"bookings", "payments"},
    parent_booking  |-> {"bookings", "payments"} ]
ParentBookingWrites ==
  [ createBooking       |-> {"bookings"},
    cancelParentBooking |-> {"bookings"} ]

ReviewAnswers ==
  [ parent_reviews        |-> {"reviews of nannies"},
    parent_reviewed_ids   |-> {"reviews of nannies"},
    public_nanny_reviews  |-> {"reviews of nannies"} ]
ParentReviewWrites == [ createParentReview |-> {"reviews of nannies", "ratings"} ]

PublicNannyAnswers ==
  [ public_nannies       |-> {"nannies", "ratings"},
    public_nanny_profile |-> {"nannies", "ratings"} ]

ConversationAnswers ==
  [ conversations         |-> {"new chats", "chats", "messages", "reads"},
    conversations_badge   |-> {"new chats"},
    conversation_messages |-> {"messages"} ]
ConversationWrites ==
  [ sendMessage      |-> {"messages", "reads"},
    markConversation |-> {"reads"} ]

ParentProfileAnswers ==
  [ parent_profile  |-> {"account", "parent profile"},
    parent_settings |-> {"settings"},
    auth_me         |-> {"account", "parent profile"} ]
ParentProfileWrites ==
  [ updateParentProfile  |-> {"account", "parent profile"},
    updateParentSettings |-> {"settings"} ]

CardAnswers == [ payment_methods |-> {"cards"} ]
CardWrites ==
  [ saveCard        |-> {"cards"},
    setDefaultCard  |-> {"cards"},
    deleteCard      |-> {"cards"} ]

NotificationAnswers ==
  [ notifications_count |-> {"notifications"},
    notifications       |-> {"notifications"} ]
NotificationWrites ==
  [ markNotificationRead     |-> {"notifications"},
    markAllNotificationsRead |-> {"notifications"} ]

-----------------------------------------------------------------------------
NoOps == [o \in {} |-> {}]

ParentBookingsView ==
  [ shows |-> {"parent_bookings", "parent_reviewed_ids"},
    lists |-> {"parent_bookings", "parent_reviewed_ids"},
    asks  |->
      [ cancelParentBooking |-> {"parent_bookings"},
        createParentReview  |-> {"parent_reviews", "parent_reviewed_ids", "parent_bookings",
                                 "parent_booking", "public_nanny_reviews"} ] ]

BookingDetailCard == [ shows |-> {"parent_booking"}, lists |-> {}, asks |-> NoOps ]

ParentReviewsView == [ shows |-> {"parent_reviews"}, lists |-> {}, asks |-> NoOps ]

(* The booking sheet of the shell opens over the page that lists nannies. *)
FindNannyView ==
  [ shows |-> {"public_nannies", "public_nanny_reviews"},
    lists |-> {"public_nannies", "public_nanny_reviews"},
    asks  |-> [ createBooking |-> {"parent_bookings", "parent_booking"} ] ]

PublicNannyProfileView ==
  [ shows |-> {"public_nanny_profile", "public_nanny_reviews"}, lists |-> {}, asks |-> NoOps ]

ProfileView ==
  [ shows |-> {"parent_profile"}, lists |-> {},
    asks  |-> [ updateParentProfile |-> {"parent_profile", "auth_me"} ] ]

SettingsView ==
  [ shows |-> {"parent_settings"}, lists |-> {},
    asks  |-> [ updateParentSettings |-> {"parent_settings"} ] ]

(* saveCard tells whether or not the new card could be made the default;
   a card that was set up and never answered for is a lost answer. *)
BillingView ==
  [ shows |-> {"payment_methods"}, lists |-> {},
    asks  |->
      [ saveCard       |-> {"payment_methods"},
        setDefaultCard |-> {"payment_methods"},
        deleteCard     |-> {"payment_methods"} ] ]

MessagesView ==
  [ shows |-> {"conversations", "conversation_messages"},
    lists |-> {"conversations", "conversation_messages"},
    asks  |->
      [ sendMessage      |-> {"conversation_messages", "conversations", "conversations_badge"},
        markConversation |-> {"conversations", "conversations_badge"} ] ]

(* The panel is part of the shell; while it is open it stands for a page. *)
ParentNotificationsPanel ==
  [ shows |-> {"notifications"}, lists |-> {},
    asks  |->
      [ markNotificationRead     |-> {"notifications", "notifications_count"},
        markAllNotificationsRead |-> {"notifications", "notifications_count"} ] ]

(* DashboardShell: AppNav, ProfileCompletionBanner and the count that the
   panel polls are on every page but the public profile. *)
AppNav == {"auth_me", "conversations_badge", "notifications_count"}

ParentViews ==
  [ ParentBookingsView |-> ParentBookingsView, BookingDetailCard |-> BookingDetailCard,
    ParentReviewsView |-> ParentReviewsView, FindNannyView |-> FindNannyView,
    PublicNannyProfileView |-> PublicNannyProfileView, ProfileView |-> ProfileView,
    SettingsView |-> SettingsView, BillingView |-> BillingView, MessagesView |-> MessagesView,
    ParentNotificationsPanel |-> ParentNotificationsPanel ]

ParentFrame == [v \in DOMAIN ParentViews |-> IF v = "PublicNannyProfileView" THEN {} ELSE AppNav]

(* What a parent's own work leaves out of date on other pages. *)
ParentGaps ==
  { <<"parent_booking", "cancelParentBooking">>,
    <<"public_nannies", "createParentReview">>,
    <<"public_nanny_profile", "createParentReview">> }
=============================================================================
