------------------------------- MODULE MCPages -------------------------------
(***************************************************************************)
(* The pages of the web client: the query cache behind them and the        *)
(* buttons of their rows, over the tables of all pages.  The two share no  *)
(* state, so a behaviour follows one of them (part) while the other stays  *)
(* as it was at the start.                                                 *)
(***************************************************************************)
EXTENDS AdminPages, QueryCache, RowTables, RowActions, TLC

Roles == {"parent", "nanny", "admin"}
ViewsOf == [parent |-> ParentViews, nanny |-> NannyViews, admin |-> AdminViews]
AnswersOf ==
  [ parent |-> ParentBookingAnswers @@ ReviewAnswers @@ PublicNannyAnswers @@ ConversationAnswers
               @@ ParentProfileAnswers @@ CardAnswers @@ NotificationAnswers,
    nanny  |-> NannyBookingAnswers @@ NannyReviewAnswers @@ NannyProfileAnswers @@ PayoutAnswers
               @@ ConversationAnswers @@ NotificationAnswers,
    admin  |-> AdminNannyAnswers @@ AdminScreeningAnswers @@ AdminParentAnswers @@ AdminBookingAnswers
               @@ AdminConversationAnswers @@ AdminReviewAnswers @@ AnalyticsAnswers @@ AdminUserAnswers ]
WritesOf ==
  [ parent |-> ParentBookingWrites @@ ParentReviewWrites @@ ConversationWrites @@ ParentProfileWrites
               @@ CardWrites @@ NotificationWrites,
    nanny  |-> NannyBookingWrites @@ NannyReviewWrites @@ NannyProfileWrites @@ PayoutWrites
               @@ ConversationWrites @@ NotificationWrites,
    admin  |-> AdminNannyWrites @@ AdminScreeningWrites @@ AdminParentWrites @@ AdminBookingWrites
               @@ AdminConversationWrites @@ AdminReviewWrites @@ AdminUserWrites ]
FrameOf == [parent |-> ParentFrame, nanny |-> [v \in DOMAIN NannyViews |-> NannySidebar],
            admin |-> [v \in DOMAIN AdminViews |-> AdminSidebar]]
GapsOf == [parent |-> ParentGaps, nanny |-> NannyGaps, admin |-> AdminGaps]

Queries == UNION {{<<r, k>> : k \in DOMAIN AnswersOf[r]} : r \in Roles}
Pages == UNION {{<<r, v>> : v \in DOMAIN ViewsOf[r]} : r \in Roles}
Ops == UNION {{<<p, o>> : o \in DOMAIN ViewsOf[p[1]][p[2]].asks} : p \in Pages}
Of(r, keys) == {<<r, k>> : k \in keys}

PageRole == [p \in Pages |-> p[1]]
PageShows == [p \in Pages |-> Of(p[1], ViewsOf[p[1]][p[2]].shows)]
PageFrame == [p \in Pages |-> Of(p[1], FrameOf[p[1]][p[2]])]
OpHome == [o \in Ops |-> o[1]]
OpTells == [o \in Ops |-> Of(o[1][1], ViewsOf[o[1][1]][o[1][2]].asks[o[2]])]
OpAlters ==
  [o \in Ops |-> {q \in Queries : /\ q[1] = o[1][1]
                                  /\ AnswersOf[q[1]][q[2]] \cap WritesOf[o[1][1]][o[2]] # {}}]
OpAlways == {o \in Ops : o[1][1] = "nanny" /\ o[2] \in NannySettles}
ListedQueries == UNION {Of(p[1], ViewsOf[p[1]][p[2]].lists) : p \in Pages}
PolledQueries == {<<"parent", "notifications_count">>, <<"nanny", "notifications_count">>}
OpGaps == [o \in Ops |-> {q \in Queries : q[1] = o[1][1] /\ <<q[2], o[2]>> \in GapsOf[q[1]]}]
-----------------------------------------------------------------------------
(* The pages with buttons, by component; HideMessage is the list of messages
   within AdminConversationDetailView. *)
RowViews == {"AllNanniesView", "AdminNannyDetailView", "ScreeningQueueView", "ParentsModerationView",
  "AdminParentDetailView", "AdminManagementView", "AdminBookingDetailView", "AdminConversationDetailView",
  "HideMessage", "FlaggedReviewsView", "NannyRequestsView", "ParentBookingsView"}
Nannies3 == {"AllNanniesView", "AdminNannyDetailView", "ScreeningQueueView"}
Bookings3 == {"AdminBookingDetailView", "NannyRequestsView", "ParentBookingsView"}
Accounts2 == {"ParentsModerationView", "AdminParentDetailView"}
RowsOf == [AllNanniesView |-> NannyRow, AdminNannyDetailView |-> NannyRow,
  ScreeningQueueView |-> ActiveNannies, ParentsModerationView |-> AccountRow,
  AdminParentDetailView |-> AccountRow, AdminManagementView |-> AccountRow,
  AdminBookingDetailView |-> BookingRow, AdminConversationDetailView |-> ConversationRow,
  HideMessage |-> VisibleRow, FlaggedReviewsView |-> VisibleRow,
  NannyRequestsView |-> BookingRow, ParentBookingsView |-> BookingRow]
OffersOf == [AllNanniesView |-> AllNannyOffers, AdminNannyDetailView |-> NannyDetailOffers,
  ScreeningQueueView |-> ScreeningOffers, ParentsModerationView |-> ParentOffers,
  AdminParentDetailView |-> ParentDetailOffers, AdminManagementView |-> AdminOffers,
  AdminBookingDetailView |-> AdminBookingOffers, AdminConversationDetailView |-> ConversationOffers,
  HideMessage |-> MessageOffers, FlaggedReviewsView |-> ReviewOffers,
  NannyRequestsView |-> RequestOffers, ParentBookingsView |-> ParentBookingOffers]
TakesOf == [AllNanniesView |-> VerdictTakes, AdminNannyDetailView |-> NannyDetailTakes,
  ScreeningQueueView |-> ScreeningTakes, ParentsModerationView |-> ParentTakes,
  AdminParentDetailView |-> ParentDetailTakes, AdminManagementView |-> AdminTakes,
  AdminBookingDetailView |-> AdminBookingTakes, AdminConversationDetailView |-> ConversationTakes,
  HideMessage |-> MessageTakes, FlaggedReviewsView |-> ReviewTakes,
  NannyRequestsView |-> RequestTakes, ParentBookingsView |-> ParentBookingTakes]
AfterOf == [AllNanniesView |-> VerdictAfter, AdminNannyDetailView |-> NannyDetailAfter,
  ScreeningQueueView |-> ScreeningAfter, ParentsModerationView |-> ParentAfter,
  AdminParentDetailView |-> ParentDetailAfter, AdminManagementView |-> AdminAfter,
  AdminBookingDetailView |-> AdminBookingAfter, AdminConversationDetailView |-> ConversationAfter,
  HideMessage |-> MessageAfter, FlaggedReviewsView |-> ReviewAfter,
  NannyRequestsView |-> RequestAfter, ParentBookingsView |-> ParentBookingAfter]
Steps(v) == UNION {{<<s, AfterOf[v][a][s]>> : s \in TakesOf[v][a]} : a \in DOMAIN OffersOf[v]}
NannyDrift == UNION {Steps(u) : u \in Nannies3}
BkDrift == BookingDrift \cup UNION {Steps(u) : u \in Bookings3}
AccDrift == UNION {Steps(u) : u \in Accounts2}
AdmDrift == Steps("AdminManagementView")
ConDrift == Steps("AdminConversationDetailView")
MesDrift == Steps("HideMessage")
RevDrift == Steps("FlaggedReviewsView")
DriftOf == [AllNanniesView |-> NannyDrift, AdminNannyDetailView |-> NannyDrift,
  ScreeningQueueView |-> NannyDrift, ParentsModerationView |-> AccDrift,
  AdminParentDetailView |-> AccDrift, AdminManagementView |-> AdmDrift,
  AdminBookingDetailView |-> BkDrift, AdminConversationDetailView |-> ConDrift,
  HideMessage |-> MesDrift, FlaggedReviewsView |-> RevDrift,
  NannyRequestsView |-> BkDrift, ParentBookingsView |-> BkDrift]
Own(R) == [a \in R |-> a]
HookOf == [v \in RowViews |-> CASE v = "ScreeningQueueView" -> [start |-> "start", tick |-> "steps", untick |-> "steps", reset |-> "reset"]
   [] v = "NannyRequestsView" -> [a \in DOMAIN RequestOffers |-> "update"] [] OTHER -> Own(DOMAIN OffersOf[v])]
ReasonedOf == [v \in RowViews |-> CASE v = "AllNanniesView" -> {"reject", "suspend"}
   [] v = "ScreeningQueueView" -> {"reset"} [] v = "AdminManagementView" -> {"reactivate"}
   [] v \in {"NannyRequestsView", "ParentBookingsView"} -> {} [] OTHER -> DOMAIN OffersOf[v]]
TogetherV == {"AdminManagementView", "ParentBookingsView"}
OneFlagV == {"NannyRequestsView"}
UnmarkedV == {"AdminNannyDetailView", "AdminParentDetailView"}
ForgetfulV == {"HideMessage"}
OneRowV == {"AdminNannyDetailView", "AdminParentDetailView", "AdminBookingDetailView", "AdminConversationDetailView"}
HopelessE == {<<"AllNanniesView","reject">>}

-----------------------------------------------------------------------------
VARIABLE part
allVars == <<part, cacheVars, rowVars>>

(* A query that is not on the page, so that nothing is under way. *)
IdleStart ==
  LET w == CHOOSE w \in Watches : \E p \in w.pages : w.query \notin Shows[p] \cup Frame[p]
  IN CacheStart(w) /\ ~Observed
IdleRow == RowStart("ParentBookingsView", "pending")

Init ==
  \/ part = "cache" /\ CacheInit /\ IdleRow
  \/ part = "rows" /\ IdleStart /\ RowInit

Next ==
  \/ part = "cache" /\ CacheNext /\ UNCHANGED <<part, rowVars>>
  \/ part = "rows" /\ RowNext /\ UNCHANGED <<part, cacheVars>>

(* What QueryCache assumes: requests end and callbacks run. *)
Fairness ==
  /\ WF_cacheVars(part = "cache" /\ FetchEnds)
  /\ WF_cacheVars(part = "cache" /\ CallEnds)

Spec == Init /\ [][Next]_allVars /\ Fairness
=============================================================================
