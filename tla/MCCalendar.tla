------------------------------ MODULE MCCalendar ------------------------------
(***************************************************************************)
(* Two bookings for TLC, of one parent or of two who ask for the same      *)
(* nanny: the rules of the calendar relate no more than two.  `pair' says  *)
(* which two a behaviour is about.                                         *)
(***************************************************************************)
EXTENDS Bookings, TLC

CONSTANTS a1, a2, b1, b2, mum, dad, ann

VARIABLE pair     \* it never changes

calendarVars == <<pair, vars>>

\* One parent asks one nanny twice; or only the rule about the nanny's own
\* calendar keeps two bookings apart.
SameParent == {a1, a2}
RivalParents == {b1, b2}

Parents == (a1 :> mum @@ a2 :> mum @@ b1 :> mum @@ b2 :> dad)
OneNanny == [b \in Booking |-> ann]

\* Two hours and the hour after them: they touch and do not overlap.
TwoSlots == {[start |-> 1, dur |-> 2], [start |-> 3, dur |-> 1]}

CalendarInit == pair \in {SameParent, RivalParents} /\ Init

CalendarNext ==
  /\ pair' = pair
  /\ \/ Tick
     \/ \E p \in Handler : GiveUp(p)
     \/ \E p \in Handler, b \in pair :
          Create(p, b) \/ Answer(p, b) \/ Finish(p, b) \/ Change(p, b) \/ Admin(p, b)

CalendarSpec == CalendarInit /\ [][CalendarNext]_calendarVars

\* Exchanging the two of each pair leaves the nanny alone, and the parents up to
\* their names, which nothing looks at but for equality.
Exchange == (a1 :> a2 @@ a2 :> a1 @@ b1 :> b2 @@ b2 :> b1)
CalendarSymmetry == Permutations(Handler) \cup {Exchange}
=============================================================================
