------------------------------ MODULE Reminders ------------------------------
(***************************************************************************)
(* The reminders of bookings (workers/notifications/booking_reminders,     *)
(* repositories/notifications CreateBookingReminder24h).  Every server     *)
(* runs a worker that asks, when it starts and after every interval, for   *)
(* the approved bookings whose start lies in the interval that begins a    *)
(* day from now, and adds a notice for either party in one statement.      *)
(* Time passes in halves of an interval, so that the windows of two        *)
(* workers may overlap by half; a tick is never late.                      *)
(***************************************************************************)
EXTENDS Integers

CONSTANTS
  Worker,
  Visit,       \* bookings
  Lookahead,   \* halves of an interval to look ahead; 48 in the program
  Horizon,     \* bound: when time ends
  Off          \* no ticker, no statement

Role == {"parent", "nanny"}

ASSUME RemindersAssumptions ==
  /\ Lookahead \in Nat /\ Horizon \in Nat
  /\ Off \notin Nat
  /\ \A n \in SUBSET (Visit \X Role) : n # Off

VARIABLES
  now,
  begins,      \* bookings.start_time while the booking is approved, else Off
  notices,     \* how many a party has of a booking
  ticks,       \* when a worker asks next, or Off
  statement,   \* the notices a worker's statement is about to add, or Off
  settled,     \* history: when a booking was approved or moved last
  sound        \* history: when a worker was started or failed last

reminderVars == <<now, begins, notices, ticks, statement, settled, sound>>

Due == {v \in Visit : begins[v] # Off /\ begins[v] - Lookahead \in {now, now + 1}}

RemindersInit ==
  /\ now = 0 /\ begins = [v \in Visit |-> Off] /\ notices = [n \in Visit \X Role |-> 0]
  /\ ticks = [w \in Worker |-> Off] /\ statement = [w \in Worker |-> Off]
  /\ settled = [v \in Visit |-> 0] /\ sound = [w \in Worker |-> 0]

\* The statement reads: NOT EXISTS passes over what it can see.
LooksAhead(w) ==
  /\ ticks' = [ticks EXCEPT ![w] = now + 2]
  /\ statement' = [statement EXCEPT ![w] = {n \in Due \X Role : notices[n] = 0}]
  /\ UNCHANGED <<now, begins, notices, settled>>

WorkerStarts(w) ==
  /\ ticks[w] = Off
  /\ LooksAhead(w)
  /\ sound' = [sound EXCEPT ![w] = now]

WorkerTicks(w) ==
  /\ ticks[w] = now
  /\ LooksAhead(w)
  /\ UNCHANGED sound

\* Mutant (RemindedExactlyOnce): the identifier of a notice is a random one.
NoticesAddedAnew(w) ==
  /\ statement[w] # Off
  /\ notices' = [n \in DOMAIN notices |-> notices[n] + (IF n \in statement[w] THEN 1 ELSE 0)]
  /\ statement' = [statement EXCEPT ![w] = Off]
  /\ UNCHANGED <<now, begins, ticks, settled, sound>>

\* It names booking and role: one that is there by now undoes the statement.
NoticesAdded(w) ==
  /\ statement[w] # Off
  /\ notices' = IF \E n \in statement[w] : notices[n] > 0 THEN notices
                ELSE [n \in DOMAIN notices |-> IF n \in statement[w] THEN 1 ELSE notices[n]]
  /\ statement' = [statement EXCEPT ![w] = Off]
  /\ UNCHANGED <<now, begins, ticks, settled, sound>>

\* The next attempt is for the next window.
StatementFails(w) ==
  /\ statement[w] # Off
  /\ statement' = [statement EXCEPT ![w] = Off]
  /\ sound' = [sound EXCEPT ![w] = now]
  /\ UNCHANGED <<now, begins, notices, ticks, settled>>

WorkerStops(w) ==
  /\ ticks[w] # Off
  /\ ticks' = [ticks EXCEPT ![w] = Off] /\ statement' = [statement EXCEPT ![w] = Off]
  /\ UNCHANGED <<now, begins, notices, settled, sound>>

\* Approved or moved by its parties, cancelled or completed (module Bookings).
VisitChanges(v, t) ==
  /\ begins[v] # t
  /\ begins' = [begins EXCEPT ![v] = t]
  /\ settled' = [settled EXCEPT ![v] = now]
  /\ UNCHANGED <<now, notices, ticks, statement, sound>>

\* A statement takes less than half an interval.
TimePasses ==
  /\ now < Horizon
  /\ \A w \in Worker : ticks[w] # now /\ statement[w] = Off
  /\ now' = now + 1
  /\ UNCHANGED <<begins, notices, ticks, statement, settled, sound>>

RemindersNext ==
  \/ \E w \in Worker :
       WorkerStarts(w) \/ WorkerTicks(w) \/ NoticesAdded(w) \/ StatementFails(w) \/ WorkerStops(w)
  \/ \E v \in Visit, t \in ((now + 1)..(Horizon + Lookahead)) \cup {Off} : VisitChanges(v, t)
  \/ TimePasses

RemindersSpec == RemindersInit /\ [][RemindersNext]_reminderVars

-----------------------------------------------------------------------------
(* Workers of several servers that ask at once never remind a party twice.
   Once the hour for it is over, both parties of a booking that stood as it
   is for all of that hour have been reminded, if one worker ran through it
   without a failure; that workers undo each other's statements is no
   failure. *)
RemindedExactlyOnce ==
  /\ \A n \in Visit \X Role : notices[n] <= 1
  /\ \A v \in Visit, r \in Role :
       LET hour == begins[v] - Lookahead - 1
       IN  /\ begins[v] # Off /\ settled[v] < hour /\ now > hour + 1
           /\ \E w \in Worker : ticks[w] # Off /\ sound[w] < hour
           => notices[<<v, r>>] = 1
=============================================================================
