------------------------------- MODULE Reviews -------------------------------
(***************************************************************************)
(* Reviews of completed bookings, their moderation and the ratings of      *)
(* nannies (apps/api/reviews, repositories/reviews).                       *)
(*                                                                         *)
(* Each booking may be reviewed once by either party.  A review of a nanny *)
(* and each moderation of one recompute the nanny's rating in the same     *)
(* transaction.  PostgreSQL runs these READ COMMITTED: a statement reads   *)
(* what is committed when it starts, and its own transaction's writes; an  *)
(* UPDATE that then waits for the lock of its row looks at the new version *)
(* of that row, but its subqueries still read what they read at first.     *)
(*                                                                         *)
(* An operator whose comment begins with "Mutant" is no part of the model: *)
(* it is the definition after it with a plausible mistake in it, kept to   *)
(* see that the property it names notices the mistake.                     *)
(***************************************************************************)
EXTENDS Integers, Sequences, FiniteSets

CONSTANTS
  Booking,      \* identifiers of bookings
  Nanny,
  NannyOf,      \* the nanny of each booking
  Stars,        \* ratings that clients give
  Handler,      \* HTTP requests being served at the same time
  MaxActions,   \* bound on the audit records of one review
  None          \* the absent value

ASSUME ReviewsAssumption ==
  /\ IsFiniteSet(Booking)
  /\ NannyOf \in [Booking -> Nanny]
  /\ Stars \subseteq 1 .. 5
  /\ MaxActions \in Nat
  /\ None \notin Booking \cup [stars : Stars, visible : BOOLEAN]
  /\ None \notin [count : Nat, sum : Nat]

\* The table a review is in: whom it is about.
Target == {"nanny", "parent"}

\* A row of nanny_reviews or parent_reviews; the UNIQUE constraint on
\* booking_id allows one of each for a booking.
Row == [stars : Stars, visible : BOOLEAN]

VARIABLES
  status,       \* bookings.status, as far as reviews tell it apart
  reviews,      \* committed rows, by target and booking
  log,          \* committed audit records of each review
  rating,       \* nanny_profiles.rating_count, and rating_avg (but for rounding) times it
  tx            \* what each handler is doing

vars == <<status, reviews, log, rating, tx>>

PC == {"idle", "insert", "refresh", "update", "commit"}
Kind == {"create", "flag", "unflag"}

Job == [pc : PC, target : Target \cup {None}, b : Booking \cup {None},
        kind : Kind \cup {None}, row : Row \cup {None},
        tally : [count : Nat, sum : Nat] \cup {None}]
Serve(pc, t, b, kind, row) ==
  [pc |-> pc, target |-> t, b |-> b, kind |-> kind, row |-> row, tally |-> None]
Idle == Serve("idle", None, None, None, None)

\* The transaction of q has written the row of b and not ended: others wait.
Holds(q, t, b) ==
  tx[q].target = t /\ tx[q].b = b /\ tx[q].pc \in {"refresh", "update", "commit"}

\* Mutant (NoDeadlock): the row of the nanny is first locked FOR SHARE, by all
\* who are about to change it.
SharesNanny(q, n) ==
  tx[q].target = "nanny" /\ tx[q].pc \in {"update", "commit"} /\ NannyOf[tx[q].b] = n

\* ... and the row of the nanny.
HoldsNanny(q, n) ==
  tx[q].target = "nanny" /\ tx[q].pc = "commit" /\ NannyOf[tx[q].b] = n

\* What a statement of p reads now.
View(p) == [reviews EXCEPT ![tx[p].target][tx[p].b] = tx[p].row]

\* COUNT and SUM of the visible reviews of nanny n among those in rows.
Seen(rows, n) ==
  {b \in Booking : NannyOf[b] = n /\ rows["nanny"][b] # None /\ rows["nanny"][b].visible}
Tally(rows, n) ==
  LET C(k) == Cardinality({b \in Seen(rows, n) : rows["nanny"][b].stars = k})
  IN [count |-> Cardinality(Seen(rows, n)),
      sum |-> C(1) + 2 * C(2) + 3 * C(3) + 4 * C(4) + 5 * C(5)]

Go(p, pc) == tx' = [tx EXCEPT ![p].pc = pc]
Done(p) == tx' = [tx EXCEPT ![p] = Idle]

-----------------------------------------------------------------------------
(* Reviewing *)

\* Mutant (ReviewedAfterService): the status of the booking is not looked at.
CreateStartUnchecked(p, t, b) ==
  \E s \in Stars :
    /\ tx[p] = Idle
    /\ tx' = [tx EXCEPT ![p] = Serve("insert", t, b, "create", [stars |-> s, visible |-> TRUE])]
    /\ UNCHANGED <<status, reviews, log, rating>>

\* The booking is read and must be completed.
CreateStart(p, t, b) ==
  \E s \in Stars :
    /\ tx[p] = Idle
    /\ status[b] = "completed"
    /\ tx' = [tx EXCEPT ![p] = Serve("insert", t, b, "create", [stars |-> s, visible |-> TRUE])]
    /\ UNCHANGED <<status, reviews, log, rating>>

\* The rating is recomputed after a review or a moderation of a nanny's review,
\* not of a parent's.
Written(t) == IF t = "nanny" THEN "refresh" ELSE "commit"

\* The unique index: an INSERT waits for another transaction that inserted the
\* same booking ...
Insert(p, t, b) ==
  /\ tx[p].pc = "insert" /\ tx[p].target = t /\ tx[p].b = b
  /\ \A q \in Handler \ {p} : ~Holds(q, t, b)
  /\ reviews[t][b] = None
  /\ Go(p, Written(t))
  /\ UNCHANGED <<status, reviews, log, rating>>

\* ... and fails if there is one.
InsertDuplicate(p, t, b) ==
  /\ tx[p].pc = "insert" /\ tx[p].target = t /\ tx[p].b = b
  /\ reviews[t][b] # None
  /\ Done(p)
  /\ UNCHANGED <<status, reviews, log, rating>>

-----------------------------------------------------------------------------
(* Moderation *)

\* Mutant (AuditMatches): the UPDATE does not ask whether the review is visible.
ModerateAnyway(p, t, b, kind) ==
  /\ tx[p] = Idle
  /\ reviews[t][b] # None
  /\ \A q \in Handler \ {p} : ~Holds(q, t, b)
  /\ Len(log[t][b]) < MaxActions
  /\ tx' = [tx EXCEPT ![p] = Serve(Written(t), t, b, kind,
                [stars |-> reviews[t][b].stars, visible |-> kind = "unflag"])]
  /\ UNCHANGED <<status, reviews, log, rating>>

\* An admin hides a visible review or shows a hidden one; the UPDATE waits for
\* another moderation of the review and then looks again.  When there is no such
\* row nothing changes.
Moderate(p, t, b, kind) ==
  /\ tx[p] = Idle
  /\ reviews[t][b] # None
  /\ reviews[t][b].visible = (kind = "flag")
  /\ \A q \in Handler \ {p} : ~Holds(q, t, b)
  /\ Len(log[t][b]) < MaxActions
  /\ tx' = [tx EXCEPT ![p] = Serve(Written(t), t, b, kind,
                [stars |-> reviews[t][b].stars, visible |-> kind = "unflag"])]
  /\ UNCHANGED <<status, reviews, log, rating>>

-----------------------------------------------------------------------------
(* refreshNannyRating and the end of the transaction *)

\* The statement starts: this is what its subqueries see.
RefreshStart(p, n) ==
  /\ tx[p].pc = "refresh"
  /\ n = NannyOf[tx[p].b]
  /\ tx' = [tx EXCEPT ![p].pc = "update", ![p].tally = Tally(View(p), n)]
  /\ UNCHANGED <<status, reviews, log, rating>>

\* Mutant (RatingCountsReviews): the statement runs outside the transaction and
\* stays when the transaction fails.
RefreshAlone(p, n) ==
  /\ tx[p].pc = "update"
  /\ n = NannyOf[tx[p].b]
  /\ \A q \in Handler \ {p} : ~HoldsNanny(q, n)
  /\ rating' = [rating EXCEPT ![n] = tx[p].tally]
  /\ Go(p, "commit")
  /\ UNCHANGED <<status, reviews, log>>

\* It has the lock of the row of the nanny.
Refresh(p, n) ==
  /\ tx[p].pc = "update"
  /\ n = NannyOf[tx[p].b]
  /\ \A q \in Handler \ {p} : ~HoldsNanny(q, n)
  /\ Go(p, "commit")
  /\ UNCHANGED <<status, reviews, log, rating>>

Commit(p) ==
  LET t == tx[p].target
      b == tx[p].b
  IN /\ tx[p].pc = "commit"
     /\ reviews' = View(p)
     /\ log' = IF tx[p].kind = "create" THEN log
               ELSE [log EXCEPT ![t][b] = Append(@, tx[p].kind)]
     /\ rating' = IF t = "parent" THEN rating
                  ELSE [rating EXCEPT ![NannyOf[b]] = tx[p].tally]
     /\ Done(p)
     /\ UNCHANGED status

\* A statement fails, the client goes away or the process dies: rolled back.
GiveUp(p) ==
  /\ tx[p] # Idle
  /\ Done(p)
  /\ UNCHANGED <<status, reviews, log, rating>>

-----------------------------------------------------------------------------
(* The bookings, as module Bookings has them.  One that is cancelled before  *)
(* its completion can never be reviewed: "approved" stands for it too.       *)

Complete(b) ==
  /\ status[b] = "approved"
  /\ status' = [status EXCEPT ![b] = "completed"]
  /\ UNCHANGED <<reviews, log, rating, tx>>

\* An admin may cancel a completed booking.
AdminCancel(b) ==
  /\ status[b] = "completed"
  /\ status' = [status EXCEPT ![b] = "cancelled"]
  /\ UNCHANGED <<reviews, log, rating, tx>>

Init ==
  /\ status = [b \in Booking |-> "approved"]
  /\ reviews = [t \in Target |-> [b \in Booking |-> None]]
  /\ log = [t \in Target |-> [b \in Booking |-> <<>>]]
  /\ rating = [n \in Nanny |-> [count |-> 0, sum |-> 0]]
  /\ tx = [p \in Handler |-> Idle]

\* What a transaction does next, unless it fails.
Proceed(p) ==
  \/ \E t \in Target, b \in Booking : Insert(p, t, b) \/ InsertDuplicate(p, t, b)
  \/ \E n \in Nanny : RefreshStart(p, n) \/ Refresh(p, n)
  \/ Commit(p)

Next ==
  \/ \E b \in Booking : Complete(b) \/ AdminCancel(b)
  \/ \E p \in Handler :
       \/ GiveUp(p)
       \/ Proceed(p)
       \/ \E t \in Target, b \in Booking :
            CreateStart(p, t, b) \/ \E kind \in {"flag", "unflag"} : Moderate(p, t, b, kind)

Spec == Init /\ [][Next]_vars

-----------------------------------------------------------------------------
(***************************************************************************)
(* Properties                                                              *)
(***************************************************************************)

\* Every variable has its type.
TypeOK ==
  /\ status \in [Booking -> {"approved", "completed", "cancelled"}]
  /\ reviews \in [Target -> [Booking -> Row \cup {None}]]
  /\ log \in [Target -> [Booking -> Seq({"flag", "unflag"})]]
  /\ rating \in [Nanny -> [count : Nat, sum : Nat]]
  /\ tx \in [Handler -> Job]

\* A review is of a booking that was completed, even if it was cancelled since,
\* or while the review was under way.
ReviewedAfterService ==
  \A t \in Target, b \in Booking :
    reviews[t][b] # None => status[b] \in {"completed", "cancelled"}

\* The audit records of a review tell its whole story: flags and unflags
\* alternate, and the review is hidden exactly if the last record is a flag,
\* whichever admins act at the same time.
AuditMatches ==
  \A t \in Target, b \in Booking :
    LET l == log[t][b] IN
    /\ \A i \in DOMAIN l : l[i] = IF i % 2 = 1 THEN "flag" ELSE "unflag"
    /\ Len(l) > 0 => reviews[t][b] # None
    /\ reviews[t][b] # None => (reviews[t][b].visible <=> Len(l) % 2 = 0)

\* A rating never counts a review that does not exist, whatever transactions
\* overlap or fail.
RatingCountsReviews ==
  \A n \in Nanny :
    rating[n].count <= Cardinality({b \in Booking : NannyOf[b] = n /\ reviews["nanny"][b] # None})

\* What ENDPOINTS.md says: "Public nanny ratings are review-backed".
RatingIsBacked == \A n \in Nanny : rating[n] = Tally(reviews, n)

\* Reviews are irreversible: one that is published keeps its stars, and a second
\* review of the booking does not take its place.
ReviewStands ==
  [][\A t \in Target, b \in Booking :
       reviews[t][b] # None =>
         reviews'[t][b] # None /\ reviews'[t][b].stars = reviews[t][b].stars]_vars

\* Requests that wait for one another's rows do not wait for ever: of those that
\* are being served one can go on.
NoDeadlock == (\E p \in Handler : tx[p] # Idle) => \E p \in Handler : ENABLED Proceed(p)
=============================================================================
