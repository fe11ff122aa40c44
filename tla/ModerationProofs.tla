-------------------------- MODULE ModerationProofs --------------------------
(***************************************************************************)
(* Theorems about what administrators moderate, for every set of bookings, *)
(* nannies, handlers, conversations, texts, requests, steps and            *)
(* administrators.                                                         *)
(*                                                                         *)
(* Reviews.  A transaction acts on what its statements found, so the       *)
(* properties are inductive only together with what holds while it is      *)
(* open: nobody else has written its review (Exclusive), so that what it   *)
(* found is still so (Founded), and the rating it will write counts        *)
(* reviews that exist or that it publishes itself (Backed).                *)
(*                                                                         *)
(* Screening.  A tick, wherever it is held, was asked for, so a            *)
(* verification that saw every tick is one of a nanny whose steps have all *)
(* been confirmed; and `asked' only grows, so that this is still so when   *)
(* its transaction comes.                                                  *)
(*                                                                         *)
(* Messaging.  As long as the page has not said that a text was not sent,  *)
(* one request at most has it; and while the text is still in the composer *)
(* that request is the one the page waits for, so that the composer is     *)
(* closed and no second request is made.                                   *)
(***************************************************************************)
EXTENDS MCModeration, FiniteSetTheorems, TLAPS

-----------------------------------------------------------------------------
(* Reviews and ratings *)

Writing(p) == tx[p].pc \in {"refresh", "update", "commit"}

\* What a handler that serves a request remembers has been filled in.
Filled(p) ==
  IF tx[p].pc = "idle" THEN tx[p] = Idle
  ELSE /\ tx[p].target \in Target /\ tx[p].b \in Booking
       /\ tx[p].kind \in Kind /\ tx[p].row \in Row
       /\ tx[p].pc \in {"refresh", "update"} => tx[p].target = "nanny"
       /\ tx[p].target = "nanny" /\ tx[p].pc \in {"update", "commit"} => tx[p].tally # None

\* What it found when it started, or when it wrote its review, is still so.
Founded(p) ==
  LET t == tx[p].target
      b == tx[p].b
  IN tx[p].pc # "idle" =>
       /\ tx[p].kind = "create" =>
            /\ status[b] \in {"completed", "cancelled"}
            /\ tx[p].row.visible
            /\ Writing(p) => reviews[t][b] = None
       /\ tx[p].kind # "create" =>
            /\ Writing(p)
            /\ reviews[t][b] # None
            /\ tx[p].row.stars = reviews[t][b].stars
            /\ reviews[t][b].visible <=> tx[p].kind = "flag"
            /\ tx[p].row.visible <=> tx[p].kind = "unflag"

\* The reviews of nanny n there are.
Of(n) == {b \in Booking : NannyOf[b] = n /\ reviews["nanny"][b] # None}

\* The rating to be written counts those there are and the handler's own.
Backed(p) ==
  tx[p].pc \in {"update", "commit"} /\ tx[p].target = "nanny" =>
    tx[p].tally.count <= Cardinality(Of(NannyOf[tx[p].b]) \cup {tx[p].b})

TxOK == \A p \in Handler : Filled(p) /\ Founded(p) /\ Backed(p)

Exclusive ==
  \A p, q \in Handler :
    Writing(p) /\ Writing(q) /\ tx[p].target = tx[q].target /\ tx[p].b = tx[q].b => p = q

DataOK == ReviewedAfterService /\ AuditMatches /\ RatingCountsReviews

ReviewsInv == TypeOK /\ TxOK /\ Exclusive /\ DataOK

USE DEF PC, Kind, Target

-----------------------------------------------------------------------------
(* Counting *)

LEMMA FilterFinite ==
  ASSUME NEW S \in SUBSET Booking
  PROVE  IsFiniteSet(S) /\ Cardinality(S) \in Nat
  BY ReviewsAssumption, FS_Subset, FS_CardinalityType

LEMMA TallyType ==
  ASSUME NEW rows, NEW n
  PROVE  /\ Tally(rows, n) \in [count : Nat, sum : Nat]
         /\ Tally(rows, n).count = Cardinality(Seen(rows, n))
  <1> DEFINE With(k) == {b \in Seen(rows, n) : rows["nanny"][b].stars = k}
             C(k) == Cardinality(With(k))
             sum == C(1) + 2 * C(2) + 3 * C(3) + 4 * C(4) + 5 * C(5)
  <1>1. Seen(rows, n) \in SUBSET Booking BY DEF Seen
  <1>2. Cardinality(Seen(rows, n)) \in Nat BY <1>1, FilterFinite
  <1>3. ASSUME NEW k PROVE C(k) \in Nat
    <2>1. With(k) \in SUBSET Booking BY <1>1
    <2> HIDE DEF With
    <2> QED BY <2>1, FilterFinite
  <1>4. sum \in Nat
    <2>1. C(1) \in Nat /\ C(2) \in Nat /\ C(3) \in Nat /\ C(4) \in Nat /\ C(5) \in Nat
      BY <1>3
    <2> HIDE DEF C
    <2> QED BY <2>1
  <1>5. Tally(rows, n) = [count |-> Cardinality(Seen(rows, n)), sum |-> sum]
    BY DEF Tally
  <1> HIDE DEF sum
  <1> QED BY <1>2, <1>4, <1>5

LEMMA NoneIsNoTally ==
  ASSUME NEW x \in [count : Nat, sum : Nat]
  PROVE  x # None
  BY ReviewsAssumption

\* Whoever counts fewer reviews counts no more.
LEMMA OfGrows ==
  ASSUME NEW S \in SUBSET Booking, NEW T \in SUBSET Booking, S \subseteq T
  PROVE  /\ Cardinality(S) \in Nat /\ Cardinality(T) \in Nat
         /\ Cardinality(S) <= Cardinality(T)
  BY ReviewsAssumption, FS_Subset, FS_CardinalityType
-----------------------------------------------------------------------------
(* What the steps of a handler do to tx. *)

LEMMA GoEffect ==
  ASSUME TypeOK, NEW p \in Handler, NEW pc \in PC, Go(p, pc)
  PROVE  /\ tx' \in [Handler -> Job]
         /\ tx'[p].pc = pc /\ tx'[p].target = tx[p].target /\ tx'[p].b = tx[p].b
         /\ tx'[p].kind = tx[p].kind /\ tx'[p].row = tx[p].row /\ tx'[p].tally = tx[p].tally
         /\ \A q \in Handler \ {p} : tx'[q] = tx[q]
  <1> DEFINE new == [tx[p] EXCEPT !.pc = pc]
  <1>1. tx \in [Handler -> Job] /\ tx[p] \in Job BY DEF TypeOK
  <1>2. new \in Job BY <1>1 DEF Job
  <1>3. /\ new.pc = pc /\ new.target = tx[p].target /\ new.b = tx[p].b
        /\ new.kind = tx[p].kind /\ new.row = tx[p].row /\ new.tally = tx[p].tally
    BY <1>1 DEF Job
  <1>4. tx' = [tx EXCEPT ![p] = new] BY DEF Go
  <1> HIDE DEF new
  <1> QED BY <1>1, <1>2, <1>3, <1>4

LEMMA DoneEffect ==
  ASSUME TypeOK, NEW p \in Handler, Done(p)
  PROVE  /\ tx' \in [Handler -> Job]
         /\ tx'[p] = Idle /\ tx'[p].pc = "idle"
         /\ \A q \in Handler \ {p} : tx'[q] = tx[q]
  BY DEF TypeOK, Done, Idle, Serve, Job

\* Publishing a review changes that review alone.
LEMMA ViewEffect ==
  ASSUME TypeOK, NEW p \in Handler, Filled(p), tx[p].pc # "idle"
  PROVE  /\ View(p) \in [Target -> [Booking -> Row \cup {None}]]
         /\ View(p)[tx[p].target][tx[p].b] = tx[p].row
         /\ \A t \in Target, b \in Booking :
              t # tx[p].target \/ b # tx[p].b => View(p)[t][b] = reviews[t][b]
  BY DEF TypeOK, View, Filled

-----------------------------------------------------------------------------
(* Steps that publish nothing *)

Tables == <<status, reviews, log, rating>>

LEMMA OthersStand ==
  ASSUME ReviewsInv, NEW p \in Handler, NEW q \in Handler \ {p}, tx'[q] = tx[q], UNCHANGED Tables
  PROVE  Filled(q)' /\ Founded(q)' /\ Backed(q)'
  <1>1. Filled(q) /\ Founded(q) /\ Backed(q) BY DEF ReviewsInv, TxOK
  <1>2. Filled(q)' BY <1>1 DEF Filled
  <1>3. Founded(q)' BY <1>1 DEF Founded, Writing, Tables
  <1>4. Backed(q)' BY <1>1 DEF Backed, Of, Tables
  <1> QED BY <1>2, <1>3, <1>4

LEMMA DataStands ==
  ASSUME ReviewsInv, UNCHANGED Tables, tx' \in [Handler -> Job]
  PROVE  TypeOK' /\ DataOK'
  <1>1. TypeOK' BY DEF ReviewsInv, TypeOK, Tables
  <1>2. ReviewedAfterService' BY DEF ReviewsInv, DataOK, ReviewedAfterService, Tables
  <1>3. AuditMatches' BY DEF ReviewsInv, DataOK, AuditMatches, Tables
  <1>4. RatingCountsReviews' BY DEF ReviewsInv, DataOK, RatingCountsReviews, Tables
  <1> QED BY <1>1, <1>2, <1>3, <1>4 DEF DataOK

\* A handler that has not written a review keeps nobody from anything.
LEMMA NotWritingIsExclusive ==
  ASSUME ReviewsInv, NEW p \in Handler, tx'[p].pc \notin {"refresh", "update", "commit"},
         \A q \in Handler \ {p} : tx'[q] = tx[q]
  PROVE  Exclusive'
  BY DEF ReviewsInv, Exclusive, Writing

\* Nor does one that goes on with the review it has written.
LEMMA GoOnIsExclusive ==
  ASSUME ReviewsInv, NEW p \in Handler, Writing(p),
         tx'[p].target = tx[p].target, tx'[p].b = tx[p].b,
         \A q \in Handler \ {p} : tx'[q] = tx[q]
  PROVE  Exclusive'
  BY DEF ReviewsInv, Exclusive, Writing

\* One that writes a review nobody else is writing.
LEMMA FirstIsExclusive ==
  ASSUME ReviewsInv, NEW p \in Handler, NEW t, NEW b,
         \A q \in Handler \ {p} : ~Holds(q, t, b),
         tx'[p].target = t, tx'[p].b = b,
         \A q \in Handler \ {p} : tx'[q] = tx[q]
  PROVE  Exclusive'
  BY DEF ReviewsInv, Exclusive, Writing, Holds

LEMMA DoneStep ==
  ASSUME ReviewsInv, NEW p \in Handler, Done(p), UNCHANGED Tables
  PROVE  ReviewsInv'
  <1>1. /\ tx' \in [Handler -> Job]
        /\ tx'[p] = Idle /\ tx'[p].pc = "idle"
        /\ \A q \in Handler \ {p} : tx'[q] = tx[q]
    BY DoneEffect DEF ReviewsInv
  <1>2. TypeOK' /\ DataOK' BY <1>1, DataStands
  <1>3. Exclusive' BY <1>1, NotWritingIsExclusive
  <1>4. Filled(p)' /\ Founded(p)' /\ Backed(p)' BY <1>1 DEF Filled, Founded, Backed
  <1>5. TxOK' BY <1>1, <1>4, OthersStand DEF TxOK
  <1> QED BY <1>2, <1>3, <1>5 DEF ReviewsInv

LEMMA CreateStartStep ==
  ASSUME ReviewsInv, NEW p \in Handler, NEW t \in Target, NEW b \in Booking, CreateStart(p, t, b)
  PROVE  ReviewsInv'
  <1>1. PICK s \in Stars :
          tx' = [tx EXCEPT ![p] = Serve("insert", t, b, "create", [stars |-> s, visible |-> TRUE])]
    BY DEF CreateStart
  <1> DEFINE row == [stars |-> s, visible |-> TRUE]
  <1>2. UNCHANGED Tables /\ status[b] = "completed" BY DEF CreateStart, Tables
  <1>3. row \in Row /\ row.visible BY DEF Row
  <1> HIDE DEF row
  <1>4. /\ tx' \in [Handler -> Job]
        /\ tx'[p].pc = "insert" /\ tx'[p].target = t /\ tx'[p].b = b
        /\ tx'[p].kind = "create" /\ tx'[p].row = row /\ tx'[p].tally = None
        /\ \A q \in Handler \ {p} : tx'[q] = tx[q]
    <2>1. tx' = [tx EXCEPT ![p] = Serve("insert", t, b, "create", row)] BY <1>1 DEF row
    <2>2. "insert" \in PC /\ "create" \in Kind /\ TypeOK BY DEF ReviewsInv
    <2> QED BY <2>1, <2>2, <1>3 DEF TypeOK, Serve, Job
  <1>5. TypeOK' /\ DataOK' BY <1>2, <1>4, DataStands
  <1>6. Exclusive' BY <1>4, NotWritingIsExclusive
  <1>7. Filled(p)' BY <1>3, <1>4 DEF Filled
  <1>8. Founded(p)' BY <1>2, <1>3, <1>4 DEF Founded, Writing, Tables
  <1>9. Backed(p)' BY <1>4 DEF Backed
  <1>10. TxOK' BY <1>2, <1>4, <1>7, <1>8, <1>9, OthersStand DEF TxOK
  <1> QED BY <1>5, <1>6, <1>10 DEF ReviewsInv

LEMMA InsertStep ==
  ASSUME ReviewsInv, NEW p \in Handler, NEW t \in Target, NEW b \in Booking, Insert(p, t, b)
  PROVE  ReviewsInv'
  <1>1. /\ tx[p].pc = "insert" /\ tx[p].target = t /\ tx[p].b = b
        /\ \A q \in Handler \ {p} : ~Holds(q, t, b)
        /\ reviews[t][b] = None
        /\ Go(p, Written(t))
        /\ UNCHANGED Tables
    BY DEF Insert, Tables
  <1>2. Written(t) \in {"refresh", "commit"} /\ (Written(t) = "refresh" <=> t = "nanny")
    BY DEF Written
  <1>3. /\ tx' \in [Handler -> Job]
        /\ tx'[p].pc = Written(t) /\ tx'[p].target = tx[p].target /\ tx'[p].b = tx[p].b
        /\ tx'[p].kind = tx[p].kind /\ tx'[p].row = tx[p].row /\ tx'[p].tally = tx[p].tally
        /\ \A q \in Handler \ {p} : tx'[q] = tx[q]
    BY <1>1, <1>2, GoEffect DEF ReviewsInv
  <1>4. TypeOK' /\ DataOK' BY <1>1, <1>3, DataStands
  <1>5. Exclusive' BY <1>1, <1>3, FirstIsExclusive
  <1>6. Filled(p) /\ Founded(p) BY DEF ReviewsInv, TxOK
  <1>7. Filled(p)' BY <1>1, <1>2, <1>3, <1>6 DEF Filled
  <1>8. Founded(p)' BY <1>1, <1>2, <1>3, <1>6 DEF Founded, Writing, Tables
  <1>9. Backed(p)' BY <1>1, <1>2, <1>3 DEF Backed
  <1>10. TxOK' BY <1>1, <1>3, <1>7, <1>8, <1>9, OthersStand DEF TxOK
  <1> QED BY <1>4, <1>5, <1>10 DEF ReviewsInv

LEMMA ModerateStep ==
  ASSUME ReviewsInv, NEW p \in Handler, NEW t \in Target, NEW b \in Booking,
         NEW kind \in {"flag", "unflag"}, Moderate(p, t, b, kind)
  PROVE  ReviewsInv'
  <1> DEFINE row == [stars |-> reviews[t][b].stars, visible |-> kind = "unflag"]
  <1>1. /\ reviews[t][b] # None
        /\ reviews[t][b].visible = (kind = "flag")
        /\ \A q \in Handler \ {p} : ~Holds(q, t, b)
        /\ UNCHANGED Tables
        /\ tx' = [tx EXCEPT ![p] = Serve(Written(t), t, b, kind, row)]
    BY DEF Moderate, Tables
  <1>2. Written(t) \in {"refresh", "commit"} /\ (Written(t) = "refresh" <=> t = "nanny")
    BY DEF Written
  <1>3. row \in Row /\ row.stars = reviews[t][b].stars /\ (row.visible <=> kind = "unflag")
    <2>1. reviews[t][b] \in Row BY <1>1 DEF ReviewsInv, TypeOK
    <2>2. reviews[t][b].stars \in Stars BY <2>1 DEF Row
    <2> QED BY <2>2 DEF Row
  <1> HIDE DEF row
  <1>4. /\ tx' \in [Handler -> Job]
        /\ tx'[p].pc = Written(t) /\ tx'[p].target = t /\ tx'[p].b = b
        /\ tx'[p].kind = kind /\ tx'[p].row = row /\ tx'[p].tally = None
        /\ \A q \in Handler \ {p} : tx'[q] = tx[q]
    <2>1. Written(t) \in PC /\ kind \in Kind /\ TypeOK BY <1>2 DEF ReviewsInv
    <2> QED BY <1>1, <1>3, <2>1 DEF TypeOK, Serve, Job
  <1>5. TypeOK' /\ DataOK' BY <1>1, <1>4, DataStands
  <1>6. Exclusive' BY <1>1, <1>4, FirstIsExclusive
  <1>7. Filled(p)' BY <1>2, <1>3, <1>4 DEF Filled
  <1>8. Founded(p)' BY <1>1, <1>2, <1>3, <1>4 DEF Founded, Writing, Tables
  <1>9. Backed(p)' BY <1>2, <1>4 DEF Backed
  <1>10. TxOK' BY <1>1, <1>4, <1>7, <1>8, <1>9, OthersStand DEF TxOK
  <1> QED BY <1>5, <1>6, <1>10 DEF ReviewsInv

LEMMA RefreshStartStep ==
  ASSUME ReviewsInv, NEW p \in Handler, NEW n \in Nanny, RefreshStart(p, n)
  PROVE  ReviewsInv'
  <1> DEFINE tally == Tally(View(p), n)
             b == tx[p].b
  <1>1. /\ tx[p].pc = "refresh" /\ n = NannyOf[b]
        /\ tx' = [tx EXCEPT ![p].pc = "update", ![p].tally = tally]
        /\ UNCHANGED Tables
    BY DEF RefreshStart, Tables
  <1>2. Filled(p) /\ Founded(p) /\ TypeOK BY DEF ReviewsInv, TxOK
  <1>3. b \in Booking /\ tx[p].target = "nanny" BY <1>1, <1>2 DEF Filled
  <1>4. tally \in [count : Nat, sum : Nat] /\ tally.count = Cardinality(Seen(View(p), n))
    BY TallyType
  <1>5. tally.count <= Cardinality(Of(n) \cup {b})
    <2>1. \A x \in Booking : x # b => View(p)["nanny"][x] = reviews["nanny"][x]
      BY <1>1, <1>2, <1>3, ViewEffect
    <2>2. Seen(View(p), n) \subseteq Of(n) \cup {b} BY <2>1 DEF Seen, Of
    <2>3. Seen(View(p), n) \in SUBSET Booking /\ Of(n) \cup {b} \in SUBSET Booking
      BY <1>3 DEF Seen, Of
    <2> QED BY <1>4, <2>2, <2>3, OfGrows
  <1>6. tally # None BY <1>2, <1>4, NoneIsNoTally
  <1> HIDE DEF tally
  <1>7. /\ tx' \in [Handler -> Job]
        /\ tx'[p].pc = "update" /\ tx'[p].target = tx[p].target /\ tx'[p].b = tx[p].b
        /\ tx'[p].kind = tx[p].kind /\ tx'[p].row = tx[p].row /\ tx'[p].tally = tally
        /\ \A q \in Handler \ {p} : tx'[q] = tx[q]
    <2> DEFINE new == [tx[p] EXCEPT !.pc = "update", !.tally = tally]
    <2>1. tx \in [Handler -> Job] /\ tx[p] \in Job BY <1>2 DEF TypeOK
    <2>2. new \in Job BY <2>1, <1>4 DEF Job
    <2>3. /\ new.pc = "update" /\ new.target = tx[p].target /\ new.b = tx[p].b
          /\ new.kind = tx[p].kind /\ new.row = tx[p].row /\ new.tally = tally
      BY <2>1 DEF Job
    <2>4. tx' = [tx EXCEPT ![p] = new] BY <1>1, <2>1
    <2> HIDE DEF new
    <2> QED BY <2>1, <2>2, <2>3, <2>4
  <1>8. TypeOK' /\ DataOK' BY <1>1, <1>7, DataStands
  <1>9. Exclusive' BY <1>1, <1>7, GoOnIsExclusive DEF Writing
  <1>10. Filled(p)' BY <1>1, <1>2, <1>6, <1>7 DEF Filled
  <1>11. Founded(p)' BY <1>1, <1>2, <1>7 DEF Founded, Writing, Tables
  <1>12. Backed(p)' BY <1>1, <1>5, <1>7 DEF Backed, Of, Tables
  <1>13. TxOK' BY <1>1, <1>7, <1>10, <1>11, <1>12, OthersStand DEF TxOK
  <1> QED BY <1>8, <1>9, <1>13 DEF ReviewsInv

LEMMA RefreshStep ==
  ASSUME ReviewsInv, NEW p \in Handler, NEW n \in Nanny, Refresh(p, n)
  PROVE  ReviewsInv'
  <1>1. tx[p].pc = "update" /\ Go(p, "commit") /\ UNCHANGED Tables
    BY DEF Refresh, Tables
  <1>2. /\ tx' \in [Handler -> Job]
        /\ tx'[p].pc = "commit" /\ tx'[p].target = tx[p].target /\ tx'[p].b = tx[p].b
        /\ tx'[p].kind = tx[p].kind /\ tx'[p].row = tx[p].row /\ tx'[p].tally = tx[p].tally
        /\ \A q \in Handler \ {p} : tx'[q] = tx[q]
    BY <1>1, GoEffect DEF ReviewsInv
  <1>3. Filled(p) /\ Founded(p) /\ Backed(p) BY DEF ReviewsInv, TxOK
  <1>4. TypeOK' /\ DataOK' BY <1>1, <1>2, DataStands
  <1>5. Exclusive' BY <1>1, <1>2, GoOnIsExclusive DEF Writing
  <1>6. Filled(p)' BY <1>1, <1>2, <1>3 DEF Filled
  <1>7. Founded(p)' BY <1>1, <1>2, <1>3 DEF Founded, Writing, Tables
  <1>8. Backed(p)' BY <1>1, <1>2, <1>3 DEF Backed, Of, Tables
  <1>9. TxOK' BY <1>1, <1>2, <1>6, <1>7, <1>8, OthersStand DEF TxOK
  <1> QED BY <1>4, <1>5, <1>9 DEF ReviewsInv

-----------------------------------------------------------------------------
(* The bookings *)

LEMMA BookingStep ==
  ASSUME ReviewsInv, NEW b \in Booking, Complete(b) \/ AdminCancel(b)
  PROVE  ReviewsInv'
  <1>1. /\ UNCHANGED <<reviews, log, rating, tx>>
        /\ status' \in [Booking -> {"approved", "completed", "cancelled"}]
        /\ \A c \in Booking : status[c] \in {"completed", "cancelled"} =>
                             status'[c] \in {"completed", "cancelled"}
    BY DEF Complete, AdminCancel, ReviewsInv, TypeOK
  <1>2. TypeOK' BY <1>1 DEF ReviewsInv, TypeOK
  <1>3. ASSUME NEW p \in Handler PROVE Filled(p)' /\ Backed(p)'
    <2>1. Filled(p) /\ Backed(p) BY DEF ReviewsInv, TxOK
    <2>2. Filled(p)' BY <1>1, <2>1 DEF Filled
    <2>3. Backed(p)' BY <1>1, <2>1, ZenonT(60) DEF Backed, Of
    <2> QED BY <2>2, <2>3
  <1>4. ASSUME NEW p \in Handler PROVE Founded(p)'
    <2>1. Filled(p) /\ Founded(p) BY DEF ReviewsInv, TxOK
    <2>2. tx[p].pc # "idle" => tx[p].b \in Booking BY <2>1 DEF Filled
    <2> QED BY <1>1, <2>1, <2>2 DEF Founded, Writing
  <1>5. Exclusive' BY <1>1 DEF ReviewsInv, Exclusive, Writing
  <1>6. ReviewedAfterService' BY <1>1 DEF ReviewsInv, DataOK, ReviewedAfterService
  <1>7. AuditMatches' BY <1>1, ZenonT(60) DEF ReviewsInv, DataOK, AuditMatches
  <1>8. RatingCountsReviews' BY <1>1 DEF ReviewsInv, DataOK, RatingCountsReviews
  <1> QED BY <1>2, <1>3, <1>4, <1>5, <1>6, <1>7, <1>8 DEF ReviewsInv, TxOK, DataOK

-----------------------------------------------------------------------------
(* The end of a transaction *)

\* What AuditMatches says of one review whose audit records are l and whose row
\* is v.
Audited(l, v) ==
  /\ \A i \in DOMAIN l : l[i] = IF i % 2 = 1 THEN "flag" ELSE "unflag"
  /\ Len(l) > 0 => v # None
  /\ v # None => (v.visible <=> Len(l) % 2 = 0)

LEMMA FirstRow ==
  ASSUME NEW l \in Seq({"flag", "unflag"}), Audited(l, None), NEW v \in Row, v.visible
  PROVE  Audited(l, v)
  <1>1. Len(l) = 0 BY DEF Audited
  <1> QED BY <1>1, ReviewsAssumption DEF Audited, Row

\* A flag follows an even number of records, an unflag an odd one.
LEMMA NextRecord ==
  ASSUME NEW l \in Seq({"flag", "unflag"}), NEW v \in Row, NEW w \in Row,
         NEW kind \in {"flag", "unflag"},
         Audited(l, v), v.visible <=> kind = "flag", w.visible <=> kind = "unflag"
  PROVE  Audited(Append(l, kind), w)
  <1> DEFINE m == Append(l, kind)
             n == Len(l)
  <1>1. /\ n \in Nat /\ DOMAIN l = 1 .. n
        /\ Len(m) = n + 1 /\ DOMAIN m = 1 .. n + 1
        /\ m[n + 1] = kind
    OBVIOUS
  <1>2. \A i \in 1 .. n : m[i] = l[i] OBVIOUS
  <1>3. v # None /\ w # None BY ReviewsAssumption DEF Row
  <1>4. n % 2 = 0 <=> kind = "flag" BY <1>3 DEF Audited
  <1>5. (n + 1) % 2 = 1 <=> n % 2 = 0
    <2> HIDE DEF n
    <2> QED BY <1>1
  <1>6. (n + 1) % 2 = 0 <=> kind = "unflag"
    <2> HIDE DEF n
    <2> QED BY <1>1, <1>4, <1>5
  <1>7. \A i \in 1 .. n + 1 : m[i] = IF i % 2 = 1 THEN "flag" ELSE "unflag"
    <2>1. \A i \in 1 .. n : l[i] = IF i % 2 = 1 THEN "flag" ELSE "unflag"
      BY <1>1 DEF Audited
    <2> HIDE DEF m, n
    <2> QED BY <2>1, <1>1, <1>2, <1>4, <1>5
  <1> HIDE DEF m, n
  <1> QED BY <1>1, <1>3, <1>6, <1>7 DEF Audited, m

LEMMA CommitStep ==
  ASSUME ReviewsInv, NEW p \in Handler, Commit(p)
  PROVE  ReviewsInv'
  <1> DEFINE t == tx[p].target
             b == tx[p].b
             row == tx[p].row
  <1>1. /\ tx[p].pc = "commit"
        /\ reviews' = View(p)
        /\ log' = IF tx[p].kind = "create" THEN log
                  ELSE [log EXCEPT ![t][b] = Append(@, tx[p].kind)]
        /\ rating' = IF t = "parent" THEN rating
                     ELSE [rating EXCEPT ![NannyOf[b]] = tx[p].tally]
        /\ Done(p) /\ status' = status
    BY DEF Commit
  <1>2. TypeOK /\ Filled(p) /\ Founded(p) /\ Backed(p) BY DEF ReviewsInv, TxOK
  <1>3. t \in Target /\ b \in Booking /\ tx[p].kind \in Kind /\ row \in Row /\ Writing(p)
    BY <1>1, <1>2 DEF Filled, Writing
  <1>4. row # None BY <1>3, ReviewsAssumption DEF Row
  <1>5. /\ reviews' \in [Target -> [Booking -> Row \cup {None}]]
        /\ reviews'[t][b] = row
        /\ \A u \in Target, c \in Booking : u # t \/ c # b => reviews'[u][c] = reviews[u][c]
    BY <1>1, <1>2, ViewEffect
  <1>6. /\ tx' \in [Handler -> Job]
        /\ tx'[p] = Idle /\ tx'[p].pc = "idle"
        /\ \A q \in Handler \ {p} : tx'[q] = tx[q]
    BY <1>1, <1>2, DoneEffect
  <1>7. \A u \in Target, c \in Booking : reviews[u][c] # None => reviews'[u][c] # None
    BY <1>4, <1>5
  <1>8. \A n : Of(n) \subseteq Of(n)' BY <1>7 DEF Of
  <1>9. log' \in [Target -> [Booking -> Seq({"flag", "unflag"})]]
    BY <1>1, <1>2, <1>3 DEF TypeOK
  <1>10. rating' \in [Nanny -> [count : Nat, sum : Nat]]
    <2>1. CASE t = "parent" BY <2>1, <1>1, <1>2 DEF TypeOK
    <2>2. CASE t = "nanny"
      <3>1. tx[p].tally \in [count : Nat, sum : Nat]
        BY <2>2, <1>1, <1>2 DEF TypeOK, Job, Filled
      <3> QED BY <2>2, <3>1, <1>1, <1>2 DEF TypeOK
    <2> QED BY <2>1, <2>2, <1>3
  <1>11. TypeOK' BY <1>1, <1>2, <1>5, <1>6, <1>9, <1>10 DEF TypeOK
  <1>12. Exclusive' BY <1>6, NotWritingIsExclusive
  <1>13. TxOK'
    <2>1. Filled(p)' /\ Founded(p)' /\ Backed(p)' BY <1>6 DEF Filled, Founded, Backed
    <2>2. ASSUME NEW q \in Handler \ {p} PROVE Filled(q)' /\ Founded(q)' /\ Backed(q)'
      <3>1. Filled(q) /\ Founded(q) /\ Backed(q) /\ tx'[q] = tx[q] BY <1>6 DEF ReviewsInv, TxOK
      <3>2. Filled(q)' BY <3>1 DEF Filled
      <3>3. Founded(q)'
        <4>1. CASE Writing(q)
          <5>1. tx[q].target # t \/ tx[q].b # b BY <4>1, <1>3 DEF ReviewsInv, Exclusive
          <5>2. tx[q].target \in Target /\ tx[q].b \in Booking BY <3>1, <4>1 DEF Filled, Writing
          <5>3. /\ reviews'[tx[q].target][tx[q].b] = reviews[tx[q].target][tx[q].b]
                /\ status' = status
            BY <5>1, <5>2, <1>1, <1>5
          <5> QED BY <5>3, <3>1 DEF Founded, Writing
        <4>2. CASE ~Writing(q)
          BY <4>2, <1>1, <3>1 DEF Founded, Writing
        <4> QED BY <4>1, <4>2
      <3>4. Backed(q)'
        <4> SUFFICES ASSUME tx[q].pc \in {"update", "commit"}, tx[q].target = "nanny"
                     PROVE  tx[q].tally.count <= Cardinality(Of(NannyOf[tx[q].b])' \cup {tx[q].b})
          BY <3>1 DEF Backed
        <4> DEFINE S == Of(NannyOf[tx[q].b]) \cup {tx[q].b}
                   T == Of(NannyOf[tx[q].b])' \cup {tx[q].b}
        <4>1. tx[q].b \in Booking /\ tx[q].tally \in [count : Nat, sum : Nat]
          BY <3>1, <1>2 DEF Filled, TypeOK, Job
        <4>2. S \subseteq T /\ S \in SUBSET Booking /\ T \in SUBSET Booking
          BY <4>1, <3>1, <1>7 DEF Of
        <4>3. tx[q].tally.count <= Cardinality(S) BY <3>1 DEF Backed
        <4>4. /\ Cardinality(S) \in Nat /\ Cardinality(T) \in Nat
              /\ Cardinality(S) <= Cardinality(T)
          BY <4>2, OfGrows
        <4> HIDE DEF S
        <4> QED BY <4>1, <4>3, <4>4
      <3> QED BY <3>2, <3>3, <3>4
    <2> QED BY <2>1, <2>2 DEF TxOK
  <1>14. ReviewedAfterService'
    <2>1. status[b] \in {"completed", "cancelled"}
      BY <1>1, <1>2, <1>3 DEF Founded, ReviewsInv, DataOK, ReviewedAfterService
    <2> QED BY <2>1, <1>1, <1>5 DEF ReviewsInv, DataOK, ReviewedAfterService
  <1>15. AuditMatches'
    <2> SUFFICES ASSUME NEW u \in Target, NEW c \in Booking
                 PROVE  Audited(log'[u][c], reviews'[u][c])
      BY DEF AuditMatches, Audited
    <2>1. Audited(log[u][c], reviews[u][c])
      BY DEF ReviewsInv, DataOK, AuditMatches, Audited
    <2>2. log[u][c] \in Seq({"flag", "unflag"}) BY <1>2 DEF TypeOK
    <2>3. CASE u # t \/ c # b
      <3>1. log'[u][c] = log[u][c] /\ reviews'[u][c] = reviews[u][c]
        BY <2>3, <1>1, <1>2, <1>3, <1>5 DEF TypeOK
      <3> QED BY <2>1, <3>1
    <2>4. CASE u = t /\ c = b /\ tx[p].kind = "create"
      <3>1. reviews[u][c] = None /\ row.visible BY <2>4, <1>1, <1>2, <1>3 DEF Founded
      <3>2. log'[u][c] = log[u][c] /\ reviews'[u][c] = row BY <2>4, <1>1, <1>5
      <3> QED BY <2>1, <2>2, <3>1, <3>2, <1>3, FirstRow
    <2>5. CASE u = t /\ c = b /\ tx[p].kind # "create"
      <3>1. /\ tx[p].kind \in {"flag", "unflag"}
            /\ reviews[u][c] # None
            /\ reviews[u][c].visible <=> tx[p].kind = "flag"
            /\ row.visible <=> tx[p].kind = "unflag"
        BY <2>5, <1>1, <1>2, <1>3 DEF Founded
      <3>2. log'[u][c] = Append(log[u][c], tx[p].kind) /\ reviews'[u][c] = row
        BY <2>5, <1>1, <1>2, <1>3, <1>5 DEF TypeOK
      <3>3. reviews[u][c] \in Row BY <3>1, <1>2 DEF TypeOK
      <3> HIDE DEF row
      <3> QED BY <2>1, <2>2, <3>1, <3>2, <3>3, <1>3, NextRecord
    <2> QED BY <2>3, <2>4, <2>5
  <1>16. RatingCountsReviews'
    <2> SUFFICES ASSUME NEW n \in Nanny PROVE rating'[n].count <= Cardinality(Of(n)')
      BY DEF RatingCountsReviews, Of
    <2>1. Of(n) \in SUBSET Booking /\ Of(n)' \in SUBSET Booking BY DEF Of
    <2>2. /\ Cardinality(Of(n)) \in Nat /\ Cardinality(Of(n)') \in Nat
          /\ Cardinality(Of(n)) <= Cardinality(Of(n)')
      BY <2>1, <1>8, OfGrows
    <2>3. CASE t = "parent" \/ n # NannyOf[b]
      <3>1. rating'[n] = rating[n] /\ rating[n].count \in Nat
        BY <2>3, <1>1, <1>2 DEF TypeOK
      <3>2. rating[n].count <= Cardinality(Of(n))
        BY DEF ReviewsInv, DataOK, RatingCountsReviews, Of
      <3> QED BY <3>1, <3>2, <2>2
    <2>4. CASE t = "nanny" /\ n = NannyOf[b]
      <3>1. Of(n)' = Of(n) \cup {b}
        BY <2>4, <1>3, <1>4, <1>5 DEF Of
      <3>2. rating'[n] = tx[p].tally BY <2>4, <1>1, <1>2 DEF TypeOK
      <3>3. tx[p].tally.count <= Cardinality(Of(n) \cup {b}) BY <2>4, <1>1, <1>2 DEF Backed
      <3> QED BY <3>1, <3>2, <3>3
    <2> QED BY <2>3, <2>4, <1>3
  <1> QED BY <1>11, <1>12, <1>13, <1>14, <1>15, <1>16 DEF ReviewsInv, DataOK

-----------------------------------------------------------------------------
(* Theorems *)

LEMMA InitInvariant ==
  ASSUME Init
  PROVE  ReviewsInv
  <1>1. tx \in [Handler -> Job] BY DEF Init, Idle, Serve, Job
  <1>2. TypeOK
    <2>1. log \in [Target -> [Booking -> Seq({"flag", "unflag"})]] BY DEF Init
    <2> QED BY <1>1, <2>1 DEF Init, TypeOK
  <1>3. \A p \in Handler : tx[p] = Idle /\ tx[p].pc = "idle" BY DEF Init, Idle, Serve
  <1>4. TxOK BY <1>3 DEF TxOK, Filled, Founded, Backed
  <1>5. Exclusive BY <1>3 DEF Exclusive, Writing
  <1>6. ReviewedAfterService /\ AuditMatches BY DEF Init, ReviewedAfterService, AuditMatches
  <1>7. RatingCountsReviews
    <2> SUFFICES ASSUME NEW n \in Nanny PROVE rating[n].count <= Cardinality(Of(n))
      BY DEF RatingCountsReviews, Of
    <2>1. Of(n) \in SUBSET Booking BY DEF Of
    <2>2. Cardinality(Of(n)) \in Nat BY <2>1, FilterFinite
    <2> QED BY <2>2 DEF Init
  <1> QED BY <1>2, <1>4, <1>5, <1>6, <1>7 DEF ReviewsInv, DataOK

LEMMA StepInvariant ==
  ASSUME ReviewsInv, [Next]_vars
  PROVE  ReviewsInv'
  <1>1. CASE UNCHANGED vars
    <2>1. UNCHANGED Tables /\ tx' = tx /\ tx' \in [Handler -> Job]
      BY <1>1 DEF vars, Tables, ReviewsInv, TypeOK
    <2>2. TypeOK' /\ DataOK' BY <2>1, DataStands
    <2>3. TxOK'
      BY <2>1 DEF Tables, ReviewsInv, TxOK, Filled, Founded, Backed, Of, Writing
    <2>4. Exclusive' BY <2>1 DEF ReviewsInv, Exclusive, Writing
    <2> QED BY <2>2, <2>3, <2>4 DEF ReviewsInv
  <1>2. CASE \E b \in Booking : Complete(b) \/ AdminCancel(b) BY <1>2, BookingStep
  <1>3. ASSUME NEW p \in Handler, GiveUp(p) PROVE ReviewsInv'
    BY <1>3, DoneStep DEF GiveUp, Tables
  <1>4. ASSUME NEW p \in Handler, NEW t \in Target, NEW b \in Booking,
               Insert(p, t, b) \/ InsertDuplicate(p, t, b)
        PROVE  ReviewsInv'
    BY <1>4, InsertStep, DoneStep DEF InsertDuplicate, Tables
  <1>5. ASSUME NEW p \in Handler, NEW n \in Nanny, RefreshStart(p, n) \/ Refresh(p, n)
        PROVE  ReviewsInv'
    BY <1>5, RefreshStartStep, RefreshStep
  <1>6. ASSUME NEW p \in Handler, Commit(p) PROVE ReviewsInv' BY <1>6, CommitStep
  <1>7. ASSUME NEW p \in Handler, NEW t \in Target, NEW b \in Booking,
               CreateStart(p, t, b) \/ \E kind \in {"flag", "unflag"} : Moderate(p, t, b, kind)
        PROVE  ReviewsInv'
    BY <1>7, CreateStartStep, ModerateStep
  <1> QED BY <1>1, <1>2, <1>3, <1>4, <1>5, <1>6, <1>7 DEF Next, Proceed

THEOREM ReviewsInvariance == Spec => []ReviewsInv
  BY InitInvariant, StepInvariant, PTL DEF Spec

\* Every variable keeps its type.
THEOREM ReviewsTypeCorrect == Spec => []TypeOK
  BY ReviewsInvariance, PTL DEF ReviewsInv

\* Only bookings that were completed are reviewed, although the booking is read
\* before the review is inserted.
THEOREM ReviewsFollowService == Spec => []ReviewedAfterService
  BY ReviewsInvariance, PTL DEF ReviewsInv, DataOK

\* The audit records of a review agree with its visibility, for any number of
\* admins who moderate it at once.
THEOREM AuditAgrees == Spec => []AuditMatches
  BY ReviewsInvariance, PTL DEF ReviewsInv, DataOK

\* A rating counts no review that is not there, although it may miss some.
THEOREM RatingsCountReviews == Spec => []RatingCountsReviews
  BY ReviewsInvariance, PTL DEF ReviewsInv, DataOK

\* A published review is neither replaced nor altered.
THEOREM ReviewsStand == Spec => ReviewStands
  <1> DEFINE Stands(t, b) ==
        reviews[t][b] # None =>
          reviews'[t][b] # None /\ reviews'[t][b].stars = reviews[t][b].stars
  <1>1. ASSUME ReviewsInv, [Next]_vars
        PROVE  \A t \in Target, b \in Booking : Stands(t, b)
    <2>1. CASE UNCHANGED reviews BY <2>1
    <2>2. ASSUME NEW p \in Handler, Commit(p)
          PROVE  \A t \in Target, b \in Booking : Stands(t, b)
      <3>1. TypeOK /\ Filled(p) /\ Founded(p) /\ tx[p].pc = "commit" /\ reviews' = View(p)
        BY <1>1, <2>2 DEF ReviewsInv, TxOK, Commit
      <3>2. /\ View(p)[tx[p].target][tx[p].b] = tx[p].row
            /\ \A t \in Target, b \in Booking :
                 t # tx[p].target \/ b # tx[p].b => View(p)[t][b] = reviews[t][b]
        BY <3>1, ViewEffect
      <3>3. tx[p].row \in Row /\ tx[p].row # None
        BY <3>1, ReviewsAssumption DEF Filled, Row
      <3>4. reviews[tx[p].target][tx[p].b] # None =>
              tx[p].row.stars = reviews[tx[p].target][tx[p].b].stars
        BY <3>1 DEF Founded, Writing
      <3> QED BY <3>1, <3>2, <3>3, <3>4
    <2>3. UNCHANGED reviews \/ \E p \in Handler : Commit(p)
      <3>1. CASE UNCHANGED vars BY <3>1 DEF vars
      <3>2. CASE \E b \in Booking : Complete(b) \/ AdminCancel(b)
        BY <3>2 DEF Complete, AdminCancel
      <3>3. ASSUME NEW p \in Handler, GiveUp(p) \/ Proceed(p) PROVE UNCHANGED reviews \/ Commit(p)
        BY <3>3 DEF GiveUp, Proceed, Insert, InsertDuplicate, RefreshStart, Refresh
      <3>4. ASSUME NEW p \in Handler, NEW t \in Target, NEW b \in Booking,
                   CreateStart(p, t, b) \/ \E kind \in {"flag", "unflag"} : Moderate(p, t, b, kind)
            PROVE  UNCHANGED reviews
        BY <3>4 DEF CreateStart, Moderate
      <3> QED BY <1>1, <3>1, <3>2, <3>3, <3>4 DEF Next
    <2> QED BY <2>1, <2>2, <2>3
  <1>2. ReviewsInv /\ [Next]_vars => [\A t \in Target, b \in Booking : Stands(t, b)]_vars
    BY <1>1
  <1> QED BY <1>2, ReviewsInvariance, PTL DEF Spec, ReviewStands

-----------------------------------------------------------------------------
(* What a rating says *)

\* The average of the ratings counted lies between one star and five.
Average(tally) == tally.count <= tally.sum /\ tally.sum <= 5 * tally.count

Weighed(p) ==
  tx[p].pc \in {"update", "commit"} /\ tx[p].target = "nanny" => Average(tx[p].tally)

RatingsAverage == \A n \in Nanny : Average(rating[n])

AveragesOK == RatingsAverage /\ \A p \in Handler : Weighed(p)

\* Two sets that have no element in common are counted one after the other.
LEMMA DisjointCount ==
  ASSUME NEW S \in SUBSET Booking, NEW T \in SUBSET Booking, S \cap T = {}
  PROVE  Cardinality(S \cup T) = Cardinality(S) + Cardinality(T)
  <1>1. IsFiniteSet(S) /\ IsFiniteSet(T) BY FilterFinite
  <1>2. Cardinality(S) \in Nat /\ Cardinality(T) \in Nat BY FilterFinite
  <1>3. Cardinality(S \cup T) = Cardinality(S) + Cardinality(T) - Cardinality({})
    BY <1>1, FS_Union
  <1>4. Cardinality({}) = 0 BY FS_EmptySet
  <1> QED BY <1>2, <1>3, <1>4

\* Every review that is counted has one to five stars, so that the counts by
\* stars add up to the number of reviews.
LEMMA TallyIsAverage ==
  ASSUME NEW rows \in [Target -> [Booking -> Row \cup {None}]], NEW n
  PROVE  Average(Tally(rows, n))
  <1> DEFINE S == Seen(rows, n)
             With(k) == {b \in S : rows["nanny"][b].stars = k}
             C(k) == Cardinality(With(k))
             sum == C(1) + 2 * C(2) + 3 * C(3) + 4 * C(4) + 5 * C(5)
  <1>1. S \in SUBSET Booking BY DEF Seen
  <1>2. \A k \in 1 .. 5 : With(k) \in SUBSET Booking /\ C(k) \in Nat
    <2> SUFFICES ASSUME NEW k \in 1 .. 5 PROVE With(k) \in SUBSET Booking /\ C(k) \in Nat
      OBVIOUS
    <2>1. With(k) \in SUBSET Booking BY <1>1
    <2> HIDE DEF With
    <2> QED BY <2>1, FilterFinite
  <1>3. \A b \in S : rows["nanny"][b].stars \in 1 .. 5
    BY ReviewsAssumption DEF Seen, Row
  <1>4. S = With(1) \cup With(2) \cup With(3) \cup With(4) \cup With(5)
    BY <1>3
  <1>5. /\ With(1) \cap With(2) = {}
        /\ (With(1) \cup With(2)) \cap With(3) = {}
        /\ (With(1) \cup With(2) \cup With(3)) \cap With(4) = {}
        /\ (With(1) \cup With(2) \cup With(3) \cup With(4)) \cap With(5) = {}
    OBVIOUS
  <1>6. Tally(rows, n) = [count |-> Cardinality(S), sum |-> sum]
    BY DEF Tally
  <1> HIDE DEF S, With
  <1>7. /\ With(1) \in SUBSET Booking /\ With(2) \in SUBSET Booking /\ With(3) \in SUBSET Booking
        /\ With(4) \in SUBSET Booking /\ With(5) \in SUBSET Booking
        /\ C(1) \in Nat /\ C(2) \in Nat /\ C(3) \in Nat /\ C(4) \in Nat /\ C(5) \in Nat
    BY <1>2
  <1>8. Cardinality(S) = C(1) + C(2) + C(3) + C(4) + C(5)
    <2>1. Cardinality(With(1) \cup With(2)) = C(1) + C(2)
      BY <1>5, <1>7, DisjointCount
    <2>2. Cardinality(With(1) \cup With(2) \cup With(3)) = C(1) + C(2) + C(3)
      BY <1>5, <1>7, <2>1, DisjointCount
    <2>3. Cardinality(With(1) \cup With(2) \cup With(3) \cup With(4)) = C(1) + C(2) + C(3) + C(4)
      BY <1>5, <1>7, <2>2, DisjointCount
    <2> DEFINE Four == With(1) \cup With(2) \cup With(3) \cup With(4)
    <2>4. Four \in SUBSET Booking /\ Four \cap With(5) = {} /\ S = Four \cup With(5)
      BY <1>4, <1>5, <1>7
    <2>5. Cardinality(Four) = C(1) + C(2) + C(3) + C(4)
      BY <2>3
    <2> HIDE DEF Four
    <2>6. Cardinality(S) = Cardinality(Four) + C(5)
      BY <1>7, <2>4, DisjointCount
    <2> QED BY <2>5, <2>6
  <1> HIDE DEF C
  <1>9. Cardinality(S) <= sum /\ sum <= 5 * Cardinality(S)
    BY <1>7, <1>8
  <1> QED BY <1>6, <1>9 DEF Average

LEMMA AveragesStep ==
  ASSUME ReviewsInv, AveragesOK, [Next]_vars
  PROVE  AveragesOK'
  <1>0. TypeOK /\ TypeOK' /\ \A p \in Handler : Filled(p) /\ Weighed(p)
    BY StepInvariant DEF ReviewsInv, TxOK, AveragesOK
  \* A handler changes what it does without a new tally, or starts over.
  <1>1. ASSUME NEW p \in Handler, rating' = rating, \A q \in Handler \ {p} : tx'[q] = tx[q],
               Weighed(p)'
        PROVE  AveragesOK'
    BY <1>0, <1>1 DEF AveragesOK, RatingsAverage, Weighed
  <1>2. CASE UNCHANGED <<rating, tx>>
    BY <1>0, <1>2 DEF AveragesOK, RatingsAverage, Weighed
  <1>3. ASSUME NEW p \in Handler, Done(p), rating' = rating
        PROVE  AveragesOK'
    <2>1. tx'[p].pc = "idle" /\ \A q \in Handler \ {p} : tx'[q] = tx[q] BY <1>0, <1>3, DoneEffect
    <2>2. Weighed(p)' BY <2>1 DEF Weighed
    <2> QED BY <1>1, <1>3, <2>1, <2>2
  <1>4. ASSUME NEW p \in Handler, NEW t \in Target, NEW b \in Booking, Insert(p, t, b)
        PROVE  AveragesOK'
    <2>1. Written(t) \in PC /\ Go(p, Written(t)) /\ tx[p].target = t /\ rating' = rating
      BY <1>4 DEF Insert, Written
    <2>2. /\ tx'[p].pc = Written(t) /\ tx'[p].target = t
          /\ \A q \in Handler \ {p} : tx'[q] = tx[q]
      BY <1>0, <2>1, GoEffect
    <2>3. Weighed(p)' BY <2>2 DEF Weighed, Written
    <2> QED BY <1>1, <2>1, <2>2, <2>3
  <1>5. ASSUME NEW p \in Handler, NEW n \in Nanny, RefreshStart(p, n)
        PROVE  AveragesOK'
    <2> DEFINE tally == Tally(View(p), n)
    <2>1. /\ tx[p].pc = "refresh" /\ rating' = rating
          /\ tx' = [tx EXCEPT ![p].pc = "update", ![p].tally = tally]
      BY <1>5 DEF RefreshStart
    <2>2. View(p) \in [Target -> [Booking -> Row \cup {None}]]
      BY <1>0, <2>1, ViewEffect
    <2>3. Average(tally) BY <2>2, TallyIsAverage
    <2> HIDE DEF tally
    <2>4. tx'[p].tally = tally /\ \A q \in Handler \ {p} : tx'[q] = tx[q]
      BY <1>0, <2>1 DEF TypeOK, Job
    <2>5. Weighed(p)' BY <2>3, <2>4 DEF Weighed
    <2> QED BY <1>1, <2>1, <2>4, <2>5
  <1>6. ASSUME NEW p \in Handler, NEW n \in Nanny, Refresh(p, n)
        PROVE  AveragesOK'
    <2>1. tx[p].pc = "update" /\ Go(p, "commit") /\ rating' = rating BY <1>6 DEF Refresh
    <2>2. /\ tx'[p].target = tx[p].target /\ tx'[p].tally = tx[p].tally
          /\ \A q \in Handler \ {p} : tx'[q] = tx[q]
      BY <1>0, <2>1, GoEffect
    <2>3. Weighed(p)' BY <1>0, <2>1, <2>2 DEF Weighed
    <2> QED BY <1>1, <2>1, <2>2, <2>3
  <1>7. ASSUME NEW p \in Handler, Commit(p)
        PROVE  AveragesOK'
    <2>1. /\ tx[p].pc = "commit" /\ Done(p)
          /\ rating' = IF tx[p].target = "parent" THEN rating
                       ELSE [rating EXCEPT ![NannyOf[tx[p].b]] = tx[p].tally]
      BY <1>7 DEF Commit
    <2>2. tx[p].target \in Target BY <1>0, <2>1 DEF Filled
    <2>3. CASE tx[p].target = "parent"
      BY <1>3, <2>1, <2>3
    <2>4. CASE tx[p].target = "nanny"
      <3>1. Average(tx[p].tally) BY <1>0, <2>1, <2>4 DEF Weighed
      <3>2. RatingsAverage' BY <1>0, <2>1, <2>4, <3>1 DEF AveragesOK, RatingsAverage, TypeOK
      <3>3. tx'[p].pc = "idle" /\ \A q \in Handler \ {p} : tx'[q] = tx[q] BY <1>0, <2>1, DoneEffect
      <3> QED BY <1>0, <3>2, <3>3 DEF AveragesOK, Weighed
    <2> QED BY <2>2, <2>3, <2>4
  <1>8. ASSUME NEW p \in Handler, NEW t \in Target, NEW b \in Booking,
               CreateStart(p, t, b) \/ \E kind \in {"flag", "unflag"} : Moderate(p, t, b, kind)
        PROVE  AveragesOK'
    <2>1. ASSUME NEW pc \in {"insert", Written(t)}, NEW kind, NEW row,
                 tx' = [tx EXCEPT ![p] = Serve(pc, t, b, kind, row)]
          PROVE  tx'[p].pc \in {"insert", Written(t)} /\ tx'[p].target = t
                 /\ \A q \in Handler \ {p} : tx'[q] = tx[q]
      BY <1>0, <2>1 DEF TypeOK, Serve
    <2>2. rating' = rating BY <1>8 DEF CreateStart, Moderate
    <2>3. tx'[p].pc \in {"insert", Written(t)} /\ tx'[p].target = t /\ \A q \in Handler \ {p} : tx'[q] = tx[q]
      <3>1. CASE CreateStart(p, t, b)
        BY <2>1, <3>1 DEF CreateStart
      <3>2. CASE \E kind \in {"flag", "unflag"} : Moderate(p, t, b, kind)
        <4>1. PICK kind \in {"flag", "unflag"} : Moderate(p, t, b, kind)
          BY <3>2
        <4> DEFINE row == [stars |-> reviews[t][b].stars, visible |-> kind = "unflag"]
        <4>2. tx' = [tx EXCEPT ![p] = Serve(Written(t), t, b, kind, row)]
          BY <4>1 DEF Moderate
        <4> HIDE DEF row
        <4> QED BY <2>1, <4>2
      <3> QED BY <1>8, <3>1, <3>2
    <2>4. Weighed(p)' BY <2>3 DEF Weighed, Written
    <2> QED BY <1>1, <2>2, <2>3, <2>4
  <1>9. CASE UNCHANGED vars BY <1>2, <1>9 DEF vars
  <1>10. CASE \E b \in Booking : Complete(b) \/ AdminCancel(b)
    BY <1>2, <1>10 DEF Complete, AdminCancel
  <1> QED BY <1>3, <1>4, <1>5, <1>6, <1>7, <1>8, <1>9, <1>10
          DEF Next, Proceed, GiveUp, InsertDuplicate

\* What refreshNannyRating writes is an average of one to five stars, and zero
\* without reviews: no rating is refused by the CHECK of the column rating_avg.
THEOREM RatingsAreAverages == Spec => []RatingsAverage
  <1>1. Init => AveragesOK
    BY DEF Init, AveragesOK, RatingsAverage, Average, Weighed, Idle, Serve
  <1>2. ReviewsInv /\ AveragesOK /\ [Next]_vars => AveragesOK'
    BY AveragesStep
  <1>3. AveragesOK => RatingsAverage
    BY DEF AveragesOK
  <1> QED BY <1>1, <1>2, <1>3, ReviewsInvariance, PTL DEF Spec

-----------------------------------------------------------------------------
(* Waiting for rows *)

\* What a handler waits for is not there, or has come.
MayGoOn(p) ==
  LET t == tx[p].target
      b == tx[p].b
  IN \/ tx[p].pc = "insert" /\ (reviews[t][b] # None \/ \A q \in Handler \ {p} : ~Holds(q, t, b))
     \/ tx[p].pc = "refresh" \/ tx[p].pc = "commit"
     \/ tx[p].pc = "update" /\ \A q \in Handler \ {p} : ~HoldsNanny(q, NannyOf[b])

\* The tables and the transactions after the next statement of p.
Onward(p) ==
  LET t == tx[p].target
      b == tx[p].b
      To(pc) == [tx EXCEPT ![p].pc = pc]
      Ended == [tx EXCEPT ![p] = Idle]
  IN CASE tx[p].pc = "insert" -> <<status, reviews, log, rating,
                                   IF reviews[t][b] = None THEN To(Written(t)) ELSE Ended>>
       [] tx[p].pc = "refresh" -> <<status, reviews, log, rating,
            [tx EXCEPT ![p].pc = "update", ![p].tally = Tally(View(p), NannyOf[b])]>>
       [] tx[p].pc = "update" -> <<status, reviews, log, rating, To("commit")>>
       [] OTHER -> <<status, View(p),
            IF tx[p].kind = "create" THEN log ELSE [log EXCEPT ![t][b] = Append(@, tx[p].kind)],
            IF t = "parent" THEN rating ELSE [rating EXCEPT ![NannyOf[b]] = tx[p].tally],
            Ended>>

\* Who may go on has a next statement: the step to where it leads is one of the
\* handler's.
THEOREM WhoMayGoesOn ==
  ASSUME ReviewsInv, NEW p \in Handler, MayGoOn(p), vars' = Onward(p)
  PROVE  Proceed(p)
  <1> DEFINE t == tx[p].target
             b == tx[p].b
  <1>1. tx[p].pc # "idle" BY DEF MayGoOn
  <1>2. t \in Target /\ b \in Booking /\ NannyOf[b] \in Nanny
    BY <1>1, ReviewsAssumption DEF ReviewsInv, TxOK, Filled
  <1>3. CASE tx[p].pc = "insert"
    <2>1. UNCHANGED <<status, reviews, log, rating>>
      BY <1>3 DEF vars, Onward
    <2>2. tx' = IF reviews[t][b] = None THEN [tx EXCEPT ![p].pc = Written(t)] ELSE [tx EXCEPT ![p] = Idle]
      BY <1>3 DEF vars, Onward
    <2>3. CASE reviews[t][b] = None
      <3>1. Insert(p, t, b) BY <1>3, <2>1, <2>2, <2>3 DEF Insert, Go, MayGoOn
      <3> QED BY <1>2, <3>1 DEF Proceed
    <2>4. CASE reviews[t][b] # None
      <3>1. InsertDuplicate(p, t, b) BY <1>3, <2>1, <2>2, <2>4 DEF InsertDuplicate, Done
      <3> QED BY <1>2, <3>1 DEF Proceed
    <2> QED BY <2>3, <2>4
  <1>4. CASE tx[p].pc = "refresh"
    <2>1. RefreshStart(p, NannyOf[b]) BY <1>4 DEF vars, Onward, RefreshStart
    <2> QED BY <1>2, <2>1 DEF Proceed
  <1>5. CASE tx[p].pc = "update"
    <2>1. Refresh(p, NannyOf[b]) BY <1>5 DEF vars, Onward, Refresh, Go, MayGoOn
    <2> QED BY <1>2, <2>1 DEF Proceed
  <1>6. CASE tx[p].pc = "commit"
    <2>1. Commit(p) BY <1>6 DEF vars, Onward, Commit, Done
    <2> QED BY <2>1 DEF Proceed
  <1> QED BY <1>3, <1>4, <1>5, <1>6 DEF MayGoOn

\* However many requests wait for one another's rows, one of them may go on: who
\* has the row of the nanny waits for nothing, who waits for it has no other
\* wish, and who waits for a review has no row.  (NoDeadlock says the same with
\* ENABLED.)
THEOREM NobodyWaitsForEver ==
  Spec => []((\E p \in Handler : tx[p] # Idle) => \E p \in Handler : MayGoOn(p))
  <1>1. ASSUME ReviewsInv, NEW p \in Handler, tx[p] # Idle
        PROVE  \E q \in Handler : MayGoOn(q)
    <2>1. tx \in [Handler -> Job] /\ \A q \in Handler : Filled(q) /\ tx[q].pc \in PC
      BY <1>1 DEF ReviewsInv, TxOK, TypeOK, Job
    <2>2. CASE \E q \in Handler : tx[q].pc \in {"refresh", "commit"}
      BY <2>2 DEF MayGoOn
    <2>3. CASE \A q \in Handler : tx[q].pc \notin {"refresh", "commit"}
      <3>1. \A q \in Handler : tx[q].pc = "update" => MayGoOn(q)
        BY <2>3 DEF MayGoOn, HoldsNanny
      <3>2. CASE \A q \in Handler : tx[q].pc # "update"
        <4>1. tx[p].pc = "insert" BY <1>1, <2>1, <2>3, <3>2 DEF Filled
        <4>2. MayGoOn(p) BY <2>3, <3>2, <4>1 DEF MayGoOn, Holds
        <4> QED BY <4>2
      <3> QED BY <3>1, <3>2
    <2> QED BY <2>2, <2>3
  <1>2. ReviewsInv => ((\E p \in Handler : tx[p] # Idle) => \E p \in Handler : MayGoOn(p))
    BY <1>1
  <1> QED BY <1>2, ReviewsInvariance, PTL

-----------------------------------------------------------------------------
(* Screening *)

ScreeningInv == ScreeningTypeOK /\ TicksWereAsked

LEMMA FreeIsAJob == Free \in ScreeningJob /\ Free.yes = {} /\ Free.pc = "idle"
  BY DEF Free, Doing, ScreeningJob, PCs

LEMMA DoingIsAJob ==
  ASSUME NEW pc \in PCs, NEW yes \in SUBSET Step, NEW no \in SUBSET Step
  PROVE  /\ Doing(pc, yes, no) \in ScreeningJob
         /\ Doing(pc, yes, no).pc = pc /\ Doing(pc, yes, no).yes = yes
  BY DEF Doing, ScreeningJob

\* A record of a change lengthens the trail by one.
LEMMA BecomesTyped ==
  ASSUME ScreeningTypeOK, NEW from \in Status, NEW to \in Status, Becomes(from, to)
  PROVE  /\ verification' \in Status
         /\ trail' \in Seq([from : Status, to : Status])
  <1>1. [from |-> from, to |-> to] \in [from : Status, to : Status]
    OBVIOUS
  <1> QED BY <1>1 DEF ScreeningTypeOK, Becomes

LEMMA ScreeningInvInit == ScreeningInit => ScreeningInv
  BY FreeIsAJob DEF ScreeningInit, ScreeningInv, ScreeningTypeOK, TicksWereAsked, Status

\* A handler that ends holds no ticks and no verification.
LEMMA EndingKeepsJobs ==
  ASSUME ScreeningInv, NEW p \in Officer, Ends(p), asked' = asked
  PROVE  /\ job' \in [Officer -> ScreeningJob]
         /\ \A q \in Officer : /\ job'[q].yes \subseteq asked'
                               /\ job'[q].pc = "verify" => asked' = Step
  BY FreeIsAJob DEF ScreeningInv, ScreeningTypeOK, TicksWereAsked, Ends

\* A handler that takes up a job keeps the invariant if the job does.
LEMMA DoingKeepsJobs ==
  ASSUME ScreeningInv, NEW p \in Officer, NEW pc \in PCs,
         NEW yes \in SUBSET Step, NEW no \in SUBSET Step,
         job' = [job EXCEPT ![p] = Doing(pc, yes, no)],
         asked \subseteq asked', asked' \subseteq Step, yes \subseteq asked',
         pc = "verify" => asked' = Step
  PROVE  /\ job' \in [Officer -> ScreeningJob]
         /\ \A q \in Officer : /\ job'[q].yes \subseteq asked'
                               /\ job'[q].pc = "verify" => asked' = Step
  <1> DEFINE d == Doing(pc, yes, no)
  <1>1. d \in ScreeningJob /\ d.pc = pc /\ d.yes = yes
    BY DoingIsAJob
  <1>2. job \in [Officer -> ScreeningJob] /\ job' = [job EXCEPT ![p] = d]
    BY DEF ScreeningInv, ScreeningTypeOK
  <1>3. \A q \in Officer : /\ job[q].yes \subseteq asked
                           /\ job[q].pc = "verify" => asked = Step
    BY DEF ScreeningInv, TicksWereAsked
  <1>4. asked = Step => asked' = Step
    OBVIOUS
  <1> HIDE DEF d
  <1>5. job' \in [Officer -> ScreeningJob]
    BY <1>1, <1>2
  <1>6. ASSUME NEW q \in Officer
        PROVE  job'[q].yes \subseteq asked' /\ (job'[q].pc = "verify" => asked' = Step)
    <2>1. CASE q = p
      BY <1>1, <1>2, <2>1
    <2>2. CASE q # p
      <3>1. job'[q] = job[q]
        BY <1>2, <2>2
      <3>2. job[q].yes \subseteq asked /\ (job[q].pc = "verify" => asked = Step)
        BY <1>3
      <3>3. job[q].yes \subseteq asked'
        BY <3>2
      <3>4. job[q].pc = "verify" => asked' = Step
        BY <1>4, <3>2
      <3> QED BY <3>1, <3>3, <3>4
    <2> QED BY <2>1, <2>2
  <1> QED BY <1>5, <1>6

LEMMA ScreeningInvNext == ScreeningInv /\ [ScreeningNext]_screeningVars => ScreeningInv'
  <1> SUFFICES ASSUME ScreeningInv, [ScreeningNext]_screeningVars PROVE ScreeningInv'
    OBVIOUS
  <1> DEFINE JobsOK == /\ job' \in [Officer -> ScreeningJob]
                       /\ \A q \in Officer : /\ job'[q].yes \subseteq asked'
                                             /\ job'[q].pc = "verify" => asked' = Step
  <1>0. /\ ScreeningTypeOK /\ TicksWereAsked
        /\ verification \in Status /\ ticks \subseteq Step /\ asked \subseteq Step
        /\ trail \in Seq([from : Status, to : Status])
        /\ job \in [Officer -> ScreeningJob] /\ ticks \subseteq asked
    BY DEF ScreeningInv, ScreeningTypeOK, TicksWereAsked
  <1>1. ASSUME JobsOK, ticks' \subseteq asked', asked' \subseteq Step,
               verification' \in Status, trail' \in Seq([from : Status, to : Status])
        PROVE  ScreeningInv'
    BY <1>1 DEF ScreeningInv, ScreeningTypeOK, TicksWereAsked
  <1>2. CASE Rejects
    <2>1. JobsOK
      BY <1>0, <1>2 DEF Rejects, TicksWereAsked
    <2>2. verification' \in Status /\ trail' \in Seq([from : Status, to : Status])
      BY <1>0, <1>2, BecomesTyped DEF Rejects, Status
    <2> QED BY <1>0, <1>1, <1>2, <2>1, <2>2 DEF Rejects
  <1>3. ASSUME NEW p \in Officer, NEW yes \in SUBSET Step, NEW no \in SUBSET Step,
               StepsAccepted(p, yes, no)
        PROVE  ScreeningInv'
    <2>1. JobsOK
      BY <1>0, <1>3, DoingKeepsJobs DEF StepsAccepted, PCs
    <2> QED BY <1>0, <1>1, <1>3, <2>1 DEF StepsAccepted
  <1>4. ASSUME NEW p \in Officer, StepsMerged(p) PROVE ScreeningInv'
    <2> DEFINE merged == (ticks \cup job[p].yes) \ job[p].no
    <2>1. merged \in SUBSET Step /\ merged \subseteq asked
      BY <1>0 DEF TicksWereAsked, ScreeningJob
    <2>2. job' = [job EXCEPT ![p] = Doing("write", merged, {})] /\ asked' = asked
      BY <1>4 DEF StepsMerged
    <2>3. JobsOK
      <3>1. "write" \in PCs /\ {} \in SUBSET Step /\ asked \subseteq Step
        BY <1>0 DEF PCs
      <3> HIDE DEF merged
      <3> QED BY <2>1, <2>2, <3>1, DoingKeepsJobs
    <2> QED BY <1>0, <1>1, <1>4, <2>3 DEF StepsMerged
  <1>5. ASSUME NEW p \in Officer, StepsWritten(p) PROVE ScreeningInv'
    <2>1. JobsOK
      BY <1>5, EndingKeepsJobs DEF StepsWritten, Ends
    <2>2. ticks' \subseteq asked'
      BY <1>0, <1>5 DEF StepsWritten, TicksWereAsked
    <2> QED BY <1>0, <1>1, <1>5, <2>1, <2>2 DEF StepsWritten
  <1>6. ASSUME NEW p \in Officer, NEW pc \in PCs, Reads(p, pc), pc = "verify" => ticks = Step
        PROVE  ScreeningInv'
    <2>1. job' = [job EXCEPT ![p] = Doing(pc, {}, {})] /\ asked' = asked
      BY <1>6 DEF Reads
    <2>2. pc = "verify" => asked = Step
      BY <1>0, <1>6
    <2>3. {} \in SUBSET Step /\ asked \subseteq asked' /\ asked' \subseteq Step /\ {} \subseteq asked'
      BY <1>0, <2>1
    <2>4. pc = "verify" => asked' = Step
      BY <2>1, <2>2
    <2>5. JobsOK
      BY <2>1, <2>3, <2>4, DoingKeepsJobs
    <2> QED BY <1>0, <1>1, <1>6, <2>5 DEF Reads
  <1>7. ASSUME NEW p \in Officer, StartReads(p) \/ VerifyReads(p) \/ ResetReads(p) PROVE ScreeningInv'
    BY <1>6, <1>7 DEF StartReads, VerifyReads, ResetReads, PCs
  <1>8. ASSUME NEW p \in Officer, Starts(p) \/ Verifies(p) \/ Resets(p) PROVE ScreeningInv'
    <2>1. JobsOK
      BY <1>8, EndingKeepsJobs DEF Starts, Verifies, Resets
    <2>2. verification' \in Status /\ trail' \in Seq([from : Status, to : Status])
      BY <1>0, <1>8, BecomesTyped DEF Starts, Verifies, Resets, Status
    <2>3. ticks' \subseteq asked' /\ asked' \subseteq Step
      BY <1>0, <1>8 DEF Starts, Verifies, Resets
    <2> QED BY <1>1, <2>1, <2>2, <2>3
  <1>9. ASSUME NEW p \in Officer, Gives(p) PROVE ScreeningInv'
    <2>1. JobsOK
      BY <1>9, EndingKeepsJobs DEF Gives
    <2> QED BY <1>0, <1>1, <1>9, <2>1 DEF Gives
  <1>10. CASE UNCHANGED screeningVars
    BY <1>10 DEF screeningVars, ScreeningInv, ScreeningTypeOK, TicksWereAsked
  <1> QED BY <1>2, <1>3, <1>4, <1>5, <1>7, <1>8, <1>9, <1>10 DEF ScreeningNext

THEOREM ScreeningInvariance == ScreeningSpec => []ScreeningInv
  BY ScreeningInvInit, ScreeningInvNext, PTL DEF ScreeningSpec

\* A tick that is stored or about to be was asked for by a request that was
\* accepted, and a verification under way has seen all of them.
THEOREM TicksAreAsked == ScreeningSpec => [](ScreeningTypeOK /\ TicksWereAsked)
  BY ScreeningInvariance, PTL DEF ScreeningInv

-----------------------------------------------------------------------------
(* Every step is a move of Verification or none. *)
LEMMA StepIsPromised ==
  ScreeningInv /\ [ScreeningNext]_screeningVars => [V!VerificationNext]_V!verificationVars
  <1> SUFFICES ASSUME ScreeningInv, ScreeningNext, ~UNCHANGED screeningVars
               PROVE  V!VerificationNext \/ UNCHANGED V!verificationVars
    BY DEF screeningVars, V!verificationVars
  <1>1. CASE Rejects
    BY <1>1 DEF Rejects, Becomes, V!VerificationNext, V!Reject, V!Change
  <1>2. ASSUME NEW p \in Officer, NEW yes \in SUBSET Step, NEW no \in SUBSET Step,
               StepsAccepted(p, yes, no)
        PROVE  V!Confirm
    BY <1>2 DEF StepsAccepted, V!Confirm
  <1>3. ASSUME NEW p \in Officer,
               \/ StepsMerged(p) \/ StepsWritten(p) \/ Gives(p)
               \/ StartReads(p) \/ VerifyReads(p) \/ ResetReads(p)
        PROVE  UNCHANGED V!verificationVars
    BY <1>3 DEF StepsMerged, StepsWritten, Gives, StartReads, VerifyReads, ResetReads, Reads,
                V!verificationVars
  <1>4. ASSUME NEW p \in Officer, Starts(p) PROVE V!Start
    BY <1>4 DEF Starts, Becomes, V!Start, V!Change
  <1>5. ASSUME NEW p \in Officer, Verifies(p) PROVE V!Verify
    <2>1. asked = Step
      BY <1>5 DEF Verifies, ScreeningInv, TicksWereAsked
    <2> QED BY <1>5, <2>1 DEF Verifies, Becomes, V!Verify, V!Change
  <1>6. ASSUME NEW p \in Officer, Resets(p) PROVE V!Reset
    BY <1>6 DEF Resets, Becomes, V!Reset, V!Change
  <1> QED BY <1>1, <1>2, <1>3, <1>4, <1>5, <1>6 DEF ScreeningNext, V!VerificationNext

\* The handlers of the screening, whatever requests overlap or stop half way,
\* keep the promises of Verification (ImplementsVerification).
THEOREM ScreeningImplementsVerification == ScreeningSpec => ImplementsVerification
  <1>1. ScreeningInit => V!VerificationInit
    BY DEF ScreeningInit, V!VerificationInit
  <1> QED
    BY <1>1, StepIsPromised, ScreeningInvariance, PTL
       DEF ScreeningSpec, ImplementsVerification, V!VerificationSpec

-----------------------------------------------------------------------------
(* Conversations *)

\* The request the page waits for has the text of the composer, or has stored it;
\* every message is for some conversation.
AwaitedOK ==
  /\ send # AtRest => draft # 0
  /\ send \in Sender /\ h[send].pc \in {"read", "done"} => stored[draft] > 0
  /\ \A p \in Sender : h[p].text # 0 => h[p].conv \in Conversation

\* One attempt at a text of which nothing has been said yet.
OneAttempt(t) ==
  /\ \A p, q \in Sender : h[p].text = t /\ h[q].text = t => p = q
  /\ draft = t => \A p \in Sender : h[p].text = t => send = p
  /\ stored[t] <= 1
  /\ stored[t] > 0 => \A p \in Sender : h[p].text # t
  /\ stored[t] > 0 /\ draft = t =>
       send \in Sender /\ h[send].pc \in {"read", "done", "failed"}
  /\ t > texts => stored[t] = 0

MessagingInv == MessagingTypeOK /\ AwaitedOK /\ \A t \in Text : t \notin told => OneAttempt(t)

USE MessagingAssumptions

LEMMA QuietIsTyped == Quiet \in Handling /\ Quiet.pc = "idle" /\ Quiet.text = 0
  BY DEF Quiet, Handling

\* What a handler becomes when it is over with its text.
LEMMA LeavingIsTyped ==
  ASSUME NEW pc \in {"idle", "read", "done", "failed"}
  PROVE  /\ [Quiet EXCEPT !.pc = pc] \in Handling
         /\ [Quiet EXCEPT !.pc = pc].pc = pc /\ [Quiet EXCEPT !.pc = pc].text = 0
  BY DEF Quiet, Handling

\* Only the data that the promises look at matter.
MessagingKept == <<h, draft, send, texts, stored, told>>

LEMMA MessagingInvKept ==
  ASSUME MessagingInv, UNCHANGED MessagingKept, top' \in Conversation, locked' \in Conversation \cup {Nobody},
         picked' \in Conversation \cup {Nobody},
         list' \in [top : Conversation, locked : Conversation \cup {Nobody}]
  PROVE  MessagingInv'
  BY DEF MessagingInv, MessagingKept, MessagingTypeOK, AwaitedOK, OneAttempt

LEMMA MessagingInvInit == MessagingInit => MessagingInv
  <1> SUFFICES ASSUME MessagingInit PROVE MessagingInv
    OBVIOUS
  <1>1. MessagingTypeOK
    BY QuietIsTyped DEF MessagingInit, MessagingTypeOK, Text, Server
  <1>2. AwaitedOK
    BY QuietIsTyped DEF MessagingInit, AwaitedOK
  <1>3. ASSUME NEW t \in Text PROVE OneAttempt(t)
    BY <1>3, QuietIsTyped DEF MessagingInit, OneAttempt, Text
  <1> QED BY <1>1, <1>2, <1>3 DEF MessagingInv

\* The facts about one handler that the steps below start from.
LEMMA MessagingFacts ==
  ASSUME MessagingInv
  PROVE  /\ h \in [Sender -> Handling]
         /\ \A p \in Sender : /\ h[p].text \in Nat /\ h[p].text <= texts
                              /\ h[p].text # 0 <=> h[p].pc \in {"check", "insert"}
         /\ draft \in Nat /\ draft <= texts /\ texts \in Nat /\ texts <= MaxTexts
         /\ send \in {AtRest, Paused} \cup Sender
         /\ send \in Sender => h[send].pc # "idle" /\ h[send].text \in {0, draft}
         /\ stored \in [Text -> 0..2] /\ told \subseteq 1..texts
  BY DEF MessagingInv, MessagingTypeOK, Handling

-----------------------------------------------------------------------------
(* The page *)

LEMMA InvWrite == MessagingInv /\ Write => MessagingInv'
  <1> SUFFICES ASSUME MessagingInv, Write PROVE MessagingInv'
    OBVIOUS
  <1>1. MessagingTypeOK'
    <2>1. UNCHANGED <<top, locked, list, picked, h, send, stored, told>> /\ send = AtRest
          /\ texts' = texts + 1 /\ draft' = texts + 1 /\ texts < MaxTexts
      BY DEF Write, CanWrite, server
    <2>2. texts \in Nat /\ texts' \in 0..MaxTexts /\ draft' \in 0..texts'
      <3>1. texts \in Nat /\ MaxTexts \in Nat
        BY MessagingFacts
      <3> QED BY <2>1, <3>1
    <2>4. \A t \in 1..texts : t \in 1..(texts + 1)
      BY <2>2
    <2>5. told' \subseteq 1..texts'
      BY <2>1, <2>4, MessagingFacts, Zenon
    <2>3. \A p \in Sender : h[p].text <= texts' /\ (h[p].text # 0 <=> h[p].pc \in {"check", "insert"})
      BY <2>1, MessagingFacts
    <2> QED BY <2>1, <2>2, <2>3, <2>5 DEF MessagingInv, MessagingTypeOK
  <1>2. AwaitedOK'
    BY DEF MessagingInv, Write, CanWrite, AwaitedOK
  <1>3. ASSUME NEW t \in Text, t \notin told' PROVE OneAttempt(t)'
    <2>1. OneAttempt(t) /\ texts \in Nat /\ \A p \in Sender : h[p].text \in Nat /\ h[p].text <= texts
      BY <1>3 DEF MessagingInv, Write, MessagingTypeOK, Handling
    <2>2. t \in Nat
      BY DEF Text
    <2> QED BY <2>1, <2>2 DEF Write, OneAttempt
  <1> QED BY <1>1, <1>2, <1>3 DEF MessagingInv

LEMMA InvRequest ==
  ASSUME MessagingInv, NEW p \in Sender, Request(p), send \in {AtRest, Paused}, draft # 0
  PROVE  MessagingInv'
  <1> DEFINE r == [pc |-> "check", conv |-> Shown, text |-> draft]
  <1>0. send \notin Sender /\ draft \in 0..MaxTexts /\ Shown \in Conversation
    BY DEF MessagingInv, MessagingTypeOK, Shown
  <1>1. h' = [h EXCEPT ![p] = r] /\ send' = p /\ h[p] = Quiet
    BY DEF Request
  <1>2. UNCHANGED <<top, locked, list, picked, draft, texts, stored, told>>
    BY DEF Request, server
  <1>3. r \in Handling /\ r.pc = "check" /\ r.text = draft /\ r.conv \in Conversation
    BY <1>0 DEF Handling
  <1> HIDE DEF r
  <1>4. MessagingTypeOK'
    BY <1>0, <1>1, <1>2, <1>3, MessagingFacts DEF MessagingInv, MessagingTypeOK
  <1>5. AwaitedOK'
    BY <1>1, <1>2, <1>3, MessagingFacts DEF MessagingInv, AwaitedOK
  <1>6. ASSUME NEW t \in Text, t \notin told' PROVE OneAttempt(t)'
    <2>1. OneAttempt(t)
      BY <1>2, <1>6 DEF MessagingInv
    <2>2. \A q \in Sender : h'[q] = IF q = p THEN r ELSE h[q]
      BY <1>1, MessagingFacts
    <2>3. draft = t => stored[t] <= 0 /\ \A q \in Sender : h[q].text # t
      BY <1>0, <2>1, MessagingFacts DEF OneAttempt
    <2>4. draft # t => OneAttempt(t)'
      BY <1>1, <1>2, <1>3, <2>1, <2>2 DEF OneAttempt
    <2>5. draft = t => OneAttempt(t)'
      BY <1>1, <1>2, <1>3, <2>1, <2>2, <2>3 DEF OneAttempt
    <2> QED BY <2>4, <2>5
  <1> QED BY <1>4, <1>5, <1>6 DEF MessagingInv

LEMMA InvClickOffline == MessagingInv /\ ClickOffline => MessagingInv'
  <1> SUFFICES ASSUME MessagingInv, ClickOffline PROVE MessagingInv'
    OBVIOUS
  <1>1. UNCHANGED <<top, locked, list, picked, draft, h, texts, stored, told>>
        /\ send = AtRest /\ send' = Paused /\ draft # 0
    BY DEF ClickOffline, CanWrite, server
  <1>2. MessagingTypeOK'
    BY <1>1 DEF MessagingInv, MessagingTypeOK
  <1>3. AwaitedOK'
    BY <1>1 DEF MessagingInv, AwaitedOK, Paused
  <1>4. ASSUME NEW t \in Text, t \notin told' PROVE OneAttempt(t)'
    BY <1>1, <1>4 DEF MessagingInv, OneAttempt
  <1> QED BY <1>2, <1>3, <1>4 DEF MessagingInv

\* The page stops waiting: what it waited for is stored, is spoken of, or is
\* no longer in the composer.
LEMMA InvStopsWaiting ==
  ASSUME MessagingInv, send' = AtRest, draft' \in {0, draft}, told \subseteq told', told' \subseteq 1..texts,
         draft' # 0 => draft \in told',
         picked' \in Conversation \cup {Nobody},
         h' = h \/ \E p \in Sender : h' = [h EXCEPT ![p] = Quiet],
         UNCHANGED <<top, locked, list, texts, stored>>
  PROVE  MessagingInv'
  <1>1. h' \in [Sender -> Handling] /\ \A q \in Sender : h'[q] = h[q] \/ h'[q] = Quiet
    BY MessagingFacts, QuietIsTyped
  <1>2. MessagingTypeOK'
    BY <1>1, QuietIsTyped DEF MessagingInv, MessagingTypeOK
  <1>3. AwaitedOK'
    BY <1>1, QuietIsTyped DEF MessagingInv, AwaitedOK
  <1>4. ASSUME NEW t \in Text, t \notin told' PROVE OneAttempt(t)'
    <2>1. OneAttempt(t) /\ draft' # t /\ t # 0
      BY <1>4, MessagingFacts DEF MessagingInv, Text
    <2>2. \A q \in Sender : h'[q].text = t => h[q].text = t
      BY <1>1, <2>1, QuietIsTyped
    <2> QED BY <2>1, <2>2 DEF OneAttempt
  <1> QED BY <1>2, <1>3, <1>4 DEF MessagingInv

-----------------------------------------------------------------------------
(* The API *)

\* A handler is over with its text, or looks at the next statement with it.
LEMMA InvHandlerMoves ==
  ASSUME MessagingInv, NEW p \in Sender, NEW r \in Handling, h' = [h EXCEPT ![p] = r],
         UNCHANGED <<locked, page, texts>>, top' \in Conversation,
         r.text \in {0, h[p].text}, r.text # 0 => r.conv = h[p].conv,
         r.text # 0 <=> r.pc \in {"check", "insert"},
         send = p => r.pc # "idle",
         stored' = stored \/ (h[p].text # 0 /\ r.text = 0 /\
           stored' = [stored EXCEPT ![h[p].text] = IF @ < 2 THEN @ + 1 ELSE @]),
         send = p /\ r.pc \in {"read", "done"} => stored'[draft] > 0,
         h[p].text = 0 => r.pc \in {"idle", "done", "failed"}
  PROVE  MessagingInv'
  <1>0. UNCHANGED <<list, picked, draft, send, told>>
    BY DEF page
  <1>1. h' \in [Sender -> Handling] /\ \A q \in Sender : h'[q] = IF q = p THEN r ELSE h[q]
    BY MessagingFacts
  <1>2. stored' \in [Text -> 0..2] /\ \A t \in Text : stored'[t] = stored[t] \/
          (t = h[p].text /\ r.text = 0 /\ stored'[t] = (IF stored[t] < 2 THEN stored[t] + 1 ELSE stored[t]))
    BY MessagingFacts
  <1>3. MessagingTypeOK'
    BY <1>0, <1>1, <1>2, MessagingFacts DEF MessagingInv, MessagingTypeOK
  <1>4. AwaitedOK'
    <2>1. draft \in Nat /\ (draft # 0 => draft \in Text)
      BY MessagingFacts DEF Text
    <2>2. draft # 0 /\ stored[draft] > 0 => stored'[draft] > 0
      BY <1>2, <2>1, MessagingFacts
    <2> QED BY <1>0, <1>1, <2>2, MessagingFacts DEF MessagingInv, AwaitedOK
  <1>5. ASSUME NEW t \in Text, t \notin told' PROVE OneAttempt(t)'
    <2>1. OneAttempt(t) /\ t \in Nat /\ t # 0 /\ stored[t] \in 0..2
      BY <1>0, <1>5, MessagingFacts DEF MessagingInv, Text
    <2>2. \A q \in Sender : h'[q].text = t => h[q].text = t
      BY <1>1, <2>1
    <2>3. CASE stored'[t] = stored[t]
      <3>1. stored[t] > 0 /\ draft = t => send' \in Sender /\ h'[send].pc \in {"read", "done", "failed"}
        <4>1. ASSUME stored[t] > 0, draft = t, send = p PROVE r.pc \in {"done", "failed"} \cup {"read"}
          BY <1>1, <2>1, <4>1, MessagingFacts DEF OneAttempt, Handling
        <4> QED BY <1>0, <1>1, <2>1, <4>1 DEF OneAttempt
      <3> QED BY <1>0, <2>1, <2>2, <2>3, <3>1 DEF OneAttempt
    <2>4. CASE stored'[t] # stored[t]
      <3>1. t = h[p].text /\ r.text = 0 /\ stored[t] <= 0 /\ stored'[t] = stored[t] + 1
        BY <1>2, <2>1, <2>4 DEF OneAttempt
      <3>2. \A q \in Sender : h'[q].text # t
        BY <1>1, <2>1, <3>1 DEF OneAttempt
      <3>3. draft = t => send = p /\ r.pc \in {"read", "done", "failed"}
        BY <2>1, <3>1 DEF OneAttempt, Handling
      <3>4. stored'[t] <= 1 /\ ~(t > texts)
        <4>1. h[p].text <= texts /\ texts \in Nat
          BY MessagingFacts
        <4> QED BY <2>1, <3>1, <4>1
      <3>5. draft' = draft /\ send' = send /\ texts' = texts
        BY <1>0
      <3>6. draft' = t => send' \in Sender /\ h'[send'].pc \in {"read", "done", "failed"}
        BY <1>1, <3>3, <3>5
      <3> QED BY <3>2, <3>4, <3>5, <3>6 DEF OneAttempt
    <2> QED BY <2>3, <2>4
  <1> QED BY <1>3, <1>4, <1>5 DEF MessagingInv
\* A handler that is over with its text, by the statement that it is at.
LEMMA InvLeaves ==
  ASSUME MessagingInv, NEW p \in Sender, NEW pc \in {"idle", "read", "done", "failed"}, Leaves(p, pc),
         UNCHANGED <<locked, page, texts>>, top' \in Conversation,
         send = p => pc # "idle",
         stored' = stored \/ (h[p].text # 0 /\
           stored' = [stored EXCEPT ![h[p].text] = IF @ < 2 THEN @ + 1 ELSE @]),
         send = p /\ pc \in {"read", "done"} => stored'[draft] > 0,
         h[p].text = 0 => pc # "read"
  PROVE  MessagingInv'
  <1> DEFINE r == [Quiet EXCEPT !.pc = pc]
  <1>1. r \in Handling /\ r.pc = pc /\ r.text = 0
    BY LeavingIsTyped
  <1>2. h' = [h EXCEPT ![p] = r]
    BY DEF Leaves
  <1> HIDE DEF r
  <1> QED BY <1>1, <1>2, InvHandlerMoves

LEMMA InvHandler ==
  ASSUME MessagingInv, NEW p \in Sender,
         SendChecks(p) \/ SendInserts(p) \/ SendMarksRead(p) \/ SendErrs(p) \/ SendIsOver(p)
  PROVE  MessagingInv'
  <1>1. /\ h[p] \in Handling /\ top \in Conversation /\ stored \in [Text -> 0..2]
        /\ (h[p].text # 0 <=> h[p].pc \in {"check", "insert"})
        /\ (send = p => draft # 0 /\ h[p].text \in {0, draft})
        /\ (send = p /\ h[p].pc \in {"read", "done"} => stored[draft] > 0)
    BY MessagingFacts DEF MessagingInv, MessagingTypeOK, AwaitedOK, AtRest
  <1>2. CASE SendChecks(p)
    <2>1. h[p].pc = "check" /\ UNCHANGED <<top, locked, page, texts, stored>>
      BY <1>2 DEF SendChecks, server
    <2>2. CASE h[p].conv = locked
      BY <1>1, <1>2, <2>1, <2>2, InvLeaves DEF SendChecks
    <2>3. CASE h[p].conv # locked
      <3> DEFINE r == [h[p] EXCEPT !.pc = "insert"]
      <3>1. r \in Handling /\ r.pc = "insert" /\ r.text = h[p].text /\ r.conv = h[p].conv
        BY <1>1 DEF Handling
      <3>2. h' = [h EXCEPT ![p] = r]
        BY <1>2, <2>3 DEF SendChecks, Goes
      <3> HIDE DEF r
      <3> QED BY <1>1, <2>1, <3>1, <3>2, InvHandlerMoves
    <2> QED BY <2>2, <2>3
  <1>3. CASE SendInserts(p)
    <2>1. h[p].pc = "insert" /\ UNCHANGED <<locked, page, texts>> /\ Leaves(p, "read")
          /\ stored' = [stored EXCEPT ![h[p].text] = IF @ < 2 THEN @ + 1 ELSE @] /\ top' = h[p].conv
      BY <1>3 DEF SendInserts
    <2>2. h[p].text # 0 /\ h[p].text \in Text /\ top' \in Conversation
      BY <1>1, <2>1, MessagingFacts DEF Text, MessagingInv, AwaitedOK
    <2>3. send = p => stored'[draft] > 0
      BY <1>1, <2>1, <2>2
    <2> QED BY <2>1, <2>2, <2>3, InvLeaves
  <1>4. CASE SendMarksRead(p)
    <2>1. h[p].pc = "read" /\ UNCHANGED <<top, locked, page, texts, stored>> /\ Leaves(p, "done")
      BY <1>4 DEF SendMarksRead, server
    <2> QED BY <1>1, <2>1, InvLeaves
  <1>5. CASE SendErrs(p)
    <2>1. UNCHANGED <<top, locked, page, texts, stored>> /\ Leaves(p, "failed")
      BY <1>5 DEF SendErrs, server
    <2> QED BY <1>1, <2>1, InvLeaves
  <1>6. CASE SendIsOver(p)
    <2>1. UNCHANGED <<top, locked, page, texts, stored>> /\ h' = [h EXCEPT ![p] = Quiet] /\ send # p
          /\ h[p].pc \in {"done", "failed"}
      BY <1>6 DEF SendIsOver, server
    <2> QED BY <1>1, <2>1, QuietIsTyped, InvHandlerMoves
  <1> QED BY <1>2, <1>3, <1>4, <1>5, <1>6

-----------------------------------------------------------------------------
LEMMA MessagingInvNext == MessagingInv /\ [MessagingNext]_messagingVars => MessagingInv'
  <1> SUFFICES ASSUME MessagingInv, [MessagingNext]_messagingVars PROVE MessagingInv'
    OBVIOUS
  <1>1. /\ top \in Conversation /\ locked \in Conversation \cup {Nobody}
        /\ picked \in Conversation \cup {Nobody}
        /\ list \in [top : Conversation, locked : Conversation \cup {Nobody}]
        /\ Server \in [top : Conversation, locked : Conversation \cup {Nobody}]
    BY DEF MessagingInv, MessagingTypeOK, Server
  <1>2. ASSUME UNCHANGED messagingVars PROVE MessagingInv'
    BY <1>1, <1>2, MessagingInvKept DEF messagingVars, server, page, MessagingKept
  <1>3. ASSUME ListArrives PROVE MessagingInv'
    BY <1>1, <1>3, MessagingInvKept DEF ListArrives, server, MessagingKept
  <1>4. ASSUME Unlock \/ HideMessage PROVE MessagingInv'
    BY <1>1, <1>4, MessagingInvKept DEF Unlock, HideMessage, page, MessagingKept
  <1>5. ASSUME NEW c \in Conversation, Pick(c) \/ OtherSends(c) \/ Lock(c) PROVE MessagingInv'
    BY <1>1, <1>5, MessagingInvKept DEF Pick, OtherSends, Lock, server, page, MessagingKept
  <1>6. ASSUME Reopen PROVE MessagingInv'
    BY <1>1, <1>6, MessagingFacts, InvStopsWaiting DEF Reopen, server
  <1>7. ASSUME NEW p \in Sender, Click(p) \/ Resume(p) PROVE MessagingInv'
    BY <1>7, InvRequest DEF MessagingInv, AwaitedOK, Click, Resume, CanWrite, AtRest, Paused
  <1>8. ASSUME NEW p \in Sender, SendSucceeds(p) \/ SendFails(p) \/ AnswerIsLost(p) PROVE MessagingInv'
    <2>1. send = p /\ send' = AtRest
      BY <1>8 DEF SendSucceeds, SendFails, AnswerIsLost, Says
    <2>5. draft # 0
      BY <2>1 DEF MessagingInv, AwaitedOK
    <2>6. draft \in 1..texts
      BY <2>5, MessagingFacts
    <2>2. UNCHANGED <<top, locked, list, picked, texts, stored>>
      BY <1>8 DEF SendSucceeds, SendFails, AnswerIsLost, server
    <2>3. draft' \in {0, draft} /\ told \subseteq told' /\ told' \subseteq 1..texts /\ (draft' # 0 => draft \in told')
      BY <1>8, <2>6, MessagingFacts DEF SendSucceeds, SendFails, AnswerIsLost, Says
    <2>4. h' = h \/ \E q \in Sender : h' = [h EXCEPT ![q] = Quiet]
      BY <1>8 DEF SendSucceeds, SendFails, AnswerIsLost
    <2> QED BY <1>1, <2>1, <2>2, <2>3, <2>4, InvStopsWaiting
  <1>9. ASSUME NEW p \in Sender,
               SendChecks(p) \/ SendInserts(p) \/ SendMarksRead(p) \/ SendErrs(p) \/ SendIsOver(p)
        PROVE  MessagingInv'
    BY <1>9, InvHandler
  <1> QED
    <2>1. CASE UNCHANGED messagingVars
      BY <1>2, <2>1
    <2>2. CASE Write
      BY <2>2, InvWrite
    <2>3. CASE ClickOffline
      BY <2>3, InvClickOffline
    <2>4. CASE ListArrives \/ Reopen \/ Unlock \/ HideMessage
      BY <2>4, <1>3, <1>4, <1>6
    <2>5. CASE \E c \in Conversation : Pick(c) \/ OtherSends(c) \/ Lock(c)
      BY <2>5, <1>5
    <2>6. CASE \E p \in Sender :
                 \/ Click(p) \/ Resume(p) \/ SendSucceeds(p) \/ SendFails(p) \/ AnswerIsLost(p)
                 \/ SendChecks(p) \/ SendInserts(p) \/ SendMarksRead(p) \/ SendErrs(p) \/ SendIsOver(p)
      BY <2>6, <1>7, <1>8, <1>9
    <2> QED BY <2>1, <2>2, <2>3, <2>4, <2>5, <2>6 DEF MessagingNext

\* The invariant, its type part among it.
THEOREM MessagingInvariance == MessagingSpec => []MessagingInv
  BY MessagingInvInit, MessagingInvNext, PTL DEF MessagingSpec

\* SentTwiceOnlyIfTold: no order of clicks, answers, locks and reopened pages
\* stores a text twice of which the page has not said that sending failed.
THEOREM TwiceIsTold == MessagingSpec => []SentTwiceOnlyIfTold
  <1>1. MessagingInv => SentTwiceOnlyIfTold
    BY DEF MessagingInv, MessagingTypeOK, OneAttempt, SentTwiceOnlyIfTold
  <1> QED BY <1>1, MessagingInvariance, PTL

\* ClearedOnlyIfStored: the composer is emptied of a text that is stored.
THEOREM ClearedIsStored == MessagingSpec => ClearedOnlyIfStored
  <1> DEFINE Cleared == draft # 0 /\ draft' = 0 /\ ~Reopen => stored[draft] > 0
  <1>1. MessagingInv /\ [MessagingNext]_messagingVars => [Cleared]_messagingVars
    <2> SUFFICES ASSUME MessagingInv, MessagingNext, draft # 0, draft' = 0, ~Reopen PROVE stored[draft] > 0
      OBVIOUS
    <2>1. texts \in Nat
      BY MessagingFacts
    <2>2. PICK p \in Sender : SendSucceeds(p)
      BY <2>1 DEF MessagingNext, Write, ClickOffline, ListArrives, Unlock, HideMessage, Pick, OtherSends,
           Lock, Click, Resume, Request, SendFails, AnswerIsLost, SendChecks, SendInserts, SendMarksRead,
           SendErrs, SendIsOver, page
    <2> QED BY <2>2 DEF SendSucceeds, MessagingInv, AwaitedOK
  <1> QED BY <1>1, MessagingInvariance, PTL DEF MessagingSpec, ClearedOnlyIfStored

-----------------------------------------------------------------------------
(* The three side by side *)

LEMMA StepOfAPart ==
  [ModerationNext]_moderationVars =>
    [Next]_vars /\ [MessagingNext]_messagingVars /\ [ScreeningNext]_screeningVars
  <1> SUFFICES ASSUME [ModerationNext]_moderationVars
               PROVE  /\ [Next]_vars /\ [MessagingNext]_messagingVars
                      /\ [ScreeningNext]_screeningVars
    OBVIOUS
  <1>1. CASE UNCHANGED moderationVars
    BY <1>1 DEF moderationVars
  <1>2. CASE ModerationNext
    BY <1>2 DEF ModerationNext
  <1> QED BY <1>1, <1>2

\* Every behaviour that the run looks at is one of the reviews, of the messages
\* and of the screening at once, so that the theorems above hold of it.
THEOREM ModerationIsItsParts ==
  ModerationSpec => Spec /\ MessagingSpec /\ ScreeningSpec
  <1>1. ModerationInit => Init /\ MessagingInit /\ ScreeningInit
    BY DEF ModerationInit
  <1> QED BY <1>1, StepOfAPart, PTL DEF ModerationSpec, Spec, MessagingSpec, ScreeningSpec
=============================================================================
