---------------------------- MODULE BillingProofs ----------------------------
(***************************************************************************)
(* What surrounds the payment of a booking, for any number of cards,       *)
(* requests, workers and bookings: the reminders, the cards of the parent  *)
(* and the account of the nanny, each from an invariant of its own; and    *)
(* that module MCBilling, which runs them beside BookingPayments, adds     *)
(* nothing to any of them.                                                 *)
(***************************************************************************)
EXTENDS MCBilling, TLAPS

-----------------------------------------------------------------------------
(* The reminders. *)

RemindersTypeOK ==
  /\ now \in Nat
  /\ begins \in [Visit -> Nat \cup {Off}]
  /\ notices \in [Visit \X Role -> {0, 1}]
  /\ ticks \in [Worker -> Nat \cup {Off}]
  /\ statement \in [Worker -> (SUBSET (Visit \X Role)) \cup {Off}]
  /\ settled \in [Visit -> Nat] /\ \A v \in Visit : settled[v] <= now
  /\ sound \in [Worker -> Nat]

\* A worker asks every second half of an interval, and adds before time passes.
TicksOK ==
  \A w \in Worker :
    /\ ticks[w] # Off => now <= ticks[w] /\ ticks[w] <= now + 2
    /\ statement[w] # Off => ticks[w] = now + 2

\* A booking that stands, as it does since before t; when its hour begins.
Standing(v, t) == begins[v] # Off /\ settled[v] < t
Hour(v) == begins[v] - Lookahead - 1
Dues == {v \in Visit : Standing(v, now) /\ now \in {Hour(v), Hour(v) + 1}}

(* What a statement does not add of the bookings that are due is there; and
   once one of its notices is there, which undoes it, all of these are. *)
StatementsOK ==
  \A w \in Worker : statement[w] # Off =>
    /\ \A n \in Dues \X Role : n \in statement[w] \/ notices[n] = 1
    /\ (\E n \in statement[w] : notices[n] = 1) => \A n \in Dues \X Role : notices[n] = 1

(* Who asked in the hour of a booking, and has been sound since before, has
   added its notices, or is about to while the hour lasts. *)
AskedOK ==
  \A w \in Worker, v \in Visit, r \in Role :
    /\ Standing(v, Hour(v))
    /\ ticks[w] # Off /\ sound[w] < Hour(v) /\ ticks[w] - 2 >= Hour(v)
    /\ statement[w] = Off \/ now > Hour(v) + 1
    => notices[<<v, r>>] = 1

RemindersInv == RemindersTypeOK /\ TicksOK /\ StatementsOK /\ AskedOK

USE RemindersAssumptions

\* What an attempt reads is a set of notices, and not the absence of a statement.
LEMMA Read ==
  ASSUME RemindersTypeOK
  PROVE  {n \in Due \X Role : notices[n] = 0} \in (SUBSET (Visit \X Role)) \ {Off}
  <1>1. {n \in Due \X Role : notices[n] = 0} \in SUBSET (Visit \X Role)
    BY DEF Due
  <1> QED BY <1>1

LEMMA DuesAreDue ==
  ASSUME RemindersTypeOK PROVE Dues \subseteq Due
  BY DEF RemindersTypeOK, Dues, Due, Standing, Hour

LEMMA RemindersStart == RemindersInit => RemindersInv
  <1> SUFFICES ASSUME RemindersInit PROVE RemindersInv
    OBVIOUS
  <1>1. RemindersTypeOK
    BY DEF RemindersInit, RemindersTypeOK
  <1>2. \A w \in Worker : ticks[w] = Off /\ statement[w] = Off
    BY DEF RemindersInit
  <1> QED BY <1>1, <1>2 DEF RemindersInv, TicksOK, StatementsOK, AskedOK

LEMMA RemindersTyped ==
  ASSUME RemindersTypeOK, [RemindersNext]_reminderVars
  PROVE  RemindersTypeOK'
  <1> USE DEF RemindersTypeOK
  <1>1. ASSUME NEW w \in Worker, LooksAhead(w), sound' = sound \/ sound' = [sound EXCEPT ![w] = now]
        PROVE  RemindersTypeOK'
    <2>1. statement'[w] \in SUBSET (Visit \X Role)
      BY <1>1, Read DEF LooksAhead
    <2>2. statement' \in [Worker -> (SUBSET (Visit \X Role)) \cup {Off}]
      BY <1>1, <2>1 DEF LooksAhead
    <2> QED BY <1>1, <2>2 DEF LooksAhead
  <1>2. ASSUME NEW w \in Worker, WorkerStarts(w) PROVE RemindersTypeOK'
    BY <1>1, <1>2 DEF WorkerStarts
  <1>3. ASSUME NEW w \in Worker, WorkerTicks(w) PROVE RemindersTypeOK'
    BY <1>1, <1>3 DEF WorkerTicks
  <1>4. ASSUME NEW w \in Worker, NoticesAdded(w) PROVE RemindersTypeOK'
    <2>1. notices' \in [Visit \X Role -> {0, 1}]
      BY <1>4 DEF NoticesAdded
    <2>2. statement' \in [Worker -> (SUBSET (Visit \X Role)) \cup {Off}]
      BY <1>4 DEF NoticesAdded
    <2> QED BY <1>4, <2>1, <2>2 DEF NoticesAdded
  <1>5. ASSUME NEW w \in Worker, StatementFails(w) \/ WorkerStops(w) PROVE RemindersTypeOK'
    <2>1. statement' = [statement EXCEPT ![w] = Off]
      BY <1>5 DEF StatementFails, WorkerStops
    <2>2. statement' \in [Worker -> (SUBSET (Visit \X Role)) \cup {Off}]
      BY <2>1
    <2>3. CASE StatementFails(w)
      BY <2>2, <2>3 DEF StatementFails
    <2>4. CASE WorkerStops(w)
      BY <2>2, <2>4 DEF WorkerStops
    <2> QED BY <1>5, <2>3, <2>4
  <1>6. ASSUME NEW v \in Visit, NEW t \in ((now + 1)..(Horizon + Lookahead)) \cup {Off}, VisitChanges(v, t)
        PROVE  RemindersTypeOK'
    <2>1. t \in Nat \cup {Off}
      OBVIOUS
    <2> QED BY <1>6, <2>1 DEF VisitChanges
  <1>7. CASE TimePasses
    BY <1>7 DEF TimePasses
  <1>8. CASE UNCHANGED reminderVars
    BY <1>8 DEF reminderVars
  <1> QED BY <1>2, <1>3, <1>4, <1>5, <1>6, <1>7, <1>8 DEF RemindersNext

LEMMA TicksStep ==
  ASSUME RemindersTypeOK, TicksOK, [RemindersNext]_reminderVars
  PROVE  TicksOK'
  <1> USE DEF RemindersTypeOK, TicksOK
  <1>1. ASSUME NEW w \in Worker, LooksAhead(w) PROVE TicksOK'
    <2>1. /\ ticks' = [ticks EXCEPT ![w] = now + 2] /\ now' = now
          /\ \A q \in Worker \ {w} : statement'[q] = statement[q]
      BY <1>1 DEF LooksAhead
    <2> QED BY <2>1
  <1>2. ASSUME NEW w \in Worker, WorkerStarts(w) \/ WorkerTicks(w) PROVE TicksOK'
    BY <1>1, <1>2 DEF WorkerStarts, WorkerTicks
  <1>4. ASSUME NEW w \in Worker, NoticesAdded(w) \/ StatementFails(w) \/ WorkerStops(w) PROVE TicksOK'
    BY <1>4 DEF NoticesAdded, StatementFails, WorkerStops
  <1>6. ASSUME NEW v \in Visit, NEW t \in ((now + 1)..(Horizon + Lookahead)) \cup {Off}, VisitChanges(v, t)
        PROVE  TicksOK'
    BY <1>6 DEF VisitChanges
  <1>7. CASE TimePasses
    <2> SUFFICES ASSUME NEW w \in Worker, ticks[w] # Off
                 PROVE  now + 1 <= ticks[w] /\ ticks[w] <= now + 3
      BY <1>7 DEF TimePasses
    <2>1. ticks[w] \in Nat /\ ticks[w] # now
      BY <1>7 DEF TimePasses
    <2>2. now <= ticks[w] /\ ticks[w] <= now + 2 /\ now \in Nat
      OBVIOUS
    <2> HIDE DEF RemindersTypeOK, TicksOK
    <2> QED BY <2>1, <2>2
  <1>8. CASE UNCHANGED reminderVars
    BY <1>8 DEF reminderVars
  <1> QED BY <1>2, <1>4, <1>6, <1>7, <1>8 DEF RemindersNext

\* A statement that has run leaves all notices of the bookings that are due.
LEMMA AddedIsThere ==
  ASSUME RemindersTypeOK, TicksOK, StatementsOK, NEW w \in Worker, NoticesAdded(w)
  PROVE  /\ \A n \in Dues \X Role : notices'[n] = 1
         /\ \A n \in Visit \X Role : notices[n] = 1 => notices'[n] = 1
  <1>1. statement[w] \in SUBSET (Visit \X Role) /\ statement[w] # Off
    BY DEF RemindersTypeOK, NoticesAdded
  <1>2. Dues \X Role \subseteq Visit \X Role
    BY DEF Dues
  <1>3. CASE \E n \in statement[w] : notices[n] > 0
    <2>1. PICK n \in statement[w] : notices[n] > 0
      BY <1>3
    <2>2. notices[n] = 1
      BY <1>1, <2>1 DEF RemindersTypeOK
    <2>3. notices' = notices
      BY <1>3 DEF NoticesAdded
    <2> QED BY <1>1, <2>2, <2>3 DEF StatementsOK
  <1>4. CASE ~ \E n \in statement[w] : notices[n] > 0
    <2>1. \A n \in Visit \X Role : notices'[n] = IF n \in statement[w] THEN 1 ELSE notices[n]
      BY <1>4 DEF NoticesAdded, RemindersTypeOK
    <2> QED BY <1>1, <1>2, <2>1 DEF StatementsOK
  <1> QED BY <1>3, <1>4

LEMMA StatementsStep ==
  ASSUME RemindersTypeOK, TicksOK, StatementsOK, [RemindersNext]_reminderVars
  PROVE  StatementsOK'
  <1>1. ASSUME NEW w \in Worker, LooksAhead(w) PROVE StatementsOK'
    <2>1. Dues' = Dues /\ notices' = notices
      BY <1>1 DEF LooksAhead, Dues, Standing, Hour
    <2>2. \A q \in Worker \ {w} : statement'[q] = statement[q]
      BY <1>1 DEF LooksAhead, RemindersTypeOK
    <2>3. statement'[w] = {n \in Due \X Role : notices[n] = 0}
      BY <1>1 DEF LooksAhead, RemindersTypeOK
    <2>4. Dues \X Role \subseteq Due \X Role /\ Due \subseteq Visit
      BY DuesAreDue DEF Due
    <2>5. \A n \in Dues \X Role : n \in statement'[w] \/ notices[n] = 1
      BY <2>3, <2>4 DEF RemindersTypeOK
    <2>6. \A n \in statement'[w] : notices[n] # 1
      BY <2>3
    <2> QED BY <2>1, <2>2, <2>5, <2>6 DEF StatementsOK
  <1>2. ASSUME NEW w \in Worker, WorkerStarts(w) \/ WorkerTicks(w) PROVE StatementsOK'
    BY <1>1, <1>2 DEF WorkerStarts, WorkerTicks
  <1>3. ASSUME NEW w \in Worker, NoticesAdded(w) PROVE StatementsOK'
    <2>1. Dues' = Dues
      BY <1>3 DEF NoticesAdded, Dues, Standing, Hour
    <2> QED BY <1>3, <2>1, AddedIsThere DEF StatementsOK
  <1>4. ASSUME NEW w \in Worker, StatementFails(w) \/ WorkerStops(w) PROVE StatementsOK'
    <2>1. Dues' = Dues /\ notices' = notices /\ statement' = [statement EXCEPT ![w] = Off]
      BY <1>4 DEF StatementFails, WorkerStops, Dues, Standing, Hour
    <2> QED BY <2>1 DEF StatementsOK, RemindersTypeOK
  <1>5. ASSUME NEW v \in Visit, NEW t \in ((now + 1)..(Horizon + Lookahead)) \cup {Off}, VisitChanges(v, t)
        PROVE  StatementsOK'
    <2>1. ASSUME NEW u \in Dues' PROVE u \in Dues
      <3>1. u \in Visit /\ settled'[u] < now /\ now' = now
        BY <1>5 DEF VisitChanges, Dues, Standing
      <3>2. u # v
        BY <1>5, <3>1 DEF VisitChanges, RemindersTypeOK
      <3>3. begins'[u] = begins[u] /\ settled'[u] = settled[u]
        BY <1>5, <3>1, <3>2 DEF VisitChanges, RemindersTypeOK
      <3> QED BY <3>1, <3>3 DEF Dues, Standing, Hour
    <2>2. statement' = statement /\ notices' = notices
      BY <1>5 DEF VisitChanges
    <2> QED BY <2>1, <2>2 DEF StatementsOK
  <1>6. CASE TimePasses
    BY <1>6 DEF TimePasses, StatementsOK
  <1>7. CASE UNCHANGED reminderVars
    BY <1>7 DEF reminderVars, StatementsOK, Dues, Standing, Hour
  <1> QED BY <1>2, <1>3, <1>4, <1>5, <1>6, <1>7 DEF RemindersNext

LEMMA AskedStep ==
  ASSUME RemindersInv, [RemindersNext]_reminderVars
  PROVE  AskedOK'
  <1> USE DEF RemindersInv
  <1> DEFINE Asked(w, v) == ticks[w] # Off /\ sound[w] < Hour(v) /\ ticks[w] - 2 >= Hour(v)
             Late(w, v) == statement[w] = Off \/ now > Hour(v) + 1
  <1>1. \A v \in Visit : begins[v] # Off => Hour(v) \in Int
    BY DEF RemindersTypeOK, Hour
  <1>2. ASSUME NEW w \in Worker, WorkerStarts(w) \/ WorkerTicks(w) PROVE AskedOK'
    <2> SUFFICES ASSUME NEW q \in Worker, NEW v \in Visit, NEW r \in Role,
                        Standing(v, Hour(v)), (Asked(q, v) /\ Late(q, v))'
                 PROVE  notices[<<v, r>>] = 1
      BY <1>2 DEF AskedOK, WorkerStarts, WorkerTicks, LooksAhead, Standing, Hour
    <2>1. now' = now /\ Hour(v)' = Hour(v)
      BY <1>2 DEF WorkerStarts, WorkerTicks, LooksAhead, Hour
    <2>2. CASE q # w
      <3>1. ticks'[q] = ticks[q] /\ statement'[q] = statement[q] /\ sound'[q] = sound[q]
        BY <1>2, <2>2 DEF WorkerStarts, WorkerTicks, LooksAhead, RemindersTypeOK
      <3> QED BY <2>1, <3>1 DEF AskedOK
    <2>3. CASE q = w
      <3>1. ticks'[w] = now + 2 /\ statement'[w] # Off
        BY <1>2, Read DEF WorkerStarts, WorkerTicks, LooksAhead, RemindersTypeOK
      <3>2. now > Hour(v) + 1
        BY <2>1, <2>3, <3>1
      <3>3. ~ WorkerStarts(w)
        BY <1>1, <2>1, <2>3, <3>2 DEF WorkerStarts, RemindersTypeOK, Standing
      <3>4. ticks[w] = now /\ sound'[w] = sound[w]
        BY <1>2, <3>3 DEF WorkerTicks
      <3>5. statement[w] = Off
        BY <3>4 DEF TicksOK, RemindersTypeOK
      <3> QED BY <1>1, <2>1, <2>3, <3>2, <3>4, <3>5 DEF AskedOK, RemindersTypeOK, Standing
    <2> QED BY <2>2, <2>3
  <1>3. ASSUME NEW w \in Worker, NoticesAdded(w) PROVE AskedOK'
    <2> SUFFICES ASSUME NEW q \in Worker, NEW v \in Visit, NEW r \in Role,
                        Standing(v, Hour(v)), Asked(q, v), Late(q, v)'
                 PROVE  notices'[<<v, r>>] = 1
      BY <1>3 DEF AskedOK, NoticesAdded, Standing, Hour
    <2>1. now' = now /\ Hour(v)' = Hour(v) /\ (q # w => statement'[q] = statement[q])
      BY <1>3 DEF NoticesAdded, Hour, RemindersTypeOK
    <2>2. CASE Late(q, v)
      <3>1. notices[<<v, r>>] = 1
        BY <2>2 DEF AskedOK
      <3> QED BY <1>3, <3>1, AddedIsThere
    <2>3. CASE ~ Late(q, v)
      <3>1. statement[q] # Off /\ q = w
        BY <2>1, <2>3
      <3>2. ticks[q] = now + 2
        BY <3>1 DEF TicksOK
      <3>3. now \in {Hour(v), Hour(v) + 1}
        <4>1. Hour(v) \in Int /\ now \in Nat
          BY <1>1 DEF Standing, RemindersTypeOK
        <4>2. ticks[q] - 2 >= Hour(v)
          OBVIOUS
        <4>3. ~ (now > Hour(v) + 1)
          BY <2>3
        <4> HIDE DEF Asked, Late
        <4> QED BY <3>2, <4>1, <4>2, <4>3
      <3>4. v \in Dues
        BY <1>1, <3>3 DEF Dues, Standing, RemindersTypeOK
      <3> QED BY <1>3, <3>4, AddedIsThere
    <2> QED BY <2>2, <2>3
  <1>4. ASSUME NEW w \in Worker, StatementFails(w) \/ WorkerStops(w) PROVE AskedOK'
    <2> SUFFICES ASSUME NEW q \in Worker, NEW v \in Visit, NEW r \in Role,
                        Standing(v, Hour(v)), (Asked(q, v) /\ Late(q, v))'
                 PROVE  notices[<<v, r>>] = 1
      BY <1>4 DEF AskedOK, StatementFails, WorkerStops, Standing, Hour
    <2>1. now' = now /\ Hour(v)' = Hour(v)
      BY <1>4 DEF StatementFails, WorkerStops, Hour
    <2>2. CASE q # w
      <3>1. ticks'[q] = ticks[q] /\ statement'[q] = statement[q] /\ sound'[q] = sound[q]
        BY <1>4, <2>2 DEF StatementFails, WorkerStops, RemindersTypeOK
      <3> QED BY <2>1, <3>1 DEF AskedOK
    <2>3. CASE q = w
      <3>1. ~ WorkerStops(w)
        BY <2>3 DEF WorkerStops, RemindersTypeOK
      <3>2. ticks'[w] = now + 2 /\ sound'[w] = now
        BY <1>4, <3>1 DEF StatementFails, TicksOK, RemindersTypeOK
      <3> QED BY <1>1, <2>1, <2>3, <3>2 DEF Standing, RemindersTypeOK
    <2> QED BY <2>2, <2>3
  <1>5. ASSUME NEW u \in Visit, NEW t \in ((now + 1)..(Horizon + Lookahead)) \cup {Off}, VisitChanges(u, t)
        PROVE  AskedOK'
    <2> SUFFICES ASSUME NEW q \in Worker, NEW v \in Visit, NEW r \in Role,
                        Standing(v, Hour(v))', (Asked(q, v) /\ Late(q, v))'
                 PROVE  notices[<<v, r>>] = 1
      BY <1>5 DEF AskedOK, VisitChanges
    <2>1. UNCHANGED <<now, ticks, statement, sound, notices>>
      BY <1>5 DEF VisitChanges
    <2>2. CASE v = u
      <3>1. settled'[v] = now /\ begins'[v] = t /\ t # Off
        BY <1>5, <2>2 DEF VisitChanges, RemindersTypeOK, Standing
      <3>2. now < Hour(v)' /\ Hour(v)' \in Int
        BY <3>1 DEF Standing, Hour
      <3>3. ticks[q] \in Nat /\ ticks[q] <= now + 2 /\ ticks[q] - 2 >= Hour(v)'
        BY <2>1 DEF TicksOK, RemindersTypeOK
      <3> QED BY <3>2, <3>3 DEF RemindersTypeOK
    <2>3. CASE v # u
      <3>1. begins'[v] = begins[v] /\ settled'[v] = settled[v]
        BY <1>5, <2>3 DEF VisitChanges, RemindersTypeOK
      <3> QED BY <2>1, <3>1 DEF AskedOK, Standing, Hour
    <2> QED BY <2>2, <2>3
  <1>6. CASE TimePasses
    <2>1. UNCHANGED <<begins, ticks, statement, sound, notices, settled>>
      BY <1>6 DEF TimePasses
    <2>2. \A w \in Worker : statement[w] = Off
      BY <1>6 DEF TimePasses
    <2> QED BY <2>1, <2>2 DEF AskedOK, Standing, Hour
  <1>7. CASE UNCHANGED reminderVars
    BY <1>7 DEF reminderVars, AskedOK, Standing, Hour
  <1> QED BY <1>2, <1>3, <1>4, <1>5, <1>6, <1>7 DEF RemindersNext

LEMMA RemindersInvariance == RemindersSpec => []RemindersInv
  <1>1. RemindersInv /\ [RemindersNext]_reminderVars => RemindersInv'
    BY RemindersTyped, TicksStep, StatementsStep, AskedStep DEF RemindersInv
  <1> QED BY <1>1, RemindersStart, PTL DEF RemindersSpec

(* Any number of workers that ask at once remind either party of a booking
   once; and they do if only one of them runs through its hour. *)
THEOREM RemindedOnce == RemindersSpec => []RemindedExactlyOnce
  <1>1. RemindersInv => RemindedExactlyOnce
    <2> SUFFICES ASSUME RemindersInv PROVE RemindedExactlyOnce
      OBVIOUS
    <2>1. \A n \in Visit \X Role : notices[n] <= 1
      BY DEF RemindersInv, RemindersTypeOK
    <2>2. ASSUME NEW v \in Visit, NEW r \in Role, Standing(v, Hour(v)), now > Hour(v) + 1,
                 NEW w \in Worker, ticks[w] # Off, sound[w] < Hour(v)
          PROVE  notices[<<v, r>>] = 1
      <3>1. Hour(v) \in Int /\ now \in Nat /\ ticks[w] \in Nat /\ now <= ticks[w]
        BY <2>2 DEF RemindersInv, RemindersTypeOK, Standing, Hour, TicksOK
      <3>2. ticks[w] - 2 >= Hour(v)
        BY <2>2, <3>1
      <3> QED BY <2>2, <3>2 DEF RemindersInv, AskedOK
    <2> QED BY <2>1, <2>2 DEF RemindedExactlyOnce, Standing, Hour
  <1> QED BY <1>1, RemindersInvariance, PTL

-----------------------------------------------------------------------------
(* The cards of the parent. *)

PCs == {"idle", "create", "record", "intent", "prefer", "store", "list", "check", "detach", "clear",
        "stored", "forget", "preferred", "look", "first", "adopt", "approve", "charge"}

Request ==
  [pc : PCs,
   card : Card \cup {Missing}, sitting : Sitting \cup {Missing},
   with : Customer \cup Card \cup {Missing, "approve", "charge"}]

\* What the stages of a request take for granted of what it carries.
Carries(r) ==
  /\ r.pc \in {"stored", "forget", "preferred", "look", "first", "adopt"} => r.with \in {"approve", "charge"}
  /\ r.pc \in {"prefer", "store", "list", "check", "detach", "look", "adopt"} => r.card \in Card
  /\ r.pc \in {"record", "intent"} => r.with \in Customer

DataOK ==
  /\ customer \in Customer \cup {Missing} /\ default \in Card \cup {Missing}
  /\ customers \in SUBSET Customer /\ holder \in [Card -> Customer \cup {"new", "gone"}]
  /\ preferred \in Card \cup {Missing}
  /\ sitting \in [Sitting -> {"pending", "approved", "closed"}]
  /\ overtaken \in SUBSET Asker /\ failures \in Nat

SavedCardsTypeOK ==
  /\ DataOK
  /\ ask \in [Asker -> Request]
  /\ \A p \in Asker : Carries(ask[p])

(* Stripe has made one customer at most, the one on record or about to be. *)
CustomersOK ==
  /\ \A c, d \in customers : c = d
  /\ customer \in customers \cup {Missing}
  /\ \A p \in Asker : /\ On(p, "record") => ask[p].with \in customers
                      /\ On(p, "intent") => customer \in customers /\ ask[p].with = customer
  /\ CardsAreOnRecord

(* A card about to be removed was saved once, and is not the last one of a
   parent with an approved booking unless that changed in the meantime. *)
DeletionsOK ==
  \A p \in Looking :
    /\ holder[ask[p].card] # "new"
    /\ On(p, "detach") /\ p \notin overtaken =>
         Saved # {ask[p].card} \/ \A v \in Sitting : sitting[v] # "approved"

SavedCardsInv == SavedCardsTypeOK /\ CustomersOK /\ DeletionsOK

USE SavedCardsAssumptions

LEMMA UnaskedIsTyped == Unasked \in Request /\ Unasked.pc = "idle"
  BY DEF Unasked, Request, PCs

(* What a request is once it is taken, moves on or ends; no step changes two. *)
Only(p) ==
  /\ ask' \in [Asker -> Request] /\ ask'[p] \in Request
  /\ \A q \in Asker : q # p => ask'[q] = ask[q]

LEMMA Asking ==
  ASSUME SavedCardsTypeOK, NEW p \in Asker, NEW r \in Request, Asks(p, r)
  PROVE  Only(p) /\ ask'[p] = r
  BY DEF SavedCardsTypeOK, Asks, Only

LEMMA Going ==
  ASSUME SavedCardsTypeOK, NEW p \in Asker, NEW pc \in PCs, Then(p, pc)
  PROVE  /\ Only(p)
         /\ ask'[p].pc = pc /\ ask'[p].card = ask[p].card /\ ask'[p].with = ask[p].with
  BY DEF SavedCardsTypeOK, Then, Only, Request

LEMMA GoingWith ==
  ASSUME SavedCardsTypeOK, NEW p \in Asker, NEW pc \in PCs, NEW k \in Card, ThenWith(p, pc, k)
  PROVE  /\ Only(p)
         /\ ask'[p].pc = pc /\ ask'[p].card = k /\ ask'[p].with = ask[p].with
  <1> DEFINE r == [ask[p] EXCEPT !.pc = pc, !.card = k]
  <1>1. ask[p] \in Request
    BY DEF SavedCardsTypeOK
  <1>2. r \in Request /\ r.pc = pc /\ r.card = k /\ r.with = ask[p].with
    BY <1>1 DEF Request
  <1>3. ask' = [ask EXCEPT ![p] = r]
    BY DEF SavedCardsTypeOK, ThenWith
  <1> HIDE DEF r
  <1>4. ask' \in [Asker -> Request] /\ ask'[p] = r /\ \A q \in Asker : q # p => ask'[q] = ask[q]
    BY <1>2, <1>3 DEF SavedCardsTypeOK
  <1> QED BY <1>2, <1>4 DEF Only, r

LEMMA Ending ==
  ASSUME SavedCardsTypeOK, NEW p \in Asker, Ends(p)
  PROVE  Only(p) /\ ask'[p].pc = "idle"
  BY UnaskedIsTyped DEF SavedCardsTypeOK, Ends, Only

LEMMA CustomerIsMade ==
  ASSUME SavedCardsTypeOK, NEW p \in Asker, NEW c \in Customer, CustomerIs(p, c)
  PROVE  /\ Only(p) /\ ask'[p].pc = "record" /\ ask'[p].with = c
         /\ customers' = customers \cup {c}
  <1> DEFINE r == [ask[p] EXCEPT !.pc = "record", !.with = c]
  <1>1. ask[p] \in Request
    BY DEF SavedCardsTypeOK
  <1>2. r \in Request /\ r.pc = "record" /\ r.with = c
    BY <1>1 DEF Request, PCs
  <1>3. ask' = [ask EXCEPT ![p] = r]
    BY DEF SavedCardsTypeOK, CustomerIs
  <1> HIDE DEF r
  <1>4. ask' \in [Asker -> Request] /\ ask'[p] = r /\ \A q \in Asker : q # p => ask'[q] = ask[q]
    BY <1>2, <1>3 DEF SavedCardsTypeOK
  <1> QED BY <1>2, <1>4 DEF Only, CustomerIs

LEMMA Retyped ==
  ASSUME SavedCardsTypeOK, NEW p \in Asker, Only(p), Carries(ask'[p]), DataOK'
  PROVE  SavedCardsTypeOK'
  BY DEF SavedCardsTypeOK, Only

LEMMA SavedCardsStart == SavedCardsInit => SavedCardsInv
  <1> SUFFICES ASSUME SavedCardsInit PROVE SavedCardsInv
    OBVIOUS
  <1>1. SavedCardsTypeOK
    BY UnaskedIsTyped DEF SavedCardsInit, SavedCardsTypeOK, DataOK, Carries
  <1> QED BY <1>1, UnaskedIsTyped
         DEF SavedCardsInit, SavedCardsInv, CustomersOK, CardsAreOnRecord, DeletionsOK, Looking, On

Moves(p) ==
  \/ SetupReads(p) \/ AskProceeds(p) \/ StoredStale(p) \/ PreferredUnread(p) \/ AskGivenUp(p)
  \/ \E k \in Card : DefaultAsked(p, k) \/ DeleteReads(p, k)
  \/ \E v \in Sitting, act \in {"approve", "charge"} : CardSought(p, v, act)

LEMMA RequestTyped ==
  ASSUME SavedCardsTypeOK, NEW p \in Asker, Moves(p)
  PROVE  SavedCardsTypeOK' /\ Only(p)
  <1> SUFFICES Only(p) /\ Carries(ask'[p]) /\ DataOK'
    BY Retyped
  <1>0. ask[p] \in Request /\ Carries(ask[p]) /\ DataOK
    BY DEF SavedCardsTypeOK
  <1>i. ASSUME Ends(p) PROVE Only(p) /\ Carries(ask'[p])
    BY <1>i, Ending DEF Carries
  <1> USE DEF PCs
  <1>1. CASE SetupReads(p)
    <2> DEFINE pc == IF customer = Missing THEN "create" ELSE "intent"
               r == [Unasked EXCEPT !.pc = pc, !.with = customer]
    <2>1. pc \in PCs /\ customer \in Customer \cup {Missing} /\ (pc = "intent" => customer \in Customer)
          /\ pc \in {"create", "intent"}
      BY <1>0 DEF DataOK
    <2>2. Asks(p, r)
      BY <1>1 DEF SetupReads
    <2> HIDE DEF pc
    <2>3. r \in Request /\ r.pc = pc /\ r.with = customer
      BY <2>1, UnaskedIsTyped DEF Request
    <2> HIDE DEF r
    <2>4. Only(p) /\ ask'[p] = r
      BY <2>2, <2>3, Asking
    <2>5. Carries(r)
      BY <2>1, <2>3 DEF Carries
    <2>6. DataOK'
      BY <1>0, <1>1 DEF SetupReads, DataOK, Alone, billing, atStripe
    <2> QED BY <2>4, <2>5, <2>6
  <1>2. CASE CustomerCreated(p)
    <2> DEFINE c == IF customers = {} THEN NewCustomer ELSE CHOOSE d \in customers : TRUE
    <2>1. c \in Customer
      BY <1>0 DEF NewCustomer, DataOK
    <2>2. CustomerIs(p, c)
      BY <1>2 DEF CustomerCreated
    <2> HIDE DEF c
    <2>3. /\ Only(p) /\ ask'[p].pc = "record" /\ ask'[p].with = c
          /\ customers' = customers \cup {c}
      BY <2>1, <2>2, CustomerIsMade
    <2>4. Carries(ask'[p])
      BY <2>1, <2>3 DEF Carries
    <2>5. DataOK'
      BY <1>0, <1>2, <2>1, <2>3 DEF CustomerCreated, DataOK, Alone, billing
    <2> QED BY <2>3, <2>4, <2>5
  <1>3. CASE CustomerRecorded(p)
    <2>1. Only(p) /\ Carries(ask'[p])
      BY <1>0, <1>3, Going DEF CustomerRecorded, On, Carries, DataOK
    <2>2. DataOK'
      BY <1>0, <1>3 DEF CustomerRecorded, On, Carries, DataOK, Alone, billing, atStripe, Request
    <2> QED BY <2>1, <2>2
  <1>4. CASE FormLeft(p)
    <2>1. Only(p) /\ Carries(ask'[p])
      BY <1>0, <1>4, <1>i DEF FormLeft, On, Carries, DataOK
    <2>2. DataOK'
      BY <1>0, <1>4 DEF FormLeft, On, Carries, DataOK, Alone, billing, atStripe, Request
    <2> QED BY <2>1, <2>2
  <1>5. ASSUME NEW k \in Card, CardSaved(p, k) PROVE Only(p) /\ Carries(ask'[p]) /\ DataOK'
    <2>1. Only(p) /\ Carries(ask'[p])
      BY <1>0, <1>5, <1>i DEF CardSaved, On, Carries, DataOK
    <2>2. DataOK'
      BY <1>0, <1>5 DEF CardSaved, On, Carries, DataOK, Alone, billing, atStripe, Request
    <2> QED BY <2>1, <2>2
  <1>6. ASSUME NEW k \in Card, DefaultAsked(p, k) PROVE Only(p) /\ Carries(ask'[p]) /\ DataOK'
    <2> DEFINE r == [Unasked EXCEPT !.pc = "prefer", !.card = k]
    <2>1. Asks(p, r)
      BY <1>6 DEF DefaultAsked
    <2>2. r \in Request /\ r.pc = "prefer" /\ r.card = k
      BY <1>0, UnaskedIsTyped DEF Request, DataOK
    <2> HIDE DEF r
    <2>3. Only(p) /\ ask'[p] = r
      BY <2>1, <2>2, Asking
    <2>4. Carries(r)
      BY <2>2 DEF Carries
    <2>5. DataOK'
      BY <1>0, <1>6 DEF DefaultAsked, DataOK, Alone, billing, atStripe
    <2> QED BY <2>3, <2>4, <2>5
  <1>7. CASE DefaultPreferred(p)
    <2>1. Only(p) /\ Carries(ask'[p])
      BY <1>0, <1>7, Going, <1>i DEF DefaultPreferred, On, Carries, DataOK
    <2>2. DataOK'
      BY <1>0, <1>7 DEF DefaultPreferred, On, Carries, DataOK, Alone, billing, atStripe, Request
    <2> QED BY <2>1, <2>2
  <1>8. CASE DefaultStored(p)
    <2>1. Only(p) /\ Carries(ask'[p])
      BY <1>0, <1>8, <1>i DEF DefaultStored, On, Carries, DataOK
    <2>2. DataOK'
      BY <1>0, <1>8 DEF DefaultStored, On, Carries, DataOK, Alone, billing, atStripe, Request
    <2> QED BY <2>1, <2>2
  <1>9. ASSUME NEW k \in Card, DeleteReads(p, k) PROVE Only(p) /\ Carries(ask'[p]) /\ DataOK'
    <2> DEFINE r == [Unasked EXCEPT !.pc = "list", !.card = k, !.with = default]
    <2>1. Asks(p, r)
      BY <1>9 DEF DeleteReads
    <2>2. r \in Request /\ r.pc = "list" /\ r.card = k
      BY <1>0, UnaskedIsTyped DEF Request, DataOK
    <2> HIDE DEF r
    <2>3. Only(p) /\ ask'[p] = r
      BY <2>1, <2>2, Asking
    <2>4. Carries(r)
      BY <2>2 DEF Carries
    <2>5. DataOK'
      BY <1>0, <1>9 DEF DeleteReads, DataOK, Alone, billing, atStripe
    <2> QED BY <2>3, <2>4, <2>5
  <1>10. CASE DeleteLists(p)
    <2>1. Only(p) /\ Carries(ask'[p])
      BY <1>0, <1>10, Going, <1>i DEF DeleteLists, On, Carries, DataOK
    <2>2. DataOK'
      BY <1>0, <1>10 DEF DeleteLists, On, Carries, DataOK, Alone, billing, atStripe, Request
    <2> QED BY <2>1, <2>2
  <1>11. CASE DeleteChecks(p)
    <2>1. Only(p) /\ Carries(ask'[p])
      BY <1>0, <1>11, Going, <1>i DEF DeleteChecks, On, Carries, DataOK
    <2>2. DataOK'
      BY <1>0, <1>11 DEF DeleteChecks, On, Carries, DataOK, Alone, billing, atStripe, Request
    <2> QED BY <2>1, <2>2
  <1>12. CASE CardDetached(p)
    <2>1. Only(p) /\ Carries(ask'[p])
      BY <1>0, <1>12, Going, <1>i DEF CardDetached, On, Carries, DataOK
    <2>2. DataOK'
      BY <1>0, <1>12 DEF CardDetached, On, Carries, DataOK, Overtakes, Looking, billing, atStripe, Request
    <2> QED BY <2>1, <2>2
  <1>13. CASE DetachRefused(p)
    <2>1. Only(p) /\ Carries(ask'[p])
      BY <1>0, <1>13, <1>i DEF DetachRefused, On, Carries, DataOK
    <2>2. DataOK'
      BY <1>0, <1>13 DEF DetachRefused, On, Carries, DataOK, Alone, billing, atStripe, Request
    <2> QED BY <2>1, <2>2
  <1>14. CASE DefaultCleared(p)
    <2>1. Only(p) /\ Carries(ask'[p])
      BY <1>0, <1>14, <1>i DEF DefaultCleared, On, Carries, DataOK
    <2>2. DataOK'
      BY <1>0, <1>14 DEF DefaultCleared, On, Carries, DataOK, Alone, billing, atStripe, Request
    <2> QED BY <2>1, <2>2
  <1>15. ASSUME NEW v \in Sitting, NEW act \in {"approve", "charge"}, CardSought(p, v, act)
         PROVE  Only(p) /\ Carries(ask'[p]) /\ DataOK'
    <2> DEFINE r == [pc |-> IF default # Missing THEN "stored" ELSE "preferred",
                     card |-> default, sitting |-> v, with |-> act]
    <2>1. r \in Request /\ r.pc \in {"stored", "preferred"} /\ r.with = act
      BY <1>0 DEF Request, DataOK
    <2>2. Asks(p, r)
      BY <1>15 DEF CardSought
    <2> HIDE DEF r
    <2>3. Only(p) /\ ask'[p] = r
      BY <2>1, <2>2, Asking
    <2>4. Carries(r)
      BY <2>1 DEF Carries
    <2>5. DataOK'
      BY <1>0, <1>15 DEF CardSought, DataOK, Alone, billing, atStripe
    <2> QED BY <2>3, <2>4, <2>5
  <1>16. CASE StoredFound(p)
    <2>1. Only(p) /\ Carries(ask'[p])
      BY <1>0, <1>16, Going DEF StoredFound, On, Carries, DataOK
    <2>2. DataOK'
      BY <1>0, <1>16 DEF StoredFound, On, Carries, DataOK, Alone, billing, atStripe, Request
    <2> QED BY <2>1, <2>2
  <1>17. CASE StoredStale(p)
    <2>1. Only(p) /\ Carries(ask'[p])
      BY <1>0, <1>17, Going DEF StoredStale, On, Carries, DataOK
    <2>2. DataOK'
      BY <1>0, <1>17 DEF StoredStale, On, Carries, DataOK, Alone, billing, atStripe, Request
    <2> QED BY <2>1, <2>2
  <1>18. CASE DefaultForgotten(p)
    <2>1. Only(p) /\ Carries(ask'[p])
      BY <1>0, <1>18, Going DEF DefaultForgotten, On, Carries, DataOK
    <2>2. DataOK'
      BY <1>0, <1>18 DEF DefaultForgotten, On, Carries, DataOK, Alone, billing, atStripe, Request
    <2> QED BY <2>1, <2>2
  <1>19. CASE PreferredRead(p)
    <2>1. Only(p) /\ Carries(ask'[p])
      BY <1>0, <1>19, Going, GoingWith DEF PreferredRead, On, Carries, DataOK
    <2>2. DataOK'
      BY <1>0, <1>19 DEF PreferredRead, On, Carries, DataOK, Alone, billing, atStripe, Request
    <2> QED BY <2>1, <2>2
  <1>20. CASE FirstRead(p)
    <2>1. Only(p) /\ Carries(ask'[p])
      BY <1>0, <1>20, <1>i, GoingWith DEF FirstRead, On, Carries, DataOK, Saved
    <2>2. DataOK'
      BY <1>0, <1>20 DEF FirstRead, On, Carries, DataOK, Alone, billing, atStripe, Request
    <2> QED BY <2>1, <2>2
  <1>21. CASE CardAdopted(p)
    <2>1. Only(p) /\ Carries(ask'[p])
      BY <1>0, <1>21, Going DEF CardAdopted, On, Carries, DataOK
    <2>2. DataOK'
      BY <1>0, <1>21 DEF CardAdopted, On, Carries, DataOK, Alone, billing, atStripe, Request
    <2> QED BY <2>1, <2>2
  <1>22. CASE SittingApproved(p)
    <2>1. Only(p) /\ Carries(ask'[p])
      BY <1>0, <1>22, <1>i DEF SittingApproved, On, Carries, DataOK
    <2>2. DataOK'
      BY <1>0, <1>22 DEF SittingApproved, On, Carries, DataOK, Overtakes, Looking, billing, atStripe, Request
    <2> QED BY <2>1, <2>2
  <1>23. CASE SittingCharged(p)
    <2>1. Only(p) /\ Carries(ask'[p])
      BY <1>0, <1>23, <1>i DEF SittingCharged, On, Carries, DataOK
    <2>2. DataOK'
      BY <1>0, <1>23 DEF SittingCharged, On, Carries, DataOK, Alone, billing, atStripe, Request
    <2> QED BY <2>1, <2>2
  <1>24. CASE AskGivenUp(p)
    <2>1. Only(p) /\ Carries(ask'[p])
      BY <1>0, <1>24, <1>i DEF AskGivenUp, On, Carries, DataOK
    <2>2. DataOK'
      BY <1>0, <1>24 DEF AskGivenUp, On, Carries, DataOK, Alone, billing, atStripe, Request
    <2> QED BY <2>1, <2>2
  <1>25. CASE PreferredFound(p)
    <2>1. Only(p) /\ Carries(ask'[p])
      BY <1>0, <1>25, Going DEF PreferredFound, On, Carries, DataOK
    <2>2. DataOK'
      BY <1>0, <1>25 DEF PreferredFound, On, Carries, DataOK, Alone, billing, atStripe, Request
    <2> QED BY <2>1, <2>2
  <1>26. CASE PreferredUnread(p)
    <2>1. Only(p) /\ Carries(ask'[p])
      BY <1>0, <1>26, Going DEF PreferredUnread, On, Carries, DataOK
    <2>2. DataOK'
      BY <1>0, <1>26 DEF PreferredUnread, On, Carries, DataOK, Alone, billing, atStripe, Request
    <2> QED BY <2>1, <2>2
  <1> QED BY <1>1, <1>2, <1>3, <1>4, <1>5, <1>6, <1>7, <1>8, <1>9, <1>10, <1>11, <1>12, <1>13,
            <1>14, <1>15, <1>16, <1>17, <1>18, <1>19, <1>20, <1>21, <1>22, <1>23, <1>24, <1>25, <1>26
         DEF Moves, AskProceeds, SavesCard, SetsDefault, DeletesCard, UsesCard

(* Most steps concern neither the customer nor the cards, approve nothing
   and begin no stage that relies on what was read. *)
Quietly(p) ==
  /\ Only(p) /\ UNCHANGED <<customer, customers, holder, overtaken>>
  /\ ask'[p].pc \notin {"record", "intent", "check", "detach"}
  /\ \A v \in Sitting : sitting'[v] = "approved" => sitting[v] = "approved"

Loud(p) ==
  \/ SetupReads(p) \/ CustomerCreated(p) \/ CustomerRecorded(p) \/ \E k \in Card : CardSaved(p, k)
  \/ DeleteLists(p) \/ DeleteChecks(p) \/ CardDetached(p) \/ SittingApproved(p)

LEMMA QuietMoves ==
  ASSUME SavedCardsTypeOK, NEW p \in Asker, Moves(p) PROVE Loud(p) \/ Quietly(p)
  <1>0. Only(p) /\ DataOK
    BY RequestTyped DEF SavedCardsTypeOK
  <1> USE <1>0 DEF Quietly, billing, atStripe, Alone
  <1>1. CASE FormLeft(p) \/ DefaultStored(p) \/ DetachRefused(p) \/ DefaultCleared(p) \/ AskGivenUp(p)
    BY <1>1, Ending DEF FormLeft, DefaultStored, DetachRefused, DefaultCleared, AskGivenUp
  <1>2. CASE SittingCharged(p)
    <2>1. \A v \in Sitting : sitting'[v] = "approved" => sitting[v] = "approved"
      BY <1>2 DEF SittingCharged, DataOK
    <2> QED BY <1>2, <2>1, Ending DEF SittingCharged
  <1>3. CASE DefaultPreferred(p)
    BY <1>3, Ending, Going DEF DefaultPreferred, PCs
  <1>4. CASE StoredFound(p) \/ CardAdopted(p)
    BY <1>4, Going DEF StoredFound, CardAdopted, PCs, SavedCardsTypeOK, Carries, On
  <1>5. CASE StoredStale(p) \/ DefaultForgotten(p) \/ PreferredRead(p) \/ FirstRead(p)
    BY <1>5, Going, GoingWith, Ending
       DEF StoredStale, DefaultForgotten, PreferredRead, FirstRead, PCs, Saved, DataOK
  <1>10. CASE PreferredFound(p) \/ PreferredUnread(p)
    BY <1>10, Going DEF PreferredFound, PreferredUnread, PCs
  <1>6. ASSUME NEW r, Asks(p, r), r.pc \notin {"record", "intent", "check", "detach"},
               UNCHANGED <<billing, atStripe, sitting>>, Alone
        PROVE  Quietly(p)
    <2>1. ask'[p] = r
      BY <1>6 DEF Asks, SavedCardsTypeOK
    <2> QED BY <1>6, <2>1
  <1>7. ASSUME NEW k \in Card, DefaultAsked(p, k) PROVE Quietly(p)
    <2>1. [Unasked EXCEPT !.pc = "prefer", !.card = k].pc = "prefer"
      BY UnaskedIsTyped DEF Request
    <2> QED BY <1>6, <1>7, <2>1 DEF DefaultAsked
  <1>8. ASSUME NEW k \in Card, DeleteReads(p, k) PROVE Quietly(p)
    <2>1. [Unasked EXCEPT !.pc = "list", !.card = k, !.with = default].pc = "list"
      BY UnaskedIsTyped DEF Request
    <2> QED BY <1>6, <1>8, <2>1 DEF DeleteReads
  <1>9. ASSUME NEW v \in Sitting, NEW act \in {"approve", "charge"}, CardSought(p, v, act)
        PROVE  Quietly(p)
    <2> DEFINE r == [pc |-> IF default # Missing THEN "stored" ELSE "preferred",
                     card |-> default, sitting |-> v, with |-> act]
    <2>1. r.pc \notin {"record", "intent", "check", "detach"}
      OBVIOUS
    <2>2. Asks(p, r) /\ UNCHANGED <<billing, atStripe, sitting>> /\ Alone
      BY <1>9 DEF CardSought
    <2> HIDE DEF r
    <2> QED BY <1>6, <2>1, <2>2
  <1> QED BY <1>1, <1>2, <1>3, <1>4, <1>5, <1>7, <1>8, <1>9, <1>10
         DEF Moves, Loud, AskProceeds, SavesCard, SetsDefault, DeletesCard, UsesCard

LEMMA CustomersStep ==
  ASSUME SavedCardsTypeOK, CustomersOK, NEW p \in Asker, Moves(p)
  PROVE  CustomersOK'
  <1>0. Only(p) /\ DataOK
    BY RequestTyped DEF SavedCardsTypeOK
  <1>1. CASE SetupReads(p)
    <2> DEFINE r == [Unasked EXCEPT !.pc = IF customer = Missing THEN "create" ELSE "intent",
                                    !.with = customer]
    <2>1. r.pc # "record" /\ (r.pc = "intent" => customer # Missing /\ r.with = customer)
      BY UnaskedIsTyped DEF Request
    <2>2. Asks(p, r) /\ UNCHANGED <<customer, customers, holder>>
      BY <1>1 DEF SetupReads, billing, atStripe
    <2> HIDE DEF r
    <2>3. ask'[p] = r
      BY <2>2 DEF Asks, SavedCardsTypeOK
    <2> QED BY <1>0, <2>1, <2>2, <2>3 DEF CustomersOK, CardsAreOnRecord, Only, On
  <1>2. CASE CustomerCreated(p)
    <2> DEFINE c == IF customers = {} THEN NewCustomer ELSE CHOOSE d \in customers : TRUE
    <2>1. c \in Customer /\ customers \cup {c} = {c}
      BY <1>0 DEF NewCustomer, DataOK, CustomersOK
    <2>2. CustomerIs(p, c) /\ UNCHANGED <<customer, holder>>
      BY <1>2 DEF CustomerCreated, billing
    <2> HIDE DEF c
    <2>3. /\ ask'[p].pc = "record" /\ ask'[p].with = c
          /\ customers' = {c}
      BY <2>1, <2>2, CustomerIsMade
    <2>4. customers \subseteq {c}
      BY <2>1
    <2> QED BY <1>0, <2>2, <2>3, <2>4 DEF CustomersOK, CardsAreOnRecord, Only, On
  <1>3. CASE CustomerRecorded(p)
    <2>1. /\ ask'[p].pc = "intent" /\ ask'[p].with = customer' /\ customer' \in customers
          /\ UNCHANGED <<customers, holder>>
      BY <1>3, Going DEF CustomerRecorded, atStripe, On, CustomersOK, PCs
    <2>2. customer \in {Missing, customer'}
      BY <2>1 DEF CustomersOK
    <2>3. Missing \notin customers /\ \A k \in Card : holder[k] \notin Customer \/ holder[k] # Missing
      BY <1>0 DEF DataOK
    <2> QED BY <1>0, <2>1, <2>2, <2>3 DEF CustomersOK, CardsAreOnRecord, Only, On
  <1>4. ASSUME NEW k \in Card, CardSaved(p, k) PROVE CustomersOK'
    <2>1. ask'[p].pc = "idle" /\ holder' = [holder EXCEPT ![k] = customer] /\ UNCHANGED <<customer, customers>>
      BY <1>4, Ending DEF CardSaved, billing, CustomersOK
    <2> QED BY <1>0, <2>1 DEF CustomersOK, CardsAreOnRecord, Only, On, DataOK
  <1>5. CASE CardDetached(p)
    <2>1. /\ ask'[p].pc \in {"idle", "clear"} /\ UNCHANGED <<customer, customers>>
          /\ holder' = [holder EXCEPT ![ask[p].card] = "gone"]
      BY <1>5, Ending, Going DEF CardDetached, billing, PCs
    <2> QED BY <1>0, <2>1 DEF CustomersOK, CardsAreOnRecord, Only, On, DataOK
  <1>6. CASE DeleteLists(p) \/ DeleteChecks(p) \/ SittingApproved(p)
    <2>1. ask'[p].pc \in {"idle", "check", "detach"} /\ UNCHANGED <<customer, customers, holder>>
      BY <1>6, Ending, Going DEF DeleteLists, DeleteChecks, SittingApproved, billing, atStripe, PCs
    <2> QED BY <1>0, <2>1 DEF CustomersOK, CardsAreOnRecord, Only, On
  <1>7. CASE Quietly(p)
    BY <1>7 DEF Quietly, CustomersOK, CardsAreOnRecord, Only, On
  <1> QED BY <1>1, <1>2, <1>3, <1>4, <1>5, <1>6, <1>7, QuietMoves DEF Loud

LEMMA DeletionsStep ==
  ASSUME SavedCardsInv, NEW p \in Asker, Moves(p)
  PROVE  DeletionsOK'
  <1>0. /\ Only(p) /\ DataOK /\ \A q \in Asker : ask[q] \in Request /\ Carries(ask[q])
        /\ CustomersOK /\ DeletionsOK /\ SavedCardsTypeOK
    BY RequestTyped DEF SavedCardsTypeOK, SavedCardsInv
  <1>1. \A q \in Looking : ask[q].card \in Card
    BY <1>0 DEF Looking, Carries
  <1>2. ASSUME ask'[p].pc \notin {"check", "detach"}, UNCHANGED holder, Saved' = Saved,
               UNCHANGED <<sitting, overtaken>>
        PROVE  DeletionsOK'
    BY <1>0, <1>2 DEF DeletionsOK, Looking, Only, On
  <1>3. CASE SetupReads(p)
    <2> DEFINE r == [Unasked EXCEPT !.pc = IF customer = Missing THEN "create" ELSE "intent",
                                    !.with = customer]
    <2>1. r.pc \in {"create", "intent"}
      BY UnaskedIsTyped DEF Request
    <2>2. Asks(p, r) /\ UNCHANGED <<holder, sitting, overtaken>> /\ Saved' = Saved
      BY <1>3 DEF SetupReads, billing, atStripe, Alone, Saved
    <2> HIDE DEF r
    <2>3. ask'[p] = r
      BY <1>0, <2>2 DEF Asks, SavedCardsTypeOK
    <2> QED BY <1>2, <2>1, <2>2, <2>3
  <1>4. CASE CustomerCreated(p)
    <2> DEFINE c == IF customers = {} THEN NewCustomer ELSE CHOOSE d \in customers : TRUE
    <2>1. c \in Customer
      BY <1>0 DEF NewCustomer, DataOK
    <2>2. CustomerIs(p, c) /\ UNCHANGED <<holder, sitting, overtaken>> /\ Saved' = Saved
      BY <1>4 DEF CustomerCreated, billing, Alone, Saved
    <2> HIDE DEF c
    <2>3. ask'[p].pc = "record"
      BY <1>0, <2>1, <2>2, CustomerIsMade
    <2> QED BY <1>2, <2>2, <2>3
  <1>5. CASE CustomerRecorded(p)
    <2>1. /\ ask'[p].pc = "intent" /\ customer' \in customers
          /\ UNCHANGED <<holder, sitting, overtaken>>
      BY <1>0, <1>5, Going DEF CustomerRecorded, atStripe, On, CustomersOK, PCs, Alone
    <2>2. Saved' = Saved
      <3>1. customer = customer' \/ customer = Missing
        BY <1>0, <2>1 DEF CustomersOK
      <3>2. CASE customer = Missing
        <4>1. \A k \in Card : holder[k] \notin Customer
          BY <1>0, <3>2 DEF CustomersOK, CardsAreOnRecord
        <4>2. Saved = {} /\ Saved' = {}
          BY <1>0, <2>1, <3>2, <4>1 DEF Saved, DataOK
        <4> QED BY <4>2
      <3> QED BY <2>1, <3>1, <3>2 DEF Saved
    <2> QED BY <1>2, <2>1, <2>2
  <1>6. ASSUME NEW k \in Card, CardSaved(p, k) PROVE DeletionsOK'
    <2>1. /\ ask'[p].pc = "idle" /\ holder[k] = "new" /\ holder' = [holder EXCEPT ![k] = customer]
          /\ customer \in Customer /\ UNCHANGED <<customer, sitting, overtaken>>
      BY <1>0, <1>6, Ending DEF CardSaved, billing, CustomersOK, Alone, On, DataOK
    <2>2. k \in Saved' /\ Saved \subseteq Saved'
      BY <1>0, <2>1 DEF Saved, DataOK
    <2>3. \A q \in Looking : ask[q].card # k /\ holder'[ask[q].card] # "new"
      BY <1>0, <1>1, <2>1 DEF DeletionsOK, DataOK
    <2> QED BY <1>0, <2>1, <2>2, <2>3 DEF DeletionsOK, Looking, Only, On
  <1>7. CASE DeleteLists(p)
    <2>1. /\ UNCHANGED <<holder, sitting>> /\ Saved' = Saved /\ overtaken' = overtaken \ {p}
          /\ ask'[p].pc \in {"idle", "check", "detach"}
      BY <1>7, <1>0, Ending, Going DEF DeleteLists, billing, atStripe, Saved, PCs
    <2>2. ask'[p].pc # "idle" => /\ ask[p].card \in Saved /\ ask'[p].card = ask[p].card
                                 /\ ask'[p].pc = "detach" => Saved # {ask[p].card}
      BY <1>7, <1>0, Ending, Going DEF DeleteLists, PCs
    <2>3. \A k \in Saved : holder[k] # "new"
      BY <1>0 DEF Saved, DataOK
    <2> QED BY <1>0, <2>1, <2>2, <2>3 DEF DeletionsOK, Looking, Only, On
  <1>8. CASE DeleteChecks(p)
    <2>1. UNCHANGED <<holder, sitting, overtaken>> /\ Saved' = Saved /\ p \in Looking
      BY <1>8 DEF DeleteChecks, billing, atStripe, Saved, Alone, Looking, On
    <2>2. \/ ask'[p].pc = "idle"
          \/ /\ ask'[p].pc = "detach" /\ ask'[p].card = ask[p].card
             /\ \A v \in Sitting : sitting[v] # "approved"
      BY <1>8, <1>0, Ending, Going DEF DeleteChecks, PCs
    <2> QED BY <1>0, <2>1, <2>2 DEF DeletionsOK, Looking, Only, On
  <1>9. CASE CardDetached(p)
    <2>1. /\ ask'[p].pc \in {"idle", "clear"} /\ holder' = [holder EXCEPT ![ask[p].card] = "gone"]
          /\ overtaken' = overtaken \cup (Looking \ {p})
      BY <1>9, <1>0, Ending, Going DEF CardDetached, PCs, Overtakes
    <2>2. \A q \in Looking : holder'[ask[q].card] # "new"
      BY <1>0, <1>1, <2>1 DEF DeletionsOK, DataOK
    <2> QED BY <1>0, <2>1, <2>2 DEF DeletionsOK, Looking, Only, On
  <1>10. CASE SittingApproved(p)
    <2>1. /\ ask'[p].pc = "idle" /\ UNCHANGED holder /\ Saved' = Saved /\ ~ On(p, "detach") /\ ~ On(p, "check")
          /\ (sitting' = sitting /\ overtaken' = overtaken) \/ overtaken' = overtaken \cup (Looking \ {p})
      BY <1>10, <1>0, Ending DEF SittingApproved, billing, atStripe, Saved, Overtakes, On
    <2> QED BY <1>0, <2>1 DEF DeletionsOK, Looking, Only, On
  <1>11. CASE Quietly(p)
    <2>1. Saved' = Saved
      BY <1>11 DEF Quietly, Saved
    <2> QED BY <1>0, <1>11, <2>1 DEF Quietly, DeletionsOK, Looking, Only, On
  <1> QED BY <1>0, <1>3, <1>4, <1>5, <1>6, <1>7, <1>8, <1>9, <1>10, <1>11, QuietMoves DEF Loud

LEMMA SavedCardsStep == SavedCardsInv /\ [SavedCardsNext]_cardVars => SavedCardsInv'
  <1> SUFFICES ASSUME SavedCardsInv, [SavedCardsNext]_cardVars PROVE SavedCardsInv'
    OBVIOUS
  <1>1. ASSUME NEW p \in Asker, Moves(p) PROVE SavedCardsInv'
    BY <1>1, RequestTyped, CustomersStep, DeletionsStep DEF SavedCardsInv
  <1>2. ASSUME NEW v \in Sitting, SittingCancelled(v) PROVE SavedCardsInv'
    <2>1. /\ UNCHANGED <<billing, atStripe, ask, overtaken, failures>>
          /\ sitting' = [sitting EXCEPT ![v] = "closed"]
      BY <1>2 DEF SittingCancelled, Alone
    <2>2. SavedCardsTypeOK'
      BY <2>1 DEF SavedCardsInv, SavedCardsTypeOK, DataOK, billing, atStripe
    <2>3. CustomersOK'
      BY <2>1 DEF SavedCardsInv, CustomersOK, CardsAreOnRecord, On, billing, atStripe
    <2>4. \A w \in Sitting : sitting'[w] = "approved" => sitting[w] = "approved"
      BY <2>1 DEF SavedCardsInv, SavedCardsTypeOK, DataOK
    <2>5. DeletionsOK'
      BY <2>1, <2>4 DEF SavedCardsInv, DeletionsOK, Looking, Saved, On, billing, atStripe
    <2> QED BY <2>2, <2>3, <2>5 DEF SavedCardsInv
  <1>3. CASE UNCHANGED cardVars
    BY <1>3 DEF cardVars, billing, atStripe, SavedCardsInv, SavedCardsTypeOK, DataOK, CustomersOK,
       CardsAreOnRecord, DeletionsOK, Looking, Saved, On
  <1> QED BY <1>1, <1>2, <1>3 DEF SavedCardsNext, Moves

LEMMA SavedCardsInvariance == SavedCardsSpec => []SavedCardsInv
  BY SavedCardsStart, SavedCardsStep, PTL DEF SavedCardsSpec

(* However often a setup is started, at once or again after a failure, the
   cards are saved with the customer that is on record. *)
THEOREM CardsOnRecord == SavedCardsSpec => []CardsAreOnRecord
  <1>1. SavedCardsInv => CardsAreOnRecord
    BY DEF SavedCardsInv, CustomersOK
  <1> QED BY <1>1, SavedCardsInvariance, PTL

(* The last card of a parent with an approved booking is removed only by a
   request that was overtaken since it looked, with any number of requests. *)
THEOREM LastCardKept == SavedCardsSpec => LastCardIsKept
  <1> DEFINE Spared == Saved # {} /\ Saved' = {} /\ (\E v \in Sitting : sitting[v] = "approved")
                       => \E p \in overtaken : On(p, "detach")
  <1>1. SavedCardsInv /\ [SavedCardsNext]_cardVars => [Spared]_cardVars
    <2> SUFFICES ASSUME SavedCardsInv, SavedCardsNext, Saved # {}, Saved' = {},
                        \E v \in Sitting : sitting[v] = "approved"
                 PROVE  \E p \in overtaken : On(p, "detach")
      OBVIOUS
    <2>1. SavedCardsTypeOK /\ DataOK /\ CustomersOK /\ DeletionsOK
      BY DEF SavedCardsInv, SavedCardsTypeOK
    <2>2. PICK k \in Saved : TRUE
      OBVIOUS
    <2>3. customer \in customers /\ customer \in Customer /\ k \in Card /\ holder[k] = customer
      BY <2>1, <2>2 DEF Saved, CustomersOK, DataOK
    <2>4. ~ UNCHANGED <<customer, holder>>
      BY DEF Saved
    <2>5. PICK p \in Asker : Moves(p)
      BY <2>4 DEF SavedCardsNext, Moves, SittingCancelled, billing, atStripe
    <2>6. CASE CardDetached(p)
      <3>1. /\ On(p, "detach") /\ ask[p].card \in Card
            /\ holder' = [holder EXCEPT ![ask[p].card] = "gone"] /\ customer' = customer
        BY <2>1, <2>6 DEF CardDetached, billing, Saved
      <3>2. Saved = {ask[p].card}
        BY <2>1, <2>6, <3>1 DEF Saved, DataOK, CardDetached
      <3> QED BY <2>1, <3>1, <3>2 DEF DeletionsOK, Looking, On
    <2>7. ~ CardSaved(p, k) /\ \A j \in Card : CardSaved(p, j) => Saved' # {}
      <3>1. ASSUME NEW j \in Card, CardSaved(p, j) PROVE j \in Saved'
        BY <2>1, <3>1 DEF CardSaved, Saved, billing, CustomersOK, On, DataOK
      <3>2. ~ CardSaved(p, k)
        BY <2>3 DEF CardSaved
      <3> QED BY <3>1, <3>2
    <2>8. ~ CustomerRecorded(p)
      <3> SUFFICES ASSUME CustomerRecorded(p) PROVE FALSE
        OBVIOUS
      <3>1. customer' \in customers /\ holder' = holder
        BY <2>1 DEF CustomerRecorded, CustomersOK, On, atStripe
      <3> QED BY <2>1, <2>3, <2>4, <3>1 DEF CustomersOK
    <2>9. CASE SetupReads(p) \/ CustomerCreated(p) \/ DeleteLists(p) \/ DeleteChecks(p) \/ SittingApproved(p)
      BY <2>4, <2>9 DEF SetupReads, CustomerCreated, DeleteLists, DeleteChecks, SittingApproved, billing, atStripe
    <2>10. CASE Quietly(p)
      BY <2>4, <2>10 DEF Quietly
    <2> QED BY <2>1, <2>5, <2>6, <2>7, <2>8, <2>9, <2>10, QuietMoves DEF Loud
  <1> QED BY <1>1, SavedCardsInvariance, PTL DEF SavedCardsSpec, LastCardIsKept

-----------------------------------------------------------------------------
(* The account of the nanny. *)

Calling ==
  [pc : {"idle", "create", "record", "form", "status", "note", "apply", "settle"},
   account : Account \cup {NoAccount}, of : Nat, noted : BOOLEAN]

PayoutTypeOK ==
  /\ account \in Account \cup {NoAccount} /\ onboarded \in BOOLEAN
  /\ accounts \in SUBSET Account /\ changes \in Nat /\ handled \in SUBSET Nat
  /\ call \in [Caller -> Calling] /\ drops \in Nat

(* There is one account at most; whoever is past making it has it, and it is
   on record before anybody fills it in. *)
AccountsOK ==
  /\ \A a, b \in accounts : a = b
  /\ account \in accounts \cup {NoAccount}
  /\ \A p \in Caller :
       /\ InCall(p, "record") => call[p].account \in accounts
       /\ call[p].pc \in {"form", "status", "note", "apply"} =>
            account \in accounts /\ call[p].account = account
  /\ changes > 0 => account \in accounts

PayoutInv == PayoutTypeOK /\ AccountsOK

USE PayoutAccountsAssumptions

LEMMA UncalledIsTyped == Uncalled \in Calling /\ Uncalled.pc = "idle"
  BY DEF Uncalled, Calling

LEMMA PayoutStart == PayoutInit => PayoutInv
  <1> SUFFICES ASSUME PayoutInit PROVE PayoutInv
    OBVIOUS
  <1>1. PayoutTypeOK
    BY UncalledIsTyped DEF PayoutInit, PayoutTypeOK
  <1>2. \A p \in Caller : call[p].pc = "idle"
    BY UncalledIsTyped DEF PayoutInit
  <1> QED BY <1>1, <1>2 DEF PayoutInit, PayoutInv, AccountsOK, InCall

\* One request or delivery at a time is another afterwards.
OneCall(p) ==
  /\ call' \in [Caller -> Calling]
  /\ \A q \in Caller : q # p => call'[q] = call[q]

LEMMA Called ==
  ASSUME PayoutTypeOK, NEW p \in Caller, NEW r \in Calling, Calls(p, r)
  PROVE  OneCall(p) /\ call'[p] = r
  BY DEF PayoutTypeOK, Calls, OneCall

LEMMA GoneOn ==
  ASSUME PayoutTypeOK, NEW p \in Caller,
         NEW pc \in {"create", "record", "form", "status", "note", "apply", "settle"}, GoesOn(p, pc)
  PROVE  OneCall(p) /\ call'[p].pc = pc /\ call'[p].account = call[p].account
  BY DEF PayoutTypeOK, GoesOn, OneCall, Calling

LEMMA Returned ==
  ASSUME PayoutTypeOK, NEW p \in Caller, Returns(p)
  PROVE  OneCall(p) /\ call'[p].pc = "idle"
  BY UncalledIsTyped DEF PayoutTypeOK, Returns, OneCall

\* A step that neither makes nor records an account.
LEMMA AccountsStand ==
  ASSUME PayoutInv, NEW p \in Caller, OneCall(p), account' = account, accounts' = accounts,
         onboarded' \in BOOLEAN, handled' \in SUBSET Nat, drops' \in Nat,
         changes' = changes \/ (changes' = changes + 1 /\ InCall(p, "form")),
         call'[p].pc \in {"idle", "create", "settle"} \/ (account # NoAccount /\ call'[p].account = account
                                                /\ call'[p].pc # "record")
  PROVE  PayoutInv'
  <1>1. PayoutTypeOK'
    BY DEF PayoutInv, PayoutTypeOK, OneCall
  <1>2. changes' > 0 => account \in accounts
    BY DEF PayoutInv, PayoutTypeOK, AccountsOK, InCall
  <1>3. AccountsOK'
    BY <1>2 DEF PayoutInv, AccountsOK, OneCall, InCall
  <1> QED BY <1>1, <1>3 DEF PayoutInv

LEMMA PayoutStep == PayoutInv /\ [PayoutNext]_payoutVars => PayoutInv'
  <1> SUFFICES ASSUME PayoutInv, [PayoutNext]_payoutVars PROVE PayoutInv'
    OBVIOUS
  <1>0. PayoutTypeOK /\ AccountsOK
    BY DEF PayoutInv
  <1>1. ASSUME NEW p \in Caller, LinkReads(p) PROVE PayoutInv'
    <2> DEFINE r == [Uncalled EXCEPT !.pc = IF account = NoAccount THEN "create" ELSE "form",
                                     !.account = account]
    <2>1. r \in Calling /\ r.account = account /\ (r.pc = "create" \/ (r.pc = "form" /\ account # NoAccount))
      BY <1>0, UncalledIsTyped DEF Calling, PayoutTypeOK
    <2>2. Calls(p, r)
      BY <1>1 DEF LinkReads
    <2> HIDE DEF r
    <2>3. OneCall(p) /\ call'[p] = r
      BY <1>0, <2>1, <2>2, Called
    <2> QED BY <1>0, <1>1, <2>1, <2>3, AccountsStand DEF LinkReads, PayoutTypeOK
  <1>2. ASSUME NEW p \in Caller, AccountCreated(p) PROVE PayoutInv'
    <2> DEFINE a == IF accounts = {} THEN NewAccount ELSE CHOOSE b \in accounts : TRUE
               r == [call[p] EXCEPT !.pc = "record", !.account = a]
    <2>1. a \in Account /\ accounts \cup {a} = {a}
      BY <1>0 DEF NewAccount, PayoutTypeOK, AccountsOK
    <2>2. AccountIs(p, a)
      BY <1>2 DEF AccountCreated
    <2> HIDE DEF a
    <2>3. r \in Calling /\ r.pc = "record" /\ r.account = a
      BY <1>0, <2>1 DEF PayoutTypeOK, Calling
    <2>4. call' = [call EXCEPT ![p] = r]
      BY <1>0, <2>2 DEF AccountIs, PayoutTypeOK
    <2> HIDE DEF r
    <2>5. OneCall(p) /\ call'[p] = r
      BY <1>0, <2>3, <2>4 DEF OneCall, PayoutTypeOK
    <2>6. accounts' = {a} /\ accounts \subseteq {a} /\ UNCHANGED <<account, onboarded, changes, handled, drops>>
      BY <2>1, <2>2 DEF AccountIs
    <2>7. PayoutTypeOK'
      BY <1>0, <2>1, <2>5, <2>6 DEF PayoutTypeOK, OneCall
    <2>8. AccountsOK'
      BY <1>0, <2>3, <2>5, <2>6 DEF AccountsOK, OneCall, InCall
    <2> QED BY <2>7, <2>8 DEF PayoutInv
  <1>3. ASSUME NEW p \in Caller, AccountRecorded(p) PROVE PayoutInv'
    <2>1. /\ OneCall(p) /\ call'[p].pc = "form" /\ call'[p].account = account'
          /\ account' \in accounts /\ onboarded' = FALSE /\ UNCHANGED <<accounts, changes, handled, drops>>
      BY <1>0, <1>3, GoneOn DEF AccountRecorded, AccountsOK
    <2>2. account \in {account', NoAccount} /\ NoAccount \notin accounts
      BY <1>0, <2>1 DEF AccountsOK, PayoutTypeOK
    <2>3. PayoutTypeOK'
      BY <1>0, <2>1 DEF PayoutTypeOK, OneCall
    <2>4. AccountsOK'
      BY <1>0, <2>1, <2>2 DEF AccountsOK, OneCall, InCall
    <2> QED BY <2>3, <2>4 DEF PayoutInv
  <1>4. ASSUME NEW p \in Caller, FormClosed(p) PROVE PayoutInv'
    <2>1. OneCall(p) /\ call'[p].pc = "idle" /\ (changes' = changes \/ changes' = changes + 1) /\ InCall(p, "form")
      BY <1>0, <1>4, Returned DEF FormClosed
    <2> QED BY <1>0, <1>4, <2>1, AccountsStand DEF FormClosed, PayoutTypeOK
  <1>5. ASSUME NEW p \in Caller, StatusReads(p) PROVE PayoutInv'
    <2> DEFINE r == [Uncalled EXCEPT !.pc = "status", !.account = account, !.noted = onboarded]
    <2>1. r \in Calling /\ r.account = account /\ r.pc = "status"
      BY <1>0, UncalledIsTyped DEF Calling, PayoutTypeOK
    <2>2. Calls(p, r)
      BY <1>5 DEF StatusReads
    <2> HIDE DEF r
    <2>3. OneCall(p) /\ call'[p] = r
      BY <1>0, <2>1, <2>2, Called
    <2> QED BY <1>0, <1>5, <2>1, <2>3, AccountsStand DEF StatusReads, PayoutTypeOK
  <1>6. ASSUME NEW p \in Caller, StatusAsked(p) PROVE PayoutInv'
    <2>1. CASE Returns(p)
      BY <1>0, <1>6, <2>1, Returned, AccountsStand DEF StatusAsked, PayoutTypeOK
    <2>2. CASE ~ Returns(p)
      <3> DEFINE r == [call[p] EXCEPT !.pc = "note", !.of = changes]
      <3>1. r \in Calling /\ r.pc = "note" /\ r.account = call[p].account
        BY <1>0 DEF PayoutTypeOK, Calling
      <3>2. call' = [call EXCEPT ![p] = r]
        BY <1>0, <1>6, <2>2 DEF StatusAsked, PayoutTypeOK
      <3> HIDE DEF r
      <3>3. OneCall(p) /\ call'[p] = r
        BY <1>0, <3>1, <3>2 DEF OneCall, PayoutTypeOK
      <3>4. account # NoAccount /\ call[p].account = account
        BY <1>0, <1>6 DEF StatusAsked, AccountsOK, InCall, PayoutTypeOK
      <3> QED BY <1>0, <1>6, <3>1, <3>3, <3>4, AccountsStand DEF StatusAsked, PayoutTypeOK
    <2> QED BY <2>1, <2>2
  <1>7. ASSUME NEW p \in Caller, StatusNoted(p) PROVE PayoutInv'
    <2>1. account' = account /\ onboarded' \in BOOLEAN
      BY <1>0, <1>7 DEF StatusNoted, AccountsOK, InCall, Complete
    <2> QED BY <1>0, <1>7, <2>1, Returned, AccountsStand DEF StatusNoted, PayoutTypeOK
  <1>8. ASSUME NEW p \in Caller, NEW n \in 1..changes, EventArrives(p, n) PROVE PayoutInv'
    <2> DEFINE r == [Uncalled EXCEPT !.pc = "apply", !.account = account, !.of = n]
    <2>0. n \in Nat
      BY <1>0 DEF PayoutTypeOK
    <2>1. r \in Calling /\ r.account = account /\ r.pc = "apply"
      BY <1>0, <2>0, UncalledIsTyped DEF Calling, PayoutTypeOK
    <2>2. Calls(p, r)
      BY <1>8 DEF EventArrives
    <2> HIDE DEF r
    <2>3. OneCall(p) /\ call'[p] = r
      BY <1>0, <2>1, <2>2, Called
    <2> QED BY <1>0, <1>8, <2>1, <2>3, AccountsStand DEF EventArrives, PayoutTypeOK
  <1>9. ASSUME NEW p \in Caller, EventApplied(p) PROVE PayoutInv'
    <2>1. OneCall(p) /\ call'[p].pc = "settle" /\ onboarded' \in BOOLEAN
      BY <1>0, <1>9, GoneOn DEF EventApplied, Complete, PayoutTypeOK
    <2> QED BY <1>0, <1>9, <2>1, AccountsStand DEF EventApplied, PayoutTypeOK
  <1>10. ASSUME NEW p \in Caller, EventSettled(p) PROVE PayoutInv'
    <2>1. handled' \in SUBSET Nat
      BY <1>0, <1>10 DEF EventSettled, PayoutTypeOK, Calling
    <2> QED BY <1>0, <1>10, <2>1, Returned, AccountsStand DEF EventSettled, PayoutTypeOK
  <1>11. ASSUME NEW p \in Caller, CallDropped(p) PROVE PayoutInv'
    BY <1>0, <1>11, Returned, AccountsStand DEF CallDropped, PayoutTypeOK
  <1>12. CASE UNCHANGED payoutVars
    BY <1>12 DEF payoutVars, PayoutInv, PayoutTypeOK, AccountsOK, InCall
  <1> QED BY <1>1, <1>2, <1>3, <1>4, <1>5, <1>6, <1>7, <1>8, <1>9, <1>10, <1>11, <1>12
         DEF PayoutNext, CallProceeds

LEMMA PayoutInvariance == PayoutSpec => []PayoutInv
  BY PayoutStart, PayoutStep, PTL DEF PayoutSpec

(* The one account that the nanny may have filled in is the one on record. *)
THEOREM AccountOnRecord == PayoutSpec => []AccountIsOnRecord
  <1>1. PayoutInv => AccountIsOnRecord
    BY DEF PayoutInv, AccountsOK, AccountIsOnRecord
  <1> QED BY <1>1, PayoutInvariance, PTL

(* Whoever is about to write down what Stripe said has it of a change that the
   account went through, and a fresh account is not complete. *)
Heard == \E n \in 1..changes : Complete(n)
NotedOK ==
  /\ onboarded => Heard
  /\ \A p \in Caller : call[p].pc \in {"note", "apply"} => call[p].of \in 0..changes

\* A step that writes nothing down and of whose request nothing is to be.
LEMMA NotedStands ==
  ASSUME PayoutInv, NotedOK, NEW p \in Caller, \A q \in Caller : q # p => call'[q] = call[q],
         changes' = changes \/ changes' = changes + 1, onboarded' => onboarded \/ Heard,
         call'[p].pc \in {"note", "apply"} => call'[p].of \in 0..changes
  PROVE  NotedOK'
  <1>1. changes \in Nat /\ changes' \in Nat
    BY DEF PayoutInv, PayoutTypeOK
  <1>2. 0..changes \subseteq 0..changes' /\ 1..changes \subseteq 1..changes'
    BY <1>1
  <1>3. onboarded' => Heard'
    BY <1>2 DEF NotedOK, Heard
  <1>4. ASSUME NEW q \in Caller, call'[q].pc \in {"note", "apply"} PROVE call'[q].of \in 0..changes'
    BY <1>2, <1>4 DEF NotedOK
  <1> QED BY <1>3, <1>4 DEF NotedOK

LEMMA NotedStep == PayoutInv /\ NotedOK /\ [PayoutNext]_payoutVars => NotedOK'
  <1> SUFFICES ASSUME PayoutInv, NotedOK, [PayoutNext]_payoutVars PROVE NotedOK'
    OBVIOUS
  <1>0. PayoutTypeOK /\ Uncalled \in Calling /\ Uncalled.pc = "idle"
    BY UncalledIsTyped DEF PayoutInv
  <1>1. ASSUME NEW n \in 0..changes, Complete(n) PROVE Heard
    <2>1. n # 0
      BY <1>1 DEF Complete
    <2> QED BY <1>0, <1>1, <2>1 DEF Heard, PayoutTypeOK
  <1>2. ASSUME NEW p \in Caller, LinkReads(p) PROVE NotedOK'
    <2> DEFINE r == [Uncalled EXCEPT !.pc = IF account = NoAccount THEN "create" ELSE "form",
                                     !.account = account]
    <2>1. r \in Calling /\ r.pc \in {"create", "form"}
      BY <1>0 DEF Calling, PayoutTypeOK
    <2>2. Calls(p, r)
      BY <1>2 DEF LinkReads
    <2> HIDE DEF r
    <2> QED BY <1>0, <1>2, <2>1, <2>2, Called, NotedStands DEF LinkReads, OneCall
  <1>3. ASSUME NEW p \in Caller, StatusReads(p) PROVE NotedOK'
    <2> DEFINE r == [Uncalled EXCEPT !.pc = "status", !.account = account, !.noted = onboarded]
    <2>1. r \in Calling /\ r.pc = "status"
      BY <1>0 DEF Calling, PayoutTypeOK
    <2>2. Calls(p, r)
      BY <1>3 DEF StatusReads
    <2> HIDE DEF r
    <2> QED BY <1>0, <1>3, <2>1, <2>2, Called, NotedStands DEF StatusReads, OneCall
  <1>4. ASSUME NEW p \in Caller, NEW n \in 1..changes, EventArrives(p, n) PROVE NotedOK'
    <2> DEFINE r == [Uncalled EXCEPT !.pc = "apply", !.account = account, !.of = n]
    <2>1. n \in 0..changes /\ n \in Nat
      BY <1>0 DEF PayoutTypeOK
    <2>2. r \in Calling /\ r.of = n
      BY <1>0, <2>1 DEF Calling, PayoutTypeOK
    <2>3. Calls(p, r)
      BY <1>4 DEF EventArrives
    <2> HIDE DEF r
    <2>4. OneCall(p) /\ call'[p] = r
      BY <1>0, <2>2, <2>3, Called
    <2> QED BY <1>4, <2>1, <2>2, <2>4, NotedStands DEF EventArrives, OneCall
  <1>5. ASSUME NEW p \in Caller, StatusAsked(p) PROVE NotedOK'
    <2>1. CASE Returns(p)
      BY <1>0, <1>5, <2>1, Returned, NotedStands DEF StatusAsked, OneCall
    <2>2. CASE ~ Returns(p)
      <3> DEFINE r == [call[p] EXCEPT !.pc = "note", !.of = changes]
      <3>1. r \in Calling /\ r.of = changes
        BY <1>0 DEF PayoutTypeOK, Calling
      <3>2. call' = [call EXCEPT ![p] = r]
        BY <1>0, <1>5, <2>2 DEF StatusAsked, PayoutTypeOK
      <3> HIDE DEF r
      <3>3. call'[p] = r /\ \A q \in Caller : q # p => call'[q] = call[q]
        BY <1>0, <3>2 DEF PayoutTypeOK
      <3>4. changes \in 0..changes
        BY <1>0 DEF PayoutTypeOK
      <3> QED BY <1>5, <3>1, <3>3, <3>4, NotedStands DEF StatusAsked
    <2> QED BY <2>1, <2>2
  <1>6. ASSUME NEW p \in Caller, StatusNoted(p) PROVE NotedOK'
    <2>1. onboarded' => Heard
      BY <1>1, <1>6 DEF StatusNoted, InCall, NotedOK
    <2> QED BY <1>0, <1>6, <2>1, Returned, NotedStands DEF StatusNoted, OneCall
  <1>7. ASSUME NEW p \in Caller, EventApplied(p) PROVE NotedOK'
    <2>1. onboarded' => onboarded \/ Heard
      BY <1>1, <1>7 DEF EventApplied, InCall, NotedOK
    <2> QED BY <1>0, <1>7, <2>1, GoneOn, NotedStands DEF EventApplied, OneCall
  <1>8. ASSUME NEW p \in Caller, AccountCreated(p) \/ AccountRecorded(p) PROVE NotedOK'
    <2>1. /\ call'[p].pc \in {"record", "form"} /\ \A q \in Caller : q # p => call'[q] = call[q]
          /\ changes' = changes /\ (onboarded' => onboarded)
      BY <1>0, <1>8, GoneOn DEF AccountCreated, AccountIs, AccountRecorded, PayoutTypeOK, OneCall, Calling
    <2> QED BY <2>1, NotedStands
  <1>9. ASSUME NEW p \in Caller, FormClosed(p) \/ EventSettled(p) \/ CallDropped(p) PROVE NotedOK'
    <2>1. OneCall(p) /\ call'[p].pc = "idle" /\ onboarded' = onboarded
          /\ (changes' = changes \/ changes' = changes + 1)
      BY <1>0, <1>9, Returned DEF FormClosed, EventSettled, CallDropped
    <2> QED BY <2>1, NotedStands DEF OneCall
  <1>10. CASE UNCHANGED payoutVars
    BY <1>10 DEF payoutVars, NotedOK, Heard
  <1> QED BY <1>2, <1>3, <1>4, <1>5, <1>6, <1>7, <1>8, <1>9, <1>10 DEF PayoutNext, CallProceeds

(* The nanny is taken for one who can be paid only on the account on record, and
   when Stripe has said so of it, however late or often its answers come. *)
THEOREM OnboardingEarned == PayoutSpec => []OnboardingIsEarned
  <1>1. PayoutInit => NotedOK
    BY UncalledIsTyped DEF PayoutInit, NotedOK
  <1>2. PayoutInv /\ NotedOK => OnboardingIsEarned
    <2> SUFFICES ASSUME PayoutInv, NotedOK, onboarded PROVE OnboardingIsEarned
      BY DEF OnboardingIsEarned
    <2>1. Heard /\ changes > 0
      BY DEF NotedOK, Heard, PayoutInv, PayoutTypeOK
    <2>2. accounts = {account}
      BY <2>1 DEF PayoutInv, AccountsOK
    <2> QED BY <2>1, <2>2 DEF OnboardingIsEarned, Heard
  <1> QED BY <1>1, <1>2, NotedStep, PayoutInvariance, PTL DEF PayoutSpec

-----------------------------------------------------------------------------
(* The composition.  A step of it is a step of one part, and the others
   stand still; so what is proved of a part holds of the whole. *)

LEMMA StepOfAPart ==
  [BillingNext]_billingVars =>
    [Next]_vars /\ [SavedCardsNext]_cardVars /\ [PayoutNext]_payoutVars /\ [RemindersNext]_reminderVars
  <1> SUFFICES ASSUME [BillingNext]_billingVars
               PROVE  /\ [Next]_vars /\ [SavedCardsNext]_cardVars
                      /\ [PayoutNext]_payoutVars /\ [RemindersNext]_reminderVars
    OBVIOUS
  <1>1. CASE UNCHANGED billingVars
    BY <1>1 DEF billingVars
  <1>2. CASE BillingNext
    BY <1>2 DEF BillingNext
  <1> QED BY <1>1, <1>2

(* Every behaviour that the runs look at is one of the charges, of the cards,
   of the account and of the reminders at once. *)
THEOREM BillingIsItsParts ==
  BillingSpec => Spec /\ SavedCardsSpec /\ PayoutSpec /\ RemindersSpec
  <1>1. BillingInit => Init /\ SavedCardsInit /\ PayoutInit /\ RemindersInit
    BY DEF BillingInit
  <1> QED BY <1>1, StepOfAPart, PTL DEF BillingSpec, Spec, SavedCardsSpec, PayoutSpec, RemindersSpec

(* Cards are saved with the customer on record, the account that the nanny has
   filled in is the one on record, and she is taken for payable only when Stripe
   has said so, however the requests interleave. *)
THEOREM MoneyOnRecord == BillingSpec => []MoneyIsOnRecord
  <1>1. CardsAreOnRecord /\ AccountIsOnRecord /\ OnboardingIsEarned => MoneyIsOnRecord
    BY DEF MoneyIsOnRecord
  <1> QED BY <1>1, BillingIsItsParts, CardsOnRecord, AccountOnRecord, OnboardingEarned, PTL
=============================================================================
