------------------------ MODULE BookingPaymentsProofs ------------------------
(***************************************************************************)
(* What the records of a payment are worth, for any number of bookings,    *)
(* intents and handlers and whatever fails.  The argument: what Stripe has *)
(* taken it may give back but never forgets (Remembers), so that whatever  *)
(* was true of an intent when a handler, an event or a row learnt of it is *)
(* true when it is used, however much later and in whatever order.         *)
(***************************************************************************)
EXTENDS BookingPayments, TLAPS

Taken == {"succeeded", "refunded"}

\* Stripe's first answer to a key does not promise more than the intent holds.
AnswersTrue == \A i \in Intent :
  intents[i].b # None /\ intents[i].answer = "succeeded" => intents[i].status \in Taken

EventTrue(e) ==
  /\ intents[e.i].b \in Booking
  /\ e.status = "succeeded" => intents[e.i].status \in Taken
  /\ e.status = "refunded" => intents[e.i].status = "refunded"

RowTrue(b) ==
  /\ row[b].charge = row[b].intent
  /\ row[b].charge # None => intents[row[b].charge].b = b
  /\ row[b].status \in Taken => row[b].charge # None /\ Captured(row[b].charge, b)
  /\ row[b].status = "refunded" => intents[row[b].charge].status = "refunded"

\* What a handler has learnt and will write down or act upon.
JobTrue(p) ==
  /\ h[p].pc \in {"record", "complete", "refund"} => h[p].b \in Booking
  /\ h[p].pc = "charge" => h[p].st \in {"first", "retry"}
  /\ h[p].pc = "record" =>
       /\ h[p].st \in RowStatus \ {"refunded"}
       /\ h[p].i # None => intents[h[p].i].b = h[p].b
       /\ h[p].st = "succeeded" => h[p].i # None /\ Captured(h[p].i, h[p].b)
  /\ h[p].pc = "complete" => \E i \in Intent : Captured(i, h[p].b)
  /\ h[p].pc = "refund" => h[p].i \in Intent /\ intents[h[p].i].b = h[p].b
  /\ h[p].pc = "recordRefund" => 
       h[p].i \in Intent /\ intents[h[p].i].b \in Booking /\ intents[h[p].i].status = "refunded"
  /\ h[p].pc \in {"applyEvent", "recordEvent"} =>
       [i |-> h[p].i, status |-> h[p].st] \in sent /\ h[p].i \in Intent

IInv ==
  /\ TypeOK
  /\ AnswersTrue
  /\ \A e \in sent : EventTrue(e)
  /\ \A b \in Booking : RowTrue(b)
  /\ \A p \in Handler : JobTrue(p)
  /\ CompletedOnlyIfCharged

\* Stripe keeps what it knows of an intent, and takes nothing back but by a refund.
Remembers ==
  \A i \in Intent : intents[i].b # None =>
    /\ intents'[i].b = intents[i].b
    /\ intents'[i].answer = intents[i].answer
    /\ intents'[i].key = intents[i].key
    /\ intents[i].status \in Taken => intents'[i].status \in Taken
    /\ intents[i].status = "refunded" => intents'[i].status = "refunded"

USE PaymentsAssumption

LEMMA IdleIsTyped ==
  Idle \in Job /\ Idle.pc = "idle" /\ Idle.b = None /\ Idle.i = None /\ Idle.st = None
  BY DEF Idle, Job

\* What a request is when it begins.
LEMMA StartIsTyped ==
  ASSUME NEW b \in Booking, NEW pc \in {"setup", "refundLookup"}
  PROVE  /\ [Idle EXCEPT !.pc = pc, !.b = b] \in Job
         /\ [Idle EXCEPT !.pc = pc, !.b = b].pc = pc
         /\ [Idle EXCEPT !.pc = pc, !.b = b].st = None
  BY IdleIsTyped DEF Job

LEMMA NoRowIsTyped == NoRow \in Row /\ NoRow.intent = None /\ NoRow.charge = None
                      /\ NoRow.status = "none"
  BY DEF NoRow, Row

LEMMA FreeIsFree == FreeIntent.b = None /\ FreeIntent.answer = None /\ FreeIntent.status = "free"
  BY DEF FreeIntent

LEMMA InvInit == Init => IInv
  <1> SUFFICES ASSUME Init PROVE IInv
    OBVIOUS
  <1>1. TypeOK
    BY IdleIsTyped, NoRowIsTyped DEF Init, TypeOK, Event
  <1>2. AnswersTrue
    BY FreeIsFree DEF Init, AnswersTrue
  <1>3. \A b \in Booking : RowTrue(b)
    BY NoRowIsTyped DEF Init, RowTrue, Taken
  <1>4. \A p \in Handler : JobTrue(p)
    BY IdleIsTyped DEF Init, JobTrue
  <1> QED BY <1>1, <1>2, <1>3, <1>4 DEF Init, IInv, CompletedOnlyIfCharged

-----------------------------------------------------------------------------
(* What stays true because Stripe remembers *)

LEMMA CapturedStays ==
  ASSUME Remembers, NEW i \in Intent, NEW b \in Booking, Captured(i, b)
  PROVE  Captured(i, b)'
  BY DEF Remembers, Captured, Taken

LEMMA RowStays ==
  ASSUME TypeOK, Remembers, NEW b \in Booking, RowTrue(b), row'[b] = row[b]
  PROVE  RowTrue(b)'
  <1>1. row[b].intent \in Intent \cup {None} /\ row[b].charge \in Intent \cup {None}
    BY DEF TypeOK, Row
  <1>2. row[b].status \in Taken => Captured(row[b].charge, b)'
    BY <1>1, CapturedStays DEF RowTrue
  <1> QED BY <1>1, <1>2 DEF Remembers, RowTrue, Captured, Taken

LEMMA JobStays ==
  ASSUME TypeOK, Remembers, NEW p \in Handler, JobTrue(p), h'[p] = h[p], sent \subseteq sent'
  PROVE  JobTrue(p)'
  <1>1. h[p] \in Job
    BY DEF TypeOK
  <1>2. h[p].i \in Intent \cup {None} /\ h[p].b \in Booking \cup {None}
    BY <1>1 DEF Job
  <1>3. \A i \in Intent, b \in Booking : Captured(i, b) => Captured(i, b)'
    BY CapturedStays
  <1> QED BY <1>2, <1>3 DEF JobTrue, Remembers

LEMMA EventsStay ==
  ASSUME TypeOK, Remembers, \A e \in sent : EventTrue(e)
  PROVE  \A e \in sent : EventTrue(e)'
  BY DEF TypeOK, Event, Remembers, EventTrue, Taken

LEMMA ChargedStays ==
  ASSUME Remembers, CompletedOnlyIfCharged,
         \A b \in Booking : status'[b] = "completed" => status[b] = "completed"
  PROVE  CompletedOnlyIfCharged'
  BY CapturedStays DEF CompletedOnlyIfCharged

-----------------------------------------------------------------------------
(* How a handler moves on *)

PC == {"idle", "setup", "lookup", "charge", "record", "complete", "refundLookup", "refund",
       "refundFailed", "recordRefund", "cancel", "applyEvent", "recordEvent"}

\* Only p moves.
Alone(p) == h' \in [Handler -> Job] /\ \A q \in Handler \ {p} : h'[q] = h[q]

LEMMA Goes ==
  ASSUME TypeOK, NEW p \in Handler, NEW pc \in PC, Go(p, pc)
  PROVE  /\ Alone(p) /\ h'[p].pc = pc
         /\ h'[p].b = h[p].b /\ h'[p].i = h[p].i /\ h'[p].st = h[p].st
  BY DEF TypeOK, Go, PC, Job, Alone

LEMMA Ends ==
  ASSUME TypeOK, NEW p \in Handler, Done(p)
  PROVE  Alone(p) /\ JobTrue(p)' /\ h'[p] = Idle
  BY IdleIsTyped DEF TypeOK, Done, Alone, JobTrue

LEMMA Answers ==
  ASSUME TypeOK, NEW p \in Handler, NEW i \in Intent \cup {None},
         NEW st \in RowStatus, Answer(p, i, st)
  PROVE  /\ Alone(p) /\ h'[p].pc = "record"
         /\ h'[p].b = h[p].b /\ h'[p].i = i /\ h'[p].st = st
  <1>1. h[p] \in Job /\ h \in [Handler -> Job]
    BY DEF TypeOK
  <1> DEFINE g == [h EXCEPT ![p].pc = "record"]
             k == [g EXCEPT ![p].i = i]
  <1>2. g \in [Handler -> Job] /\ g[p].pc = "record" /\ g[p].b = h[p].b
        /\ \A q \in Handler \ {p} : g[q] = h[q]
    BY <1>1 DEF Job
  <1>3. h' = [k EXCEPT ![p].st = st]
    BY <1>1 DEF Answer
  <1> HIDE DEF g
  <1>4. k \in [Handler -> Job] /\ k[p].pc = "record" /\ k[p].b = h[p].b /\ k[p].i = i
        /\ \A q \in Handler \ {p} : k[q] = h[q]
    BY <1>2 DEF Job
  <1> HIDE DEF k
  <1> QED BY <1>3, <1>4 DEF Job, Alone

\* A handler that carries nothing it has learnt.
LEMMA CarriesNothing ==
  ASSUME NEW p \in Handler,
         h'[p].pc \in {"idle", "setup", "lookup", "refundLookup", "refundFailed", "cancel"}
  PROVE  JobTrue(p)'
  BY DEF JobTrue

\* Stripe's answer, or its loss, is true of the intent.
LEMMA AnsweredTruly ==
  ASSUME TypeOK, NEW p \in Handler, NEW i \in Intent, NEW b \in Booking, h[p].b = b,
         NEW st \in {"succeeded", "processing"}, Answered(p, i, st),
         intents'[i].b = b, st = "succeeded" => Captured(i, b)'
  PROVE  Alone(p) /\ JobTrue(p)'
  <1>1. CASE Answer(p, i, st)
    BY <1>1, Answers DEF JobTrue, RowStatus, IntentStatus
  <1>2. CASE Answer(p, None, "failed")
    BY <1>2, Answers DEF JobTrue, RowStatus, IntentStatus
  <1> QED BY <1>1, <1>2 DEF Answered, Refused

-----------------------------------------------------------------------------
(* What is written to the table of payments *)

LEMMA Upserted ==
  ASSUME TypeOK, NEW b \in Booking, NEW i \in Intent \cup {None},
         NEW st \in RowStatus \ {"refunded"}, Upsert(b, i, st), UNCHANGED intents,
         i # None => intents[i].b = b, st = "succeeded" => i # None /\ Captured(i, b)
  PROVE  row' \in [Booking -> Row] /\ \A o \in Booking : row'[o] = row[o] \/ RowTrue(o)'
  <1> DEFINE new == [intent |-> i, status |-> st, charge |-> i]
  <1>1. row' = [row EXCEPT ![b] = new]
    BY DEF Upsert
  <1>2. new \in Row /\ new.intent = i /\ new.status = st /\ new.charge = i
    BY DEF Row
  <1> HIDE DEF new
  <1>3. row' \in [Booking -> Row] /\ row'[b] = new /\ \A o \in Booking \ {b} : row'[o] = row[o]
    BY <1>1, <1>2 DEF TypeOK
  <1>4. RowTrue(b)'
    BY <1>2, <1>3 DEF RowTrue, Captured, Taken
  <1> QED BY <1>3, <1>4

LEMMA MarkedRefunded ==
  ASSUME TypeOK, NEW i \in Intent, intents[i].status = "refunded", MarkRefunded(i),
         UNCHANGED intents, \A b \in Booking : RowTrue(b)
  PROVE  row' \in [Booking -> Row] /\ \A b \in Booking : RowTrue(b)'
  <1>1. ASSUME NEW b \in Booking PROVE row'[b] \in Row /\ RowTrue(b)'
    <2>1. row[b] \in Row /\ RowTrue(b)
      BY DEF TypeOK
    <2>2. CASE row[b].charge = i
      <3>1. row'[b] = [row[b] EXCEPT !.status = "refunded"]
        BY <2>2 DEF MarkRefunded
      <3>2. /\ row'[b] \in Row /\ row'[b].intent = row[b].intent /\ row'[b].charge = i
            /\ row'[b].status = "refunded"
        BY <2>1, <2>2, <3>1 DEF Row, RowStatus
      <3> QED BY <2>1, <2>2, <3>2 DEF RowTrue, Captured, Taken
    <2>3. CASE row[b].charge # i
      <3>1. row'[b] = row[b]
        BY <2>3 DEF MarkRefunded
      <3> QED BY <2>1, <3>1 DEF RowTrue, Captured
    <2> QED BY <2>2, <2>3
  <1>2. row' = [b \in Booking |-> row'[b]]
    BY DEF MarkRefunded
  <1> QED BY <1>1, <1>2

LEMMA MarkedStatus ==
  ASSUME TypeOK, NEW i \in Intent, NEW st \in IntentStatus, MarkStatus(i, st),
         st = "succeeded" => intents[i].status \in Taken,
         UNCHANGED intents, \A b \in Booking : RowTrue(b)
  PROVE  row' \in [Booking -> Row] /\ \A b \in Booking : RowTrue(b)'
  <1>1. ASSUME NEW b \in Booking PROVE row'[b] \in Row /\ RowTrue(b)'
    <2>1. row[b] \in Row /\ RowTrue(b)
      BY DEF TypeOK
    <2>2. CASE row[b] # NoRow /\ row[b].intent = i /\ row[b].status # "refunded"
      <3>1. row'[b] = [row[b] EXCEPT !.status = st, !.charge = i]
        BY <2>2 DEF MarkStatus
      <3>2. /\ row'[b] \in Row /\ row'[b].intent = i /\ row'[b].status = st
            /\ row'[b].charge = i
        BY <2>1, <2>2, <3>1 DEF Row, RowStatus
      <3>3. intents[i].b = b
        BY <2>1, <2>2 DEF RowTrue
      <3> QED BY <2>1, <2>2, <3>2, <3>3 DEF RowTrue, Captured, Taken, IntentStatus
    <2>3. CASE ~ (row[b] # NoRow /\ row[b].intent = i /\ row[b].status # "refunded")
      <3>1. row'[b] = row[b]
        BY <2>3 DEF MarkStatus
      <3> QED BY <2>1, <3>1 DEF RowTrue, Captured
    <2> QED BY <2>2, <2>3
  <1>2. row' = [b \in Booking |-> row'[b]]
    BY DEF MarkStatus
  <1> QED BY <1>1, <1>2

-----------------------------------------------------------------------------
(* Steps by what they touch *)

\* One handler moves on, and nothing else changes.
LEMMA HandlerStep ==
  ASSUME IInv, NEW p \in Handler, Alone(p), JobTrue(p)', UNCHANGED <<database, stripe, world>>
  PROVE  IInv'
  <1>1. Remembers /\ TypeOK'
    BY DEF IInv, TypeOK, Alone, Remembers, database, stripe, world
  <1>2. \A q \in Handler : JobTrue(q)'
    BY <1>1, JobStays DEF IInv, Alone, stripe
  <1>3. \A b \in Booking : RowTrue(b)'
    BY <1>1, RowStays DEF IInv, database
  <1>4. \A e \in sent' : EventTrue(e)'
    BY <1>1, EventsStay DEF IInv, stripe
  <1> QED BY <1>1, <1>2, <1>3, <1>4, ChargedStays DEF IInv, AnswersTrue, database, stripe

\* A handler writes to the table of payments.
LEMMA RowStep ==
  ASSUME IInv, NEW p \in Handler, Alone(p), JobTrue(p)',
         UNCHANGED <<status, processed, stripe, world>>,
         row' \in [Booking -> Row], \A o \in Booking : row'[o] = row[o] \/ RowTrue(o)'
  PROVE  IInv'
  <1>1. Remembers /\ TypeOK'
    BY DEF IInv, TypeOK, Alone, Remembers, stripe, world
  <1>2. \A q \in Handler : JobTrue(q)'
    BY <1>1, JobStays DEF IInv, Alone, stripe
  <1>3. \A b \in Booking : RowTrue(b)'
    BY <1>1, RowStays DEF IInv
  <1>4. \A e \in sent' : EventTrue(e)'
    BY <1>1, EventsStay DEF IInv, stripe
  <1> QED BY <1>1, <1>2, <1>3, <1>4, ChargedStays DEF IInv, AnswersTrue, stripe

\* A handler settles the booking.
LEMMA StatusStep ==
  ASSUME IInv, NEW p \in Handler, Done(p), UNCHANGED <<row, processed, stripe, world>>,
         status' \in [Booking -> {"approved", "completed", "cancelled"}],
         \A b \in Booking : status'[b] = "completed" =>
           status[b] = "completed" \/ \E i \in Intent : Captured(i, b)
  PROVE  IInv'
  <1>0. Alone(p) /\ JobTrue(p)'
    BY Ends DEF IInv
  <1>1. Remembers /\ TypeOK'
    BY <1>0 DEF IInv, TypeOK, Alone, Remembers, stripe, world
  <1>2. \A q \in Handler : JobTrue(q)'
    BY <1>0, <1>1, JobStays DEF IInv, Alone, stripe
  <1>3. \A b \in Booking : RowTrue(b)'
    BY <1>1, RowStays DEF IInv
  <1>4. \A e \in sent' : EventTrue(e)'
    BY <1>1, EventsStay DEF IInv, stripe
  <1>5. CompletedOnlyIfCharged'
    BY DEF IInv, CompletedOnlyIfCharged, Captured, stripe
  <1> QED BY <1>1, <1>2, <1>3, <1>4, <1>5 DEF IInv, AnswersTrue, stripe

\* Stripe learns something of an intent, reports it, and may answer a handler.
LEMMA StripeStep ==
  ASSUME IInv, Remembers, UNCHANGED <<database, world>>,
         intents' \in [Intent -> Payment \cup {FreeIntent}], AnswersTrue',
         NEW e \in Event, sent' = sent \cup {e}, EventTrue(e)',
         h' \in [Handler -> Job], \A p \in Handler : h'[p] = h[p] \/ JobTrue(p)'
  PROVE  IInv'
  <1>1. TypeOK'
    BY DEF IInv, TypeOK, database, world
  <1>2. \A q \in Handler : JobTrue(q)'
    BY JobStays DEF IInv
  <1>3. \A b \in Booking : RowTrue(b)'
    BY RowStays DEF IInv, database
  <1>4. \A f \in sent' : EventTrue(f)'
    BY EventsStay DEF IInv
  <1> QED BY <1>1, <1>2, <1>3, <1>4, ChargedStays DEF IInv, database

-----------------------------------------------------------------------------
(* Completing *)

LEMMA InvCompleteStart ==
  ASSUME IInv, NEW p \in Handler, NEW b \in Booking, CompleteStart(p, b)
  PROVE  IInv'
  <1>1. Alone(p) /\ h'[p].pc = "setup"
    BY StartIsTyped DEF IInv, TypeOK, CompleteStart, Begin, Alone
  <1> QED BY <1>1, CarriesNothing, HandlerStep DEF CompleteStart

LEMMA InvChargeSetupMissing ==
  ASSUME IInv, NEW p \in Handler, NEW b \in Booking, ChargeSetupMissing(p, b)
  PROVE  IInv'
  <1>1. Alone(p) /\ JobTrue(p)'
    BY Ends DEF IInv, ChargeSetupMissing
  <1>2. CASE Upsert(b, None, "failed")
    BY <1>1, <1>2, Upserted, RowStep DEF IInv, ChargeSetupMissing, stripe, RowStatus
  <1>3. CASE UNCHANGED row
    BY <1>1, <1>3, RowStep DEF IInv, TypeOK, ChargeSetupMissing
  <1> QED BY <1>2, <1>3 DEF ChargeSetupMissing

LEMMA InvChargeSetupFound ==
  ASSUME IInv, NEW p \in Handler, NEW b \in Booking, ChargeSetupFound(p, b)
  PROVE  IInv'
  BY Goes, CarriesNothing, HandlerStep DEF IInv, ChargeSetupFound, PC

LEMMA InvChargeLookup ==
  ASSUME IInv, NEW p \in Handler, NEW b \in Booking, ChargeLookup(p, b)
  PROVE  IInv'
  <1>1. CASE row[b].status = "succeeded" /\ Go(p, "complete")
    <2>1. Captured(row[b].charge, b) /\ row[b].charge \in Intent
      BY <1>1 DEF IInv, TypeOK, RowTrue, Row, Taken
    <2>2. Alone(p) /\ h'[p].pc = "complete" /\ h'[p].b = b
      BY <1>1, Goes DEF IInv, ChargeLookup, At, PC
    <2>3. JobTrue(p)'
      BY <2>1, <2>2 DEF JobTrue, ChargeLookup, Captured, stripe
    <2> QED BY <2>2, <2>3, HandlerStep DEF ChargeLookup
  <1>2. CASE Done(p)
    BY <1>2, Ends, HandlerStep DEF IInv, ChargeLookup
  <1>3. ASSUME NEW st \in {"first", "retry"}, h' = [h EXCEPT ![p].pc = "charge", ![p].st = st]
        PROVE  IInv'
    <2>1. h[p] \in Job /\ h \in [Handler -> Job]
      BY DEF IInv, TypeOK
    <2> DEFINE j == [h[p] EXCEPT !.pc = "charge", !.st = st]
    <2>2. j \in Job /\ j.pc = "charge" /\ j.st = st
      BY <2>1 DEF Job
    <2>3. h' = [h EXCEPT ![p] = j]
      BY <1>3, <2>1, Zenon
    <2> HIDE DEF j
    <2>4. Alone(p) /\ JobTrue(p)'
      BY <2>1, <2>2, <2>3 DEF Alone, JobTrue
    <2> QED BY <2>4, HandlerStep DEF ChargeLookup
  <1>4. CASE row[b].status \notin {"succeeded", "processing"}
    BY <1>3, <1>4 DEF ChargeLookup
  <1> QED BY <1>1, <1>2, <1>4 DEF ChargeLookup

LEMMA InvChargeRefused ==
  ASSUME IInv, NEW p \in Handler, NEW b \in Booking, ChargeRefused(p, b)
  PROVE  IInv'
  <1>1. Alone(p) /\ h'[p].pc = "record" /\ h'[p].b = b /\ h'[p].i = None /\ h'[p].st = "failed"
    BY Answers DEF IInv, ChargeRefused, Refused, At, RowStatus
  <1>2. JobTrue(p)'
    BY <1>1 DEF JobTrue, RowStatus
  <1> QED BY <1>1, <1>2, HandlerStep DEF ChargeRefused

LEMMA InvChargeReplayed ==
  ASSUME IInv, NEW p \in Handler, NEW b \in Booking, ChargeReplayed(p, b)
  PROVE  IInv'
  <1>1. PICK i \in FirstOf(b) : /\ At(p, "charge", b) /\ Answered(p, i, intents[i].answer)
                                /\ UNCHANGED <<database, stripe, world>>
    BY DEF ChargeReplayed
  <1>2. i \in Intent /\ intents[i].b = b /\ intents[i] \in Payment
    BY FreeIsFree DEF FirstOf, IInv, TypeOK
  <1>3. intents[i].answer \in {"succeeded", "processing"}
    BY <1>2 DEF Payment
  <1>4. intents[i].answer = "succeeded" => Captured(i, b)
    BY <1>2 DEF IInv, AnswersTrue, Captured, Taken
  <1>5. intents' = intents /\ h[p].b = b
    BY <1>1 DEF stripe, At
  <1>6. Alone(p) /\ JobTrue(p)'
    BY <1>1, <1>2, <1>3, <1>4, <1>5, AnsweredTruly DEF IInv, Captured
  <1> QED BY <1>1, <1>6, HandlerStep

LEMMA InvChargeCreated ==
  ASSUME IInv, NEW p \in Handler, NEW b \in Booking, ChargeCreated(p, b)
  PROVE  IInv'
  <1>1. PICK i \in Intent, st \in {"succeeded"} \cup (IF "async" \in fault THEN {"processing"} ELSE {}) :
          /\ At(p, "charge", b)
          /\ intents[i] = FreeIntent
          /\ intents' = [intents EXCEPT ![i] = [b |-> b, key |-> h[p].st, status |-> st, answer |-> st]]
          /\ sent' = sent \cup {[i |-> i, status |-> st]}
          /\ Answered(p, i, st)
          /\ UNCHANGED <<database, world>>
    BY DEF ChargeCreated
  <1>2. st \in {"succeeded", "processing"} /\ intents[i].b = None
    BY <1>1, FreeIsFree
  <1> DEFINE new == [b |-> b, key |-> h[p].st, status |-> st, answer |-> st]
             e == [i |-> i, status |-> st]
  <1>3. h[p].st \in {"first", "retry"} /\ h[p].b = b
    BY <1>1 DEF IInv, JobTrue, At
  <1>4. new \in Payment /\ new.b = b /\ new.status = st /\ new.answer = st
    BY <1>2, <1>3 DEF Payment, IntentStatus
  <1>5. e \in Event /\ e.i = i /\ e.status = st
    BY <1>2 DEF Event, IntentStatus
  <1>6. intents' = [intents EXCEPT ![i] = new] /\ sent' = sent \cup {e}
    BY <1>1
  <1> HIDE DEF new, e
  <1>7. /\ intents' \in [Intent -> Payment \cup {FreeIntent}]
        /\ intents'[i] = new /\ \A j \in Intent \ {i} : intents'[j] = intents[j]
    BY <1>4, <1>6 DEF IInv, TypeOK
  <1>8. Remembers
    BY <1>2, <1>7 DEF Remembers
  <1>9. AnswersTrue'
    BY <1>4, <1>7 DEF IInv, AnswersTrue, Taken
  <1>10. EventTrue(e)'
    BY <1>2, <1>4, <1>5, <1>7 DEF EventTrue, Taken
  <1>11. Alone(p) /\ JobTrue(p)'
    BY <1>1, <1>2, <1>3, <1>4, <1>7, AnsweredTruly DEF IInv, Captured
  <1> QED BY <1>1, <1>5, <1>6, <1>7, <1>8, <1>9, <1>10, <1>11, StripeStep DEF Alone

LEMMA InvRecordCharge ==
  ASSUME IInv, NEW p \in Handler, NEW b \in Booking, RecordCharge(p, b)
  PROVE  IInv'
  <1>1. /\ h[p].i \in Intent \cup {None} /\ h[p].st \in RowStatus \ {"refunded"} /\ h[p].b = b
        /\ h[p].i # None => intents[h[p].i].b = b
        /\ h[p].st = "succeeded" => h[p].i # None /\ Captured(h[p].i, b)
    <2>1. h[p] \in Job
      BY DEF IInv, TypeOK
    <2> QED BY <2>1 DEF IInv, JobTrue, RecordCharge, At, Job
  <1>2. CASE Upsert(b, h[p].i, h[p].st)
    <2>1. row' \in [Booking -> Row] /\ \A o \in Booking : row'[o] = row[o] \/ RowTrue(o)'
      BY <1>1, <1>2, Upserted DEF IInv, RecordCharge, stripe
    <2>2. CASE h[p].st = "succeeded" /\ Go(p, "complete")
      <3>1. Alone(p) /\ h'[p].pc = "complete" /\ h'[p].b = b
        BY <1>1, <2>2, Goes DEF IInv, PC
      <3>2. JobTrue(p)'
        BY <1>1, <2>2, <3>1 DEF JobTrue, RecordCharge, Captured, stripe
      <3> QED BY <2>1, <3>1, <3>2, RowStep DEF RecordCharge
    <2>3. CASE Done(p)
      BY <2>1, <2>3, Ends, RowStep DEF IInv, RecordCharge
    <2>4. Done(p) \/ (h[p].st = "succeeded" /\ Go(p, "complete"))
      BY DEF RecordCharge
    <2> QED BY <2>2, <2>3, <2>4
  <1>3. CASE Done(p) /\ UNCHANGED row
    BY <1>3, Ends, RowStep DEF IInv, TypeOK, RecordCharge
  <1> QED BY <1>2, <1>3 DEF RecordCharge

LEMMA InvCompleteBooking ==
  ASSUME IInv, NEW p \in Handler, NEW b \in Booking, CompleteBooking(p, b)
  PROVE  IInv'
  <1>1. \E i \in Intent : Captured(i, b)
    BY DEF IInv, JobTrue, CompleteBooking, At
  <1> QED BY <1>1, StatusStep DEF IInv, TypeOK, CompleteBooking

-----------------------------------------------------------------------------
(* Cancelling *)

LEMMA InvCancelStart ==
  ASSUME IInv, NEW p \in Handler, NEW b \in Booking, CancelStart(p, b)
  PROVE  IInv'
  <1>1. Alone(p) /\ h'[p].pc = "refundLookup"
    BY StartIsTyped DEF IInv, TypeOK, CancelStart, Begin, Alone
  <1> QED BY <1>1, CarriesNothing, HandlerStep DEF CancelStart

LEMMA InvRefundLookup ==
  ASSUME IInv, NEW p \in Handler, NEW b \in Booking, RefundLookup(p, b)
  PROVE  IInv'
  <1>1. h[p] \in Job /\ h \in [Handler -> Job] /\ h[p].b = b /\ UNCHANGED intents
    BY DEF IInv, TypeOK, RefundLookup, At, stripe
  <1>2. CASE row[b].charge # None /\ row[b].status \in {"succeeded", "processing"}
    <2> DEFINE j == [h[p] EXCEPT !.pc = "refund", !.i = row[b].charge]
    <2>1. row[b].charge \in Intent /\ intents[row[b].charge].b = b
      BY <1>2 DEF IInv, TypeOK, Row, RowTrue
    <2>2. j \in Job /\ j.pc = "refund" /\ j.b = b /\ j.i = row[b].charge
      BY <1>1, <2>1 DEF Job
    <2>3. h' = [h EXCEPT ![p].pc = "refund", ![p].i = row[b].charge]
      BY <1>2 DEF RefundLookup
    <2>4. h' = [h EXCEPT ![p] = j]
      BY <1>1, <2>3, Zenon
    <2> HIDE DEF j
    <2>5. Alone(p) /\ JobTrue(p)'
      BY <1>1, <2>1, <2>2, <2>4 DEF Alone, JobTrue
    <2> QED BY <2>5, HandlerStep DEF RefundLookup
  <1>3. CASE h' = [h EXCEPT ![p].pc = "cancel"]
    BY <1>3, Goes, CarriesNothing, HandlerStep DEF IInv, RefundLookup, Go, PC
  <1> QED BY <1>2, <1>3 DEF RefundLookup

LEMMA InvRefundCreated ==
  ASSUME IInv, NEW p \in Handler, NEW b \in Booking, RefundCreated(p, b)
  PROVE  IInv'
  <1>1. h[p].i \in Intent /\ Captured(h[p].i, b) /\ h[p].b = b /\ h[p] \in Job
    BY DEF IInv, TypeOK, JobTrue, RefundCreated, Refundable, Captured, At
  <1>0. PICK i \in Intent : i = h[p].i
    BY <1>1
  <1> DEFINE e == [i |-> i, status |-> "refunded"]
  <1>2. e \in Event /\ e.i = i /\ e.status = "refunded"
    BY <1>1 DEF Event
  <1>3. intents[i] \in Payment /\ intents \in [Intent -> Payment \cup {FreeIntent}]
    BY <1>0, <1>1, FreeIsFree DEF IInv, TypeOK, Captured
  <1>4. sent' = sent \cup {e} /\ intents' = [intents EXCEPT ![i].status = "refunded"]
    BY <1>0 DEF RefundCreated
  <1> HIDE DEF e
  <1>5. /\ intents'[i] \in Payment /\ intents'[i].status = "refunded"
        /\ intents'[i].b = intents[i].b /\ intents'[i].key = intents[i].key
        /\ intents'[i].answer = intents[i].answer
        /\ \A j \in Intent \ {i} : intents'[j] = intents[j]
        /\ intents' \in [Intent -> Payment \cup {FreeIntent}]
    BY <1>1, <1>3, <1>4 DEF Payment
  <1>6. Remembers
    BY <1>5 DEF Remembers, Taken
  <1>7. AnswersTrue'
    BY <1>5 DEF IInv, AnswersTrue, Taken
  <1>8. EventTrue(e)'
    BY <1>0, <1>1, <1>2, <1>5 DEF EventTrue, Captured
  <1>9. CASE Go(p, "recordRefund")
    <2>1. Alone(p) /\ h'[p].pc = "recordRefund" /\ h'[p].i = i
      BY <1>0, <1>9, Goes DEF IInv, PC
    <2>2. JobTrue(p)'
      BY <1>0, <1>1, <1>5, <2>1 DEF JobTrue, Captured
    <2> QED BY <1>2, <1>4, <1>5, <1>6, <1>7, <1>8, <2>1, <2>2, StripeStep DEF Alone, RefundCreated
  <1>10. CASE Go(p, "refundFailed")
    <2>1. Alone(p) /\ JobTrue(p)'
      BY <1>10, Goes, CarriesNothing DEF IInv, PC
    <2> QED BY <1>2, <1>4, <1>5, <1>6, <1>7, <1>8, <2>1, StripeStep DEF Alone, RefundCreated
  <1> QED BY <1>9, <1>10 DEF RefundCreated

LEMMA InvRefundRefused ==
  ASSUME IInv, NEW p \in Handler, NEW b \in Booking, RefundRefused(p, b)
  PROVE  IInv'
  BY Goes, CarriesNothing, HandlerStep DEF IInv, RefundRefused, PC

LEMMA InvRefundFailed ==
  ASSUME IInv, NEW p \in Handler, NEW b \in Booking, RefundFailed(p, b)
  PROVE  IInv'
  BY Ends, HandlerStep DEF IInv, RefundFailed

LEMMA InvRecordRefund ==
  ASSUME IInv, NEW p \in Handler, NEW b \in Booking, RecordRefund(p, b)
  PROVE  IInv'
  <1>1. h[p].i \in Intent /\ intents[h[p].i].status = "refunded"
    BY DEF IInv, JobTrue, RecordRefund, At
  <1>2. row' \in [Booking -> Row] /\ \A o \in Booking : RowTrue(o)'
    BY <1>1, MarkedRefunded DEF IInv, RecordRefund, stripe
  <1>3. Alone(p) /\ JobTrue(p)'
    BY Goes, CarriesNothing DEF IInv, RecordRefund, PC
  <1> QED BY <1>2, <1>3, RowStep DEF RecordRefund

LEMMA InvCancelBooking ==
  ASSUME IInv, NEW p \in Handler, NEW b \in Booking, CancelBooking(p, b)
  PROVE  IInv'
  BY StatusStep DEF IInv, TypeOK, CancelBooking

LEMMA InvAgreedCancel ==
  ASSUME IInv, NEW b \in Booking, AgreedCancel(b)
  PROVE  IInv'
  <1>1. Remembers /\ TypeOK'
    BY DEF IInv, TypeOK, AgreedCancel, Remembers, stripe, world
  <1>2. \A q \in Handler : JobTrue(q)'
    BY <1>1, JobStays DEF IInv, AgreedCancel, stripe
  <1>3. \A o \in Booking : RowTrue(o)'
    BY <1>1, RowStays DEF IInv, AgreedCancel
  <1>4. \A e \in sent' : EventTrue(e)'
    BY <1>1, EventsStay DEF IInv, AgreedCancel, stripe
  <1>5. \A o \in Booking : status'[o] = "completed" => status[o] = "completed"
    BY DEF IInv, TypeOK, AgreedCancel
  <1> QED BY <1>1, <1>2, <1>3, <1>4, <1>5, ChargedStays
          DEF IInv, AnswersTrue, AgreedCancel, stripe

-----------------------------------------------------------------------------
(* Webhooks, Stripe and the world *)

LEMMA InvWebhookStart ==
  ASSUME IInv, NEW p \in Handler, NEW e \in Event, WebhookStart(p, e)
  PROVE  IInv'
  <1> DEFINE j == [pc |-> "applyEvent", b |-> None, i |-> e.i, st |-> e.status]
  <1>1. j \in Job /\ j.pc = "applyEvent" /\ [i |-> j.i, status |-> j.st] = e /\ j.i \in Intent
    BY DEF Job, Event, RowStatus
  <1>2. h' = [h EXCEPT ![p] = j]
    BY DEF WebhookStart, Begin
  <1> HIDE DEF j
  <1>3. Alone(p) /\ JobTrue(p)'
    BY <1>1, <1>2 DEF IInv, TypeOK, Alone, JobTrue, WebhookStart, stripe
  <1> QED BY <1>3, HandlerStep DEF WebhookStart

LEMMA InvApplyEvent ==
  ASSUME IInv, NEW p \in Handler, ApplyEvent(p)
  PROVE  IInv'
  <1> DEFINE e == [i |-> h[p].i, status |-> h[p].st]
  <1>1. e \in sent /\ e \in Event /\ e.i = h[p].i /\ e.status = h[p].st /\ h[p].i \in Intent
    BY DEF IInv, TypeOK, JobTrue, ApplyEvent
  <1>2. EventTrue(e) /\ e.status \in IntentStatus \cup {"refunded"}
    BY <1>1 DEF IInv, Event
  <1> HIDE DEF e
  <1>3. row' \in [Booking -> Row] /\ \A b \in Booking : RowTrue(b)'
    <2>1. CASE h[p].st = "refunded"
      BY <1>1, <1>2, <2>1, MarkedRefunded DEF IInv, ApplyEvent, EventTrue, stripe
    <2>2. CASE h[p].st # "refunded"
      BY <1>1, <1>2, <2>2, MarkedStatus DEF IInv, ApplyEvent, EventTrue, stripe
    <2> QED BY <2>1, <2>2
  <1>4. /\ Alone(p) /\ h'[p].pc = "recordEvent"
        /\ h'[p].i = h[p].i /\ h'[p].st = h[p].st
    BY Goes DEF IInv, ApplyEvent, PC
  <1>5. JobTrue(p)'
    BY <1>4 DEF IInv, JobTrue, ApplyEvent, stripe
  <1> QED BY <1>3, <1>4, <1>5, RowStep DEF ApplyEvent

LEMMA InvRecordEvent ==
  ASSUME IInv, NEW p \in Handler, RecordEvent(p)
  PROVE  IInv'
  <1>0. Alone(p) /\ JobTrue(p)'
    BY Ends DEF IInv, RecordEvent
  <1>1. Remembers /\ TypeOK'
    BY <1>0 DEF IInv, TypeOK, RecordEvent, JobTrue, Alone, Remembers, stripe, world
  <1>2. \A q \in Handler : JobTrue(q)'
    BY <1>0, <1>1, JobStays DEF IInv, Alone, RecordEvent, stripe
  <1>3. \A b \in Booking : RowTrue(b)'
    BY <1>1, RowStays DEF IInv, RecordEvent
  <1>4. \A e \in sent' : EventTrue(e)'
    BY <1>1, EventsStay DEF IInv, RecordEvent, stripe
  <1> QED BY <1>1, <1>2, <1>3, <1>4, ChargedStays DEF IInv, AnswersTrue, RecordEvent, stripe

LEMMA InvSettle ==
  ASSUME IInv, NEW i \in Intent, Settle(i)
  PROVE  IInv'
  <1>1. PICK st \in {"succeeded", "requires_payment_method"} :
          /\ intents[i].status = "processing"
          /\ intents' = [intents EXCEPT ![i].status = st]
          /\ sent' = sent \cup {[i |-> i, status |-> st]}
          /\ UNCHANGED <<database, world, h>>
    BY DEF Settle
  <1> DEFINE e == [i |-> i, status |-> st]
  <1>2. e \in Event /\ e.i = i /\ e.status = st
    BY DEF Event, IntentStatus
  <1>3. intents[i] \in Payment /\ intents \in [Intent -> Payment \cup {FreeIntent}]
    BY <1>1, FreeIsFree DEF IInv, TypeOK
  <1>4. sent' = sent \cup {e}
    BY <1>1
  <1> HIDE DEF e
  <1>5. /\ intents'[i] \in Payment /\ intents'[i].status = st
        /\ intents'[i].b = intents[i].b /\ intents'[i].key = intents[i].key
        /\ intents'[i].answer = intents[i].answer
        /\ \A j \in Intent \ {i} : intents'[j] = intents[j]
        /\ intents' \in [Intent -> Payment \cup {FreeIntent}]
    BY <1>1, <1>3 DEF Payment, IntentStatus
  <1>6. Remembers
    BY <1>1, <1>5 DEF Remembers, Taken
  <1>7. AnswersTrue'
    BY <1>1, <1>3, <1>5 DEF IInv, AnswersTrue, Taken, Payment
  <1>8. EventTrue(e)'
    BY <1>2, <1>3, <1>5 DEF EventTrue, Payment, Taken
  <1>9. h' \in [Handler -> Job]
    BY <1>1 DEF IInv, TypeOK
  <1> QED BY <1>1, <1>2, <1>4, <1>5, <1>6, <1>7, <1>8, <1>9, StripeStep

LEMMA InvSetupChanges ==
  ASSUME IInv, NEW b \in Booking, SetupChanges(b)
  PROVE  IInv'
  <1>1. Remembers /\ TypeOK'
    BY DEF IInv, TypeOK, SetupChanges, Remembers, stripe, database
  <1>2. \A q \in Handler : JobTrue(q)'
    BY <1>1, JobStays DEF IInv, SetupChanges, stripe
  <1>3. \A o \in Booking : RowTrue(o)'
    BY <1>1, RowStays DEF IInv, SetupChanges, database
  <1>4. \A e \in sent' : EventTrue(e)'
    BY <1>1, EventsStay DEF IInv, SetupChanges, stripe
  <1> QED BY <1>1, <1>2, <1>3, <1>4, ChargedStays
          DEF IInv, AnswersTrue, SetupChanges, stripe, database

LEMMA InvCrash ==
  ASSUME IInv, NEW p \in Handler, Crash(p)
  PROVE  IInv'
  BY Ends, HandlerStep DEF IInv, Crash

-----------------------------------------------------------------------------
(* The theorems *)

LEMMA InvStep == IInv /\ [Next]_vars => IInv'
  <1> SUFFICES ASSUME IInv, [Next]_vars PROVE IInv'
    OBVIOUS
  <1>1. CASE UNCHANGED vars
    BY <1>1 DEF vars, database, stripe, world, IInv, TypeOK, AnswersTrue, EventTrue, RowTrue,
                JobTrue, CompletedOnlyIfCharged, Captured
  <1>2. ASSUME NEW p \in Handler, NEW b \in Booking, Work(p, b) PROVE IInv'
    BY <1>2, InvChargeSetupMissing, InvChargeSetupFound, InvChargeLookup, InvChargeRefused,
       InvChargeReplayed, InvChargeCreated, InvRecordCharge, InvCompleteBooking,
       InvRefundLookup, InvRefundCreated, InvRefundRefused, InvRefundFailed, InvRecordRefund,
       InvCancelBooking DEF Work
  <1>3. ASSUME NEW p \in Handler, NEW b \in Booking, CompleteStart(p, b) \/ CancelStart(p, b)
        PROVE  IInv'
    BY <1>3, InvCompleteStart, InvCancelStart
  <1>4. ASSUME NEW p \in Handler, NEW e \in Event, WebhookStart(p, e) PROVE IInv'
    BY <1>4, InvWebhookStart
  <1>5. ASSUME NEW p \in Handler, Report(p) \/ Crash(p) PROVE IInv'
    BY <1>5, InvApplyEvent, InvRecordEvent, InvCrash DEF Report
  <1>6. ASSUME NEW b \in Booking, AgreedCancel(b) \/ SetupChanges(b) PROVE IInv'
    BY <1>6, InvAgreedCancel, InvSetupChanges
  <1>7. ASSUME NEW i \in Intent, Settle(i) PROVE IInv'
    BY <1>7, InvSettle
  <1> QED BY <1>1, <1>2, <1>3, <1>4, <1>5, <1>6, <1>7 DEF Next

LEMMA Invariance == Spec => []IInv
  BY InvInit, InvStep, PTL DEF Spec

(* Types of the tables of bookings, payments and webhook events, of Stripe's
   intents and of what the handlers remember. *)
THEOREM PaymentsTypeCorrect == Spec => []TypeOK
  <1>1. IInv => TypeOK
    BY DEF IInv
  <1> QED BY <1>1, Invariance, PTL

(* Whatever fails, is lost, late or repeated, complete.booking.pipe.go completes
   only bookings for which Stripe has taken the parent's money. *)
THEOREM CompletedIsCharged == Spec => []CompletedOnlyIfCharged
  <1>1. IInv => CompletedOnlyIfCharged
    BY DEF IInv
  <1> QED BY <1>1, Invariance, PTL

(* What a row of booking_payments says of money, that it was taken or given back,
   is so at Stripe, however handlers and webhooks raced to write the row. *)
THEOREM RowsAreBacked == Spec => []RowIsBacked
  <1>1. IInv => RowIsBacked
    BY DEF IInv, RowTrue, RowIsBacked, Captured, Taken
  <1> QED BY <1>1, Invariance, PTL

-----------------------------------------------------------------------------
(* The money moves as PaymentLifecycle promises: what a handler does at Stripe
   or to the booking's status is one step of it, and everything else is none. *)

LEMMA MoneyIs ==
  ASSUME NEW i \in Intent
  PROVE  Money[i].b = intents[i].b /\ Money[i].status = intents[i].status
  BY DEF Money

\* An intent is rewritten: the mapping changes at that intent alone.
LEMMA MoneyChanges ==
  ASSUME TypeOK, NEW i \in Intent, NEW new, intents' = [intents EXCEPT ![i] = new]
  PROVE  Money' = [Money EXCEPT ![i] = [b |-> new.b, status |-> new.status]]
  <1>1. intents'[i] = new /\ \A j \in Intent \ {i} : intents'[j] = intents[j]
    BY DEF TypeOK
  <1> QED BY <1>1 DEF Money

LEMMA PaidIs ==
  ASSUME NEW b \in Booking, NEW sts
  PROVE  Lifecycle!Paid(b, sts) = {i \in Intent : intents[i].b = b /\ intents[i].status \in sts}
  BY DEF Lifecycle!Paid, Money

LEMMA ChargeIsOneStep ==
  ASSUME IInv, NEW p \in Handler, NEW b \in Booking, ChargeCreated(p, b)
  PROVE  \E i \in Intent : Lifecycle!Charge(i, b)
  <1>1. PICK i \in Intent, st \in {"succeeded"} \cup (IF "async" \in fault THEN {"processing"} ELSE {}) :
          /\ intents[i] = FreeIntent
          /\ intents' = [intents EXCEPT ![i] = [b |-> b, key |-> h[p].st, status |-> st, answer |-> st]]
          /\ UNCHANGED <<database, world>>
    BY DEF ChargeCreated
  <1> DEFINE new == [b |-> b, key |-> h[p].st, status |-> st, answer |-> st]
  <1>2. new.b = b /\ new.status = st /\ intents' = [intents EXCEPT ![i] = new]
    BY <1>1
  <1> HIDE DEF new
  <1>3. Money' = [Money EXCEPT ![i] = [b |-> b, status |-> st]]
    BY <1>2, MoneyChanges DEF IInv
  <1>4. st \in {"succeeded", "processing"} /\ Money[i].status = "free" /\ UNCHANGED status
    BY <1>1, MoneyIs, FreeIsFree DEF database
  <1> QED BY <1>3, <1>4 DEF Lifecycle!Charge

\* Only the status of an intent changes.
LEMMA StatusChanges ==
  ASSUME TypeOK, NEW i \in Intent, NEW st, intents' = [intents EXCEPT ![i].status = st],
         intents[i] \in Payment
  PROVE  Money' = [Money EXCEPT ![i].status = st]
  <1> DEFINE new == [intents[i] EXCEPT !.status = st]
  <1>1. new.b = intents[i].b /\ new.status = st
    BY DEF Payment
  <1>2. intents' = [intents EXCEPT ![i] = new]
    OBVIOUS
  <1> HIDE DEF new
  <1>3. Money' = [Money EXCEPT ![i] = [b |-> intents[i].b, status |-> st]]
    BY <1>1, <1>2, MoneyChanges
  <1> QED BY <1>3 DEF Money

LEMMA SettleIsOneStep ==
  ASSUME IInv, NEW i \in Intent, Settle(i)
  PROVE  Lifecycle!Settle(i)
  <1>1. PICK st \in {"succeeded", "requires_payment_method"} :
          /\ intents[i].status = "processing"
          /\ intents' = [intents EXCEPT ![i].status = st]
          /\ UNCHANGED <<database, world, h>>
    BY DEF Settle
  <1>2. intents[i] \in Payment
    BY <1>1, FreeIsFree DEF IInv, TypeOK
  <1>3. Money' = [Money EXCEPT ![i].status = st]
    BY <1>1, <1>2, StatusChanges DEF IInv
  <1> QED BY <1>1, <1>3, MoneyIs DEF Lifecycle!Settle, database

\* A refund that is asked for again finds the money given back.
LEMMA RefundIsOneStep ==
  ASSUME IInv, NEW p \in Handler, NEW b \in Booking, RefundCreated(p, b)
  PROVE  \/ \E i \in Intent : Lifecycle!GiveBack(i, b)
         \/ UNCHANGED <<status, Money>>
  <1>1. h[p].i \in Intent /\ Captured(h[p].i, b)
    BY DEF IInv, JobTrue, RefundCreated, Refundable, Captured, At
  <1>2. PICK i \in Intent : i = h[p].i
    BY <1>1
  <1>3. intents[i] \in Payment
    BY <1>1, <1>2, FreeIsFree DEF IInv, TypeOK, Captured
  <1>4. Money' = [Money EXCEPT ![i].status = "refunded"] /\ UNCHANGED status
    BY <1>2, <1>3, StatusChanges DEF IInv, RefundCreated, database
  <1>5. CASE intents[i].status = "refunded"
    BY <1>4, <1>5 DEF Money
  <1>6. CASE intents[i].status # "refunded"
    <2>1. i \in Lifecycle!Paid(b, {"succeeded"})
      BY <1>1, <1>2, <1>6, PaidIs DEF Captured
    <2>2. Lifecycle!Paid(b, {"refunded"}) = {}
      BY <1>2, <1>6, PaidIs DEF RefundCreated, Refundable
    <2> QED BY <1>4, <2>1, <2>2 DEF Lifecycle!GiveBack
  <1> QED BY <1>5, <1>6

LEMMA CompletionIsOneStep ==
  ASSUME IInv, NEW p \in Handler, NEW b \in Booking, CompleteBooking(p, b)
  PROVE  Lifecycle!Complete(b) \/ UNCHANGED <<status, Money>>
  <1>1. PICK i \in Intent : Captured(i, b)
    BY DEF IInv, JobTrue, CompleteBooking, At
  <1>2. Lifecycle!Paid(b, {"succeeded", "refunded"}) # {}
    BY <1>1, PaidIs DEF Captured
  <1>3. UNCHANGED Money
    BY DEF Money, CompleteBooking, stripe
  <1>4. CASE status[b] = "approved"
    BY <1>2, <1>3, <1>4 DEF CompleteBooking, Lifecycle!Complete
  <1>5. CASE status[b] # "approved"
    BY <1>3, <1>5 DEF IInv, TypeOK, CompleteBooking
  <1> QED BY <1>4, <1>5

LEMMA CancellationIsOneStep ==
  ASSUME IInv, NEW b \in Booking,
         AgreedCancel(b) \/ \E p \in Handler : CancelBooking(p, b)
  PROVE  Lifecycle!Cancel(b) \/ UNCHANGED <<status, Money>>
  <1>1. UNCHANGED Money
    BY DEF Money, AgreedCancel, CancelBooking, stripe
  <1>2. status[b] \in {"approved", "completed", "cancelled"}
    BY DEF IInv, TypeOK
  <1>3. (status' = [status EXCEPT ![b] = "cancelled"] /\ status[b] # "cancelled") \/ UNCHANGED status
    BY <1>2 DEF IInv, TypeOK, AgreedCancel, CancelBooking, Closable
  <1> QED BY <1>1, <1>2, <1>3 DEF Lifecycle!Cancel

\* Whatever else is done touches neither Stripe's intents nor the booking.
LEMMA OtherStepsKeepMoney ==
  ASSUME NEW p \in Handler, NEW b \in Booking,
         \/ CompleteStart(p, b) \/ CancelStart(p, b)
         \/ ChargeSetupMissing(p, b) \/ ChargeSetupFound(p, b) \/ ChargeLookup(p, b)
         \/ ChargeRefused(p, b) \/ ChargeReplayed(p, b) \/ RecordCharge(p, b)
         \/ RefundLookup(p, b) \/ RefundRefused(p, b) \/ RefundFailed(p, b)
         \/ RecordRefund(p, b)
  PROVE  UNCHANGED <<status, Money>>
  BY DEF Money, database, stripe, CompleteStart, CancelStart, ChargeSetupMissing, ChargeSetupFound,
         ChargeLookup, ChargeRefused, ChargeReplayed, RecordCharge, RefundLookup, RefundRefused,
         RefundFailed, RecordRefund

LEMMA MoneyStep == IInv /\ [Next]_vars => [Lifecycle!Next]_(Lifecycle!moneyVars)
  <1> SUFFICES ASSUME IInv, [Next]_vars PROVE Lifecycle!Next \/ UNCHANGED <<status, Money>>
    BY DEF Lifecycle!moneyVars
  <1>1. CASE UNCHANGED vars
    BY <1>1 DEF vars, database, stripe, Money
  <1>2. ASSUME NEW p \in Handler, NEW b \in Booking, Work(p, b)
        PROVE  Lifecycle!Next \/ UNCHANGED <<status, Money>>
    <2>1. CASE ChargeCreated(p, b)
      BY <2>1, ChargeIsOneStep DEF Lifecycle!Next
    <2>2. CASE RefundCreated(p, b)
      BY <2>2, RefundIsOneStep DEF Lifecycle!Next
    <2>3. CASE CompleteBooking(p, b)
      BY <2>3, CompletionIsOneStep DEF Lifecycle!Next
    <2>4. CASE CancelBooking(p, b)
      BY <2>4, CancellationIsOneStep DEF Lifecycle!Next
    <2> QED BY <1>2, <2>1, <2>2, <2>3, <2>4, OtherStepsKeepMoney DEF Work
  <1>3. ASSUME NEW p \in Handler, NEW b \in Booking, CompleteStart(p, b) \/ CancelStart(p, b)
        PROVE  UNCHANGED <<status, Money>>
    BY <1>3, OtherStepsKeepMoney
  <1>4. ASSUME NEW p \in Handler, NEW e \in Event, WebhookStart(p, e)
        PROVE  UNCHANGED <<status, Money>>
    BY <1>4 DEF WebhookStart, database, stripe, Money
  <1>5. ASSUME NEW p \in Handler, Report(p) \/ Crash(p) PROVE UNCHANGED <<status, Money>>
    BY <1>5 DEF Report, ApplyEvent, RecordEvent, Crash, database, stripe, Money
  <1>6. ASSUME NEW b \in Booking, AgreedCancel(b)
        PROVE  Lifecycle!Next \/ UNCHANGED <<status, Money>>
    BY <1>6, CancellationIsOneStep DEF Lifecycle!Next
  <1>7. ASSUME NEW b \in Booking, SetupChanges(b) PROVE UNCHANGED <<status, Money>>
    BY <1>7 DEF SetupChanges, database, stripe, Money
  <1>8. ASSUME NEW i \in Intent, Settle(i) PROVE Lifecycle!Next
    BY <1>8, SettleIsOneStep DEF Lifecycle!Next
  <1> QED BY <1>1, <1>2, <1>3, <1>4, <1>5, <1>6, <1>7, <1>8 DEF Next

(* Whatever requests, webhooks, crashes and lost answers do, the money and the
   bookings it pays for move as PaymentLifecycle promises. *)
THEOREM MoneyRefined == Spec => ImplementsMoney
  <1>1. Init => Lifecycle!Init
    BY DEF Init, Lifecycle!Init, Money, FreeIntent
  <1> QED BY <1>1, MoneyStep, Invariance, PTL DEF Spec, ImplementsMoney, Lifecycle!Spec

(* What module Bookings promises of a booking's status holds of the bookings here
   too, each of which has its conversation since it was approved: charging and
   refunding complete and cancel as BookingLifecycle allows. *)
BookingStatus == INSTANCE BookingLifecycle WITH convos <- Booking

THEOREM StatusKeepsLifecycle == Spec => [][BookingStatus!Next]_(BookingStatus!lifecycleVars)
  <1>1. [Lifecycle!Next]_(Lifecycle!moneyVars) => [BookingStatus!Next]_(BookingStatus!lifecycleVars)
    <2> SUFFICES ASSUME [Lifecycle!Next]_(Lifecycle!moneyVars)
                 PROVE  BookingStatus!Next \/ UNCHANGED status
      BY DEF BookingStatus!lifecycleVars
    <2>1. ASSUME NEW b \in Booking, Lifecycle!Complete(b) PROVE BookingStatus!Next
      BY <2>1 DEF Lifecycle!Complete, BookingStatus!Next, BookingStatus!Complete, BookingStatus!Move
    <2>2. ASSUME NEW b \in Booking, Lifecycle!Cancel(b) PROVE BookingStatus!Next
      BY <2>2 DEF Lifecycle!Cancel, BookingStatus!Next, BookingStatus!Cancel, BookingStatus!Move
    <2> QED BY <2>1, <2>2 DEF Lifecycle!Next, Lifecycle!moneyVars, Lifecycle!Charge,
               Lifecycle!GiveBack, Lifecycle!Settle
  <1> QED BY <1>1, MoneyStep, Invariance, PTL DEF Spec

-----------------------------------------------------------------------------
(* Charged once.  Without declines and lost answers no payment is recorded as
   failed, so that every charge has the booking's first key, for which Stripe
   has one intent. *)

Mild == fault \subseteq {"async", "crash"}

FirstKeyOnly ==
  \A i \in Intent : intents[i].b # None =>
    /\ intents[i].key = "first"
    /\ \A j \in Intent : intents[j].b = intents[i].b => i = j

JobMild(p) == (h[p].pc = "charge" => h[p].st = "first") /\ (h[p].pc = "record" => h[p].st # "failed")

MildOK ==
  /\ ready = Booking
  /\ \A b \in Booking : row[b].status # "failed"
  /\ \A p \in Handler : JobMild(p)
  /\ FirstKeyOnly

\* Only the jobs of handlers that charge or record need a look.
LEMMA JobsMild ==
  ASSUME MildOK, NEW p \in Handler, Alone(p), h'[p].pc \notin {"charge", "record"} \/ JobMild(p)'
  PROVE  \A q \in Handler : JobMild(q)'
  BY DEF MildOK, Alone, JobMild

\* What webhooks and refunds write.
LEMMA MarksMild ==
  ASSUME TypeOK, MildOK, NEW i \in Intent,
         MarkRefunded(i) \/ \E st \in IntentStatus : MarkStatus(i, st)
  PROVE  \A b \in Booking : row'[b].status # "failed"
  <1> SUFFICES ASSUME NEW b \in Booking PROVE row'[b].status # "failed"
    OBVIOUS
  <1>1. row[b] \in Row /\ row[b].status # "failed"
    BY DEF TypeOK, MildOK
  <1>2. CASE MarkRefunded(i)
    BY <1>1, <1>2 DEF MarkRefunded, Row
  <1>3. ASSUME NEW st \in IntentStatus, MarkStatus(i, st) PROVE row'[b].status # "failed"
    BY <1>1, <1>3 DEF MarkStatus, Row, IntentStatus
  <1> QED BY <1>2, <1>3

LEMMA MildCharge ==
  ASSUME IInv, Mild, MildOK, NEW p \in Handler, NEW b \in Booking, ChargeCreated(p, b)
  PROVE  MildOK'
  <1>1. PICK i \in Intent, st \in {"succeeded"} \cup (IF "async" \in fault THEN {"processing"} ELSE {}) :
          /\ At(p, "charge", b)
          /\ h[p].st = "retry" \/ FirstOf(b) = {}
          /\ intents[i] = FreeIntent
          /\ intents' = [intents EXCEPT ![i] = [b |-> b, key |-> h[p].st, status |-> st, answer |-> st]]
          /\ Answered(p, i, st)
          /\ UNCHANGED <<database, world>>
    BY DEF ChargeCreated
  <1>2. h[p].st = "first"
    BY <1>1 DEF MildOK, JobMild, At
  <1>3. FirstOf(b) = {} /\ Answer(p, i, st) /\ st \in {"succeeded", "processing"}
    BY <1>1, <1>2 DEF Answered, Mild
  <1>4. \A j \in Intent : intents[j].b # b
    BY <1>3 DEF FirstOf, MildOK, FirstKeyOnly
  <1> DEFINE new == [b |-> b, key |-> h[p].st, status |-> st, answer |-> st]
  <1>5. new.b = b /\ new.key = "first" /\ intents' = [intents EXCEPT ![i] = new]
    BY <1>1, <1>2
  <1> HIDE DEF new
  <1>6. intents'[i] = new /\ \A j \in Intent \ {i} : intents'[j] = intents[j]
    BY <1>5 DEF IInv, TypeOK
  <1>7. FirstKeyOnly'
    BY <1>4, <1>5, <1>6 DEF MildOK, FirstKeyOnly
  <1>8. Alone(p) /\ h'[p].pc = "record" /\ h'[p].st = st
    BY <1>3, Answers DEF IInv, RowStatus, IntentStatus
  <1>9. \A q \in Handler : JobMild(q)'
    BY <1>3, <1>8, JobsMild DEF JobMild
  <1> QED BY <1>1, <1>7, <1>9 DEF MildOK, database, world

LEMMA MildReplay ==
  ASSUME IInv, Mild, MildOK, NEW p \in Handler, NEW b \in Booking, ChargeReplayed(p, b)
  PROVE  MildOK'
  <1>1. PICK i \in FirstOf(b) : /\ Answered(p, i, intents[i].answer)
                                /\ UNCHANGED <<database, stripe, world>>
    BY DEF ChargeReplayed
  <1>2. i \in Intent /\ intents[i] \in Payment
    BY FreeIsFree DEF FirstOf, IInv, TypeOK
  <1>3. intents[i].answer \in {"succeeded", "processing"}
    BY <1>2 DEF Payment
  <1>4. Answer(p, i, intents[i].answer)
    BY <1>1 DEF Answered, Mild
  <1>5. Alone(p) /\ h'[p].st = intents[i].answer
    BY <1>2, <1>3, <1>4, Answers DEF IInv, RowStatus, IntentStatus
  <1>6. \A q \in Handler : JobMild(q)'
    BY <1>3, <1>5, JobsMild, Answers, <1>4, <1>2 DEF JobMild, IInv, RowStatus, IntentStatus
  <1> QED BY <1>1, <1>6 DEF MildOK, FirstKeyOnly, database, stripe, world

LEMMA MildLookup ==
  ASSUME IInv, MildOK, NEW p \in Handler, NEW b \in Booking, ChargeLookup(p, b)
  PROVE  MildOK'
  <1>1. row[b].status # "failed" /\ h[p] \in Job /\ h \in [Handler -> Job]
    BY DEF MildOK, IInv, TypeOK
  <1>2. CASE Go(p, "complete")
    BY <1>2, Goes, JobsMild DEF IInv, PC, MildOK, FirstKeyOnly, ChargeLookup, database, stripe, world
  <1>3. CASE Done(p)
    BY <1>3, Ends, IdleIsTyped, JobsMild
       DEF IInv, MildOK, FirstKeyOnly, ChargeLookup, database, stripe, world
  <1>4. CASE h' = [h EXCEPT ![p].pc = "charge", ![p].st = "first"]
    <2> DEFINE j == [h[p] EXCEPT !.pc = "charge", !.st = "first"]
    <2>1. j \in Job /\ j.pc = "charge" /\ j.st = "first"
      BY <1>1 DEF Job
    <2>2. h' = [h EXCEPT ![p] = j]
      BY <1>1, <1>4, Zenon
    <2> HIDE DEF j
    <2>3. \A q \in Handler : JobMild(q)'
      BY <1>1, <2>1, <2>2, JobsMild DEF Alone, JobMild
    <2> QED BY <2>3 DEF MildOK, FirstKeyOnly, ChargeLookup, database, stripe, world
  <1> QED BY <1>1, <1>2, <1>3, <1>4 DEF ChargeLookup

LEMMA MildRecord ==
  ASSUME IInv, MildOK, NEW p \in Handler, NEW b \in Booking, RecordCharge(p, b)
  PROVE  MildOK'
  <1>1. h[p].st # "failed"
    BY DEF MildOK, JobMild, RecordCharge, At
  <1>2. \A o \in Booking : row'[o].status # "failed"
    BY <1>1 DEF RecordCharge, Upsert, MildOK, IInv, TypeOK
  <1>3. Go(p, "complete") \/ Done(p)
    BY DEF RecordCharge
  <1>4. \A q \in Handler : JobMild(q)'
    BY <1>3, Goes, Ends, IdleIsTyped, JobsMild DEF IInv, PC
  <1> QED BY <1>2, <1>4 DEF MildOK, FirstKeyOnly, RecordCharge, stripe, world

LEMMA MildRefund ==
  ASSUME IInv, MildOK, NEW p \in Handler, NEW b \in Booking,
         RefundLookup(p, b) \/ RefundCreated(p, b) \/ RecordRefund(p, b)
  PROVE  MildOK'
  <1>1. CASE RefundLookup(p, b)
    <2>1. h[p] \in Job /\ h \in [Handler -> Job]
      BY DEF IInv, TypeOK
    <2>2. h'[p].pc \in {"refund", "cancel"} /\ \A q \in Handler \ {p} : h'[q] = h[q]
      BY <1>1, <2>1 DEF RefundLookup, Job
    <2>3. \A q \in Handler : JobMild(q)'
      BY <2>2 DEF MildOK, JobMild
    <2> QED BY <1>1, <2>3 DEF MildOK, FirstKeyOnly, RefundLookup, database, stripe, world
  <1>2. CASE RefundCreated(p, b)
    <2>1. h[p].i \in Intent /\ Captured(h[p].i, b)
      BY <1>2 DEF IInv, JobTrue, RefundCreated, Refundable, Captured, At
    <2>2. intents[h[p].i] \in Payment
      BY <2>1, FreeIsFree DEF IInv, TypeOK, Captured
    <2>3. \A j \in Intent : intents'[j].b = intents[j].b /\ intents'[j].key = intents[j].key
      BY <1>2, <2>1, <2>2 DEF RefundCreated, IInv, TypeOK, Payment
    <2>4. \A q \in Handler : JobMild(q)'
      BY <1>2, Goes, JobsMild DEF RefundCreated, IInv, PC
    <2> QED BY <1>2, <2>3, <2>4 DEF MildOK, FirstKeyOnly, RefundCreated, database, world
  <1>3. CASE RecordRefund(p, b)
    <2>1. h[p].i \in Intent
      BY <1>3 DEF IInv, JobTrue, RecordRefund, At
    <2>2. \A q \in Handler : JobMild(q)'
      BY <1>3, Goes, JobsMild DEF RecordRefund, IInv, PC
    <2> QED BY <1>3, <2>1, <2>2, MarksMild DEF IInv, MildOK, FirstKeyOnly, RecordRefund, stripe, world
  <1> QED BY <1>1, <1>2, <1>3

LEMMA MildWork ==
  ASSUME IInv, Mild, MildOK, NEW p \in Handler, NEW b \in Booking, Work(p, b)
  PROVE  MildOK'
  <1>1. ASSUME UNCHANGED <<row, stripe, world>>, \A q \in Handler : JobMild(q)' PROVE MildOK'
    BY <1>1 DEF MildOK, FirstKeyOnly, stripe, world
  <1>2. CASE ChargeSetupMissing(p, b)
    BY <1>2 DEF ChargeSetupMissing, MildOK
  <1>3. CASE ChargeRefused(p, b)
    BY <1>3 DEF ChargeRefused, Mild
  <1>4. CASE ChargeSetupFound(p, b)
    BY <1>1, <1>4, Goes, JobsMild DEF ChargeSetupFound, IInv, PC, database
  <1>5. CASE RefundRefused(p, b)
    BY <1>1, <1>5, Goes, JobsMild DEF RefundRefused, IInv, PC, database
  <1>6. CASE RefundFailed(p, b) \/ CompleteBooking(p, b) \/ CancelBooking(p, b)
    BY <1>1, <1>6, Ends, IdleIsTyped, JobsMild
       DEF RefundFailed, CompleteBooking, CancelBooking, IInv, database
  <1> QED BY <1>2, <1>3, <1>4, <1>5, <1>6, MildCharge, MildReplay, MildLookup, MildRecord, MildRefund
          DEF Work

LEMMA FaultStays == [Next]_vars => fault' = fault
  <1> SUFFICES ASSUME [Next]_vars PROVE fault' = fault
    OBVIOUS
  <1>1. ASSUME NEW p \in Handler, NEW b \in Booking, Work(p, b) PROVE fault' = fault
    BY <1>1 DEF Work, ChargeSetupMissing, ChargeSetupFound, ChargeLookup, ChargeRefused,
                ChargeReplayed, ChargeCreated, RecordCharge, CompleteBooking, RefundLookup,
                RefundCreated, RefundRefused, RefundFailed, RecordRefund, CancelBooking, world
  <1>2. ASSUME UNCHANGED vars PROVE fault' = fault
    BY <1>2 DEF vars, database, stripe, world
  <1>3. ASSUME NEW p \in Handler, NEW b \in Booking, CompleteStart(p, b) \/ CancelStart(p, b)
        PROVE  fault' = fault
    BY <1>3 DEF CompleteStart, CancelStart, world
  <1>4. ASSUME NEW p \in Handler, NEW e \in Event, WebhookStart(p, e) PROVE fault' = fault
    BY <1>4 DEF WebhookStart, world
  <1>5. ASSUME NEW p \in Handler, Report(p) \/ Crash(p) PROVE fault' = fault
    BY <1>5 DEF Report, ApplyEvent, RecordEvent, Crash, world
  <1>6. ASSUME NEW b \in Booking, AgreedCancel(b) \/ SetupChanges(b) PROVE fault' = fault
    BY <1>6 DEF AgreedCancel, SetupChanges, world
  <1>7. ASSUME NEW i \in Intent, Settle(i) PROVE fault' = fault
    BY <1>7 DEF Settle, world
  <1> QED BY <1>1, <1>2, <1>3, <1>4, <1>5, <1>6, <1>7 DEF Next

LEMMA MildStep == IInv /\ (Mild => MildOK) /\ [Next]_vars => (Mild => MildOK)'
  <1> SUFFICES ASSUME IInv, Mild => MildOK, [Next]_vars, Mild' PROVE MildOK'
    OBVIOUS
  <1>0. Mild /\ MildOK
    BY FaultStays DEF Mild
  <1>1. CASE UNCHANGED vars
    BY <1>0, <1>1 DEF vars, database, stripe, world, MildOK, FirstKeyOnly, JobMild
  <1>2. ASSUME NEW p \in Handler, NEW b \in Booking, Work(p, b) PROVE MildOK'
    BY <1>0, <1>2, MildWork
  <1>3. ASSUME NEW p \in Handler, NEW b \in Booking, CompleteStart(p, b) \/ CancelStart(p, b)
        PROVE  MildOK'
    <2>1. Alone(p) /\ h'[p].pc \in {"setup", "refundLookup"}
      <3>1. CASE CompleteStart(p, b)
        BY <3>1, StartIsTyped DEF IInv, TypeOK, CompleteStart, Begin, Alone
      <3>2. CASE CancelStart(p, b)
        BY <3>2, StartIsTyped DEF IInv, TypeOK, CancelStart, Begin, Alone
      <3> QED BY <1>3, <3>1, <3>2
    <2> QED BY <1>0, <1>3, <2>1, JobsMild
            DEF CompleteStart, CancelStart, MildOK, FirstKeyOnly, database, stripe, world
  <1>4. ASSUME NEW p \in Handler, NEW e \in Event, WebhookStart(p, e) PROVE MildOK'
    <2> DEFINE j == [pc |-> "applyEvent", b |-> None, i |-> e.i, st |-> e.status]
    <2>1. j.pc = "applyEvent" /\ h' = [h EXCEPT ![p] = j]
      BY <1>4 DEF WebhookStart, Begin
    <2> HIDE DEF j
    <2>2. \A q \in Handler : JobMild(q)'
      BY <1>0, <2>1 DEF MildOK, JobMild, IInv, TypeOK
    <2> QED BY <1>0, <1>4, <2>2 DEF WebhookStart, MildOK, FirstKeyOnly, database, stripe, world
  <1>5. ASSUME NEW p \in Handler, Report(p) PROVE MildOK'
    <2>1. CASE ApplyEvent(p)
      <3>1. h[p].i \in Intent /\ h[p].st \in IntentStatus \cup {"refunded"}
        <4> DEFINE e == [i |-> h[p].i, status |-> h[p].st]
        <4>1. e \in Event /\ e.i = h[p].i /\ e.status = h[p].st
          BY <2>1 DEF ApplyEvent, IInv, TypeOK, JobTrue
        <4> HIDE DEF e
        <4> QED BY <4>1 DEF Event
      <3>2. \A b \in Booking : row'[b].status # "failed"
        BY <1>0, <2>1, <3>1, MarksMild DEF ApplyEvent, IInv
      <3>3. \A q \in Handler : JobMild(q)'
        BY <1>0, <2>1, Goes, JobsMild DEF ApplyEvent, IInv, PC
      <3> QED BY <1>0, <2>1, <3>2, <3>3 DEF ApplyEvent, MildOK, FirstKeyOnly, stripe, world
    <2>2. CASE RecordEvent(p)
      BY <1>0, <2>2, Ends, IdleIsTyped, JobsMild
         DEF RecordEvent, IInv, MildOK, FirstKeyOnly, stripe, world
    <2> QED BY <1>5, <2>1, <2>2 DEF Report
  <1>6. ASSUME NEW p \in Handler, Crash(p) PROVE MildOK'
    BY <1>0, <1>6, Ends, IdleIsTyped, JobsMild
       DEF Crash, IInv, MildOK, FirstKeyOnly, database, stripe, world
  <1>7. ASSUME NEW b \in Booking, AgreedCancel(b) \/ SetupChanges(b) PROVE MildOK'
    BY <1>0, <1>7 DEF AgreedCancel, SetupChanges, Mild, MildOK, JobMild, FirstKeyOnly, stripe, world
  <1>8. ASSUME NEW i \in Intent, Settle(i) PROVE MildOK'
    <2>1. intents[i] \in Payment
      BY <1>8, FreeIsFree DEF Settle, IInv, TypeOK
    <2>2. \A j \in Intent : intents'[j].b = intents[j].b /\ intents'[j].key = intents[j].key
      BY <1>8, <2>1 DEF Settle, IInv, TypeOK, Payment
    <2> QED BY <1>0, <1>8, <2>2 DEF Settle, MildOK, JobMild, FirstKeyOnly, database, world
  <1> QED BY <1>1, <1>2, <1>3, <1>4, <1>5, <1>6, <1>7, <1>8 DEF Next

(* As long as no attempt can fail, a booking is charged once, however many
   handlers complete it at once or again after a crash between the charge and
   its record: the first attempts share the idempotency key. *)
THEOREM ChargedOnlyOnce == Spec => []ChargedOnce
  <1>1. Init => (Mild => MildOK)
    BY NoRowIsTyped, FreeIsFree, IdleIsTyped DEF Init, Mild, MildOK, JobMild, FirstKeyOnly
  <1>2. (Mild => MildOK) => ChargedOnce
    BY DEF Mild, MildOK, FirstKeyOnly, ChargedOnce, Captured
  <1> QED BY <1>1, <1>2, MildStep, Invariance, PTL DEF Spec

-----------------------------------------------------------------------------
(* Reconciliation.  When nothing fails, whoever charges a booking also writes
   the row, and whoever gives the money back also cancels the booking, so that
   what is left when all is quiet has a row and shows in the list. *)

Calm == fault = {}

Writing(b) == \E p \in Handler : h[p].pc = "record" /\ h[p].b = b
Cancelling(b) == \E p \in Handler : h[p].pc \in {"recordRefund", "cancel"} /\ h[p].b = b

CalmOK ==
  /\ \A i \in Intent : intents[i].b # None =>
       intents[i].status \in Taken /\ intents[i].answer = "succeeded"
  /\ \A e \in sent : e.status \in Taken
  /\ \A b \in Booking : row[b] = NoRow \/ row[b].status \in Taken
  /\ \A p \in Handler : h[p].pc = "record" => h[p].st = "succeeded"
  /\ \A i \in Intent, b \in Booking : intents[i].b = b =>
       /\ row[b] # NoRow \/ Writing(b)
       /\ intents[i].status = "refunded" => status[b] = "cancelled" \/ Cancelling(b)

\* A handler moves that is neither about to write a charge nor to cancel.
LEMMA CalmMove ==
  ASSUME CalmOK, NEW p \in Handler, Alone(p),
         h[p].pc \notin {"record", "recordRefund", "cancel"},
         h'[p].pc = "record" => h'[p].st = "succeeded",
         UNCHANGED <<status, row, intents, sent>>
  PROVE  CalmOK'
  <1>1. \A b \in Booking : (Writing(b) => Writing(b)') /\ (Cancelling(b) => Cancelling(b)')
    BY DEF Writing, Cancelling, Alone
  <1>2. \A q \in Handler : h'[q].pc = "record" => h'[q].st = "succeeded"
    BY DEF CalmOK, Alone
  <1> QED BY <1>1, <1>2 DEF CalmOK

LEMMA CalmCharge ==
  ASSUME IInv, Calm, MildOK, CalmOK, NEW p \in Handler, NEW b \in Booking,
         ChargeCreated(p, b) \/ ChargeReplayed(p, b)
  PROVE  CalmOK'
  <1>1. CASE ChargeReplayed(p, b)
    <2>1. PICK i \in FirstOf(b) : /\ At(p, "charge", b) /\ Answered(p, i, intents[i].answer)
                                  /\ UNCHANGED <<database, stripe, world>>
      BY <1>1 DEF ChargeReplayed
    <2>2. i \in Intent /\ intents[i].answer = "succeeded" /\ Answer(p, i, "succeeded")
      BY <2>1 DEF FirstOf, CalmOK, Answered, Calm
    <2>3. Alone(p) /\ h'[p].st = "succeeded"
      BY <2>2, Answers DEF IInv, RowStatus, IntentStatus
    <2> QED BY <2>1, <2>3, CalmMove DEF At, database, stripe
  <1>2. CASE ChargeCreated(p, b)
    <2>1. PICK i \in Intent, st \in {"succeeded"} \cup (IF "async" \in fault THEN {"processing"} ELSE {}) :
            /\ At(p, "charge", b)
            /\ intents[i] = FreeIntent
            /\ intents' = [intents EXCEPT ![i] = [b |-> b, key |-> h[p].st, status |-> st, answer |-> st]]
            /\ sent' = sent \cup {[i |-> i, status |-> st]}
            /\ Answered(p, i, st)
            /\ UNCHANGED <<database, world>>
      BY <1>2 DEF ChargeCreated
    <2>2. st = "succeeded" /\ Answer(p, i, "succeeded")
      BY <2>1 DEF Calm, Answered
    <2> DEFINE new == [b |-> b, key |-> h[p].st, status |-> st, answer |-> st]
               e == [i |-> i, status |-> st]
    <2>3. /\ new.b = b /\ new.status = "succeeded" /\ new.answer = "succeeded"
          /\ e.status = "succeeded" /\ intents' = [intents EXCEPT ![i] = new] /\ sent' = sent \cup {e}
      BY <2>1, <2>2
    <2> HIDE DEF new, e
    <2>4. intents'[i] = new /\ \A j \in Intent \ {i} : intents'[j] = intents[j]
      BY <2>3 DEF IInv, TypeOK
    <2>5. Alone(p) /\ h'[p].pc = "record" /\ h'[p].b = b /\ h'[p].st = "succeeded"
      BY <2>1, <2>2, Answers DEF IInv, RowStatus, IntentStatus, At
    <2>6. /\ Writing(b)'
          /\ \A o \in Booking : (Writing(o) => Writing(o)') /\ (Cancelling(o) => Cancelling(o)')
      BY <2>1, <2>5 DEF Writing, Cancelling, Alone, At
    <2>7. /\ \A j \in Intent : intents'[j].b # None =>
               intents'[j].status \in Taken /\ intents'[j].answer = "succeeded"
          /\ \A f \in sent' : f.status \in Taken
      BY <2>3, <2>4 DEF CalmOK, Taken
    <2>8. \A q \in Handler : h'[q].pc = "record" => h'[q].st = "succeeded"
      BY <2>5 DEF CalmOK, Alone
    <2>9. \A j \in Intent, o \in Booking : intents'[j].b = o =>
            /\ row[o] # NoRow \/ Writing(o)'
            /\ intents'[j].status = "refunded" => status[o] = "cancelled" \/ Cancelling(o)'
      BY <2>3, <2>4, <2>6 DEF CalmOK
    <2> QED BY <2>1, <2>7, <2>8, <2>9 DEF CalmOK, database
  <1> QED BY <1>1, <1>2

\* The row can be written, for no other booking has the intent.
LEMMA CalmRecord ==
  ASSUME IInv, CalmOK, NEW p \in Handler, NEW b \in Booking, RecordCharge(p, b)
  PROVE  CalmOK'
  <1>1. h[p].pc = "record" /\ h[p].b = b /\ h[p].st = "succeeded" /\ h[p].i # None
        /\ intents[h[p].i].b = b
    BY DEF RecordCharge, At, CalmOK, IInv, JobTrue
  <1>2. Upsertable(b, h[p].i)
    BY <1>1 DEF Upsertable, IInv, RowTrue
  <1>3. Upsert(b, h[p].i, "succeeded") /\ Go(p, "complete")
    BY <1>1, <1>2 DEF RecordCharge
  <1> DEFINE new == [intent |-> h[p].i, status |-> "succeeded", charge |-> h[p].i]
  <1>4. row' = [row EXCEPT ![b] = new] /\ new.status = "succeeded"
    BY <1>3 DEF Upsert
  <1> HIDE DEF new
  <1>5. row'[b].status = "succeeded" /\ \A o \in Booking \ {b} : row'[o] = row[o]
    BY <1>4 DEF IInv, TypeOK
  <1>6. row'[b] # NoRow
    BY <1>5, NoRowIsTyped
  <1>7. Alone(p) /\ h'[p].pc = "complete"
    BY <1>3, Goes DEF IInv, PC
  <1>8. \A o \in Booking \ {b} : Writing(o) => Writing(o)'
    BY <1>1, <1>7 DEF Writing, Alone
  <1>9. \A o \in Booking : Cancelling(o) => Cancelling(o)'
    BY <1>1, <1>7 DEF Cancelling, Alone
  <1>10. \A q \in Handler : h'[q].pc = "record" => h'[q].st = "succeeded"
    BY <1>7 DEF CalmOK, Alone
  <1>11. UNCHANGED <<status, intents, sent>>
    BY DEF RecordCharge, stripe
  <1>12. \A o \in Booking : row'[o] = NoRow \/ row'[o].status \in Taken
    BY <1>5 DEF CalmOK, Taken
  <1>13. \A i \in Intent, o \in Booking : intents[i].b = o =>
           /\ row'[o] # NoRow \/ Writing(o)'
           /\ intents[i].status = "refunded" => status[o] = "cancelled" \/ Cancelling(o)'
    BY <1>5, <1>6, <1>8, <1>9 DEF CalmOK
  <1> QED BY <1>10, <1>11, <1>12, <1>13 DEF CalmOK

\* The status is settled.
LEMMA CalmSettle ==
  ASSUME IInv, CalmOK, NEW p \in Handler, NEW b \in Booking,
         CompleteBooking(p, b) \/ CancelBooking(p, b)
  PROVE  CalmOK'
  <1>1. /\ h[p].pc \in {"complete", "cancel"} /\ h[p].b = b
        /\ UNCHANGED <<row, intents, sent>> /\ Done(p)
    BY DEF CompleteBooking, CancelBooking, At, stripe
  <1>2. Alone(p) /\ h'[p].pc = "idle"
    BY <1>1, Ends, IdleIsTyped DEF IInv
  <1>3. \A o \in Booking : Writing(o) => Writing(o)'
    BY <1>1, <1>2 DEF Writing, Alone
  <1>4. \A o \in Booking : status[o] = "cancelled" \/ Cancelling(o) =>
          status'[o] = "cancelled" \/ Cancelling(o)'
    <2>1. CASE CompleteBooking(p, b)
      <3>1. h[p].pc = "complete" /\ \A o \in Booking : status[o] = "cancelled" => status'[o] = "cancelled"
        BY <2>1 DEF CompleteBooking, At, IInv, TypeOK
      <3> QED BY <1>2, <3>1 DEF Cancelling, Alone
    <2>2. CASE CancelBooking(p, b)
      <3>1. /\ status'[b] = "cancelled"
            /\ \A o \in Booking : status[o] = "cancelled" => status'[o] = "cancelled"
        BY <2>2 DEF CancelBooking, IInv, TypeOK, Closable
      <3> QED BY <1>1, <1>2, <3>1 DEF Cancelling, Alone
    <2> QED BY <2>1, <2>2
  <1>5. \A q \in Handler : h'[q].pc = "record" => h'[q].st = "succeeded"
    BY <1>2 DEF CalmOK, Alone
  <1>6. \A i \in Intent, o \in Booking : intents[i].b = o =>
          /\ row[o] # NoRow \/ Writing(o)'
          /\ intents[i].status = "refunded" => status'[o] = "cancelled" \/ Cancelling(o)'
    BY <1>3, <1>4 DEF CalmOK
  <1> QED BY <1>1, <1>5, <1>6 DEF CalmOK

\* Without lost answers a refund is followed by a cancellation.
LEMMA CalmRefund ==
  ASSUME IInv, Calm, CalmOK, NEW p \in Handler, NEW b \in Booking, RefundCreated(p, b)
  PROVE  CalmOK'
  <1>1. h[p].i \in Intent /\ Captured(h[p].i, b) /\ h[p].b = b /\ h[p].pc = "refund"
    BY DEF IInv, JobTrue, RefundCreated, Refundable, Captured, At
  <1>0. PICK i \in Intent : i = h[p].i
    BY <1>1
  <1> DEFINE e == [i |-> i, status |-> "refunded"]
  <1>2. e.status = "refunded" /\ sent' = sent \cup {e} /\ UNCHANGED <<status, row>> /\ Go(p, "recordRefund")
    BY <1>0 DEF RefundCreated, Calm, database
  <1> HIDE DEF e
  <1>3. intents[i] \in Payment /\ intents \in [Intent -> Payment \cup {FreeIntent}]
    BY <1>0, <1>1, FreeIsFree DEF IInv, TypeOK, Captured
  <1>4. intents' = [intents EXCEPT ![i].status = "refunded"]
    BY <1>0 DEF RefundCreated
  <1>5. /\ intents'[i].status = "refunded" /\ intents'[i].b = b
        /\ intents'[i].answer = intents[i].answer
        /\ \A j \in Intent \ {i} : intents'[j] = intents[j]
    BY <1>0, <1>1, <1>3, <1>4 DEF Payment, Captured
  <1>6. Alone(p) /\ h'[p].pc = "recordRefund" /\ h'[p].b = b
    BY <1>1, <1>2, Goes DEF IInv, PC
  <1>7. /\ Cancelling(b)'
        /\ \A o \in Booking : (Writing(o) => Writing(o)') /\ (Cancelling(o) => Cancelling(o)')
    BY <1>1, <1>6 DEF Writing, Cancelling, Alone
  <1>8. /\ \A j \in Intent : intents'[j].b # None =>
             intents'[j].status \in Taken /\ intents'[j].answer = "succeeded"
        /\ \A f \in sent' : f.status \in Taken
    BY <1>0, <1>1, <1>2, <1>5 DEF CalmOK, Taken, Captured
  <1>9. \A q \in Handler : h'[q].pc = "record" => h'[q].st = "succeeded"
    BY <1>6 DEF CalmOK, Alone
  <1>10. \A j \in Intent, o \in Booking : intents'[j].b = o =>
           /\ row[o] # NoRow \/ Writing(o)'
           /\ intents'[j].status = "refunded" => status[o] = "cancelled" \/ Cancelling(o)'
    BY <1>0, <1>1, <1>5, <1>7 DEF CalmOK, Captured
  <1> QED BY <1>2, <1>8, <1>9, <1>10 DEF CalmOK

\* A row is marked, by a webhook or by the handler that goes on to cancel.
LEMMA CalmMark ==
  ASSUME IInv, CalmOK, NEW p \in Handler,
         ApplyEvent(p) \/ \E b \in Booking : RecordRefund(p, b)
  PROVE  CalmOK'
  <1>1. /\ UNCHANGED <<status, intents, sent>> /\ Alone(p)
        /\ h[p].pc # "record" /\ h'[p].pc \in {"cancel", "recordEvent"} /\ h'[p].b = h[p].b
        /\ h[p].pc \in {"recordRefund", "cancel"} => h'[p].pc = "cancel"
    BY Goes DEF ApplyEvent, RecordRefund, At, IInv, PC, stripe
  <1>2. MarkRefunded(h[p].i) \/ MarkStatus(h[p].i, "succeeded")
    <2>1. CASE ApplyEvent(p)
      <3> DEFINE e == [i |-> h[p].i, status |-> h[p].st]
      <3>1. e \in sent /\ e.status = h[p].st
        BY <2>1 DEF ApplyEvent, IInv, JobTrue
      <3> HIDE DEF e
      <3>2. h[p].st \in Taken
        BY <3>1 DEF CalmOK
      <3> QED BY <2>1, <3>2 DEF ApplyEvent, Taken
    <2>2. CASE \E b \in Booking : RecordRefund(p, b)
      BY <2>2 DEF RecordRefund
    <2> QED BY <2>1, <2>2
  <1>3. h[p].i \in Intent
    BY DEF ApplyEvent, RecordRefund, At, IInv, JobTrue
  <1>4. ASSUME NEW b \in Booking
        PROVE  /\ row'[b] = NoRow \/ row'[b].status \in Taken
               /\ row[b] # NoRow => row'[b] # NoRow
    <2>1. row[b] \in Row /\ (row[b] = NoRow \/ row[b].status \in Taken)
      BY DEF IInv, TypeOK, CalmOK
    <2>2. \/ row'[b] = row[b]
          \/ row[b] # NoRow /\ row'[b].status \in Taken
      <3>1. CASE MarkRefunded(h[p].i)
        BY <1>3, <2>1, <3>1, NoRowIsTyped DEF MarkRefunded, Row, Taken
      <3>2. CASE MarkStatus(h[p].i, "succeeded")
        BY <2>1, <3>2 DEF MarkStatus, Row, Taken
      <3> QED BY <1>2, <3>1, <3>2
    <2> QED BY <2>1, <2>2, NoRowIsTyped DEF Taken
  <1>5. \A o \in Booking : (Writing(o) => Writing(o)') /\ (Cancelling(o) => Cancelling(o)')
    BY <1>1 DEF Writing, Cancelling, Alone
  <1>6. \A q \in Handler : h'[q].pc = "record" => h'[q].st = "succeeded"
    BY <1>1 DEF CalmOK, Alone
  <1>7. \A i \in Intent, o \in Booking : intents[i].b = o =>
          /\ row'[o] # NoRow \/ Writing(o)'
          /\ intents[i].status = "refunded" => status[o] = "cancelled" \/ Cancelling(o)'
    BY <1>4, <1>5 DEF CalmOK
  <1> QED BY <1>1, <1>4, <1>6, <1>7 DEF CalmOK

LEMMA CalmWork ==
  ASSUME IInv, IInv', Calm, MildOK, CalmOK, NEW p \in Handler, NEW b \in Booking, Work(p, b)
  PROVE  CalmOK'
  <1>1. h' \in [Handler -> Job] /\ h \in [Handler -> Job] /\ h[p] \in Job
    BY DEF IInv, TypeOK
  <1>2. CASE ChargeSetupMissing(p, b) \/ ChargeRefused(p, b)
    BY <1>2 DEF ChargeSetupMissing, ChargeRefused, MildOK, Calm
  <1>3. CASE ChargeSetupFound(p, b)
    BY <1>3, Goes, CalmMove DEF ChargeSetupFound, At, IInv, PC, database, stripe
  <1>4. CASE ChargeLookup(p, b)
    <2>1. h[p].pc = "lookup" /\ UNCHANGED <<status, row, intents, sent>>
      BY <1>4 DEF ChargeLookup, At, database, stripe
    <2>2. \A q \in Handler \ {p} : h'[q] = h[q]
      BY <1>1, <1>4 DEF ChargeLookup, Go, Done
    <2>3. h'[p].pc \in {"complete", "idle", "charge"}
      <3>1. CASE Go(p, "complete")
        BY <3>1, Goes DEF IInv, PC
      <3>2. CASE Done(p)
        BY <3>2, Ends, IdleIsTyped DEF IInv
      <3>3. CASE \E st \in {"first", "retry"} : h' = [h EXCEPT ![p].pc = "charge", ![p].st = st]
        BY <1>1, <3>3 DEF Job
      <3> QED BY <1>4, <3>1, <3>2, <3>3 DEF ChargeLookup
    <2> QED BY <1>1, <2>1, <2>2, <2>3, CalmMove DEF Alone
  <1>5. CASE RefundLookup(p, b)
    <2>1. h[p].pc = "refundLookup" /\ UNCHANGED <<status, row, intents, sent>>
      BY <1>5 DEF RefundLookup, At, database, stripe
    <2>2. h'[p].pc \in {"refund", "cancel"} /\ \A q \in Handler \ {p} : h'[q] = h[q]
      BY <1>1, <1>5 DEF RefundLookup, Job
    <2> QED BY <1>1, <2>1, <2>2, CalmMove DEF Alone
  <1>6. CASE RefundRefused(p, b)
    BY <1>6, Goes, CalmMove DEF RefundRefused, At, IInv, PC, database, stripe
  <1>7. CASE RefundFailed(p, b)
    BY <1>7, Ends, IdleIsTyped, CalmMove DEF RefundFailed, At, IInv, database, stripe
  <1> QED BY <1>2, <1>3, <1>4, <1>5, <1>6, <1>7, CalmCharge, CalmRecord, CalmSettle, CalmRefund, CalmMark
          DEF Work

LEMMA CalmStep ==
  IInv /\ IInv' /\ (Mild => MildOK) /\ (Calm => CalmOK) /\ [Next]_vars => (Calm => CalmOK)'
  <1> SUFFICES ASSUME IInv, IInv', Mild => MildOK, Calm => CalmOK, [Next]_vars, Calm' PROVE CalmOK'
    OBVIOUS
  <1>0. Calm /\ MildOK /\ CalmOK
    BY FaultStays DEF Calm, Mild
  <1>1. CASE UNCHANGED vars
    BY <1>0, <1>1 DEF vars, database, stripe, CalmOK, Writing, Cancelling
  <1>2. ASSUME NEW p \in Handler, NEW b \in Booking, Work(p, b) PROVE CalmOK'
    BY <1>0, <1>2, CalmWork
  <1>3. ASSUME NEW p \in Handler, NEW b \in Booking, CompleteStart(p, b) \/ CancelStart(p, b)
        PROVE  CalmOK'
    <2>1. Alone(p) /\ h'[p].pc \in {"setup", "refundLookup"}
      <3>1. CASE CompleteStart(p, b)
        BY <3>1, StartIsTyped DEF IInv, TypeOK, CompleteStart, Begin, Alone
      <3>2. CASE CancelStart(p, b)
        BY <3>2, StartIsTyped DEF IInv, TypeOK, CancelStart, Begin, Alone
      <3> QED BY <1>3, <3>1, <3>2
    <2>2. h[p].pc = "idle"
      BY <1>3, IdleIsTyped DEF CompleteStart, CancelStart, Begin
    <2> QED BY <1>0, <1>3, <2>1, <2>2, CalmMove DEF CompleteStart, CancelStart, database, stripe
  <1>4. ASSUME NEW p \in Handler, NEW e \in Event, WebhookStart(p, e) PROVE CalmOK'
    <2> DEFINE j == [pc |-> "applyEvent", b |-> None, i |-> e.i, st |-> e.status]
    <2>1. j.pc = "applyEvent" /\ h' = [h EXCEPT ![p] = j]
      BY <1>4 DEF WebhookStart, Begin
    <2> HIDE DEF j
    <2>2. Alone(p) /\ h'[p].pc = "applyEvent"
      BY <2>1 DEF IInv, TypeOK, Alone
    <2>3. h[p].pc = "idle"
      BY <1>4, IdleIsTyped DEF WebhookStart, Begin
    <2> QED BY <1>0, <1>4, <2>2, <2>3, CalmMove DEF WebhookStart, database, stripe
  <1>5. ASSUME NEW p \in Handler, Report(p) \/ Crash(p) PROVE CalmOK'
    <2>1. CASE ApplyEvent(p)
      BY <1>0, <2>1, CalmMark
    <2>2. CASE RecordEvent(p)
      BY <1>0, <2>2, Ends, IdleIsTyped, CalmMove DEF RecordEvent, IInv, stripe
    <2>3. ~Crash(p)
      BY <1>0 DEF Crash, Calm
    <2> QED BY <1>5, <2>1, <2>2, <2>3 DEF Report
  <1>6. ASSUME NEW b \in Booking, AgreedCancel(b) \/ SetupChanges(b) PROVE CalmOK'
    <2>1. AgreedCancel(b) /\ UNCHANGED <<row, intents, sent, h>>
      BY <1>0, <1>6 DEF AgreedCancel, SetupChanges, Calm, stripe
    <2>2. \A o \in Booking : status[o] = "cancelled" => status'[o] = "cancelled"
      BY <2>1 DEF AgreedCancel, IInv, TypeOK
    <2> QED BY <1>0, <2>1, <2>2 DEF CalmOK, Writing, Cancelling
  <1>7. ASSUME NEW i \in Intent PROVE ~Settle(i)
    <2>1. intents[i] \in Payment \/ intents[i].status = "free"
      BY FreeIsFree DEF IInv, TypeOK
    <2>2. intents[i] \in Payment => intents[i].b # None
      BY DEF Payment
    <2> QED BY <1>0, <2>1, <2>2 DEF CalmOK, Settle, Taken
  <1> QED BY <1>1, <1>2, <1>3, <1>4, <1>5, <1>6, <1>7 DEF Next

(* Completions, refunds and cancellations that race leave nothing behind that
   ListPaymentReconciliationIssues misses, as long as nothing fails. *)
THEOREM RacesReconciled == Spec => []RacesAreReconciled
  <1>1. Init => (Mild => MildOK) /\ (Calm => CalmOK)
    BY NoRowIsTyped, FreeIsFree, IdleIsTyped
       DEF Init, Mild, MildOK, JobMild, FirstKeyOnly, CalmOK
  <1>2. IInv /\ (Mild => MildOK) /\ (Calm => CalmOK) => RacesAreReconciled
    <2> SUFFICES ASSUME IInv, MildOK, CalmOK, Quiet, NEW b \in Booking,
                        ~(Kept(b) <=> status[b] = "completed")
                 PROVE  Listed(b)
      <3>1. \A b \in Booking : Kept(b) \in BOOLEAN
        BY DEF Kept
      <3> QED BY <3>1 DEF Calm, Mild, RacesAreReconciled, MismatchesAreListed
    <2>1. ~Writing(b) /\ ~Cancelling(b)
      BY IdleIsTyped DEF Quiet, Writing, Cancelling
    <2>2. CASE Kept(b)
      <3>1. PICK i \in Intent : intents[i].b = b /\ intents[i].status = "succeeded"
        BY <2>2 DEF Kept
      <3>2. row[b].status \in Taken
        BY <2>1, <3>1 DEF CalmOK
      <3>3. row[b].status # "refunded"
        <4> SUFFICES ASSUME row[b].status = "refunded" PROVE FALSE
          OBVIOUS
        <4>1. /\ row[b].charge \in Intent /\ intents[row[b].charge].b = b
              /\ intents[row[b].charge].status = "refunded"
          BY DEF IInv, TypeOK, RowTrue, Row, Captured, Taken
        <4> QED BY <3>1, <4>1 DEF MildOK, FirstKeyOnly
      <3> QED BY <2>2, <3>2, <3>3 DEF Listed, Taken
    <2>3. CASE ~Kept(b)
      <3>1. status[b] = "completed"
        BY <2>3
      <3>2. PICK i \in Intent : Captured(i, b)
        BY <3>1 DEF IInv, CompletedOnlyIfCharged
      <3>3. intents[i].b = b /\ intents[i].status = "refunded"
        BY <2>3, <3>2 DEF Captured, Kept
      <3> QED BY <2>1, <3>1, <3>3 DEF CalmOK
    <2> QED BY <2>2, <2>3
  <1> QED BY <1>1, <1>2, MildStep, CalmStep, Invariance, PTL DEF Spec
=============================================================================
