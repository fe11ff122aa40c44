------------------------------ MODULE Bookings ------------------------------
(***************************************************************************)
(* Scheduling of bookings (apps/api/bookings, repositories/bookings): who  *)
(* is booked when, and the change requests by which the two parties move   *)
(* or cancel a booking.                                                    *)
(*                                                                         *)
(* The API serves requests concurrently.  Each handler reads the database, *)
(* decides on what it read, calls others (Stripe) and writes at the end,   *)
(* every call being a statement or a transaction of its own, so a handler  *)
(* is a little process whose steps interleave with those of the others.    *)
(* What it remembers between two calls is the record h[p].  What a write   *)
(* may do is limited by the WHERE clause of the statement and by the       *)
(* constraints of the tables, never by what the handler read before.       *)
(*                                                                         *)
(* An operator whose comment begins with "Mutant" is no part of the model: *)
(* it is the definition after it with a plausible mistake in it, kept to   *)
(* see that the property it names notices the mistake.                     *)
(***************************************************************************)
EXTENDS Integers

CONSTANTS
  Booking,      \* identifiers of bookings; ParentOf and NannyOf give each its
  ParentOf,     \*   two parties, which no statement ever changes
  NannyOf,
  Request,      \* identifiers of change requests
  Handler,      \* HTTP requests being served at the same time
  Slot,         \* hours a client may ask for: records of a start and a duration
  MaxTime,      \* bound of the clock
  None          \* the absent value

ASSUME SchedulingAssumption ==
  /\ Slot \subseteq [start : Nat, dur : Nat \ {0}]
  /\ MaxTime \in Nat
  /\ None \notin Booking \cup Request \cup Slot

VARIABLES
  now,          \* the clock, in hours
  status,       \* bookings.status, "none" while no row has the identifier
  slot,         \* bookings.start_time and duration
  convos,       \* bookings with a row in conversations
  reqs,         \* booking_change_requests
  h             \* what each handler is doing

tables == <<status, slot, convos, reqs>>
vars == <<now, status, slot, convos, reqs, h>>

Status == {"none", "pending", "approved", "declined", "cancelled", "completed"}
Active == {"pending", "approved"}
Role == {"parent", "nanny"}

Proposal == [type : {"cancel"}, slot : {None}] \cup [type : {"reschedule"}, slot : Slot]
NoProposal == [type |-> None, slot |-> None]

\* A row of booking_change_requests, or NoRequest while the identifier is free.
\* The CHECK constraints tie the proposed slot to the type.
RequestRow == [b : Booking, by : Role, what : Proposal,
               status : {"pending", "accepted", "declined"}]
NoRequest == [b |-> None, by |-> None, what |-> NoProposal, status |-> "none"]

\* The half-open ranges of the exclusion constraints and of the queries.
Overlap(s, t) == s.start < t.start + t.dur /\ t.start < s.start + s.dur

Over(s) == s.start + s.dur <= now
Ended(b) == Over(slot[b])

SameParties(a, b) == ParentOf[a] = ParentOf[b] /\ NannyOf[a] = NannyOf[b]

-----------------------------------------------------------------------------
(***************************************************************************)
(* Queries and constraints of the repository.                              *)
(***************************************************************************)

HasParentActiveBookingWithNanny(b, s) ==
  \E o \in Booking : SameParties(o, b) /\ status[o] \in Active /\ Overlap(slot[o], s)

\* With b a new identifier, HasNannyApprovedBookingConflict; with b the
\* booking to move, HasNannyApprovedBookingConflictExcluding.
HasNannyApprovedBookingConflict(b, s) ==
  \E o \in Booking \ {b} :
    NannyOf[o] = NannyOf[b] /\ status[o] = "approved" /\ Overlap(slot[o], s)

\* Mutant (NoDoubleBooking): only the parties' constraint exists.
AdmittedWithoutNannyRule(b, st, s) ==
  st \in Active => \A o \in Booking \ {b} :
    SameParties(o, b) /\ status[o] \in Active => ~Overlap(slot[o], s)

\* Mutant (NoDuplicateBooking): only the nanny's constraint exists.
AdmittedWithoutPartiesRule(b, st, s) ==
  st = "approved" => \A o \in Booking \ {b} :
    NannyOf[o] = NannyOf[b] /\ status[o] = "approved" => ~Overlap(slot[o], s)

\* What bookings_parent_nanny_slot_excl and bookings_nanny_approved_slot_excl
\* demand of a write that leaves row b with status st and slot s.
Admitted(b, st, s) ==
  /\ st \in Active => \A o \in Booking \ {b} :
       SameParties(o, b) /\ status[o] \in Active => ~Overlap(slot[o], s)
  /\ st = "approved" => \A o \in Booking \ {b} :
       NannyOf[o] = NannyOf[b] /\ status[o] = "approved" => ~Overlap(slot[o], s)

\* The unique index idx_booking_change_requests_one_pending.
HasPendingRequest(b) == \E r \in Request : reqs[r].b = b /\ reqs[r].status = "pending"

-----------------------------------------------------------------------------
(***************************************************************************)
(* Handlers.  h[p].pc names the call a handler makes next.                 *)
(***************************************************************************)

PC == {"idle",
       "parentConflict", "nannyConflict", "insertBooking",
       "approve", "decline", "cancel", "complete",
       "requestConflict", "insertRequest",
       "readRequest", "acceptConflict", "acceptRequest", "declineRequest",
       "adminCancel", "adminComplete"}

\* What a handler remembers: the booking and the change request it is about, the
\* party that asks, the status it has seen, and the proposal or the hours it read.
Job == [pc : PC, b : Booking \cup {None}, r : Request \cup {None}, by : Role \cup {None},
        seen : Status \cup {None},
        what : [type : {"cancel", "reschedule", None}, slot : Slot \cup {None}]]

ServeChange(b, pc, by, seen, what) ==
  [pc |-> pc, b |-> b, r |-> None, by |-> by, seen |-> seen, what |-> what]
Serve(b, pc) == ServeChange(b, pc, None, None, NoProposal)
ServeHours(b, pc, s) == ServeChange(b, pc, None, None, [type |-> None, slot |-> s])
Idle == Serve(None, "idle")

Begin(p, work) == h[p] = Idle /\ h' = [h EXCEPT ![p] = work]
At(p, pc, b) == h[p].pc = pc /\ h[p].b = b
Go(p, pc) == h' = [h EXCEPT ![p].pc = pc]
Done(p) == h' = [h EXCEPT ![p] = Idle]

\* A handler may end with an error before any of its calls: a check fails, a
\* lookup or a statement fails, Stripe refuses, the client goes away, the
\* process dies.  Whatever it wrote before stays.
GiveUp(p) == h[p] # Idle /\ Done(p) /\ UNCHANGED <<now, tables>>

-----------------------------------------------------------------------------
(* Create *)

\* The nanny is verified and the start is in the future.  Verification is the
\* screening component's; here a lookup that fails is GiveUp.
CreateStart(p, b) ==
  \E s \in Slot :
    /\ status[b] = "none"
    /\ \A q \in Handler : h[q].b # b          \* uuid.New()
    /\ s.start > now
    /\ Begin(p, ServeHours(b, "parentConflict", s))
    /\ UNCHANGED <<now, tables>>

CreateCheckParent(p, b) ==
  /\ At(p, "parentConflict", b)
  /\ ~HasParentActiveBookingWithNanny(b, h[p].what.slot)
  /\ Go(p, "nannyConflict")
  /\ UNCHANGED <<now, tables>>

CreateCheckNanny(p, b) ==
  /\ At(p, "nannyConflict", b)
  /\ ~HasNannyApprovedBookingConflict(b, h[p].what.slot)
  /\ Go(p, "insertBooking")
  /\ UNCHANGED <<now, tables>>

CreateBooking(p, b) ==
  /\ At(p, "insertBooking", b)
  /\ Admitted(b, "pending", h[p].what.slot)
  /\ status' = [status EXCEPT ![b] = "pending"]
  /\ slot' = [slot EXCEPT ![b] = h[p].what.slot]
  /\ Done(p)
  /\ UNCHANGED <<now, convos, reqs>>

(* Approve and decline: the pipe only checks the payment setup before the  *)
(* write, never the booking's status or time.                              *)

ApproveStart(p, b) ==
  /\ status[b] # "none"
  /\ Begin(p, Serve(b, "approve"))
  /\ UNCHANGED <<now, tables>>

ApproveBooking(p, b) ==
  /\ At(p, "approve", b)
  /\ status[b] = "pending"
  /\ Admitted(b, "approved", slot[b])
  /\ status' = [status EXCEPT ![b] = "approved"]
  /\ convos' = convos \cup {b}
  /\ Done(p)
  /\ UNCHANGED <<now, slot, reqs>>

DeclineStart(p, b) ==
  /\ status[b] # "none"
  /\ Begin(p, Serve(b, "decline"))
  /\ UNCHANGED <<now, tables>>

DeclineBooking(p, b) ==
  /\ At(p, "decline", b)
  /\ status[b] = "pending"
  /\ status' = [status EXCEPT ![b] = "declined"]
  /\ Done(p)
  /\ UNCHANGED <<now, slot, convos, reqs>>

(* Cancel by the parent. *)

CancelStart(p, b) ==
  /\ status[b] = "pending"
  /\ Begin(p, Serve(b, "cancel"))
  /\ UNCHANGED <<now, tables>>

CancelBooking(p, b) ==
  /\ At(p, "cancel", b)
  /\ status[b] = "pending"
  /\ status' = [status EXCEPT ![b] = "cancelled"]
  /\ Done(p)
  /\ UNCHANGED <<now, slot, convos, reqs>>

(* Complete, and the payment retry that ends the same way.  Between the two  *)
(* steps the handler calls ChargeCompletedBooking, which module              *)
(* BookingPayments models; an error there is GiveUp.  The hours it found     *)
(* over are those of the booking as it read it.                              *)

\* Mutant (EarlyCompletionOnlyByReschedule): compares with the start, not the end.
CompleteStartAtStart(p, b) ==
  /\ status[b] = "approved"
  /\ slot[b].start <= now
  /\ Begin(p, ServeHours(b, "complete", slot[b]))
  /\ UNCHANGED <<now, tables>>

CompleteStart(p, b) ==
  /\ status[b] = "approved"
  /\ Ended(b)
  /\ Begin(p, ServeHours(b, "complete", slot[b]))
  /\ UNCHANGED <<now, tables>>

\* Mutant (ImplementsLifecycle): the UPDATE trusts the status read before.
CompleteBookingUnguarded(p, b) ==
  /\ At(p, "complete", b)
  /\ status' = [status EXCEPT ![b] = "completed"]
  /\ Done(p)
  /\ UNCHANGED <<now, slot, convos, reqs>>

CompleteBooking(p, b) ==
  /\ At(p, "complete", b)
  /\ status[b] = "approved"
  /\ status' = [status EXCEPT ![b] = "completed"]
  /\ Done(p)
  /\ UNCHANGED <<now, slot, convos, reqs>>

-----------------------------------------------------------------------------
(* Change requests *)

CreateRequestStart(p, b) ==
  \E what \in Proposal, by \in Role :
    /\ \/ what.type = "cancel" /\ status[b] = "approved"
       \/ what.type = "reschedule" /\ status[b] \in Active /\ what.slot.start > now
    /\ Begin(p, ServeChange(b, IF what.type = "cancel" THEN "insertRequest" ELSE "requestConflict",
                            by, None, what))
    /\ UNCHANGED <<now, tables>>

CreateRequestCheck(p, b) ==
  /\ At(p, "requestConflict", b)
  /\ ~HasNannyApprovedBookingConflict(b, h[p].what.slot)
  /\ Go(p, "insertRequest")
  /\ UNCHANGED <<now, tables>>

CreateRequest(p, b) ==
  \E r \in Request :
    /\ At(p, "insertRequest", b)
    /\ reqs[r] = NoRequest
    /\ ~HasPendingRequest(b)
    /\ reqs' = [reqs EXCEPT ![r] = [b |-> b, by |-> h[p].by, what |-> h[p].what,
                                    status |-> "pending"]]
    /\ Done(p)
    /\ UNCHANGED <<now, status, slot, convos>>

\* Accepting and declining read the caller's booking first ...
ResolveStart(p, b) ==
  \E by \in Role :
    /\ status[b] # "none"
    /\ Begin(p, ServeChange(b, "readRequest", by, status[b], NoProposal))
    /\ UNCHANGED <<now, tables>>

\* Mutant (MovedOnlyByConsent): a party may answer its own request.
ResolvableByAnyone(p, b, r) ==
  /\ At(p, "readRequest", b)
  /\ reqs[r].b = b
  /\ reqs[r].status = "pending"

\* ... then the request, which must be pending and the other party's.
Resolvable(p, b, r) ==
  /\ At(p, "readRequest", b)
  /\ reqs[r].b = b
  /\ reqs[r].status = "pending"
  /\ reqs[r].by # h[p].by

AcceptReadRequest(p, b) ==
  \E r \in Request :
    LET what == reqs[r].what IN
    /\ Resolvable(p, b, r)
    /\ \/ what.type = "cancel" /\ h[p].seen = "approved"
       \/ what.type = "reschedule" /\ h[p].seen \in Active /\ what.slot.start > now
    /\ h' = [h EXCEPT ![p] =
               [@ EXCEPT !.r = r, !.what = what,
                         !.pc = IF what.type = "cancel" THEN "acceptRequest" ELSE "acceptConflict"]]
    /\ UNCHANGED <<now, tables>>

AcceptCheck(p, b) ==
  /\ At(p, "acceptConflict", b)
  /\ ~HasNannyApprovedBookingConflict(b, h[p].what.slot)
  /\ Go(p, "acceptRequest")
  /\ UNCHANGED <<now, tables>>

\* What the UPDATE of a change request asks for.
StillPending(p, b, r) == h[p].r = r /\ reqs[r].b = b /\ reqs[r].status = "pending"

\* Mutant (AgreedCancelHolds): an UPDATE of the booking that finds no row is no
\* error and the transaction commits.
AcceptCancelWithoutRollback(p, b) ==
  \E r \in Request :
    /\ At(p, "acceptRequest", b)
    /\ StillPending(p, b, r)
    /\ reqs[r].what.type = "cancel"
    /\ reqs' = [reqs EXCEPT ![r].status = "accepted"]
    /\ status' = [status EXCEPT ![b] = IF @ = "approved" THEN "cancelled" ELSE @]
    /\ Done(p)
    /\ UNCHANGED <<now, slot, convos>>

\* One transaction: the request is marked accepted and the booking changed, or
\* neither.
AcceptCancel(p, b) ==
  \E r \in Request :
    /\ At(p, "acceptRequest", b)
    /\ StillPending(p, b, r)
    /\ reqs[r].what.type = "cancel"
    /\ status[b] = "approved"
    /\ reqs' = [reqs EXCEPT ![r].status = "accepted"]
    /\ status' = [status EXCEPT ![b] = "cancelled"]
    /\ Done(p)
    /\ UNCHANGED <<now, slot, convos>>

AcceptReschedule(p, b) ==
  \E r \in Request :
    /\ At(p, "acceptRequest", b)
    /\ StillPending(p, b, r)
    /\ reqs[r].what.type = "reschedule"
    /\ status[b] \in Active
    /\ Admitted(b, status[b], reqs[r].what.slot)
    /\ reqs' = [reqs EXCEPT ![r].status = "accepted"]
    /\ slot' = [slot EXCEPT ![b] = reqs[r].what.slot]
    /\ Done(p)
    /\ UNCHANGED <<now, status, convos>>

DeclineReadRequest(p, b) ==
  \E r \in Request :
    /\ Resolvable(p, b, r)
    /\ h' = [h EXCEPT ![p] = [@ EXCEPT !.r = r, !.pc = "declineRequest"]]
    /\ UNCHANGED <<now, tables>>

\* Mutant (ResolutionIsFinal): the UPDATE does not ask for a pending request.
DeclineRequestUnguarded(p, b) ==
  \E r \in Request :
    /\ At(p, "declineRequest", b)
    /\ h[p].r = r /\ reqs[r].b = b
    /\ reqs' = [reqs EXCEPT ![r].status = "declined"]
    /\ Done(p)
    /\ UNCHANGED <<now, status, slot, convos>>

DeclineRequest(p, b) ==
  \E r \in Request :
    /\ At(p, "declineRequest", b)
    /\ StillPending(p, b, r)
    /\ reqs' = [reqs EXCEPT ![r].status = "declined"]
    /\ Done(p)
    /\ UNCHANGED <<now, status, slot, convos>>

-----------------------------------------------------------------------------
(* Admin actions.  RefundBooking and ChargeCompletedBooking are called       *)
(* between the two steps.                                                    *)

AdminClosable == {"pending", "approved", "completed"}

AdminCancelStart(p, b) ==
  /\ status[b] \in AdminClosable
  /\ Begin(p, Serve(b, "adminCancel"))
  /\ UNCHANGED <<now, tables>>

AdminCompleteStart(p, b) ==
  /\ status[b] = "approved"
  /\ Ended(b)
  /\ Begin(p, ServeHours(b, "adminComplete", slot[b]))
  /\ UNCHANGED <<now, tables>>

\* updateBookingWithAdminAction: one transaction that also resolves what is
\* pending on the booking.
AdminUpdate(p, b, from, to) ==
  /\ status[b] \in from
  /\ status' = [status EXCEPT ![b] = to]
  /\ reqs' = [r \in Request |->
                IF reqs[r].b = b /\ reqs[r].status = "pending"
                  THEN [reqs[r] EXCEPT !.status = "declined"]
                  ELSE reqs[r]]
  /\ Done(p)
  /\ UNCHANGED <<now, slot, convos>>

AdminCancel(p, b) ==
  At(p, "adminCancel", b) /\ AdminUpdate(p, b, AdminClosable, "cancelled")

AdminComplete(p, b) ==
  At(p, "adminComplete", b) /\ AdminUpdate(p, b, {"approved"}, "completed")

-----------------------------------------------------------------------------

Tick == now < MaxTime /\ now' = now + 1 /\ UNCHANGED <<tables, h>>

Init ==
  /\ now = 0
  /\ status = [b \in Booking |-> "none"]
  /\ slot = [b \in Booking |-> None]
  /\ convos = {}
  /\ reqs = [r \in Request |-> NoRequest]
  /\ h = [p \in Handler |-> Idle]

Create(p, b) ==
  \/ CreateStart(p, b) \/ CreateCheckParent(p, b) \/ CreateCheckNanny(p, b)
  \/ CreateBooking(p, b)

Answer(p, b) ==
  \/ ApproveStart(p, b) \/ ApproveBooking(p, b)
  \/ DeclineStart(p, b) \/ DeclineBooking(p, b)
  \/ CancelStart(p, b) \/ CancelBooking(p, b)

Finish(p, b) == CompleteStart(p, b) \/ CompleteBooking(p, b)

Change(p, b) ==
  \/ CreateRequestStart(p, b) \/ CreateRequestCheck(p, b) \/ CreateRequest(p, b)
  \/ ResolveStart(p, b) \/ AcceptReadRequest(p, b) \/ AcceptCheck(p, b)
  \/ AcceptCancel(p, b) \/ AcceptReschedule(p, b)
  \/ DeclineReadRequest(p, b) \/ DeclineRequest(p, b)

Admin(p, b) ==
  \/ AdminCancelStart(p, b) \/ AdminCancel(p, b)
  \/ AdminCompleteStart(p, b) \/ AdminComplete(p, b)

Next ==
  \/ Tick
  \/ \E p \in Handler : GiveUp(p)
  \/ \E p \in Handler, b \in Booking :
       Create(p, b) \/ Answer(p, b) \/ Finish(p, b) \/ Change(p, b) \/ Admin(p, b)

Spec == Init /\ [][Next]_vars

-----------------------------------------------------------------------------
(***************************************************************************)
(* Properties                                                              *)
(***************************************************************************)

\* Every variable has its type, a row exists exactly when its slot does, and a
\* handler that names a booking to change names one that exists.
TypeOK ==
  /\ now \in 0 .. MaxTime
  /\ status \in [Booking -> Status]
  /\ slot \in [Booking -> Slot \cup {None}]
  /\ convos \subseteq Booking
  /\ reqs \in [Request -> RequestRow \cup {NoRequest}]
  /\ h \in [Handler -> Job]

\* A nanny is never promised twice: two approved bookings of one nanny do not
\* overlap, although approvals and reschedules decide on stale reads.
NoDoubleBooking ==
  \A a, b \in Booking :
    a # b /\ NannyOf[a] = NannyOf[b] /\ status[a] = "approved" /\ status[b] = "approved"
      => ~Overlap(slot[a], slot[b])

\* A parent never has two open bookings with one nanny for overlapping hours,
\* although two requests may pass the same check at once or a reschedule may
\* move an older booking onto a newer one.
NoDuplicateBooking ==
  \A a, b \in Booking :
    a # b /\ SameParties(a, b) /\ status[a] \in Active /\ status[b] \in Active
      => ~Overlap(slot[a], slot[b])

\* Once the parties agreed to cancel, the booking is and stays cancelled: no
\* completion, approval or reschedule that was under way brings it back.
AgreedCancelHolds ==
  \A r \in Request :
    reqs[r].status = "accepted" /\ reqs[r].what.type = "cancel"
      => status[reqs[r].b] = "cancelled"

\* A booking is completed before its hours are over only if it was moved while
\* the completion was under way: the handler that completes it found other hours
\* in it, which were over, and those it has by now are those of a reschedule
\* that was accepted.
EarlyCompletionOnlyByReschedule ==
  [][\A b \in Booking : status[b] # "completed" /\ status'[b] = "completed" /\ ~Ended(b) =>
       \E p \in Handler, r \in Request :
         /\ h[p].b = b /\ h[p].pc \in {"complete", "adminComplete"} /\ h'[p] = Idle
         /\ h[p].what.slot # slot[b] /\ Over(h[p].what.slot)
         /\ reqs[r].b = b /\ reqs[r].status = "accepted" /\ reqs[r].what.slot = slot[b]]_vars

\* The hours of a booking only change when one party accepts the pending
\* proposal of the other for exactly these hours.
MovedOnlyByConsent ==
  [][\A b \in Booking : status[b] # "none" /\ slot'[b] # slot[b] =>
       \E r \in Request, p \in Handler :
         /\ reqs[r].b = b
         /\ reqs[r].status = "pending" /\ reqs'[r].status = "accepted"
         /\ reqs[r].what.slot = slot'[b]
         /\ h[p].b = b /\ h[p].by # reqs[r].by]_vars

\* A resolved change request keeps its answer: of an accept and a decline (or
\* an admin action) that race, the first one counts.
ResolutionIsFinal ==
  [][\A r \in Request : reqs[r].status \in {"accepted", "declined"} => reqs'[r] = reqs[r]]_vars

Lifecycle == INSTANCE BookingLifecycle

\* Each step of a handler is one promised move of one booking, or none.
ImplementsLifecycle == Lifecycle!Spec
=============================================================================
