---------------------------- MODULE BookingsProofs ----------------------------
(***************************************************************************)
(* Theorems about Bookings, for every set of bookings, requests, handlers  *)
(* and slots.                                                              *)
(*                                                                         *)
(* TypeOK is not inductive: what a handler writes is what it remembered    *)
(* some calls ago.  HandlersOK says what may be relied on of that memory,  *)
(* and that identifiers are only used once they exist.                     *)
(***************************************************************************)
EXTENDS Bookings, TLAPS

Creating(p) == h[p].pc \in {"parentConflict", "nannyConflict", "insertBooking"}
Requesting(p) == h[p].pc \in {"requestConflict", "insertRequest"}

\* A handler that creates a booking has hours for it and is the only one to
\* know its identifier; one that creates a change request has a proposal for an
\* existing booking; change requests are about existing bookings.
HandlersOK ==
  /\ \A p \in Handler : Creating(p) => /\ h[p].what.slot \in Slot
                                       /\ h[p].b \in Booking /\ status[h[p].b] = "none"
  /\ \A p, q \in Handler : Creating(p) /\ Creating(q) /\ h[p].b = h[q].b => p = q
  /\ \A p \in Handler : Requesting(p) => /\ h[p].what \in Proposal
                                         /\ h[p].by \in Role
                                         /\ h[p].b \in Booking /\ status[h[p].b] # "none"
  /\ \A r \in Request : reqs[r] # NoRequest => status[reqs[r].b] # "none"

IInv == TypeOK /\ HandlersOK

USE DEF Status, Active, Role, PC, tables

-----------------------------------------------------------------------------
(* What the steps of a handler do to h. *)

LEMMA IdleJob == Idle \in Job /\ Idle.pc = "idle"
  BY DEF Idle, Serve, ServeChange, NoProposal, Job

LEMMA ProposalTypes ==
  ASSUME NEW w \in Proposal
  PROVE  w \in [type : {"cancel", "reschedule", None}, slot : Slot \cup {None}]
  BY DEF Proposal

LEMMA BeginEffect ==
  ASSUME TypeOK, NEW p \in Handler, NEW work \in Job, Begin(p, work)
  PROVE  /\ h' \in [Handler -> Job]
         /\ h'[p] = work
         /\ \A q \in Handler \ {p} : h'[q] = h[q]
  BY DEF TypeOK, Begin

LEMMA GoEffect ==
  ASSUME TypeOK, NEW p \in Handler, NEW pc \in PC, Go(p, pc)
  PROVE  /\ h' \in [Handler -> Job]
         /\ h'[p].pc = pc /\ h'[p].b = h[p].b /\ h'[p].by = h[p].by /\ h'[p].what = h[p].what
         /\ \A q \in Handler \ {p} : h'[q] = h[q]
<1> DEFINE new == [h[p] EXCEPT !.pc = pc]
<1>1. h \in [Handler -> Job] /\ h[p] \in Job
  BY DEF TypeOK
<1>2. new \in Job
  BY <1>1 DEF Job
<1>3. new.pc = pc /\ new.b = h[p].b /\ new.by = h[p].by /\ new.what = h[p].what
  BY <1>1 DEF Job
<1>4. h' = [h EXCEPT ![p] = new]
  BY DEF Go
<1> HIDE DEF new
<1> QED
  BY <1>1, <1>2, <1>3, <1>4

LEMMA DoneEffect ==
  ASSUME TypeOK, NEW p \in Handler, Done(p)
  PROVE  /\ h' \in [Handler -> Job]
         /\ h'[p] = Idle
         /\ \A q \in Handler \ {p} : h'[q] = h[q]
  BY IdleJob DEF TypeOK, Done

LEMMA RequestTypes ==
  ASSUME TypeOK, NEW r \in Request, reqs[r] # NoRequest
  PROVE  /\ reqs[r] \in RequestRow
         /\ reqs[r].what \in Proposal
         /\ \A st \in {"accepted", "declined"} :
              /\ [reqs[r] EXCEPT !.status = st] \in RequestRow
              /\ [reqs[r] EXCEPT !.status = st].b = reqs[r].b
  BY DEF TypeOK, RequestRow

\* A step that resolves requests leaves the others and their bookings alone.
LEMMA ResolveTypes ==
  ASSUME TypeOK, NEW R \in SUBSET Request, NEW st \in {"accepted", "declined"},
         \A r \in R : reqs[r].status = "pending",
         reqs' = [r \in Request |-> IF r \in R THEN [reqs[r] EXCEPT !.status = st] ELSE reqs[r]]
  PROVE  /\ reqs' \in [Request -> RequestRow \cup {NoRequest}]
         /\ \A r \in Request : reqs'[r] # NoRequest
              => reqs[r] # NoRequest /\ reqs'[r].b = reqs[r].b /\ reqs[r].b \in Booking
<1>1. \A r \in R : reqs[r] # NoRequest
  BY DEF NoRequest
<1>2. \A r \in Request : reqs[r] # NoRequest => reqs[r].b \in Booking
  BY RequestTypes DEF RequestRow
<1>3. \A r \in Request : /\ reqs'[r] \in RequestRow \cup {NoRequest}
                         /\ r \in R => reqs'[r].b = reqs[r].b
                         /\ r \notin R => reqs'[r] = reqs[r]
  BY <1>1, RequestTypes DEF TypeOK
<1> QED
  BY <1>1, <1>2, <1>3

-----------------------------------------------------------------------------
(* The invariant is inductive. *)

LEMMA InitInv == Init => IInv
<1> SUFFICES ASSUME Init PROVE IInv
  OBVIOUS
<1>1. TypeOK
  BY SchedulingAssumption, IdleJob DEF Init, TypeOK
<1>2. HandlersOK
  BY IdleJob DEF Init, HandlersOK, Creating, Requesting
<1> QED
  BY <1>1, <1>2 DEF IInv

\* A step by which a handler ends, and which lets no booking disappear.
LEMMA EndInv ==
  ASSUME IInv, NEW p \in Handler, Done(p),
         now' = now,
         status' \in [Booking -> Status],
         \A b \in Booking : status'[b] # status[b] => /\ status'[b] # "none"
                                                      /\ status[b] = "none" => h[p].b = b /\ Creating(p),
         slot' \in [Booking -> Slot \cup {None}],
         convos' \subseteq Booking,
         reqs' \in [Request -> RequestRow \cup {NoRequest}],
         \A r \in Request : reqs'[r] # NoRequest => status'[reqs'[r].b] # "none"
  PROVE  IInv'
<1>1. /\ h' \in [Handler -> Job]
      /\ h'[p] = Idle
      /\ \A q \in Handler \ {p} : h'[q] = h[q]
  BY DoneEffect DEF IInv
<1>2. TypeOK'
  BY <1>1 DEF IInv, TypeOK
<1>3. \A q \in Handler : Creating(q)' => q # p /\ Creating(q) /\ h'[q] = h[q]
  BY <1>1, IdleJob DEF Creating
<1>4. \A q \in Handler : Requesting(q)' => q # p /\ Requesting(q) /\ h'[q] = h[q]
  BY <1>1, IdleJob DEF Requesting
<1>5. \A q \in Handler : Creating(q)' => status'[h[q].b] = "none"
  BY <1>3 DEF IInv, HandlersOK
<1>6. HandlersOK'
  BY <1>3, <1>4, <1>5 DEF IInv, HandlersOK, Creating, Requesting
<1> QED
  BY <1>2, <1>6 DEF IInv

\* A step by which a handler begins to serve a request.
LEMMA ServeInv ==
  ASSUME IInv, NEW p \in Handler, NEW b \in Booking, NEW pc \in PC, NEW by \in Role \cup {None},
         NEW seen \in Status \cup {None},
         NEW w \in [type : {"cancel", "reschedule", None}, slot : Slot \cup {None}],
         Begin(p, ServeChange(b, pc, by, seen, w)),
         UNCHANGED <<now, tables>>,
         pc \in {"parentConflict", "nannyConflict", "insertBooking"}
           => w.slot \in Slot /\ status[b] = "none" /\ \A q \in Handler : h[q].b # b,
         pc \in {"requestConflict", "insertRequest"}
           => w \in Proposal /\ by \in Role /\ status[b] # "none"
  PROVE  IInv'
<1> DEFINE job == ServeChange(b, pc, by, seen, w)
<1>1. job \in Job /\ job.pc = pc /\ job.b = b /\ job.by = by /\ job.what = w
  BY DEF ServeChange, Job
<1> HIDE DEF job
<1>2. /\ h' \in [Handler -> Job]
      /\ h'[p] = job
      /\ \A q \in Handler \ {p} : h'[q] = h[q]
  BY <1>1, BeginEffect DEF IInv, job
<1>3. TypeOK'
  BY <1>2 DEF IInv, TypeOK
<1>4. HandlersOK'
  BY <1>1, <1>2 DEF IInv, HandlersOK, Creating, Requesting
<1> QED
  BY <1>3, <1>4 DEF IInv

\* A step by which a handler goes on, remembering what it remembered.
LEMMA GoInv ==
  ASSUME IInv, NEW p \in Handler, NEW pc \in PC, Go(p, pc),
         UNCHANGED <<now, tables>>,
         pc \in {"parentConflict", "nannyConflict", "insertBooking"} => Creating(p),
         pc \in {"requestConflict", "insertRequest"} => Requesting(p)
  PROVE  IInv'
<1>1. /\ h' \in [Handler -> Job]
      /\ h'[p].pc = pc /\ h'[p].b = h[p].b /\ h'[p].by = h[p].by /\ h'[p].what = h[p].what
      /\ \A q \in Handler \ {p} : h'[q] = h[q]
  BY GoEffect DEF IInv
<1>2. TypeOK'
  BY <1>1 DEF IInv, TypeOK
<1>3. \A q \in Handler : /\ Creating(q)' => Creating(q)
                         /\ Requesting(q)' => Requesting(q)
                         /\ h'[q].b = h[q].b /\ h'[q].by = h[q].by /\ h'[q].what = h[q].what
  BY <1>1 DEF Creating, Requesting
<1>4. HandlersOK'
  BY <1>3 DEF IInv, HandlersOK
<1> QED
  BY <1>2, <1>4 DEF IInv

\* A step by which a handler reads a change request.
LEMMA ReadInv ==
  ASSUME IInv, NEW p \in Handler, NEW job \in Job,
         job.pc \in {"acceptRequest", "acceptConflict", "declineRequest"},
         h' = [h EXCEPT ![p] = job],
         UNCHANGED <<now, tables>>
  PROVE  IInv'
<1>1. /\ h' \in [Handler -> Job]
      /\ h'[p] = job
      /\ \A q \in Handler \ {p} : h'[q] = h[q]
  BY DEF IInv, TypeOK
<1>2. TypeOK'
  BY <1>1 DEF IInv, TypeOK
<1>3. \A q \in Handler : Creating(q)' \/ Requesting(q)' => q # p
  BY <1>1 DEF Creating, Requesting
<1>4. HandlersOK'
  BY <1>1, <1>3 DEF IInv, HandlersOK, Creating, Requesting
<1> QED
  BY <1>2, <1>4 DEF IInv

LEMMA CreateInv ==
  ASSUME IInv, NEW p \in Handler, NEW b \in Booking, Create(p, b)
  PROVE  IInv'
<1>1. CASE CreateStart(p, b)
  <2>1. PICK s \in Slot :
          /\ status[b] = "none"
          /\ \A q \in Handler : h[q].b # b
          /\ Begin(p, ServeChange(b, "parentConflict", None, None, [type |-> None, slot |-> s]))
          /\ UNCHANGED <<now, tables>>
    BY <1>1 DEF CreateStart, ServeHours
  <2> QED
    BY <2>1, ServeInv
<1>2. CASE CreateCheckParent(p, b)
  BY <1>2, GoInv DEF CreateCheckParent, At, Creating
<1>3. CASE CreateCheckNanny(p, b)
  BY <1>3, GoInv DEF CreateCheckNanny, At, Creating
<1>4. CASE CreateBooking(p, b)
  <2>1. Creating(p) /\ h[p].b = b /\ h[p].what.slot \in Slot
    BY <1>4 DEF CreateBooking, At, Creating, IInv, HandlersOK
  <2> QED
    BY <1>4, <2>1, EndInv DEF CreateBooking, IInv, TypeOK, HandlersOK
<1> QED
  BY <1>1, <1>2, <1>3, <1>4 DEF Create

\* A step by which a handler moves a booking that exists, and ends.
LEMMA MoveInv ==
  ASSUME IInv, NEW p \in Handler, NEW b \in Booking, NEW st \in Status \ {"none"},
         status[b] # "none",
         status' = [status EXCEPT ![b] = st],
         convos' \in {convos, convos \cup {b}},
         Done(p),
         UNCHANGED <<now, slot, reqs>>
  PROVE  IInv'
  BY EndInv DEF IInv, TypeOK, HandlersOK

\* A handler that is about to complete remembers the hours it read.
LEMMA CompletesInv ==
  ASSUME IInv, NEW p \in Handler, NEW b \in Booking, NEW pc \in {"complete", "adminComplete"},
         Begin(p, ServeHours(b, pc, slot[b])), UNCHANGED <<now, tables>>
  PROVE  IInv'
<1> DEFINE w == [type |-> None, slot |-> slot[b]]
<1>1. w \in [type : {"cancel", "reschedule", None}, slot : Slot \cup {None}]
  BY DEF IInv, TypeOK
<1>2. Begin(p, ServeChange(b, pc, None, None, w))
  BY DEF ServeHours
<1> HIDE DEF w
<1> QED
  BY <1>1, <1>2, ServeInv, ZenonT(60)

LEMMA AnswerInv ==
  ASSUME IInv, NEW p \in Handler, NEW b \in Booking, Answer(p, b) \/ Finish(p, b)
  PROVE  IInv'
<1>1. CASE ApproveStart(p, b) \/ DeclineStart(p, b) \/ CancelStart(p, b)
  <2>1. PICK pc \in {"approve", "decline", "cancel"} :
          Begin(p, ServeChange(b, pc, None, None, [type |-> None, slot |-> None]))
    BY <1>1 DEF ApproveStart, DeclineStart, CancelStart, Serve, NoProposal
  <2>2. UNCHANGED <<now, tables>>
    BY <1>1 DEF ApproveStart, DeclineStart, CancelStart
  <2> QED
    BY <2>1, <2>2, ServeInv, ZenonT(60)
<1>3. CASE CompleteStart(p, b)
  BY <1>3, CompletesInv DEF CompleteStart
<1>2. CASE \/ ApproveBooking(p, b) \/ DeclineBooking(p, b) \/ CancelBooking(p, b)
           \/ CompleteBooking(p, b)
  BY <1>2, MoveInv DEF ApproveBooking, DeclineBooking, CancelBooking, CompleteBooking
<1> QED
  BY <1>1, <1>2, <1>3 DEF Answer, Finish

LEMMA ChangeInv ==
  ASSUME IInv, NEW p \in Handler, NEW b \in Booking, Change(p, b)
  PROVE  IInv'
<1>1. CASE CreateRequestStart(p, b)
  BY <1>1, ServeInv, ProposalTypes, ZenonT(60) DEF CreateRequestStart
<1>2. CASE CreateRequestCheck(p, b)
  BY <1>2, GoInv DEF CreateRequestCheck, At, Requesting
<1>3. CASE CreateRequest(p, b)
  <2>1. PICK r \in Request :
          reqs' = [reqs EXCEPT ![r] = [b |-> b, by |-> h[p].by, what |-> h[p].what,
                                       status |-> "pending"]]
    BY <1>3 DEF CreateRequest
  <2>2. h[p].what \in Proposal /\ h[p].by \in Role /\ status[b] # "none"
    BY <1>3 DEF CreateRequest, At, Requesting, IInv, HandlersOK
  <2>3. [b |-> b, by |-> h[p].by, what |-> h[p].what, status |-> "pending"] \in RequestRow
    BY <2>2 DEF RequestRow
  <2> QED
    BY <1>3, <2>1, <2>2, <2>3, EndInv DEF CreateRequest, IInv, TypeOK, HandlersOK
<1>4. CASE ResolveStart(p, b)
  BY <1>4, ServeInv, ZenonT(60) DEF ResolveStart, NoProposal, IInv, TypeOK
<1>5. CASE AcceptReadRequest(p, b)
  <2>1. PICK r \in Request :
          /\ Resolvable(p, b, r)
          /\ h' = [h EXCEPT ![p] =
                     [@ EXCEPT !.r = r, !.what = reqs[r].what,
                               !.pc = IF reqs[r].what.type = "cancel" THEN "acceptRequest"
                                                                      ELSE "acceptConflict"]]
    BY <1>5 DEF AcceptReadRequest
  <2>2. reqs[r].what \in [type : {"cancel", "reschedule", None}, slot : Slot \cup {None}]
    <3>1. reqs[r] # NoRequest
      BY <2>1 DEF Resolvable, NoRequest
    <3> QED
      BY <3>1, RequestTypes, ProposalTypes DEF IInv
  <2> DEFINE job == [h[p] EXCEPT !.r = r, !.what = reqs[r].what,
                       !.pc = IF reqs[r].what.type = "cancel" THEN "acceptRequest"
                                                              ELSE "acceptConflict"]
  <2>3. job \in Job /\ job.pc \in {"acceptRequest", "acceptConflict", "declineRequest"}
    <3>1. h[p] \in Job
      BY DEF IInv, TypeOK
    <3>2. \A pc \in {"acceptRequest", "acceptConflict"} :
            LET new == [h[p] EXCEPT !.r = r, !.what = reqs[r].what, !.pc = pc]
            IN  new \in Job /\ new.pc = pc
      BY <2>2, <3>1 DEF Job
    <3> QED
      BY <3>2
  <2> QED
    BY <1>5, <2>1, <2>3, ReadInv DEF AcceptReadRequest
<1>6. CASE AcceptCheck(p, b)
  BY <1>6, GoInv DEF AcceptCheck, At
<1>7. CASE AcceptCancel(p, b) \/ AcceptReschedule(p, b) \/ DeclineRequest(p, b)
  <2>1. PICK r \in Request, st \in {"accepted", "declined"} :
          /\ reqs[r].status = "pending"
          /\ reqs' = [reqs EXCEPT ![r] = [reqs[r] EXCEPT !.status = st]]
    BY <1>7 DEF AcceptCancel, AcceptReschedule, DeclineRequest, StillPending
  <2>2. /\ reqs' \in [Request -> RequestRow \cup {NoRequest}]
        /\ \A q \in Request : reqs'[q] # NoRequest
             => reqs[q] # NoRequest /\ reqs'[q].b = reqs[q].b /\ reqs[q].b \in Booking
    <3>1. reqs' = [q \in Request |-> IF q \in {r} THEN [reqs[q] EXCEPT !.status = st] ELSE reqs[q]]
      BY <2>1 DEF IInv, TypeOK
    <3> QED
      BY <2>1, <3>1, ResolveTypes DEF IInv
  <2>3. /\ status' \in [Booking -> Status]
        /\ \A a \in Booking : status'[a] # status[a] => status'[a] # "none" /\ status[a] # "none"
    BY <1>7 DEF AcceptCancel, AcceptReschedule, DeclineRequest, IInv, TypeOK
  <2>4. slot' \in [Booking -> Slot \cup {None}]
    <3>1. CASE AcceptReschedule(p, b)
      <4>1. PICK q \in Request : /\ reqs[q].status = "pending"
                                 /\ slot' = [slot EXCEPT ![b] = reqs[q].what.slot]
        BY <3>1 DEF AcceptReschedule, StillPending
      <4>2. reqs[q] # NoRequest
        BY <4>1 DEF NoRequest
      <4>3. reqs[q].what \in [type : {"cancel", "reschedule", None}, slot : Slot \cup {None}]
        BY <4>2, RequestTypes, ProposalTypes DEF IInv
      <4> QED
        BY <4>1, <4>3 DEF IInv, TypeOK
    <3> QED
      BY <1>7, <3>1 DEF AcceptCancel, DeclineRequest, IInv, TypeOK
  <2>5. Done(p) /\ now' = now /\ convos' = convos
    BY <1>7 DEF AcceptCancel, AcceptReschedule, DeclineRequest
  <2> QED
    BY <2>2, <2>3, <2>4, <2>5, EndInv DEF IInv, TypeOK, HandlersOK
<1>8. CASE DeclineReadRequest(p, b)
  <2>1. PICK r \in Request : h' = [h EXCEPT ![p] = [h[p] EXCEPT !.r = r, !.pc = "declineRequest"]]
    BY <1>8 DEF DeclineReadRequest
  <2> DEFINE job == [h[p] EXCEPT !.r = r, !.pc = "declineRequest"]
  <2>2. job \in Job /\ job.pc = "declineRequest"
    BY ZenonT(60) DEF IInv, TypeOK, Job
  <2>3. h' = [h EXCEPT ![p] = job] /\ UNCHANGED <<now, tables>>
    BY <1>8, <2>1 DEF DeclineReadRequest
  <2> HIDE DEF job
  <2> QED
    BY <2>2, <2>3, ReadInv
<1> QED
  BY <1>1, <1>2, <1>3, <1>4, <1>5, <1>6, <1>7, <1>8 DEF Change

LEMMA AdminInv ==
  ASSUME IInv, NEW p \in Handler, NEW b \in Booking, Admin(p, b)
  PROVE  IInv'
<1>1. CASE AdminCancelStart(p, b)
  BY <1>1, ServeInv DEF AdminCancelStart, AdminClosable, Serve, NoProposal
<1>3. CASE AdminCompleteStart(p, b)
  BY <1>3, CompletesInv DEF AdminCompleteStart
<1>2. CASE AdminCancel(p, b) \/ AdminComplete(p, b)
  <2>1. PICK st \in {"cancelled", "completed"} :
          /\ status[b] # "none"
          /\ status' = [status EXCEPT ![b] = st]
          /\ reqs' = [r \in Request |->
                        IF reqs[r].b = b /\ reqs[r].status = "pending"
                          THEN [reqs[r] EXCEPT !.status = "declined"]
                          ELSE reqs[r]]
          /\ Done(p)
          /\ UNCHANGED <<now, slot, convos>>
    BY <1>2 DEF AdminCancel, AdminComplete, AdminUpdate, AdminClosable
  <2>2. /\ reqs' \in [Request -> RequestRow \cup {NoRequest}]
        /\ \A q \in Request : reqs'[q] # NoRequest
             => reqs[q] # NoRequest /\ reqs'[q].b = reqs[q].b /\ reqs[q].b \in Booking
    <3> DEFINE R == {r \in Request : reqs[r].b = b /\ reqs[r].status = "pending"}
    <3>1. reqs' = [r \in Request |-> IF r \in R THEN [reqs[r] EXCEPT !.status = "declined"]
                                                ELSE reqs[r]]
      BY <2>1
    <3>2. R \in SUBSET Request /\ \A r \in R : reqs[r].status = "pending"
      OBVIOUS
    <3> HIDE DEF R
    <3> QED
      BY <3>1, <3>2, ResolveTypes DEF IInv
  <2> QED
    BY <2>1, <2>2, EndInv DEF IInv, TypeOK, HandlersOK
<1> QED
  BY <1>1, <1>2, <1>3 DEF Admin

LEMMA StepInv == IInv /\ [Next]_vars => IInv'
<1> SUFFICES ASSUME IInv, [Next]_vars PROVE IInv'
  OBVIOUS
<1>1. CASE Tick
  BY <1>1, SchedulingAssumption DEF Tick, IInv, TypeOK, HandlersOK, Creating, Requesting
<1>2. ASSUME NEW p \in Handler, GiveUp(p) PROVE IInv'
  BY <1>2, EndInv DEF GiveUp, IInv, TypeOK, HandlersOK
<1>3. CASE UNCHANGED vars
  BY <1>3 DEF vars, IInv, TypeOK, HandlersOK, Creating, Requesting
<1> QED
  BY <1>1, <1>2, <1>3, CreateInv, AnswerInv, ChangeInv, AdminInv DEF Next

\* IInv holds in every reachable state.
THEOREM Invariance == Spec => []IInv
  BY InitInv, StepInv, PTL DEF Spec

-----------------------------------------------------------------------------
(***************************************************************************)
(* The calendar.  No step writes more than one row, and what it writes is  *)
(* admitted by the two constraints.  Both invariants follow from that.     *)
(***************************************************************************)

LEMMA CalendarStep ==
  ASSUME IInv, [Next]_vars
  PROVE  \/ UNCHANGED <<status, slot>>
         \/ \E b \in Booking, st \in Status, s \in Slot \cup {None} :
              /\ status' = [status EXCEPT ![b] = st]
              /\ slot' = [slot EXCEPT ![b] = s]
              /\ Admitted(b, st, s)
<1> DEFINE Writes(b, st, s) == /\ status' = [status EXCEPT ![b] = st]
                               /\ slot' = [slot EXCEPT ![b] = s]
                               /\ Admitted(b, st, s)
<1>1. ASSUME NEW b \in Booking, NEW st \in Status \ Active,
             status' = [status EXCEPT ![b] = st], UNCHANGED slot
      PROVE  Writes(b, st, slot[b]) /\ slot[b] \in Slot \cup {None}
  BY <1>1 DEF IInv, TypeOK, Admitted
<1>2. ASSUME NEW p \in Handler, NEW b \in Booking, CreateBooking(p, b)
      PROVE  Writes(b, "pending", h[p].what.slot) /\ h[p].what.slot \in Slot
  BY <1>2 DEF CreateBooking, At, Creating, IInv, HandlersOK
<1>3. ASSUME NEW p \in Handler, NEW b \in Booking, ApproveBooking(p, b)
      PROVE  Writes(b, "approved", slot[b]) /\ slot[b] \in Slot \cup {None}
  BY <1>3 DEF ApproveBooking, IInv, TypeOK
<1>4. ASSUME NEW p \in Handler, NEW b \in Booking, AcceptReschedule(p, b)
      PROVE  \E s \in Slot \cup {None} : Writes(b, status[b], s)
  <2>1. PICK r \in Request : /\ reqs[r].status = "pending"
                             /\ Admitted(b, status[b], reqs[r].what.slot)
                             /\ slot' = [slot EXCEPT ![b] = reqs[r].what.slot]
    BY <1>4 DEF AcceptReschedule, StillPending
  <2>2. reqs[r] # NoRequest
    BY <2>1 DEF NoRequest
  <2>3. reqs[r].what \in [type : {"cancel", "reschedule", None}, slot : Slot \cup {None}]
    BY <2>2, RequestTypes, ProposalTypes DEF IInv
  <2>4. status' = [status EXCEPT ![b] = status[b]]
    BY <1>4 DEF AcceptReschedule, IInv, TypeOK
  <2> QED
    BY <2>1, <2>3, <2>4
<1>5. ASSUME NEW p \in Handler, NEW b \in Booking, Create(p, b) \/ Change(p, b)
      PROVE  \/ UNCHANGED <<status, slot>>
             \/ \E st \in Status, s \in Slot \cup {None} : Writes(b, st, s)
  <2>1. CASE AcceptCancel(p, b)
    BY <2>1, <1>1 DEF AcceptCancel
  <2>2. CASE AcceptReschedule(p, b)
    BY <2>2, <1>4 DEF IInv, TypeOK
  <2>3. CASE CreateBooking(p, b)
    BY <2>3, <1>2
  <2> QED
    BY <1>5, <2>1, <2>2, <2>3
    DEF Create, Change, CreateStart, CreateCheckParent, CreateCheckNanny, CreateRequestStart,
        CreateRequestCheck, CreateRequest, ResolveStart, AcceptReadRequest, AcceptCheck,
        DeclineReadRequest, DeclineRequest
<1>6. ASSUME NEW p \in Handler, NEW b \in Booking, Answer(p, b) \/ Finish(p, b) \/ Admin(p, b)
      PROVE  \/ UNCHANGED <<status, slot>>
             \/ \E st \in Status, s \in Slot \cup {None} : Writes(b, st, s)
  <2>1. CASE ApproveBooking(p, b)
    BY <2>1, <1>3
  <2>2. CASE \/ DeclineBooking(p, b) \/ CancelBooking(p, b) \/ CompleteBooking(p, b)
             \/ AdminCancel(p, b) \/ AdminComplete(p, b)
    <3>1. PICK st \in Status \ Active : status' = [status EXCEPT ![b] = st] /\ UNCHANGED slot
      BY <2>2 DEF DeclineBooking, CancelBooking, CompleteBooking, AdminCancel, AdminComplete,
                  AdminUpdate
    <3> QED
      BY <3>1, <1>1
  <2> QED
    BY <1>6, <2>1, <2>2
    DEF Answer, Finish, Admin, ApproveStart, DeclineStart, CancelStart, CompleteStart,
        AdminCancelStart, AdminCompleteStart
<1>7. CASE Tick \/ (\E p \in Handler : GiveUp(p)) \/ UNCHANGED vars
  BY <1>7 DEF Tick, GiveUp, vars
<1>8. CASE \E p \in Handler, b \in Booking :
              Create(p, b) \/ Answer(p, b) \/ Finish(p, b) \/ Change(p, b) \/ Admin(p, b)
  <2>1. PICK p \in Handler, b \in Booking :
          Create(p, b) \/ Answer(p, b) \/ Finish(p, b) \/ Change(p, b) \/ Admin(p, b)
    BY <1>8
  <2>2. \/ UNCHANGED <<status, slot>>
        \/ \E st \in Status, s \in Slot \cup {None} : Writes(b, st, s)
    BY <2>1, <1>5, <1>6
  <2> QED
    BY <2>2
<1> QED
  BY <1>7, <1>8 DEF Next

LEMMA NoDoubleBookingStep ==
  ASSUME IInv, NoDoubleBooking, [Next]_vars
  PROVE  NoDoubleBooking'
<1>1. CASE UNCHANGED <<status, slot>>
  BY <1>1 DEF NoDoubleBooking
<1>2. ASSUME NEW b \in Booking, NEW st \in Status, NEW s \in Slot \cup {None},
             status' = [status EXCEPT ![b] = st],
             slot' = [slot EXCEPT ![b] = s],
             Admitted(b, st, s)
      PROVE  NoDoubleBooking'
  <2> SUFFICES ASSUME NEW x \in Booking, NEW y \in Booking, x # y, NannyOf[x] = NannyOf[y],
                      status'[x] = "approved", status'[y] = "approved"
               PROVE  ~Overlap(slot'[x], slot'[y])
    BY DEF NoDoubleBooking, Overlap
  <2>1. CASE x # b /\ y # b
    BY <1>2, <2>1 DEF NoDoubleBooking, IInv, TypeOK
  <2>2. CASE x = b
    BY <1>2, <2>2 DEF Admitted, Overlap, IInv, TypeOK
  <2>3. CASE y = b
    BY <1>2, <2>3 DEF Admitted, IInv, TypeOK
  <2> QED
    BY <2>1, <2>2, <2>3
<1> QED
  BY <1>1, <1>2, CalendarStep

LEMMA NoDuplicateBookingStep ==
  ASSUME IInv, NoDuplicateBooking, [Next]_vars
  PROVE  NoDuplicateBooking'
<1>1. CASE UNCHANGED <<status, slot>>
  BY <1>1 DEF NoDuplicateBooking
<1>2. ASSUME NEW b \in Booking, NEW st \in Status, NEW s \in Slot \cup {None},
             status' = [status EXCEPT ![b] = st],
             slot' = [slot EXCEPT ![b] = s],
             Admitted(b, st, s)
      PROVE  NoDuplicateBooking'
  <2> SUFFICES ASSUME NEW x \in Booking, NEW y \in Booking, x # y, SameParties(x, y),
                      status'[x] \in Active, status'[y] \in Active
               PROVE  ~Overlap(slot'[x], slot'[y])
    BY DEF NoDuplicateBooking, Overlap, SameParties
  <2>1. CASE x # b /\ y # b
    BY <1>2, <2>1 DEF NoDuplicateBooking, IInv, TypeOK
  <2>2. CASE x = b
    BY <1>2, <2>2 DEF Admitted, Overlap, SameParties, IInv, TypeOK
  <2>3. CASE y = b
    BY <1>2, <2>3 DEF Admitted, IInv, TypeOK
  <2> QED
    BY <2>1, <2>2, <2>3
<1> QED
  BY <1>1, <1>2, CalendarStep

\* No nanny is promised twice (NoDoubleBooking), whatever interleaves.
THEOREM NoDoubleBookingHolds == Spec => []NoDoubleBooking
<1>1. Init => NoDoubleBooking
  BY DEF Init, NoDoubleBooking
<1>2. Spec => []IInv
  BY Invariance
<1> QED
  BY <1>1, <1>2, NoDoubleBookingStep, PTL DEF Spec

\* No parent has two open bookings with a nanny for the same hours.
THEOREM NoDuplicateBookingHolds == Spec => []NoDuplicateBooking
<1>1. Init => NoDuplicateBooking
  BY DEF Init, NoDuplicateBooking
<1>2. Spec => []IInv
  BY Invariance
<1> QED
  BY <1>1, <1>2, NoDuplicateBookingStep, PTL DEF Spec

\* Every variable keeps its type, what handlers remember included.
THEOREM TypeCorrect == Spec => []TypeOK
<1>1. IInv => TypeOK
  BY DEF IInv
<1> QED
  BY <1>1, Invariance, PTL

-----------------------------------------------------------------------------
(***************************************************************************)
(* The life cycle and the change requests.                                 *)
(***************************************************************************)

LEMMA LifecycleStep == IInv /\ [Next]_vars => [Lifecycle!Next]_(Lifecycle!lifecycleVars)
<1> SUFFICES ASSUME IInv, [Next]_vars
             PROVE  \/ UNCHANGED <<status, convos>>
                    \/ \E b \in Booking : \/ Lifecycle!Ask(b) \/ Lifecycle!Decline(b)
                                          \/ Lifecycle!Approve(b) \/ Lifecycle!Complete(b)
                                          \/ Lifecycle!Cancel(b)
  BY DEF Lifecycle!Next, Lifecycle!lifecycleVars
<1> USE DEF Lifecycle!Ask, Lifecycle!Decline, Lifecycle!Approve, Lifecycle!Complete,
            Lifecycle!Cancel, Lifecycle!Move
<1>1. ASSUME NEW p \in Handler, NEW b \in Booking, Create(p, b)
      PROVE  UNCHANGED <<status, convos>> \/ Lifecycle!Ask(b)
  <2>1. CASE CreateBooking(p, b)
    BY <2>1 DEF CreateBooking, At, Creating, IInv, HandlersOK
  <2> QED
    BY <1>1, <2>1 DEF Create, CreateStart, CreateCheckParent, CreateCheckNanny
<1>2. ASSUME NEW p \in Handler, NEW b \in Booking, Answer(p, b) \/ Finish(p, b)
      PROVE  \/ UNCHANGED <<status, convos>>
             \/ Lifecycle!Decline(b) \/ Lifecycle!Approve(b) \/ Lifecycle!Complete(b)
             \/ Lifecycle!Cancel(b)
  BY <1>2 DEF Answer, Finish, ApproveStart, ApproveBooking, DeclineStart, DeclineBooking,
              CancelStart, CancelBooking, CompleteStart, CompleteBooking
<1>3. ASSUME NEW p \in Handler, NEW b \in Booking, Change(p, b)
      PROVE  UNCHANGED <<status, convos>> \/ Lifecycle!Cancel(b)
  BY <1>3 DEF Change, CreateRequestStart, CreateRequestCheck, CreateRequest, ResolveStart,
              AcceptReadRequest, AcceptCheck, AcceptCancel, AcceptReschedule,
              DeclineReadRequest, DeclineRequest
<1>4. ASSUME NEW p \in Handler, NEW b \in Booking, Admin(p, b)
      PROVE  UNCHANGED <<status, convos>> \/ Lifecycle!Cancel(b) \/ Lifecycle!Complete(b)
  BY <1>4 DEF Admin, AdminCancelStart, AdminCancel, AdminCompleteStart, AdminComplete,
              AdminUpdate, AdminClosable
<1>5. CASE Tick \/ (\E p \in Handler : GiveUp(p)) \/ UNCHANGED vars
  BY <1>5 DEF Tick, GiveUp, vars
<1>6. CASE \E p \in Handler, b \in Booking :
              Create(p, b) \/ Answer(p, b) \/ Finish(p, b) \/ Change(p, b) \/ Admin(p, b)
  <2>1. PICK p \in Handler, b \in Booking :
          Create(p, b) \/ Answer(p, b) \/ Finish(p, b) \/ Change(p, b) \/ Admin(p, b)
    BY <1>6
  <2> HIDE DEF Lifecycle!Ask, Lifecycle!Decline, Lifecycle!Approve, Lifecycle!Complete,
               Lifecycle!Cancel, Lifecycle!Move
  <2> QED
    BY <2>1, <1>1, <1>2, <1>3, <1>4
<1> QED
  BY <1>5, <1>6 DEF Next

\* What a step may do to a change request: it is created pending; a pending one
\* is answered, and a cancellation is agreed together with the booking's end.
LEMMA RequestStep ==
  ASSUME IInv, [Next]_vars, NEW r \in Request
  PROVE  \/ reqs'[r] = reqs[r]
         \/ reqs[r] = NoRequest /\ reqs'[r].status = "pending"
         \/ /\ reqs[r].status = "pending"
            /\ reqs'[r].b = reqs[r].b /\ reqs'[r].what = reqs[r].what /\ reqs'[r].by = reqs[r].by
            /\ \/ reqs'[r].status = "declined"
               \/ reqs[r].what.type = "cancel" => status'[reqs[r].b] = "cancelled"
<1>1. \A q \in Request, st \in {"accepted", "declined"} : reqs[q].status = "pending" =>
        /\ [reqs[q] EXCEPT !.status = st].b = reqs[q].b
        /\ [reqs[q] EXCEPT !.status = st].what = reqs[q].what
        /\ [reqs[q] EXCEPT !.status = st].by = reqs[q].by
        /\ [reqs[q] EXCEPT !.status = st].status = st
  <2>1. \A q \in Request : reqs[q].status = "pending" => reqs[q] \in RequestRow
    <3>1. \A q \in Request : reqs[q].status = "pending" => reqs[q] # NoRequest
      BY DEF NoRequest
    <3> QED
      BY <3>1, RequestTypes DEF IInv
  <2> QED
    BY <2>1 DEF RequestRow
<1>2. ASSUME NEW p \in Handler, NEW b \in Booking, Change(p, b), reqs' # reqs
      PROVE  \/ reqs'[r] = reqs[r]
             \/ reqs[r] = NoRequest /\ reqs'[r].status = "pending"
             \/ /\ reqs[r].status = "pending"
                /\ reqs'[r].b = reqs[r].b /\ reqs'[r].what = reqs[r].what /\ reqs'[r].by = reqs[r].by
                /\ \/ reqs'[r].status = "declined"
                   \/ reqs[r].what.type = "cancel" => status'[reqs[r].b] = "cancelled"
  <2>1. CASE CreateRequest(p, b)
    BY <2>1 DEF CreateRequest, IInv, TypeOK
  <2>2. CASE AcceptCancel(p, b)
    BY <2>2, <1>1 DEF AcceptCancel, StillPending, IInv, TypeOK
  <2>3. CASE AcceptReschedule(p, b)
    BY <2>3, <1>1 DEF AcceptReschedule, StillPending, IInv, TypeOK
  <2>4. CASE DeclineRequest(p, b)
    BY <2>4, <1>1 DEF DeclineRequest, StillPending, IInv, TypeOK
  <2> QED
    BY <1>2, <2>1, <2>2, <2>3, <2>4
    DEF Change, CreateRequestStart, CreateRequestCheck, ResolveStart, AcceptReadRequest,
        AcceptCheck, DeclineReadRequest
<1>3. ASSUME NEW p \in Handler, NEW b \in Booking, Admin(p, b), reqs' # reqs
      PROVE  \/ reqs'[r] = reqs[r]
             \/ /\ reqs[r].status = "pending"
                /\ reqs'[r].b = reqs[r].b /\ reqs'[r].what = reqs[r].what /\ reqs'[r].by = reqs[r].by
                /\ reqs'[r].status = "declined"
  BY <1>3, <1>1 DEF Admin, AdminCancelStart, AdminCancel, AdminCompleteStart, AdminComplete,
                    AdminUpdate
<1>4. ASSUME NEW p \in Handler, NEW b \in Booking, Create(p, b) \/ Answer(p, b) \/ Finish(p, b)
      PROVE  reqs' = reqs
  BY <1>4 DEF Create, CreateStart, CreateCheckParent, CreateCheckNanny, CreateBooking, Answer,
              ApproveStart, ApproveBooking, DeclineStart, DeclineBooking, CancelStart,
              CancelBooking, Finish, CompleteStart, CompleteBooking
<1>5. CASE Tick \/ (\E p \in Handler : GiveUp(p)) \/ UNCHANGED vars
  BY <1>5 DEF Tick, GiveUp, vars
<1>6. CASE \E p \in Handler, b \in Booking :
              Create(p, b) \/ Answer(p, b) \/ Finish(p, b) \/ Change(p, b) \/ Admin(p, b)
  <2>1. PICK p \in Handler, b \in Booking :
          Create(p, b) \/ Answer(p, b) \/ Finish(p, b) \/ Change(p, b) \/ Admin(p, b)
    BY <1>6
  <2> QED
    BY <2>1, <1>2, <1>3, <1>4
<1> QED
  BY <1>5, <1>6 DEF Next

LEMMA AgreedCancelStep ==
  ASSUME IInv, AgreedCancelHolds, [Next]_vars
  PROVE  AgreedCancelHolds'
<1> SUFFICES ASSUME NEW r \in Request,
                    reqs'[r].status = "accepted", reqs'[r].what.type = "cancel"
             PROVE  status'[reqs'[r].b] = "cancelled"
  BY DEF AgreedCancelHolds
<1>1. CASE reqs'[r] = reqs[r]
  <2>1. status[reqs[r].b] = "cancelled"
    BY <1>1 DEF AgreedCancelHolds
  <2>2. reqs[r].b \in Booking
    <3>1. reqs[r] # NoRequest
      BY <1>1 DEF NoRequest
    <3> QED
      BY <3>1, RequestTypes DEF RequestRow, IInv
  <2>3. [Lifecycle!Next]_(Lifecycle!lifecycleVars)
    BY LifecycleStep
  <2>4. status' = status \/ \E b \in Booking, st \in Status :
                              status[b] # "cancelled" /\ status' = [status EXCEPT ![b] = st]
    BY <2>3 DEF Lifecycle!Next, Lifecycle!lifecycleVars, Lifecycle!Ask, Lifecycle!Decline,
                Lifecycle!Approve, Lifecycle!Complete, Lifecycle!Cancel, Lifecycle!Move
  <2> QED
    BY <1>1, <2>1, <2>2, <2>4 DEF IInv, TypeOK
<1>2. CASE reqs'[r] # reqs[r]
  BY <1>2, RequestStep
<1> QED
  BY <1>1, <1>2

\* An agreed cancellation stands (AgreedCancelHolds).
THEOREM AgreedCancelStands == Spec => []AgreedCancelHolds
<1>1. Init => AgreedCancelHolds
  BY DEF Init, AgreedCancelHolds, NoRequest
<1>2. Spec => []IInv
  BY Invariance
<1> QED
  BY <1>1, <1>2, AgreedCancelStep, PTL DEF Spec

\* A resolved change request keeps its answer (ResolutionIsFinal).
THEOREM ResolutionStands == Spec => ResolutionIsFinal
<1>1. IInv /\ [Next]_vars =>
        [\A r \in Request : reqs[r].status \in {"accepted", "declined"} => reqs'[r] = reqs[r]]_vars
  BY RequestStep DEF NoRequest
<1> QED
  BY <1>1, Invariance, PTL DEF Spec, ResolutionIsFinal

\* Whatever the handlers do, a booking moves as BookingLifecycle promises.
THEOREM LifecycleRefined == Spec => ImplementsLifecycle
<1>1. Init => Lifecycle!Init
  BY DEF Init, Lifecycle!Init
<1> QED
  BY <1>1, LifecycleStep, Invariance, PTL DEF Spec, ImplementsLifecycle, Lifecycle!Spec

-----------------------------------------------------------------------------
(***************************************************************************)
(* Hours.  Who may accept a request and whose hours are over is found out  *)
(* some calls before the write; that it still holds then needs what a step *)
(* can do to a handler, to a request and to the hours of a booking.        *)
(***************************************************************************)

Accepting(p) == h[p].pc \in {"acceptConflict", "acceptRequest"}
Finishing(p) == h[p].pc \in {"complete", "adminComplete"}

Moved(b) == \E r \in Request :
  reqs[r].b = b /\ reqs[r].status = "accepted" /\ reqs[r].what.slot = slot[b]

\* A handler that accepts a request does so for the other party, and one that
\* completes a booking has read hours that are over, which are still those of
\* the booking unless it was moved; a booking that exists has hours.
HoursOK ==
  /\ \A p \in Handler : Accepting(p) =>
       /\ h[p].r \in Request /\ reqs[h[p].r] # NoRequest /\ reqs[h[p].r].by # h[p].by
  /\ \A b \in Booking : status[b] # "none" => slot[b] \in Slot
  /\ \A p \in Handler : Finishing(p) =>
       /\ h[p].b \in Booking /\ status[h[p].b] # "none"
       /\ h[p].what.slot \in Slot /\ Over(h[p].what.slot)
       /\ slot[h[p].b] = h[p].what.slot \/ Moved(h[p].b)

\* What a step can do to a handler that accepts or completes.
JobStep(p) ==
  \/ h'[p] = h[p]
  \/ ~Accepting(p)' /\ ~Finishing(p)'
  \/ Accepting(p) /\ ~Finishing(p)' /\ h'[p].r = h[p].r /\ h'[p].by = h[p].by
  \/ /\ ~Finishing(p)'
     /\ h'[p].r \in Request /\ reqs[h'[p].r].status = "pending" /\ reqs[h'[p].r].by # h'[p].by
  \/ /\ ~Accepting(p)'
     /\ h'[p].b \in Booking /\ status[h'[p].b] = "approved"
     /\ h'[p].what.slot = slot[h'[p].b] /\ Over(slot[h'[p].b])

\* A step of another handler, or one after which p is idle.
LEMMA Elsewhere ==
  ASSUME IInv, NEW p \in Handler, NEW q \in Handler, h' = [h EXCEPT ![q] = Idle]
  PROVE  JobStep(p)
  BY IdleJob DEF IInv, TypeOK, JobStep, Accepting, Finishing

LEMMA Serves ==
  ASSUME IInv, NEW p \in Handler, NEW q \in Handler, NEW b, NEW by, NEW seen, NEW w, NEW pc,
         pc \notin {"acceptConflict", "acceptRequest", "complete", "adminComplete"},
         Begin(q, ServeChange(b, pc, by, seen, w))
  PROVE  JobStep(p)
  BY DEF IInv, TypeOK, Begin, ServeChange, JobStep, Accepting, Finishing

LEMMA Moves ==
  ASSUME IInv, NEW p \in Handler, NEW q \in Handler, NEW pc \in PC,
         pc \notin {"acceptConflict", "acceptRequest", "complete", "adminComplete"}, Go(q, pc)
  PROVE  JobStep(p)
  BY GoEffect DEF IInv, JobStep, Accepting, Finishing

LEMMA Completes ==
  ASSUME IInv, NEW p \in Handler, NEW q \in Handler, NEW b \in Booking,
         NEW pc \in {"complete", "adminComplete"}, Begin(q, ServeHours(b, pc, slot[b])),
         status[b] = "approved", Ended(b)
  PROVE  JobStep(p)
  BY DEF IInv, TypeOK, Begin, ServeHours, ServeChange, JobStep, Accepting, Finishing, Ended

LEMMA JobSteps ==
  ASSUME IInv, [Next]_vars, NEW p \in Handler
  PROVE  JobStep(p)
<1>1. ASSUME NEW q \in Handler, NEW b \in Booking, Create(q, b) PROVE JobStep(p)
  <2>1. CASE CreateStart(q, b)
    BY <2>1, Serves DEF CreateStart, ServeHours
  <2>2. CASE CreateCheckParent(q, b) \/ CreateCheckNanny(q, b)
    BY <2>2, Moves DEF CreateCheckParent, CreateCheckNanny
  <2>3. CASE CreateBooking(q, b)
    BY <2>3, Elsewhere DEF CreateBooking, Done
  <2> QED
    BY <1>1, <2>1, <2>2, <2>3 DEF Create
<1>2. ASSUME NEW q \in Handler, NEW b \in Booking, Answer(q, b) PROVE JobStep(p)
  <2>1. CASE ApproveStart(q, b) \/ DeclineStart(q, b) \/ CancelStart(q, b)
    BY <2>1, Serves DEF ApproveStart, DeclineStart, CancelStart, Serve
  <2>2. CASE ApproveBooking(q, b) \/ DeclineBooking(q, b) \/ CancelBooking(q, b)
    BY <2>2, Elsewhere DEF ApproveBooking, DeclineBooking, CancelBooking, Done
  <2> QED
    BY <1>2, <2>1, <2>2 DEF Answer
<1>3. ASSUME NEW q \in Handler, NEW b \in Booking, Finish(q, b) \/ Admin(q, b) PROVE JobStep(p)
  <2>1. CASE CompleteStart(q, b) \/ AdminCompleteStart(q, b)
    BY <2>1, Completes DEF CompleteStart, AdminCompleteStart
  <2>2. CASE AdminCancelStart(q, b)
    BY <2>2, Serves DEF AdminCancelStart, Serve
  <2>3. CASE CompleteBooking(q, b) \/ AdminCancel(q, b) \/ AdminComplete(q, b)
    BY <2>3, Elsewhere DEF CompleteBooking, AdminCancel, AdminComplete, AdminUpdate, Done
  <2> QED
    BY <1>3, <2>1, <2>2, <2>3 DEF Finish, Admin
<1>4. ASSUME NEW q \in Handler, NEW b \in Booking, Change(q, b) PROVE JobStep(p)
  <2>1. CASE CreateRequestStart(q, b) \/ ResolveStart(q, b)
    BY <2>1, Serves DEF CreateRequestStart, ResolveStart
  <2>2. CASE CreateRequestCheck(q, b)
    BY <2>2, Moves DEF CreateRequestCheck
  <2>3. CASE CreateRequest(q, b) \/ AcceptCancel(q, b) \/ AcceptReschedule(q, b) \/ DeclineRequest(q, b)
    BY <2>3, Elsewhere DEF CreateRequest, AcceptCancel, AcceptReschedule, DeclineRequest, Done
  <2>4. CASE AcceptReadRequest(q, b)
    <3>1. PICK r \in Request :
            /\ Resolvable(q, b, r)
            /\ h' = [h EXCEPT ![q] =
                       [@ EXCEPT !.r = r, !.what = reqs[r].what,
                                 !.pc = IF reqs[r].what.type = "cancel" THEN "acceptRequest"
                                                                       ELSE "acceptConflict"]]
      BY <2>4 DEF AcceptReadRequest
    <3> DEFINE pc == IF reqs[r].what.type = "cancel" THEN "acceptRequest" ELSE "acceptConflict"
               job == [h[q] EXCEPT !.r = r, !.what = reqs[r].what, !.pc = pc]
    <3>2. h[q] \in Job /\ h \in [Handler -> Job]
      BY DEF IInv, TypeOK
    <3>3. job.pc \in {"acceptConflict", "acceptRequest"} /\ job.r = r /\ job.by = h[q].by
      BY <3>2 DEF Job
    <3>4. h' = [h EXCEPT ![q] = job]
      BY <3>1
    <3> HIDE DEF job
    <3> QED
      BY <3>1, <3>2, <3>3, <3>4 DEF JobStep, Resolvable, Accepting, Finishing
  <2>5. CASE AcceptCheck(q, b)
    <3>1. h[q] \in Job /\ h \in [Handler -> Job] /\ h[q].pc = "acceptConflict"
          /\ h' = [h EXCEPT ![q].pc = "acceptRequest"]
      BY <2>5 DEF AcceptCheck, At, Go, IInv, TypeOK
    <3>2. h'[q].pc = "acceptRequest" /\ h'[q].r = h[q].r /\ h'[q].by = h[q].by
          /\ (q # p => h'[p] = h[p])
      BY <3>1 DEF Job
    <3> QED
      BY <3>1, <3>2 DEF JobStep, Accepting, Finishing
  <2>6. CASE DeclineReadRequest(q, b)
    <3>1. PICK r \in Request : h' = [h EXCEPT ![q] = [@ EXCEPT !.r = r, !.pc = "declineRequest"]]
      BY <2>6 DEF DeclineReadRequest
    <3>2. h[q] \in Job /\ h \in [Handler -> Job]
      BY DEF IInv, TypeOK
    <3>3. h'[q].pc = "declineRequest" /\ (q # p => h'[p] = h[p])
      BY <3>1, <3>2 DEF Job
    <3> QED
      BY <3>3 DEF JobStep, Accepting, Finishing
  <2> QED
    BY <1>4, <2>1, <2>2, <2>3, <2>4, <2>5, <2>6 DEF Change
<1>5. ASSUME NEW q \in Handler, GiveUp(q) PROVE JobStep(p)
  BY <1>5, Elsewhere DEF GiveUp, Done
<1>6. CASE Tick \/ UNCHANGED vars
  BY <1>6 DEF Tick, vars, JobStep
<1> QED
  BY <1>1, <1>2, <1>3, <1>4, <1>5, <1>6 DEF Next

\* What a step can do to the hours of a booking that exists.
SlotMoves(b) ==
  \E p \in Handler, r \in Request :
    /\ At(p, "acceptRequest", b) /\ h[p].r = r
    /\ reqs[r].b = b /\ reqs[r].status = "pending" /\ reqs'[r].status = "accepted"
    /\ reqs'[r].b = b /\ reqs'[r].what = reqs[r].what
    /\ reqs[r].what.slot \in Slot /\ slot'[b] = reqs[r].what.slot

LEMMA SlotStep ==
  ASSUME IInv, [Next]_vars, NEW b \in Booking, status[b] # "none"
  PROVE  slot'[b] = slot[b] \/ SlotMoves(b)
<1>1. ASSUME NEW q \in Handler, NEW o \in Booking, CreateBooking(q, o) PROVE slot'[b] = slot[b]
  <2>1. o # b
    BY <1>1 DEF CreateBooking, At, Creating, IInv, HandlersOK
  <2> QED
    BY <1>1, <2>1 DEF CreateBooking, IInv, TypeOK
<1>2. ASSUME NEW q \in Handler, NEW o \in Booking, AcceptReschedule(q, o)
      PROVE  slot'[b] = slot[b] \/ SlotMoves(b)
  <2>1. PICK r \in Request : /\ At(q, "acceptRequest", o) /\ StillPending(q, o, r)
                             /\ reqs[r].what.type = "reschedule"
                             /\ reqs' = [reqs EXCEPT ![r].status = "accepted"]
                             /\ slot' = [slot EXCEPT ![o] = reqs[r].what.slot]
    BY <1>2 DEF AcceptReschedule
  <2>2. reqs[r] \in RequestRow
    <3>1. reqs[r] # NoRequest
      BY <2>1 DEF StillPending, NoRequest
    <3> QED
      BY <3>1, RequestTypes DEF IInv
  <2>3. reqs'[r].status = "accepted" /\ reqs'[r].b = reqs[r].b /\ reqs'[r].what = reqs[r].what
    BY <2>1, <2>2 DEF RequestRow, IInv, TypeOK
  <2>4. reqs[r].what.slot \in Slot
    BY <2>1, <2>2 DEF RequestRow, Proposal
  <2> QED
    BY <2>1, <2>3, <2>4 DEF StillPending, SlotMoves, IInv, TypeOK
<1>3. ASSUME NEW q \in Handler, NEW o \in Booking, Create(q, o) \/ Change(q, o)
      PROVE  slot'[b] = slot[b] \/ SlotMoves(b)
  BY <1>1, <1>2, <1>3
  DEF Create, CreateStart, CreateCheckParent, CreateCheckNanny, Change, CreateRequestStart,
      CreateRequestCheck, CreateRequest, ResolveStart, AcceptReadRequest, AcceptCheck,
      AcceptCancel, DeclineReadRequest, DeclineRequest
<1>4. ASSUME NEW q \in Handler, NEW o \in Booking, Answer(q, o) \/ Finish(q, o) \/ Admin(q, o)
      PROVE  slot' = slot
  BY <1>4 DEF Answer, ApproveStart, ApproveBooking, DeclineStart, DeclineBooking, CancelStart,
              CancelBooking, Finish, CompleteStart, CompleteBooking, Admin, AdminCancelStart,
              AdminCancel, AdminCompleteStart, AdminComplete, AdminUpdate
<1>5. CASE Tick \/ (\E p \in Handler : GiveUp(p)) \/ UNCHANGED vars
  BY <1>5 DEF Tick, GiveUp, vars
<1> QED
  BY <1>3, <1>4, <1>5 DEF Next

\* Time goes on, and a booking that exists goes on to exist.
LEMMA ClockStep ==
  ASSUME IInv, [Next]_vars
  PROVE  /\ now \in Int /\ now' \in Int /\ now <= now'
         /\ \A b \in Booking : status[b] # "none" => status'[b] # "none"
<1>1. now \in Int
  BY SchedulingAssumption DEF IInv, TypeOK
<1>2. now' = now \/ now' = now + 1
  <2>1. ASSUME NEW q \in Handler, NEW o \in Booking, Create(q, o) \/ Answer(q, o) \/ Finish(q, o)
        PROVE  now' = now
    BY <2>1 DEF Create, CreateStart, CreateCheckParent, CreateCheckNanny, CreateBooking, Answer,
                ApproveStart, ApproveBooking, DeclineStart, DeclineBooking, CancelStart,
                CancelBooking, Finish, CompleteStart, CompleteBooking
  <2>2. ASSUME NEW q \in Handler, NEW o \in Booking, Change(q, o) \/ Admin(q, o)
        PROVE  now' = now
    BY <2>2 DEF Change, CreateRequestStart, CreateRequestCheck, CreateRequest, ResolveStart,
                AcceptReadRequest, AcceptCheck, AcceptCancel, AcceptReschedule,
                DeclineReadRequest, DeclineRequest, Admin, AdminCancelStart, AdminCancel,
                AdminCompleteStart, AdminComplete, AdminUpdate
  <2>3. ASSUME Tick \/ (\E p \in Handler : GiveUp(p)) \/ UNCHANGED vars
        PROVE  now' = now \/ now' = now + 1
    BY <2>3 DEF Tick, GiveUp, vars
  <2> QED
    BY <2>1, <2>2, <2>3 DEF Next
<1>3. ASSUME NEW b \in Booking, status[b] # "none" PROVE status'[b] # "none"
  <2>1. [Lifecycle!Next]_(Lifecycle!lifecycleVars)
    BY LifecycleStep
  <2> QED
    BY <1>3, <2>1 DEF IInv, TypeOK, Lifecycle!Next, Lifecycle!lifecycleVars, Lifecycle!Ask,
       Lifecycle!Decline, Lifecycle!Approve, Lifecycle!Complete, Lifecycle!Cancel, Lifecycle!Move
<1> QED
  BY <1>1, <1>2, <1>3

\* A booking is created with the hours its handler has found free.
LEMMA CreatedWithHours ==
  ASSUME IInv, [Next]_vars, NEW b \in Booking, status[b] = "none", status'[b] # "none"
  PROVE  slot'[b] \in Slot
<1>1. ASSUME NEW q \in Handler, NEW o \in Booking, Create(q, o) PROVE slot'[b] \in Slot
  <2>1. CASE CreateBooking(q, o)
    <3>1. o = b /\ h[q].what.slot \in Slot
      BY <2>1 DEF CreateBooking, At, Creating, IInv, TypeOK, HandlersOK
    <3> QED
      BY <2>1, <3>1 DEF CreateBooking, IInv, TypeOK
  <2> QED
    BY <1>1, <2>1 DEF Create, CreateStart, CreateCheckParent, CreateCheckNanny
<1>2. ASSUME NEW q \in Handler, NEW o \in Booking, Answer(q, o) \/ Finish(q, o)
      PROVE  status'[b] = status[b]
  BY <1>2 DEF Answer, Finish, ApproveStart, ApproveBooking, DeclineStart, DeclineBooking,
              CancelStart, CancelBooking, CompleteStart, CompleteBooking, IInv, TypeOK
<1>3. ASSUME NEW q \in Handler, NEW o \in Booking, Change(q, o) \/ Admin(q, o)
      PROVE  status'[b] = status[b]
  BY <1>3 DEF Change, CreateRequestStart, CreateRequestCheck, CreateRequest, ResolveStart,
              AcceptReadRequest, AcceptCheck, AcceptCancel, AcceptReschedule,
              DeclineReadRequest, DeclineRequest, Admin, AdminCancelStart, AdminCancel,
              AdminCompleteStart, AdminComplete, AdminUpdate, AdminClosable, IInv, TypeOK
<1>4. ASSUME Tick \/ (\E p \in Handler : GiveUp(p)) \/ UNCHANGED vars
      PROVE  status'[b] = status[b]
  BY <1>4 DEF Tick, GiveUp, vars
<1> QED
  BY <1>1, <1>2, <1>3, <1>4 DEF Next

\* Hours that are over stay over.
LEMMA PassedStays ==
  ASSUME IInv, [Next]_vars, NEW s \in Slot, Over(s)
  PROVE  Over(s)'
<1>1. s.start \in Int /\ s.dur \in Int
  BY SchedulingAssumption
<1> QED
  BY <1>1, ClockStep DEF Over

\* A booking that was moved stays so, and hours change by a move only.
LEMMA MovedStays ==
  ASSUME IInv, [Next]_vars, NEW b \in Booking, status[b] # "none"
  PROVE  Moved(b)' \/ (slot'[b] = slot[b] /\ ~Moved(b))
<1>1. CASE SlotMoves(b)
  BY <1>1 DEF SlotMoves, Moved
<1>2. CASE slot'[b] = slot[b] /\ Moved(b)
  <2>1. PICK r \in Request : reqs[r].b = b /\ reqs[r].status = "accepted" /\ reqs[r].what.slot = slot[b]
    BY <1>2 DEF Moved
  <2>2. reqs'[r] = reqs[r]
    BY <2>1, RequestStep DEF NoRequest
  <2> QED
    BY <1>2, <2>1, <2>2 DEF Moved
<1> QED
  BY <1>1, <1>2, SlotStep

LEMMA HoursStep ==
  ASSUME IInv, HoursOK, [Next]_vars
  PROVE  HoursOK'
<1>1. ASSUME NEW r \in Request, reqs[r] # NoRequest
      PROVE  reqs'[r] # NoRequest /\ reqs'[r].by = reqs[r].by
  <2>1. reqs[r].b \in Booking
    BY <1>1, RequestTypes DEF IInv, RequestRow
  <2> QED
    BY <1>1, <2>1, RequestStep, SchedulingAssumption DEF NoRequest
<1>2. ASSUME NEW p \in Handler, Accepting(p)'
      PROVE  /\ h'[p].r \in Request /\ reqs'[h'[p].r] # NoRequest
             /\ reqs'[h'[p].r].by # h'[p].by
  <2>1. \/ Accepting(p) /\ h'[p].r = h[p].r /\ h'[p].by = h[p].by
        \/ /\ h'[p].r \in Request /\ reqs[h'[p].r].status = "pending"
           /\ reqs[h'[p].r].by # h'[p].by
    BY <1>2, JobSteps DEF JobStep, Accepting
  <2> QED
    BY <1>1, <2>1 DEF HoursOK, NoRequest
<1>3. ASSUME NEW b \in Booking, status'[b] # "none" PROVE slot'[b] \in Slot
  BY <1>3, CreatedWithHours, SlotStep DEF HoursOK, SlotMoves
<1>4. ASSUME NEW p \in Handler, Finishing(p)', NEW b, b = h'[p].b, NEW s, s = h'[p].what.slot
      PROVE  /\ b \in Booking /\ status'[b] # "none" /\ s \in Slot /\ Over(s)'
             /\ slot'[b] = s \/ Moved(b)'
  <2>1. \/ Finishing(p) /\ h'[p] = h[p]
        \/ b \in Booking /\ status[b] = "approved" /\ s = slot[b] /\ Over(s)
    BY <1>4, JobSteps DEF JobStep, Finishing
  <2>2. b \in Booking /\ status[b] # "none" /\ s \in Slot /\ Over(s) /\ (slot[b] = s \/ Moved(b))
    BY <1>4, <2>1 DEF HoursOK
  <2>3. slot'[b] = s \/ Moved(b)'
    BY <2>2, MovedStays
  <2> QED
    BY <2>2, <2>3, PassedStays, ClockStep
<1>5. ASSUME NEW p \in Handler, Finishing(p)'
      PROVE  /\ (h[p].b \in Booking /\ status[h[p].b] # "none")'
             /\ (h[p].what.slot \in Slot /\ Over(h[p].what.slot))'
             /\ (slot[h[p].b] = h[p].what.slot \/ Moved(h[p].b))'
  BY <1>5, <1>4 DEF Over, Moved
<1> QED
  BY <1>2, <1>3, <1>5 DEF HoursOK

\* Who completes a booking.
LEMMA EarlyStep ==
  ASSUME IInv, HoursOK, [Next]_vars, NEW b \in Booking,
         status[b] # "completed", status'[b] = "completed", ~Ended(b)
  PROVE  \E p \in Handler, r \in Request :
           /\ h[p].b = b /\ h[p].pc \in {"complete", "adminComplete"} /\ h'[p] = Idle
           /\ h[p].what.slot # slot[b] /\ Over(h[p].what.slot)
           /\ reqs[r].b = b /\ reqs[r].status = "accepted" /\ reqs[r].what.slot = slot[b]
<1>1. \E p \in Handler : Finishing(p) /\ h[p].b = b /\ h'[p] = Idle
  <2>1. ASSUME NEW q \in Handler, NEW o \in Booking,
               CompleteBooking(q, o) \/ AdminComplete(q, o), status'[b] # status[b]
        PROVE  Finishing(q) /\ h[q].b = b /\ h'[q] = Idle
    BY <2>1, DoneEffect DEF CompleteBooking, AdminComplete, AdminUpdate, At, Finishing, IInv, TypeOK
  <2>2. ASSUME NEW q \in Handler, NEW o \in Booking, Finish(q, o) \/ Admin(q, o),
               ~CompleteBooking(q, o), ~AdminComplete(q, o)
        PROVE  status[b] = "completed"
    BY <2>2 DEF Finish, CompleteStart, Admin, AdminCancelStart, AdminCancel, AdminCompleteStart,
                AdminUpdate, IInv, TypeOK
  <2>3. ASSUME NEW q \in Handler, NEW o \in Booking, Create(q, o) \/ Answer(q, o) \/ Change(q, o)
        PROVE  status[b] = "completed"
    BY <2>3 DEF Create, CreateStart, CreateCheckParent, CreateCheckNanny, CreateBooking, Answer,
                ApproveStart, ApproveBooking, DeclineStart, DeclineBooking, CancelStart,
                CancelBooking, Change, CreateRequestStart, CreateRequestCheck, CreateRequest,
                ResolveStart, AcceptReadRequest, AcceptCheck, AcceptCancel, AcceptReschedule,
                DeclineReadRequest, DeclineRequest, IInv, TypeOK
  <2>4. ASSUME Tick \/ (\E p \in Handler : GiveUp(p)) \/ UNCHANGED vars
        PROVE  status[b] = "completed"
    BY <2>4 DEF Tick, GiveUp, vars
  <2> QED
    BY <2>1, <2>2, <2>3, <2>4 DEF Next
<1>2. PICK p \in Handler : Finishing(p) /\ h[p].b = b /\ h'[p] = Idle
  BY <1>1
<1>3. Over(h[p].what.slot) /\ (slot[b] = h[p].what.slot \/ Moved(b))
  BY <1>2 DEF HoursOK
<1>4. h[p].what.slot # slot[b]
  BY <1>3 DEF Ended
<1> QED
  BY <1>2, <1>3, <1>4 DEF Finishing, Moved

LEMMA HoursInvariance == Spec => [](IInv /\ HoursOK)
<1>1. Init => HoursOK
  BY IdleJob DEF Init, HoursOK, Accepting, Finishing
<1> QED
  BY <1>1, InitInv, StepInv, HoursStep, PTL DEF Spec

\* A booking is completed before its hours are over only if it was moved while
\* the completion was under way: who completes it had read other hours, which
\* were over (complete.booking.pipe.go checks the end before the charge only).
THEOREM EarlyOnlyByReschedule == Spec => EarlyCompletionOnlyByReschedule
<1>1. IInv /\ HoursOK /\ [Next]_vars =>
        [\A b \in Booking : status[b] # "completed" /\ status'[b] = "completed" /\ ~Ended(b) =>
           \E p \in Handler, r \in Request :
             /\ h[p].b = b /\ h[p].pc \in {"complete", "adminComplete"} /\ h'[p] = Idle
             /\ h[p].what.slot # slot[b] /\ Over(h[p].what.slot)
             /\ reqs[r].b = b /\ reqs[r].status = "accepted" /\ reqs[r].what.slot = slot[b]]_vars
  BY EarlyStep
<1> QED
  BY <1>1, HoursInvariance, PTL DEF Spec, EarlyCompletionOnlyByReschedule

\* The hours of a booking change only when a party accepts the pending proposal
\* of the other for exactly these hours (AcceptChangeRequest).
THEOREM MovesNeedConsent == Spec => MovedOnlyByConsent
<1>1. ASSUME IInv, HoursOK, [Next]_vars, NEW b \in Booking, status[b] # "none", slot'[b] # slot[b]
      PROVE  \E r \in Request, p \in Handler :
               /\ reqs[r].b = b
               /\ reqs[r].status = "pending" /\ reqs'[r].status = "accepted"
               /\ reqs[r].what.slot = slot'[b]
               /\ h[p].b = b /\ h[p].by # reqs[r].by
  BY <1>1, SlotStep DEF SlotMoves, At, HoursOK, Accepting
<1>2. IInv /\ HoursOK /\ [Next]_vars =>
        [\A b \in Booking : status[b] # "none" /\ slot'[b] # slot[b] =>
           \E r \in Request, p \in Handler :
             /\ reqs[r].b = b
             /\ reqs[r].status = "pending" /\ reqs'[r].status = "accepted"
             /\ reqs[r].what.slot = slot'[b]
             /\ h[p].b = b /\ h[p].by # reqs[r].by]_vars
  BY <1>1
<1> QED
  BY <1>2, HoursInvariance, PTL DEF Spec, MovedOnlyByConsent
=============================================================================
