------------------------------ MODULE Screening ------------------------------
(***************************************************************************)
(* The screening of one nanny by administrators (admin/pipes/screening,    *)
(* repositories/admin/nanny.repository).                                   *)
(*                                                                         *)
(* Every handler but that of a rejection first reads the nanny and decides *)
(* on what it read.  The status is changed, with its record, by a          *)
(* transaction that asks for the status again and locks the row: one step. *)
(* The steps are written without asking: all three, merged with a second   *)
(* read.  Reasons, names and documents are left out.                       *)
(***************************************************************************)
EXTENDS Naturals, Sequences

CONSTANTS
  Step,       \* docs_reviewed, references_checked, interview_done
  Officer,    \* requests of administrators being served at the same time
  MaxTrail    \* bound: changes of the status

ASSUME ScreeningAssumptions == MaxTrail \in Nat

VARIABLES
  verification,   \* nanny_profiles.verification_status
  ticks,          \* nanny_screening_steps: those that are ticked; no row is none
  trail,          \* admin_nanny_actions
  job,            \* what each handler is doing
  asked           \* history: the steps that were ever to be ticked by an accepted request

screeningVars == <<verification, ticks, trail, job, asked>>

Status == {"pending", "under_review", "verified", "rejected"}
PCs == {"idle", "merge", "write", "start", "verify", "reset"}
ScreeningJob == [pc : PCs, yes : SUBSET Step, no : SUBSET Step]
Doing(pc, yes, no) == [pc |-> pc, yes |-> yes, no |-> no]
Free == Doing("idle", {}, {})

ScreeningTypeOK ==
  /\ verification \in Status
  /\ ticks \subseteq Step /\ asked \subseteq Step
  /\ trail \in Seq([from : Status, to : Status])
  /\ job \in [Officer -> ScreeningJob]

ScreeningInit ==
  /\ verification = "pending" /\ ticks = {} /\ trail = <<>>
  /\ job = [p \in Officer |-> Free]
  /\ asked = {}

-----------------------------------------------------------------------------
(* UpdateScreeningSteps: the pipe looks at the status, the repository reads
   the steps again, fills in what the request leaves open, and writes. *)
StepsAccepted(p, yes, no) ==
  /\ job[p] = Free /\ verification = "under_review"
  /\ yes \cup no # {} /\ yes \cap no = {}
  /\ job' = [job EXCEPT ![p] = Doing("merge", yes, no)]
  /\ asked' = asked \cup yes
  /\ UNCHANGED <<verification, ticks, trail>>

StepsMerged(p) ==
  /\ job[p].pc = "merge"
  /\ job' = [job EXCEPT ![p] = Doing("write", (ticks \cup job[p].yes) \ job[p].no, {})]
  /\ UNCHANGED <<verification, ticks, trail, asked>>

StepsWritten(p) ==
  /\ job[p].pc = "write"
  /\ ticks' = job[p].yes
  /\ job' = [job EXCEPT ![p] = Free]
  /\ UNCHANGED <<verification, trail, asked>>

-----------------------------------------------------------------------------
(* StartScreening, VerifyNanny, ResetScreening: what they read first. *)
Reads(p, pc) ==
  /\ job[p] = Free
  /\ job' = [job EXCEPT ![p] = Doing(pc, {}, {})]
  /\ UNCHANGED <<verification, ticks, trail, asked>>

StartReads(p) == verification = "pending" /\ Reads(p, "start")
VerifyReads(p) == verification = "under_review" /\ ticks = Step /\ Reads(p, "verify")
ResetReads(p) == verification = "rejected" /\ Reads(p, "reset")

\* Mutant (ImplementsVerification): the transaction does not ask for the status.
BecomesAnyway(from, to) ==
  /\ Len(trail) < MaxTrail
  /\ verification' = to
  /\ trail' = Append(trail, [from |-> from, to |-> to])

(* UpdateNannyVerificationStatusWithAction, when the status is still `from'. *)
Becomes(from, to) ==
  /\ verification = from /\ Len(trail) < MaxTrail
  /\ verification' = to
  /\ trail' = Append(trail, [from |-> from, to |-> to])

Ends(p) == job' = [job EXCEPT ![p] = Free]

Starts(p) ==
  /\ job[p].pc = "start" /\ Becomes("pending", "under_review") /\ Ends(p)
  /\ UNCHANGED <<ticks, asked>>

Verifies(p) ==
  /\ job[p].pc = "verify" /\ Becomes("under_review", "verified") /\ Ends(p)
  /\ UNCHANGED <<ticks, asked>>

(* ResetNannyScreeningWithAction: the steps go in the same transaction. *)
Resets(p) ==
  /\ job[p].pc = "reset" /\ Becomes("rejected", "pending") /\ Ends(p)
  /\ ticks' = {}
  /\ UNCHANGED asked

(* RejectNanny reads nothing before its transaction. *)
Rejects ==
  /\ Becomes("under_review", "rejected")
  /\ UNCHANGED <<ticks, job, asked>>

(* The status is another one by now, a statement fails, or the server stops. *)
Gives(p) ==
  /\ job[p] # Free /\ Ends(p)
  /\ UNCHANGED <<verification, ticks, trail, asked>>

ScreeningNext ==
  \/ Rejects
  \/ \E p \in Officer :
       \/ StepsMerged(p) \/ StepsWritten(p)
       \/ StartReads(p) \/ VerifyReads(p) \/ ResetReads(p)
       \/ Starts(p) \/ Verifies(p) \/ Resets(p) \/ Gives(p)
       \/ \E yes, no \in SUBSET Step : StepsAccepted(p, yes, no)

ScreeningSpec == ScreeningInit /\ [][ScreeningNext]_screeningVars

-----------------------------------------------------------------------------
(* The handlers keep what Verification promises: whatever requests overlap,
   fail half way or decide on what they read before, the status follows its
   one path with a record of each change, verified is final, and a nanny is
   verified only when every step was confirmed while under review, if not
   always in the same round: a request that was slower than a rejection and
   a reset brings the ticks of the round before it back. *)
V == INSTANCE Verification WITH confirmed <- asked
ImplementsVerification == V!VerificationSpec

(* What the refinement rests on: a tick was asked for, whoever holds it, and
   a verification under way has read all of them. *)
TicksWereAsked ==
  /\ ticks \subseteq asked
  /\ \A p \in Officer :
       /\ job[p].yes \subseteq asked
       /\ job[p].pc = "verify" => asked = Step
=============================================================================
