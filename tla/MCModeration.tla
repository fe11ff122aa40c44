---------------------------- MODULE MCModeration ----------------------------
(***************************************************************************)
(* What administrators moderate, for TLC: reviews, messages and screening  *)
(* side by side.  They share no state, and one run looks at each of them:  *)
(* `part' says at which.                                                   *)
(***************************************************************************)
EXTENDS MCReviews, Messaging, Screening

CONSTANT c1

VARIABLE part     \* what the behaviour is about; it never changes

moderationVars == <<part, vars, messagingVars, screeningVars>>

ModerationInit ==
  /\ part \in {"reviews", "messages", "screening"}
  /\ Init /\ MessagingInit /\ ScreeningInit
  /\ part = "messages" \/ top = c1

ModerationNext ==
  /\ part' = part
  /\ \/ part = "reviews" /\ Next /\ UNCHANGED <<messagingVars, screeningVars>>
     \/ part = "messages" /\ MessagingNext /\ UNCHANGED <<vars, screeningVars>>
     \/ part = "screening" /\ ScreeningNext /\ UNCHANGED <<vars, messagingVars>>

ModerationSpec == ModerationInit /\ [][ModerationNext]_moderationVars
=============================================================================
