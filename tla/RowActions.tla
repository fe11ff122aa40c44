----------------------------- MODULE RowActions -----------------------------
(***************************************************************************)
(* One row of a page with buttons.  A button is enabled by what the page   *)
(* has read of the row and by the page's own calls that are under way;     *)
(* some actions first ask for a reason in a dialog.  Meanwhile others      *)
(* change the row, calls overtake each other, answers and refetches get    *)
(* lost, and the API decides by what the row is when a call is served.     *)
(*                                                                         *)
(* What is enabled and what is accepted is a parameter (module RowTables). *)
(* A mutation hook knows its latest call only: a click on another row      *)
(* makes it forget that this row is busy.                                  *)
(***************************************************************************)
EXTENDS Naturals

CONSTANTS
  View,          \* pages with buttons, by component
  Rows,          \* [View -> the states of its rows]
  Offers,        \* [View -> [its actions -> SUBSET Rows]]: the button is enabled
  Takes,         \* [View -> [its actions -> SUBSET Rows]]: the API acts
  After,         \* [View -> [its actions -> [Rows -> Rows]]]
  Drift,         \* [View -> pairs of Rows]: changes by others
  Reasoned,      \* [View -> SUBSET of its actions]: those that open the dialog
  Hook,          \* [View -> [its actions -> the mutation hook that runs it]]
  Together,      \* pages on which a call for any row disables the buttons of all
  OneFlag,       \* pages with one flag for all actions, cleared by any answer before the refetch
  Unmarked,      \* pages that do not show that a row is busy
  Forgetful,     \* pages on which a button stays disabled after its call
  OneRow,        \* pages about a single row
  Uncertain,     \* actions that may be refused for something the row does not tell
  Charging,      \* actions that may leave a failed charge, and what the row is then
  FailedCharge,
  Hopeless,      \* pairs of a page and an action that is offered for rows it cannot work on
  MaxSent        \* bound: calls for this row under way at a time

None == "none"
Actions(v) == DOMAIN Offers[v]

\* What the page v offers for a row that it takes for s is accepted if it is r,
\* as far as the row decides.
Agrees(v, s, r) ==
  \A a \in Actions(v) : s \in Offers[v][a] =>
    r \in Takes[v][a] \/ a \in Uncertain \/ <<v, a>> \in Hopeless

(* What the pages rely on: offers agree with what the API takes, and go on
   doing so after a failed charge; a page that does not show a busy row asks
   for a reason each time; one that disables the buttons of one mutation only
   has no row with two. *)
ASSUME RowAssumptions ==
  /\ MaxSent \in Nat
  /\ \A v \in View :
       /\ None \notin Actions(v) /\ Reasoned[v] \subseteq Actions(v)
       /\ \A a \in Actions(v) : \A s \in Rows[v] \cap Takes[v][a] : After[v][a][s] \in Rows[v]
       /\ \A s \in Rows[v] : Agrees(v, s, s)
       /\ \A a \in Actions(v) \cap Charging :
            /\ FailedCharge \in Rows[v]
            /\ \A s \in Rows[v] \cap (Offers[v][a] \cup Takes[v][a]) : Agrees(v, s, FailedCharge)
       /\ v \in Unmarked => Actions(v) \subseteq Reasoned[v]
       /\ v \in Together =>
            /\ Actions(v) \cap Charging = {}
            /\ \A a, b \in Actions(v) : Hook[v][a] # Hook[v][b] => Offers[v][a] \cap Offers[v][b] = {}

VARIABLES
  view,
  row,        \* the row at the server
  seen,       \* the row as the page has it
  dialog,     \* the action that waits for a reason
  guard,      \* for each mutation: its latest call, if that is under way
  sent,       \* calls for this row
  elsewhere,  \* where one flag serves all: calls for other rows are under way
  astray      \* others changed the row, an answer or a refetch was lost, a call was forgotten or a
              \* dialog outlived its button, and the page has not settled since

rowVars == <<view, row, seen, dialog, guard, sent, elsewhere, astray>>

Acts == Actions(view)
Slot == 1..MaxSent
AtRest == 0
Other == MaxSent + 1  \* a call for another row
NoCall == [act |-> None, server |-> None, client |-> None]
Idle(i) == sent[i] = NoCall
AllIdle == \A i \in Slot : Idle(i)

RowStart(v, s) ==
  /\ view = v /\ row = s /\ seen = s
  /\ dialog = None
  /\ guard = [a \in Actions(v) |-> AtRest]
  /\ sent = [i \in Slot |-> NoCall]
  /\ elsewhere = FALSE /\ astray = FALSE

RowInit == \E v \in View : \E s \in Rows[v] : RowStart(v, s)

-----------------------------------------------------------------------------
(* The buttons *)

(* isPending and busyIds, with the variables of the latest call. *)
Busy(a) ==
  CASE view \in Unmarked  -> FALSE
    [] view \in Together  -> guard[a] # AtRest
    [] OTHER              -> \E b \in Acts : guard[b] \in Slot

\* Mutant (RefusalsHaveAReason): a row that is busy keeps its buttons.
EnabledTwice(a) == seen \in Offers[view][a]

Enabled(a) == seen \in Offers[view][a] /\ ~Busy(a)

(* A submission needs every mutation behind the dialog to be at rest. *)
DialogIsFree == \A a \in Reasoned[view] : guard[a] = AtRest \/ (view \in Forgetful /\ AllIdle)

Marked(a, g) ==
  guard' = [b \in Acts |-> IF Hook[view][b] = Hook[view][a] THEN g ELSE guard[b]]

Send(i, a) ==
  /\ Idle(i) /\ \A j \in 1..i-1 : ~Idle(j)
  /\ sent' = [sent EXCEPT ![i] = [act |-> a, server |-> "waiting", client |-> "waiting"]]
  /\ Marked(a, i)

Click(i, a) ==
  /\ a \notin Reasoned[view] /\ Enabled(a) /\ dialog = None
  /\ Send(i, a)
  /\ UNCHANGED <<view, row, seen, dialog, elsewhere, astray>>

OpenDialog(a) ==
  /\ a \in Reasoned[view] /\ Enabled(a) /\ dialog = None
  /\ dialog' = a
  /\ UNCHANGED <<view, row, seen, guard, sent, elsewhere, astray>>

CloseDialog ==
  /\ dialog # None
  /\ dialog' = None
  /\ UNCHANGED <<view, row, seen, guard, sent, elsewhere, astray>>

(* Nobody looks again whether the action is still offered. *)
Submit(i) ==
  /\ dialog # None /\ DialogIsFree
  /\ Send(i, dialog)
  /\ dialog' = None
  /\ astray' = (astray \/ seen \notin Offers[view][dialog])
  /\ UNCHANGED <<view, row, seen, elsewhere>>

(* The same action on another row of the list.  From now on the page does
   not know of a call for this row that is still under way. *)
Overtaken(lost) == astray' = (astray \/ lost)

ClickElsewhere(a) ==
  /\ view \notin OneRow /\ dialog = None
  /\ view \in Together => guard[a] = AtRest
  /\ a \in Reasoned[view] => DialogIsFree
  /\ elsewhere' = (view \in OneFlag) /\ Marked(a, Other)
  /\ Overtaken(guard[a] \in Slot /\ ~AllIdle)
  /\ UNCHANGED <<view, row, seen, dialog, sent>>

ElsewhereEnds ==
  /\ elsewhere \/ \E a \in Acts : guard[a] = Other
  /\ elsewhere' = FALSE
  /\ guard' = [a \in Acts |-> IF view \in OneFlag \/ (guard[a] = Other /\ view \notin Forgetful)
                               THEN AtRest ELSE guard[a]]
  /\ Overtaken(view \in OneFlag /\ \E a \in Acts : guard[a] \in Slot)
  /\ UNCHANGED <<view, row, seen, dialog, sent>>

-----------------------------------------------------------------------------
(* The API *)

(* Bound: once, until the page has settled again. *)
OthersAct ==
  /\ ~astray
  /\ \E s \in Rows[view] : <<row, s>> \in Drift[view] /\ s # row /\ row' = s
  /\ astray' = TRUE
  /\ UNCHANGED <<view, seen, dialog, guard, sent, elsewhere>>

Serve(i) ==
  /\ sent[i].server = "waiting" /\ row \in Takes[view][sent[i].act]
  /\ row' = After[view][sent[i].act][row]
  /\ sent' = [sent EXCEPT ![i].server = "did"]
  /\ UNCHANGED <<view, seen, dialog, guard, elsewhere, astray>>

Decline(i) ==
  /\ sent[i].server = "waiting"
  /\ row \notin Takes[view][sent[i].act] \/ sent[i].act \in Uncertain
  /\ row' = IF sent[i].act \in Charging /\ row \in Takes[view][sent[i].act]
            THEN FailedCharge ELSE row
  /\ sent' = [sent EXCEPT ![i].server = "refused"]
  /\ UNCHANGED <<view, seen, dialog, guard, elsewhere, astray>>

-----------------------------------------------------------------------------
(* The answers *)

(* A reason is gone once the page has read the row and nothing is open. *)
ReadRow(calls) ==
  /\ seen' = row
  /\ astray' = (astray /\ ~(dialog = None /\ \A i \in Slot : calls[i] = NoCall))

(* isPending ends with the latest call; hidingMessageId does not look. *)
Released(i) ==
  guard' = [a \in Acts |-> IF view \in OneFlag \/ (guard[a] = i /\ view \notin Forgetful)
                           THEN AtRest ELSE guard[a]]

(* onSuccess awaits the refetch of what it invalidates before the call is
   over; the flag of onSettled is taken down first. *)
Succeeded(i) ==
  /\ sent[i].client = "waiting"
  /\ sent[i].server = "did" \/ (sent[i].server = "refused" /\ view \in OneFlag)
  /\ sent' = [sent EXCEPT ![i].client = "refetching"]
  /\ IF view \in OneFlag THEN Released(i) /\ astray' = TRUE
     ELSE UNCHANGED <<guard, astray>>
  /\ UNCHANGED <<view, row, seen, dialog, elsewhere>>

Finished(i) ==
  /\ sent' = [sent EXCEPT ![i] = NoCall]
  /\ IF view \in OneFlag THEN UNCHANGED guard ELSE Released(i)
  /\ UNCHANGED <<view, row, dialog, elsewhere>>

Refetched(i) ==
  /\ sent[i].client = "refetching" /\ Finished(i)
  /\ ReadRow([sent EXCEPT ![i] = NoCall])

RefetchFailed(i) ==
  /\ sent[i].client = "refetching" /\ Finished(i)
  /\ astray' = TRUE /\ UNCHANGED seen

Failed(i) ==
  /\ sent[i].client = "waiting" /\ sent[i].server = "refused" /\ view \notin OneFlag
  /\ Finished(i)
  /\ UNCHANGED <<seen, astray>>

(* The answer does not arrive: the call has failed, whatever the API does. *)
Lost(i) ==
  /\ sent[i].client = "waiting"
  /\ sent' = [sent EXCEPT ![i] = IF sent[i].server = "waiting" THEN [@ EXCEPT !.client = "gone"] ELSE NoCall]
  /\ Released(i)
  /\ astray' = TRUE
  /\ UNCHANGED <<view, row, seen, dialog, elsewhere>>

Forgotten(i) ==
  /\ sent[i].client = "gone" /\ sent[i].server # "waiting"
  /\ sent' = [sent EXCEPT ![i] = NoCall]
  /\ UNCHANGED <<view, row, seen, dialog, guard, elsewhere, astray>>

(* A refetch for another reason. *)
Reread ==
  /\ seen # row \/ astray
  /\ ReadRow(sent)
  /\ UNCHANGED <<view, row, dialog, guard, sent, elsewhere>>

(* The page is left and opened again. *)
Reopen ==
  /\ sent' = [i \in Slot |-> IF sent[i].server = "waiting" THEN [sent[i] EXCEPT !.client = "gone"]
                                    ELSE NoCall]
  /\ guard' = [a \in Acts |-> AtRest] /\ dialog' = None /\ elsewhere' = FALSE
  /\ seen' = row
  /\ astray' = \E i \in Slot : sent[i].server = "waiting"
  /\ UNCHANGED <<view, row>>

CallProceeds(i) ==
  \/ Serve(i) \/ Decline(i) \/ Succeeded(i) \/ Refetched(i) \/ RefetchFailed(i)
  \/ Failed(i) \/ Lost(i) \/ Forgotten(i)

RowNext ==
  \/ \E i \in Slot : CallProceeds(i) \/ Submit(i) \/ \E a \in Acts : Click(i, a)
  \/ \E a \in Acts : OpenDialog(a) \/ ClickElsewhere(a)
  \/ CloseDialog \/ ElsewhereEnds \/ OthersAct \/ Reread \/ Reopen

RowSpec == RowInit /\ [][RowNext]_rowVars

-----------------------------------------------------------------------------
(* When the API refuses what the page has offered, there is a reason for it
   that is not the page's own work: others changed the row, an answer or a
   refetch was lost, another row took the guard away, a dialog outlived its
   button.  Or the page does not look at what the API looks at (Hopeless). *)
RefusalsHaveAReason ==
  [][\A i \in Slot :
       sent[i].server = "waiting" /\ sent'[i].server = "refused" =>
         \/ astray \/ sent[i].act \in Uncertain \/ <<view, sent[i].act>> \in Hopeless]_rowVars
=============================================================================
