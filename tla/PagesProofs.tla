----------------------------- MODULE PagesProofs -----------------------------
(***************************************************************************)
(* Theorems about the query cache and the buttons of the pages, for any    *)
(* tables of pages that meet the assumptions of the two modules.           *)
(*                                                                         *)
(* The buttons.  As long as nothing has led the page astray, it has the    *)
(* row as it is, or the row as it was before a call of its own that is     *)
(* about to bring it the new one; it knows of each of its calls; and       *)
(* therefore makes no second call that the first would get refused.        *)
(*                                                                         *)
(* The cache.  Data that lacks a write is marked, unless an answer that    *)
(* has the write is still to come.                                         *)
(***************************************************************************)
EXTENDS QueryCache, RowActions, TLAPS

-----------------------------------------------------------------------------
(* The buttons *)

Sending ==
  [act : Acts, server : {"waiting", "did", "refused"}, client : {"waiting", "refetching", "gone"}]

RowTypeOK ==
  /\ view \in View /\ row \in Rows[view] /\ seen \in Rows[view]
  /\ dialog \in Reasoned[view] \cup {None}
  /\ guard \in [Acts -> 0..(MaxSent + 1)]
  /\ sent \in [Slot -> Sending \cup {NoCall}]
  /\ elsewhere \in BOOLEAN /\ astray \in BOOLEAN

\* Pages on which a call disables the buttons of its own mutation only.
Stacks == view \in Together /\ view \notin Unmarked

\* While the page is up to date ...
\* ... it knows of every call for the row, and the mutation of a call is not at rest;
CallsAreGuarded ==
  \A i \in Slot : ~Idle(i) =>
    /\ sent[i].client # "gone"
    /\ \A a \in Acts : Hook[view][a] = Hook[view][sent[i].act] => guard[a] = i

\* ... what it offers is accepted, but for a call that the API has served and the
\* page has not read yet;
SeenAgrees ==
  IF Stacks
  THEN seen = row \/ \E i \in Slot : sent[i].server = "did" /\ seen \in Offers[view][sent[i].act]
  ELSE Agrees(view, seen, row) \/ \E i \in Slot : sent[i].server = "did"

\* ... and what it has sent was offered, and is not overtaken by another call.
SentAgrees ==
  \A i \in Slot : sent[i].server = "waiting" =>
    /\ row \in Takes[view][sent[i].act] \/ sent[i].act \in Uncertain \/ <<view, sent[i].act>> \in Hopeless
    /\ seen \in Offers[view][sent[i].act] \/ (seen = row /\ ~Stacks)
    /\ Stacks => seen = row

\* One call is waiting at a time; of a page that does not stack calls, one is
\* under way, and none while a dialog is open over buttons that show it.
OneAtATime ==
  /\ \A i, j \in Slot : sent[i].server = "waiting" /\ sent[j].server = "waiting" => i = j
  /\ ~Stacks => \A i, j \in Slot : ~Idle(i) /\ ~Idle(j) => i = j
  /\ ~Stacks /\ view \notin Unmarked /\ dialog # None => AllIdle

UpToDate == CallsAreGuarded /\ SeenAgrees /\ SentAgrees /\ OneAtATime

RowInv == RowTypeOK /\ (~astray => UpToDate)

-----------------------------------------------------------------------------
(* Calls *)

USE DEF None, NoCall, Idle, AllIdle

\* What the type says of a call: which it is tells its fields.
LEMMA CallFacts ==
  ASSUME RowTypeOK, NEW i \in Slot
  PROVE  /\ Idle(i) => sent[i].server = None /\ sent[i].client = None
         /\ ~Idle(i) => sent[i] \in Sending
         /\ sent[i].server # None \/ sent[i].client # None => ~Idle(i)
         /\ ~Idle(i) => /\ sent[i].act \in Acts
                        /\ sent[i].server \in {"waiting", "did", "refused"}
                        /\ sent[i].client \in {"waiting", "refetching", "gone"}
BY DEF RowTypeOK, Sending

\* A call whose state at the server or at the page is set is a call still.
LEMMA CallEdited ==
  ASSUME NEW c \in Sending
  PROVE  /\ \A s \in {"waiting", "did", "refused"} :
              LET d == [c EXCEPT !.server = s]
              IN d \in Sending /\ d.act = c.act /\ d.server = s /\ d.client = c.client
         /\ \A s \in {"waiting", "refetching", "gone"} :
              LET d == [c EXCEPT !.client = s]
              IN d \in Sending /\ d.act = c.act /\ d.server = c.server /\ d.client = s
BY DEF Sending

\* A new call.
LEMMA CallMade ==
  ASSUME NEW a \in Acts
  PROVE  LET d == [act |-> a, server |-> "waiting", client |-> "waiting"]
         IN d \in Sending /\ d # NoCall /\ d.act = a /\ d.server = "waiting" /\ d.client = "waiting"
BY DEF Sending

\* One call is replaced: the others stay.
LEMMA OneReplaced ==
  ASSUME RowTypeOK, NEW i \in Slot, NEW d \in Sending \cup {NoCall},
         sent' = [sent EXCEPT ![i] = d], view' = view
  PROVE  /\ (sent \in [Slot -> Sending \cup {NoCall}])'
         /\ sent'[i] = d
         /\ \A j \in Slot : j # i => sent'[j] = sent[j]
BY DEF RowTypeOK, Sending, Acts

\* An answer of the API, and what becomes of it at the page.
LEMMA ServerSets ==
  ASSUME RowTypeOK, NEW i \in Slot, NEW s \in {"waiting", "did", "refused"}, sent[i].server # None,
         sent' = [sent EXCEPT ![i].server = s], view' = view
  PROVE  /\ (sent \in [Slot -> Sending \cup {NoCall}])'
         /\ \A j \in Slot : j # i => sent'[j] = sent[j]
         /\ sent'[i].act = sent[i].act /\ sent'[i].server = s /\ sent'[i].client = sent[i].client
         /\ sent'[i] # NoCall
<1> DEFINE d == [sent[i] EXCEPT !.server = s]
<1>1. sent[i] \in Sending
  BY CallFacts
<1>2. d \in Sending /\ d.act = sent[i].act /\ d.server = s /\ d.client = sent[i].client
  BY <1>1, CallEdited
<1>3. sent' = [sent EXCEPT ![i] = d]
  OBVIOUS
<1>4. d # NoCall
  BY <1>2
<1> HIDE DEF d
<1> QED BY <1>2, <1>3, <1>4, OneReplaced

LEMMA ClientSets ==
  ASSUME RowTypeOK, NEW i \in Slot, NEW s \in {"waiting", "refetching", "gone"}, sent[i].client # None,
         sent' = [sent EXCEPT ![i].client = s], view' = view
  PROVE  /\ (sent \in [Slot -> Sending \cup {NoCall}])'
         /\ \A j \in Slot : j # i => sent'[j] = sent[j]
         /\ sent'[i].act = sent[i].act /\ sent'[i].server = sent[i].server /\ sent'[i].client = s
         /\ sent'[i] # NoCall
<1> DEFINE d == [sent[i] EXCEPT !.client = s]
<1>1. sent[i] \in Sending
  BY CallFacts
<1>2. d \in Sending /\ d.act = sent[i].act /\ d.server = sent[i].server /\ d.client = s
  BY <1>1, CallEdited
<1>3. sent' = [sent EXCEPT ![i] = d]
  OBVIOUS
<1>4. d # NoCall
  BY <1>2
<1> HIDE DEF d
<1> QED BY <1>2, <1>3, <1>4, OneReplaced

-----------------------------------------------------------------------------
(* Types *)

LEMMA TypeInit == RowInit => RowTypeOK
<1> SUFFICES ASSUME NEW v \in View, NEW s \in Rows[v], RowStart(v, s)
             PROVE  RowTypeOK
  BY DEF RowInit
<1>1. view = v /\ row = s /\ seen = s /\ dialog = None /\ elsewhere = FALSE /\ astray = FALSE
  BY DEF RowStart
<1>2. guard \in [Acts -> 0..(MaxSent + 1)]
  BY <1>1, RowAssumptions DEF RowStart, Acts, AtRest
<1>3. sent \in [Slot -> Sending \cup {NoCall}]
  BY DEF RowStart
<1> QED BY <1>1, <1>2, <1>3 DEF RowTypeOK

\* A click or a submission makes one call and marks the mutation of its action.
LEMMA SendFacts ==
  ASSUME RowTypeOK, NEW i \in Slot, NEW a \in Acts, Send(i, a), view' = view
  PROVE  /\ Idle(i)
         /\ (sent \in [Slot -> Sending \cup {NoCall}])' /\ (guard \in [Acts -> 0..(MaxSent + 1)])'
         /\ \A j \in Slot : j # i => sent'[j] = sent[j]
         /\ sent'[i].act = a /\ sent'[i].server = "waiting" /\ sent'[i].client = "waiting"
         /\ \A b \in Acts : guard'[b] = IF Hook[view][b] = Hook[view][a] THEN i ELSE guard[b]
<1> DEFINE d == [act |-> a, server |-> "waiting", client |-> "waiting"]
<1>1. d \in Sending /\ d.act = a /\ d.server = "waiting" /\ d.client = "waiting"
  BY CallMade
<1>2. Idle(i) /\ sent' = [sent EXCEPT ![i] = d]
  BY DEF Send
<1>3. (sent \in [Slot -> Sending \cup {NoCall}])' /\ sent'[i] = d /\ \A j \in Slot : j # i => sent'[j] = sent[j]
  <2> HIDE DEF d
  <2> QED BY <1>1, <1>2, OneReplaced
<1>4. i \in 0..(MaxSent + 1)
  BY RowAssumptions DEF Slot
<1>5. (guard \in [Acts -> 0..(MaxSent + 1)])'
  BY <1>4 DEF RowTypeOK, Send, Marked, Acts
<1>6. \A b \in Acts : guard'[b] = IF Hook[view][b] = Hook[view][a] THEN i ELSE guard[b]
  BY DEF Send, Marked
<1> QED BY <1>1, <1>2, <1>3, <1>5, <1>6

\* The end of a call takes its mutation to rest, unless the page forgets that.
LEMMA ReleasedFacts ==
  ASSUME RowTypeOK, NEW i \in Slot, Released(i), view' = view
  PROVE  /\ (guard \in [Acts -> 0..(MaxSent + 1)])'
         /\ view \notin OneFlag => \A b \in Acts : guard[b] # i => guard'[b] = guard[b]
BY RowAssumptions DEF RowTypeOK, Released, Acts, AtRest

LEMMA FinishedFacts ==
  ASSUME RowTypeOK, NEW i \in Slot, Finished(i)
  PROVE  /\ view' = view /\ row' = row /\ dialog' = dialog /\ elsewhere' = elsewhere
         /\ (sent \in [Slot -> Sending \cup {NoCall}])' /\ sent' = [sent EXCEPT ![i] = NoCall]
         /\ sent'[i] = NoCall /\ \A j \in Slot : j # i => sent'[j] = sent[j]
         /\ (guard \in [Acts -> 0..(MaxSent + 1)])'
         /\ \A b \in Acts : guard[b] # i => guard'[b] = guard[b]
<1>1. view' = view /\ row' = row /\ dialog' = dialog /\ elsewhere' = elsewhere
  BY DEF Finished
<1>2. sent' = [sent EXCEPT ![i] = NoCall]
  BY DEF Finished
<1>3. /\ (sent \in [Slot -> Sending \cup {NoCall}])' /\ sent'[i] = NoCall
      /\ \A j \in Slot : j # i => sent'[j] = sent[j]
  BY <1>1, <1>2, OneReplaced
<1>4. /\ (guard \in [Acts -> 0..(MaxSent + 1)])'
      /\ \A b \in Acts : guard[b] # i => guard'[b] = guard[b]
  <2>1. CASE view \in OneFlag
    BY <1>1, <2>1 DEF Finished, RowTypeOK, Acts
  <2>2. CASE view \notin OneFlag
    BY <1>1, <2>2, ReleasedFacts DEF Finished
  <2> QED BY <2>1, <2>2
<1> QED BY <1>1, <1>2, <1>3, <1>4

LEMMA TypeOfCall ==
  ASSUME RowTypeOK, NEW i \in Slot, CallProceeds(i)
  PROVE  RowTypeOK'
<1>1. CASE Serve(i)
  <2>1. view' = view /\ sent[i].server = "waiting" /\ sent' = [sent EXCEPT ![i].server = "did"]
    BY <1>1 DEF Serve
  <2>2. (sent \in [Slot -> Sending \cup {NoCall}])'
    BY <2>1, ServerSets
  <2>3. sent[i].act \in Acts
    BY <2>1, CallFacts
  <2>4. row' \in Rows[view]
    BY <1>1, <2>3, RowAssumptions DEF Serve, RowTypeOK, Acts
  <2> QED BY <1>1, <2>1, <2>2, <2>4 DEF Serve, RowTypeOK, Acts
<1>2. CASE Decline(i)
  <2>1. view' = view /\ sent[i].server = "waiting" /\ sent' = [sent EXCEPT ![i].server = "refused"]
    BY <1>2 DEF Decline
  <2>2. (sent \in [Slot -> Sending \cup {NoCall}])'
    BY <2>1, ServerSets
  <2>3. sent[i].act \in Acts
    BY <2>1, CallFacts
  <2>4. row' \in Rows[view]
    BY <1>2, <2>3, RowAssumptions DEF Decline, RowTypeOK, Acts
  <2> QED BY <1>2, <2>1, <2>2, <2>4 DEF Decline, RowTypeOK, Acts
<1>3. CASE Succeeded(i)
  <2>1. view' = view /\ sent[i].client = "waiting" /\ sent' = [sent EXCEPT ![i].client = "refetching"]
    BY <1>3 DEF Succeeded
  <2>2. (sent \in [Slot -> Sending \cup {NoCall}])'
    BY <2>1, ClientSets
  <2>3. (guard \in [Acts -> 0..(MaxSent + 1)])' /\ astray' \in BOOLEAN
    <3>1. CASE view \in OneFlag
      BY <1>3, <2>1, <3>1, ReleasedFacts DEF Succeeded
    <3>2. CASE view \notin OneFlag
      BY <1>3, <2>1, <3>2 DEF Succeeded, RowTypeOK, Acts
    <3> QED BY <3>1, <3>2
  <2> QED BY <1>3, <2>1, <2>2, <2>3 DEF Succeeded, RowTypeOK, Acts
<1>4. CASE Refetched(i)
  <2>1. Finished(i) /\ seen' = row /\ astray' \in BOOLEAN
    BY <1>4 DEF Refetched, ReadRow, RowTypeOK
  <2> QED BY <2>1, FinishedFacts DEF RowTypeOK, Acts
<1>5. CASE RefetchFailed(i)
  BY <1>5, FinishedFacts DEF RefetchFailed, RowTypeOK, Acts
<1>6. CASE Failed(i)
  BY <1>6, FinishedFacts DEF Failed, RowTypeOK, Acts
<1>7. CASE Lost(i)
  <2>1. view' = view /\ sent[i].client = "waiting" /\ Released(i)
    BY <1>7 DEF Lost
  <2>2. (sent \in [Slot -> Sending \cup {NoCall}])'
    <3>1. CASE sent[i].server = "waiting"
      <4>1. sent' = [sent EXCEPT ![i].client = "gone"]
        BY <1>7, <3>1 DEF Lost
      <4> QED BY <2>1, <4>1, ClientSets
    <3>2. CASE sent[i].server # "waiting"
      <4>1. sent' = [sent EXCEPT ![i] = NoCall]
        BY <1>7, <3>2 DEF Lost
      <4> QED BY <2>1, <4>1, OneReplaced
    <3> QED BY <3>1, <3>2
  <2>3. (guard \in [Acts -> 0..(MaxSent + 1)])'
    BY <2>1, ReleasedFacts
  <2> QED BY <1>7, <2>1, <2>2, <2>3 DEF Lost, RowTypeOK, Acts
<1>8. CASE Forgotten(i)
  <2>1. view' = view /\ sent' = [sent EXCEPT ![i] = NoCall]
    BY <1>8 DEF Forgotten
  <2>2. (sent \in [Slot -> Sending \cup {NoCall}])'
    BY <2>1, OneReplaced
  <2> QED BY <1>8, <2>1, <2>2 DEF Forgotten, RowTypeOK, Acts
<1> QED BY <1>1, <1>2, <1>3, <1>4, <1>5, <1>6, <1>7, <1>8 DEF CallProceeds

LEMMA TypeNext == RowTypeOK /\ [RowNext]_rowVars => RowTypeOK'
<1> SUFFICES ASSUME RowTypeOK, [RowNext]_rowVars
             PROVE  RowTypeOK'
  OBVIOUS
<1>0. Reasoned[view] \subseteq Acts
  BY RowAssumptions DEF RowTypeOK, Acts
<1>1. ASSUME NEW i \in Slot, CallProceeds(i)
      PROVE  RowTypeOK'
  BY <1>1, TypeOfCall
<1>2. ASSUME NEW i \in Slot, Submit(i)
      PROVE  RowTypeOK'
  <2>1. dialog \in Acts /\ Send(i, dialog) /\ view' = view
    BY <1>0, <1>2 DEF Submit, RowTypeOK
  <2>2. (sent \in [Slot -> Sending \cup {NoCall}])' /\ (guard \in [Acts -> 0..(MaxSent + 1)])'
    BY <2>1, SendFacts
  <2>3. astray' \in BOOLEAN
    BY <1>2 DEF Submit, RowTypeOK
  <2> QED BY <1>2, <2>1, <2>2, <2>3 DEF Submit, RowTypeOK, Acts
<1>3. ASSUME NEW i \in Slot, NEW a \in Acts, Click(i, a)
      PROVE  RowTypeOK'
  <2>1. Send(i, a) /\ view' = view
    BY <1>3 DEF Click
  <2>2. (sent \in [Slot -> Sending \cup {NoCall}])' /\ (guard \in [Acts -> 0..(MaxSent + 1)])'
    BY <2>1, SendFacts
  <2> QED BY <1>3, <2>1, <2>2 DEF Click, RowTypeOK, Acts
<1>4. ASSUME NEW a \in Acts, OpenDialog(a)
      PROVE  RowTypeOK'
  BY <1>4 DEF OpenDialog, RowTypeOK, Acts, Sending
<1>5. ASSUME NEW a \in Acts, ClickElsewhere(a)
      PROVE  RowTypeOK'
  <2>1. Other \in 0..(MaxSent + 1)
    BY RowAssumptions DEF Other
  <2>2. (guard \in [Acts -> 0..(MaxSent + 1)])'
    BY <1>5, <2>1 DEF ClickElsewhere, Marked, RowTypeOK, Acts
  <2>3. (astray \in BOOLEAN /\ elsewhere \in BOOLEAN)'
    BY <1>5 DEF ClickElsewhere, Overtaken, RowTypeOK
  <2> QED BY <1>5, <2>2, <2>3 DEF ClickElsewhere, RowTypeOK, Acts, Sending
<1>6. CASE CloseDialog
  BY <1>6 DEF CloseDialog, RowTypeOK, Acts, Sending
<1>7. CASE ElsewhereEnds
  <2>1. (guard \in [Acts -> 0..(MaxSent + 1)])'
    BY <1>7, RowAssumptions DEF ElsewhereEnds, RowTypeOK, Acts, AtRest
  <2>2. (astray \in BOOLEAN /\ elsewhere \in BOOLEAN)'
    BY <1>7 DEF ElsewhereEnds, Overtaken, RowTypeOK
  <2> QED BY <1>7, <2>1, <2>2 DEF ElsewhereEnds, RowTypeOK, Acts, Sending
<1>8. CASE OthersAct
  BY <1>8 DEF OthersAct, RowTypeOK, Acts, Sending
<1>9. CASE Reread
  BY <1>9 DEF Reread, ReadRow, RowTypeOK, Acts, Sending
<1>10. CASE Reopen
  <2>1. (guard \in [Acts -> 0..(MaxSent + 1)])'
    BY <1>10, RowAssumptions DEF Reopen, Acts, AtRest
  <2>2. \A i \in Slot : sent[i].server = "waiting" => [sent[i] EXCEPT !.client = "gone"] \in Sending
    BY CallFacts, CallEdited
  <2>3. (sent \in [Slot -> Sending \cup {NoCall}])'
    <3> DEFINE f == [i \in Slot |-> IF sent[i].server = "waiting" THEN [sent[i] EXCEPT !.client = "gone"]
                                    ELSE NoCall]
    <3>1. sent' = f /\ view' = view
      BY <1>10 DEF Reopen
    <3>2. f \in [Slot -> Sending \cup {NoCall}]
      BY <2>2
    <3> QED BY <3>1, <3>2 DEF Sending, Acts
  <2>4. astray' \in BOOLEAN
    BY <1>10 DEF Reopen
  <2> QED BY <1>10, <2>1, <2>3, <2>4 DEF Reopen, RowTypeOK, Acts
<1>11. CASE UNCHANGED rowVars
  BY <1>11 DEF rowVars, RowTypeOK, Acts, Sending
<1> QED BY <1>1, <1>2, <1>3, <1>4, <1>5, <1>6, <1>7, <1>8, <1>9, <1>10, <1>11 DEF RowNext

-----------------------------------------------------------------------------
(* A page that is up to date *)

LEMMA Guarded ==
  ASSUME RowTypeOK, CallsAreGuarded, NEW i \in Slot, ~Idle(i)
  PROVE  sent[i].act \in Acts /\ guard[sent[i].act] = i
BY CallFacts DEF CallsAreGuarded

\* The row as the page has it agrees with itself.
LEMMA AgreesWithItself ==
  ASSUME RowTypeOK
  PROVE  Agrees(view, row, row)
BY RowAssumptions DEF RowTypeOK

\* Once nothing is under way the page offers what is accepted.
LEMMA QuietAgrees ==
  ASSUME RowTypeOK, SeenAgrees, AllIdle
  PROVE  Agrees(view, seen, row) /\ (Stacks => seen = row)
BY AgreesWithItself, CallFacts DEF SeenAgrees

\* An enabled button: on a page that stacks calls its mutation is at rest, on
\* the others that show a busy row nothing is under way.
LEMMA EnabledMeans ==
  ASSUME RowTypeOK, CallsAreGuarded, NEW a \in Acts, Enabled(a), view \notin Unmarked
  PROVE  /\ seen \in Offers[view][a]
         /\ Stacks => guard[a] = AtRest
         /\ ~Stacks => AllIdle
<1>1. seen \in Offers[view][a] /\ ~Busy(a)
  BY DEF Enabled
<1>2. CASE Stacks
  BY <1>1, <1>2 DEF Busy, Stacks
<1>3. CASE ~Stacks
  <2>1. \A b \in Acts : guard[b] \notin Slot
    BY <1>1, <1>3 DEF Busy, Stacks
  <2> QED BY <1>1, <1>3, <2>1, Guarded
<1> QED BY <1>1, <1>2, <1>3

\* A call that is made while its mutation is at rest (on a page that stacks
\* calls) or while nothing is under way will be accepted if it comes first.
LEMMA SendKeeps ==
  ASSUME RowTypeOK, UpToDate, NEW i \in Slot, NEW a \in Acts, Send(i, a),
         seen \in Offers[view][a], (Stacks /\ guard[a] = AtRest) \/ AllIdle,
         dialog' = None, UNCHANGED <<view, row, seen>>
  PROVE  UpToDate'
<1>1. /\ Idle(i) /\ \A j \in Slot : j # i => sent'[j] = sent[j]
      /\ sent'[i].act = a /\ sent'[i].server = "waiting" /\ sent'[i].client = "waiting"
      /\ \A b \in Acts : guard'[b] = IF Hook[view][b] = Hook[view][a] THEN i ELSE guard[b]
  BY SendFacts
<1>2. Stacks' <=> Stacks
  BY DEF Stacks
<1>3. i # AtRest /\ \A j \in Slot : j # AtRest
  BY RowAssumptions DEF Slot, AtRest
\* Calls that are under way already have another mutation.
<1>4. ASSUME NEW j \in Slot, ~Idle(j)
      PROVE  /\ Stacks /\ sent[j].act \in Acts
             /\ Hook[view][sent[j].act] # Hook[view][a]
             /\ seen \notin Offers[view][sent[j].act]
  <2>1. Stacks /\ guard[a] = AtRest
    BY <1>4
  <2>2. sent[j].act \in Acts
    BY <1>4, CallFacts
  <2>3. Hook[view][sent[j].act] # Hook[view][a]
    <3> SUFFICES ASSUME Hook[view][sent[j].act] = Hook[view][a]
                 PROVE  FALSE
      OBVIOUS
    <3>1. guard[a] = j
      BY <1>4 DEF UpToDate, CallsAreGuarded
    <3> QED BY <1>3, <2>1, <3>1
  <2>4. seen \notin Offers[view][sent[j].act]
    BY <2>1, <2>2, <2>3, RowAssumptions DEF RowTypeOK, Stacks, Acts
  <2> QED BY <2>1, <2>2, <2>3, <2>4
<1>5. (Stacks => seen = row) /\ Agrees(view, seen, row)
  <2>1. CASE Stacks
    <3>1. \A j \in Slot : sent[j].server = "did" => ~Idle(j)
      BY CallFacts
    <3>2. seen = row
      BY <1>4, <2>1, <3>1 DEF UpToDate, SeenAgrees
    <3> QED BY <3>2, AgreesWithItself
  <2>2. CASE ~Stacks
    <3>1. AllIdle
      BY <2>2
    <3> QED BY <3>1, QuietAgrees DEF UpToDate
  <2> QED BY <2>1, <2>2
<1>6. \A j \in Slot : j # i => sent[j].server # "waiting"
  <2> SUFFICES ASSUME NEW j \in Slot, sent[j].server = "waiting"
               PROVE  FALSE
    OBVIOUS
  <2>1. ~Idle(j)
    BY CallFacts
  <2>2. seen \in Offers[view][sent[j].act]
    BY <1>4, <2>1 DEF UpToDate, SentAgrees
  <2> QED BY <1>4, <2>1, <2>2
<1>7. CallsAreGuarded'
  <2> SUFFICES ASSUME NEW j \in Slot, ~Idle(j)',
                      NEW b \in Acts, Hook[view][b] = Hook[view][sent'[j].act]
               PROVE  sent'[j].client # "gone" /\ guard'[b] = j
    <3>1. \A j \in Slot : ~Idle(j)' => sent'[j].client # "gone"
      BY <1>1 DEF UpToDate, CallsAreGuarded
    <3> QED BY <3>1 DEF CallsAreGuarded, Acts
  <2>1. CASE j = i
    BY <1>1, <2>1
  <2>2. CASE j # i
    <3>1. ~Idle(j) /\ sent'[j] = sent[j]
      BY <1>1, <2>2
    <3>2. guard[b] = j /\ sent[j].client # "gone"
      BY <3>1 DEF UpToDate, CallsAreGuarded
    <3>3. Hook[view][b] # Hook[view][a]
      BY <1>4, <3>1
    <3> QED BY <1>1, <3>1, <3>2, <3>3
  <2> QED BY <2>1, <2>2
<1>8. SeenAgrees'
  BY <1>2, <1>5 DEF SeenAgrees, Agrees
<1>9. SentAgrees'
  <2> SUFFICES ASSUME NEW j \in Slot, sent'[j].server = "waiting"
               PROVE  /\ \/ row \in Takes[view][sent'[j].act] \/ sent'[j].act \in Uncertain
                         \/ <<view, sent'[j].act>> \in Hopeless
                      /\ seen \in Offers[view][sent'[j].act]
                      /\ Stacks => seen = row
    BY <1>2 DEF SentAgrees
  <2>1. j = i
    BY <1>1, <1>6
  <2> QED BY <1>1, <1>5, <2>1 DEF Agrees, Acts
<1>10. OneAtATime'
  <2>1. \A j \in Slot : sent'[j].server = "waiting" => j = i
    BY <1>1, <1>6
  <2>2. ~Stacks => \A j \in Slot : ~Idle(j)' => j = i
    BY <1>1, <1>4
  <2> QED BY <1>2, <2>1, <2>2 DEF OneAtATime
<1> QED BY <1>7, <1>8, <1>9, <1>10 DEF UpToDate

\* Calls end, or are answered, without a change of the row or of what the page
\* has of it, or the page reads the row.
LEMMA FewerCallsKeep ==
  ASSUME RowTypeOK, UpToDate, UNCHANGED <<view, row, dialog>>,
         \A j \in Slot : ~Idle(j)' =>
            /\ ~Idle(j) /\ sent'[j].act = sent[j].act /\ sent'[j].client # "gone"
            /\ sent'[j].server = sent[j].server
            /\ \A b \in Acts : guard[b] = j => guard'[b] = j,
         \A j \in Slot : sent'[j].server # None => ~Idle(j)',
         seen' = row \/ (seen' = seen /\ \A j \in Slot : sent[j].server = "did" => sent'[j].server = "did"
                                                                               /\ sent'[j].act = sent[j].act)
  PROVE  UpToDate'
<1>1. Stacks' <=> Stacks
  BY DEF Stacks
<1>2. CallsAreGuarded'
  BY DEF UpToDate, CallsAreGuarded, Acts
<1>3. SeenAgrees'
  <2>1. CASE seen' = row
    BY <1>1, <2>1, AgreesWithItself DEF SeenAgrees, Agrees
  <2>2. CASE seen' # row
    BY <1>1, <2>2 DEF UpToDate, SeenAgrees, Agrees
  <2> QED BY <2>1, <2>2
<1>4. SentAgrees'
  <2> SUFFICES ASSUME NEW j \in Slot, sent'[j].server = "waiting"
               PROVE  /\ \/ row \in Takes[view][sent'[j].act] \/ sent'[j].act \in Uncertain
                         \/ <<view, sent'[j].act>> \in Hopeless
                      /\ seen' \in Offers[view][sent'[j].act] \/ (seen' = row /\ ~Stacks)
                      /\ Stacks => seen' = row
    BY <1>1 DEF SentAgrees
  <2>1. sent[j].server = "waiting" /\ sent'[j].act = sent[j].act
    OBVIOUS
  <2> QED BY <2>1 DEF UpToDate, SentAgrees
<1>5. OneAtATime'
  <2>1. \A j \in Slot : sent'[j].server = "waiting" => sent[j].server = "waiting"
    OBVIOUS
  <2>2. \A j \in Slot : ~Idle(j)' => ~Idle(j)
    OBVIOUS
  <2> QED BY <1>1, <2>1, <2>2 DEF UpToDate, OneAtATime
<1> QED BY <1>2, <1>3, <1>4, <1>5 DEF UpToDate

-----------------------------------------------------------------------------
(* The steps *)

\* Served: the page has not read what its own call has done.
LEMMA ServeKeeps ==
  ASSUME RowTypeOK, UpToDate, NEW i \in Slot, Serve(i)
  PROVE  UpToDate'
<1>1. /\ UNCHANGED <<view, seen, dialog, guard>> /\ sent[i].server = "waiting"
      /\ sent' = [sent EXCEPT ![i].server = "did"]
  BY DEF Serve
<1>2. /\ \A j \in Slot : j # i => sent'[j] = sent[j]
      /\ sent'[i].act = sent[i].act /\ sent'[i].server = "did" /\ sent'[i].client = sent[i].client
  BY <1>1, ServerSets
<1>3. Stacks' <=> Stacks
  BY <1>1 DEF Stacks
<1>4. ~Idle(i) /\ \A j \in Slot : ~Idle(j)' => ~Idle(j)
  BY <1>1, <1>2, CallFacts
<1>5. \A j \in Slot : sent'[j].server # "waiting"
  BY <1>1, <1>2 DEF UpToDate, OneAtATime
<1>6. CallsAreGuarded'
  <2>1. \A j \in Slot : sent'[j].act = sent[j].act /\ sent'[j].client = sent[j].client
    BY <1>2
  <2> QED BY <1>1, <1>4, <2>1 DEF UpToDate, CallsAreGuarded, Acts
<1>7. SeenAgrees'
  <2>1. Stacks => seen \in Offers[view][sent[i].act]
    BY <1>1 DEF UpToDate, SentAgrees
  <2> QED BY <1>1, <1>2, <1>3, <2>1 DEF SeenAgrees
<1>8. SentAgrees'
  BY <1>5 DEF SentAgrees
<1>9. OneAtATime'
  BY <1>1, <1>3, <1>4, <1>5 DEF UpToDate, OneAtATime
<1> QED BY <1>6, <1>7, <1>8, <1>9 DEF UpToDate

\* Refused, and perhaps with a charge that has failed.
LEMMA DeclineKeeps ==
  ASSUME RowTypeOK, UpToDate, NEW i \in Slot, Decline(i)
  PROVE  UpToDate'
<1>1. /\ UNCHANGED <<view, seen, dialog, guard>> /\ sent[i].server = "waiting"
      /\ sent' = [sent EXCEPT ![i].server = "refused"]
      /\ row' = row \/ (row' = FailedCharge /\ sent[i].act \in Charging /\ row \in Takes[view][sent[i].act])
  BY DEF Decline
<1>2. /\ \A j \in Slot : j # i => sent'[j] = sent[j]
      /\ sent'[i].act = sent[i].act /\ sent'[i].server = "refused" /\ sent'[i].client = sent[i].client
  BY <1>1, ServerSets
<1>3. Stacks' <=> Stacks
  BY <1>1 DEF Stacks
<1>4. ~Idle(i) /\ sent[i].act \in Acts /\ \A j \in Slot : ~Idle(j)' => ~Idle(j)
  BY <1>1, <1>2, CallFacts
<1>5. \A j \in Slot : sent'[j].server # "waiting"
  BY <1>1, <1>2 DEF UpToDate, OneAtATime
<1>6. CallsAreGuarded'
  <2>1. \A j \in Slot : sent'[j].act = sent[j].act /\ sent'[j].client = sent[j].client
    BY <1>2
  <2> QED BY <1>1, <1>4, <2>1 DEF UpToDate, CallsAreGuarded, Acts
<1>7. SeenAgrees'
  <2>1. CASE Stacks
    <3>1. row' = row
      BY <1>1, <1>4, <2>1, RowAssumptions DEF RowTypeOK, Stacks, Acts
    <3>2. \A j \in Slot : sent[j].server = "did" => sent'[j] = sent[j]
      BY <1>1, <1>2
    <3> QED BY <1>1, <1>3, <2>1, <3>1, <3>2 DEF UpToDate, SeenAgrees
  <2>2. CASE ~Stacks
    <3>1. \A j \in Slot : sent[j].server # "did"
      BY <1>1, <1>4, <2>2, CallFacts DEF UpToDate, OneAtATime
    <3>2. Agrees(view, seen, row)
      BY <2>2, <3>1 DEF UpToDate, SeenAgrees
    <3>3. Agrees(view, seen, row')
      <4>1. CASE row' = row
        BY <3>2, <4>1
      <4>2. CASE row' # row
        <5>1. seen \in Rows[view] \cap (Offers[view][sent[i].act] \cup Takes[view][sent[i].act])
          BY <1>1, <4>2 DEF UpToDate, SentAgrees, RowTypeOK
        <5>2. sent[i].act \in Actions(view) \cap Charging /\ row' = FailedCharge
          BY <1>1, <1>4, <4>2 DEF Acts
        <5> QED BY <5>1, <5>2, RowAssumptions DEF RowTypeOK
      <4> QED BY <4>1, <4>2
    <3> QED BY <1>1, <1>3, <2>2, <3>3 DEF SeenAgrees, Agrees
  <2> QED BY <2>1, <2>2
<1>8. SentAgrees'
  BY <1>5 DEF SentAgrees
<1>9. OneAtATime'
  BY <1>1, <1>3, <1>4, <1>5 DEF UpToDate, OneAtATime
<1> QED BY <1>6, <1>7, <1>8, <1>9 DEF UpToDate

\* The end of a call that the page has not learned of otherwise.
LEMMA FinishedKeeps ==
  ASSUME RowTypeOK, UpToDate, NEW i \in Slot, Finished(i),
         seen' = row \/ (seen' = seen /\ sent[i].server # "did")
  PROVE  UpToDate'
<1>1. /\ UNCHANGED <<view, row, dialog>>
      /\ sent'[i] = NoCall /\ \A j \in Slot : j # i => sent'[j] = sent[j]
      /\ \A b \in Acts : guard[b] # i => guard'[b] = guard[b]
  BY FinishedFacts
<1>2. \A j \in Slot : ~Idle(j)' =>
        /\ ~Idle(j) /\ sent'[j].act = sent[j].act /\ sent'[j].client # "gone"
        /\ sent'[j].server = sent[j].server
        /\ \A b \in Acts : guard[b] = j => guard'[b] = j
  BY <1>1 DEF UpToDate, CallsAreGuarded
<1>3. \A j \in Slot : sent'[j].server # None => ~Idle(j)'
  BY <1>1
<1>4. seen' = row \/ (seen' = seen /\ \A j \in Slot : sent[j].server = "did" => sent'[j].server = "did"
                                                                              /\ sent'[j].act = sent[j].act)
  BY <1>1
<1> QED BY <1>1, <1>2, <1>3, <1>4, FewerCallsKeep

\* A page that has read the row while nothing is under way is up to date.
LEMMA SettledIsUpToDate ==
  ASSUME RowTypeOK', seen' = row', dialog' = None, \A j \in Slot : sent'[j] = NoCall
  PROVE  UpToDate'
<1>1. CallsAreGuarded'
  BY DEF CallsAreGuarded
<1>2. SeenAgrees'
  BY AgreesWithItself, RowAssumptions DEF SeenAgrees, RowTypeOK
<1>3. SentAgrees'
  BY DEF SentAgrees
<1>4. OneAtATime'
  BY DEF OneAtATime
<1> QED BY <1>1, <1>2, <1>3, <1>4 DEF UpToDate

LEMMA CallStep ==
  ASSUME RowInv, RowTypeOK', NEW i \in Slot, CallProceeds(i), ~astray'
  PROVE  UpToDate'
<1> USE DEF RowInv
<1>1. CASE Serve(i)
  BY <1>1, ServeKeeps DEF Serve
<1>2. CASE Decline(i)
  BY <1>2, DeclineKeeps DEF Decline
<1>3. CASE Succeeded(i)
  <2>1. /\ ~astray /\ UNCHANGED <<view, row, seen, dialog, guard>> /\ sent[i].client = "waiting"
        /\ sent' = [sent EXCEPT ![i].client = "refetching"]
    BY <1>3 DEF Succeeded
  <2>2. /\ \A j \in Slot : j # i => sent'[j] = sent[j]
        /\ sent'[i].act = sent[i].act /\ sent'[i].server = sent[i].server /\ sent'[i].client = "refetching"
        /\ ~Idle(i)
    BY <2>1, ClientSets, CallFacts
  <2>3. \A j \in Slot : ~Idle(j)' =>
          /\ ~Idle(j) /\ sent'[j].act = sent[j].act /\ sent'[j].client # "gone"
          /\ sent'[j].server = sent[j].server
          /\ \A b \in Acts : guard[b] = j => guard'[b] = j
    BY <2>1, <2>2 DEF UpToDate, CallsAreGuarded
  <2>4. \A j \in Slot : sent'[j].server # None => ~Idle(j)'
    OBVIOUS
  <2>5. \A j \in Slot : sent[j].server = "did" => sent'[j].server = "did" /\ sent'[j].act = sent[j].act
    BY <2>2
  <2> QED BY <2>1, <2>3, <2>4, <2>5, FewerCallsKeep
<1>4. CASE Refetched(i)
  <2>1. Finished(i) /\ sent' = [sent EXCEPT ![i] = NoCall] /\ UNCHANGED <<view, row, dialog>>
    BY <1>4, FinishedFacts DEF Refetched
  <2>2. seen' = row
    BY <1>4 DEF Refetched, ReadRow
  <2>3. CASE astray
    <3>1. dialog = None /\ \A j \in Slot : sent'[j] = NoCall
      BY <1>4, <2>1, <2>3 DEF Refetched, ReadRow
    <3> QED BY <2>1, <2>2, <3>1, SettledIsUpToDate
  <2>4. CASE ~astray
    BY <2>1, <2>2, <2>4, FinishedKeeps
  <2> QED BY <2>3, <2>4
<1>5. CASE RefetchFailed(i)
  BY <1>5 DEF RefetchFailed
<1>6. CASE Failed(i)
  <2>1. Finished(i) /\ seen' = seen /\ ~astray /\ sent[i].server # "did"
    BY <1>6 DEF Failed
  <2> QED BY <2>1, FinishedKeeps
<1>7. CASE Lost(i)
  BY <1>7 DEF Lost
<1>8. CASE Forgotten(i)
  <2>1. ~astray /\ sent[i].client = "gone"
    BY <1>8 DEF Forgotten
  <2>2. ~Idle(i)
    BY <2>1, CallFacts
  <2> QED BY <2>1, <2>2 DEF UpToDate, CallsAreGuarded
<1> QED BY <1>1, <1>2, <1>3, <1>4, <1>5, <1>6, <1>7, <1>8 DEF CallProceeds

LEMMA ClickStep ==
  ASSUME RowInv, NEW i \in Slot, NEW a \in Acts, Click(i, a), ~astray'
  PROVE  UpToDate'
<1>1. ~astray /\ a \notin Reasoned[view] /\ Enabled(a) /\ Send(i, a)
  BY DEF Click
<1>2. UNCHANGED <<view, row, seen>> /\ dialog' = None
  BY DEF Click
<1>3. view \notin Unmarked
  BY <1>1, RowAssumptions DEF RowInv, RowTypeOK, Acts
<1>4. seen \in Offers[view][a] /\ ((Stacks /\ guard[a] = AtRest) \/ AllIdle)
  BY <1>1, <1>3, EnabledMeans DEF RowInv, UpToDate
<1> QED BY <1>1, <1>2, <1>4, SendKeeps DEF RowInv

LEMMA SubmitStep ==
  ASSUME RowInv, NEW i \in Slot, Submit(i), ~astray'
  PROVE  UpToDate'
<1>1. ~astray /\ dialog # None /\ DialogIsFree /\ Send(i, dialog) /\ seen \in Offers[view][dialog]
  BY DEF Submit
<1>2. UNCHANGED <<view, row, seen>> /\ dialog' = None
  BY DEF Submit
<1>3. dialog \in Reasoned[view] /\ dialog \in Acts
  BY <1>1, RowAssumptions DEF RowInv, RowTypeOK, Acts
<1>4. (Stacks /\ guard[dialog] = AtRest) \/ AllIdle
  <2>1. CASE AllIdle
    BY <2>1
  <2>2. CASE ~AllIdle
    <3>1. \A a \in Reasoned[view] : guard[a] = AtRest
      BY <1>1, <2>2 DEF DialogIsFree
    <3>2. CASE Stacks
      BY <1>3, <3>1, <3>2
    <3>3. CASE view \notin Unmarked /\ ~Stacks
      BY <1>1, <2>2, <3>3 DEF RowInv, UpToDate, OneAtATime
    <3>4. CASE view \in Unmarked
      <4>1. \A a \in Acts : guard[a] = AtRest
        BY <3>1, <3>4, RowAssumptions DEF RowInv, RowTypeOK, Acts
      <4>2. AtRest \notin Slot
        BY DEF Slot, AtRest
      <4> QED BY <1>1, <2>2, <4>1, <4>2, Guarded DEF RowInv, UpToDate
    <3> QED BY <3>2, <3>3, <3>4
  <2> QED BY <2>1, <2>2
<1> QED BY <1>1, <1>2, <1>3, <1>4, SendKeeps DEF RowInv

\* A dialog opens on a page that knows of nothing under way, or stacks calls,
\* or does not show that the row is busy.
LEMMA OpenDialogStep ==
  ASSUME RowInv, NEW a \in Acts, OpenDialog(a), ~astray'
  PROVE  UpToDate'
<1>1. ~astray /\ Enabled(a) /\ UNCHANGED <<view, row, seen, guard, sent>>
  BY DEF OpenDialog
<1>2. ~Stacks /\ view \notin Unmarked => AllIdle
  BY <1>1, EnabledMeans DEF RowInv, UpToDate
<1>3. Stacks' <=> Stacks
  BY <1>1 DEF Stacks
<1>4. (CallsAreGuarded /\ SeenAgrees /\ SentAgrees)'
  BY <1>1, <1>3 DEF RowInv, UpToDate, CallsAreGuarded, SeenAgrees, SentAgrees, Agrees, Acts
<1>5. OneAtATime'
  BY <1>1, <1>2, <1>3 DEF RowInv, UpToDate, OneAtATime
<1> QED BY <1>4, <1>5 DEF UpToDate

\* No call for another row takes the mutation of a call for this row away, or
\* the page has gone astray.
LEMMA ElsewhereKeeps ==
  ASSUME UpToDate, UNCHANGED <<view, row, seen, dialog, sent>>,
         \A j \in Slot : ~Idle(j) =>
            \A b \in Acts : Hook[view][b] = Hook[view][sent[j].act] => guard'[b] = j
  PROVE  UpToDate'
<1>1. Stacks' <=> Stacks
  BY DEF Stacks
<1>2. CallsAreGuarded'
  BY DEF UpToDate, CallsAreGuarded, Acts
<1>3. (SeenAgrees /\ SentAgrees)'
  BY <1>1 DEF UpToDate, SeenAgrees, SentAgrees, Agrees
<1>4. OneAtATime'
  BY <1>1 DEF UpToDate, OneAtATime
<1> QED BY <1>2, <1>3, <1>4 DEF UpToDate

LEMMA ClickElsewhereStep ==
  ASSUME RowInv, NEW a \in Acts, ClickElsewhere(a), ~astray'
  PROVE  UpToDate'
<1>1. /\ ~astray /\ UNCHANGED <<view, row, seen, dialog, sent>>
      /\ guard[a] \notin Slot \/ AllIdle
      /\ \A b \in Acts : guard'[b] = IF Hook[view][b] = Hook[view][a] THEN Other ELSE guard[b]
  BY DEF ClickElsewhere, Overtaken, Marked
<1>2. ASSUME NEW j \in Slot, ~Idle(j),
             NEW b \in Acts, Hook[view][b] = Hook[view][sent[j].act]
      PROVE  guard'[b] = j
  <2>1. guard[a] \notin Slot
    BY <1>1, <1>2
  <2>2. guard[b] = j
    BY <1>1, <1>2 DEF RowInv, UpToDate, CallsAreGuarded
  <2>3. Hook[view][b] # Hook[view][a]
    BY <1>1, <1>2, <2>1 DEF RowInv, UpToDate, CallsAreGuarded
  <2> QED BY <1>1, <2>2, <2>3
<1> QED BY <1>1, <1>2, ElsewhereKeeps DEF RowInv

LEMMA ElsewhereEndsStep ==
  ASSUME RowInv, ElsewhereEnds, ~astray'
  PROVE  UpToDate'
<1>1. /\ ~astray /\ UNCHANGED <<view, row, seen, dialog, sent>>
      /\ view \in OneFlag => \A a \in Acts : guard[a] \notin Slot
      /\ guard' = [a \in Acts |-> IF view \in OneFlag \/ (guard[a] = Other /\ view \notin Forgetful)
                                  THEN AtRest ELSE guard[a]]
  BY DEF ElsewhereEnds, Overtaken
<1>2. ASSUME NEW j \in Slot, ~Idle(j),
             NEW b \in Acts, Hook[view][b] = Hook[view][sent[j].act]
      PROVE  guard'[b] = j
  <2>1. guard[b] = j
    BY <1>1, <1>2 DEF RowInv, UpToDate, CallsAreGuarded
  <2>2. j # Other
    BY RowAssumptions DEF Slot, Other
  <2> QED BY <1>1, <2>1, <2>2
<1> QED BY <1>1, <1>2, ElsewhereKeeps DEF RowInv

LEMMA RereadStep ==
  ASSUME RowInv, RowTypeOK', Reread, ~astray'
  PROVE  UpToDate'
<1>1. /\ UNCHANGED <<view, row, dialog, guard, sent>> /\ seen' = row
      /\ astray => dialog = None /\ \A j \in Slot : sent[j] = NoCall
  BY DEF Reread, ReadRow
<1>2. CASE astray
  BY <1>1, <1>2, SettledIsUpToDate
<1>3. CASE ~astray
  <2>1. UpToDate
    BY <1>3 DEF RowInv
  <2>2. \A j \in Slot : ~Idle(j)' =>
          /\ ~Idle(j) /\ sent'[j].act = sent[j].act /\ sent'[j].client # "gone"
          /\ sent'[j].server = sent[j].server
          /\ \A b \in Acts : guard[b] = j => guard'[b] = j
    BY <1>1, <2>1 DEF UpToDate, CallsAreGuarded
  <2>3. \A j \in Slot : sent'[j].server # None => ~Idle(j)'
    OBVIOUS
  <2> QED BY <1>1, <2>1, <2>2, <2>3, FewerCallsKeep DEF RowInv
<1> QED BY <1>2, <1>3

LEMMA ReopenStep ==
  ASSUME RowTypeOK', Reopen, ~astray'
  PROVE  UpToDate'
<1>1. view' = view /\ row' = row /\ seen' = row /\ dialog' = None
  BY DEF Reopen
<1>2. \A j \in Slot : sent[j].server # "waiting"
  BY DEF Reopen
<1>3. \A j \in Slot : sent'[j] = NoCall
  BY <1>2 DEF Reopen
<1> QED BY <1>1, <1>3, SettledIsUpToDate

-----------------------------------------------------------------------------
(* The specification *)

LEMMA RowInvInit == RowInit => RowInv
<1> SUFFICES ASSUME RowInit
             PROVE  RowInv
  OBVIOUS
<1>1. RowTypeOK
  BY TypeInit
<1>2. seen = row /\ dialog = None /\ \A j \in Slot : sent[j] = NoCall
  BY DEF RowInit, RowStart
<1>3. CallsAreGuarded /\ SentAgrees /\ OneAtATime
  BY <1>2 DEF CallsAreGuarded, SentAgrees, OneAtATime
<1>4. SeenAgrees
  BY <1>1, <1>2, AgreesWithItself DEF SeenAgrees
<1> QED BY <1>1, <1>3, <1>4 DEF RowInv, UpToDate

LEMMA RowInvNext == RowInv /\ [RowNext]_rowVars => RowInv'
<1> SUFFICES ASSUME RowInv, [RowNext]_rowVars
             PROVE  RowInv'
  OBVIOUS
<1>0. RowTypeOK'
  BY TypeNext DEF RowInv
<1> SUFFICES ASSUME ~astray'
             PROVE  UpToDate'
  BY <1>0 DEF RowInv
<1>1. ASSUME NEW i \in Slot, CallProceeds(i)
      PROVE  UpToDate'
  BY <1>0, <1>1, CallStep
<1>2. ASSUME NEW i \in Slot, Submit(i)
      PROVE  UpToDate'
  BY <1>2, SubmitStep
<1>3. ASSUME NEW i \in Slot, NEW a \in Acts, Click(i, a)
      PROVE  UpToDate'
  BY <1>3, ClickStep
<1>4. ASSUME NEW a \in Acts, OpenDialog(a)
      PROVE  UpToDate'
  BY <1>4, OpenDialogStep
<1>5. ASSUME NEW a \in Acts, ClickElsewhere(a)
      PROVE  UpToDate'
  BY <1>5, ClickElsewhereStep
<1>6. CASE CloseDialog
  <2>1. ~astray /\ UNCHANGED <<view, row, seen, guard, sent>> /\ dialog' = None
    BY <1>6 DEF CloseDialog
  <2>2. Stacks' <=> Stacks
    BY <2>1 DEF Stacks
  <2>3. (CallsAreGuarded /\ SeenAgrees /\ SentAgrees)'
    BY <2>1, <2>2 DEF RowInv, UpToDate, CallsAreGuarded, SeenAgrees, SentAgrees, Agrees, Acts
  <2>4. OneAtATime'
    BY <2>1, <2>2 DEF RowInv, UpToDate, OneAtATime
  <2> QED BY <2>3, <2>4 DEF UpToDate
<1>7. CASE ElsewhereEnds
  BY <1>7, ElsewhereEndsStep
<1>8. CASE OthersAct
  BY <1>8 DEF OthersAct
<1>9. CASE Reread
  BY <1>0, <1>9, RereadStep
<1>10. CASE Reopen
  BY <1>0, <1>10, ReopenStep
<1>11. CASE UNCHANGED rowVars
  <2>1. UNCHANGED <<view, row, seen, dialog, guard, sent, astray>>
    BY <1>11 DEF rowVars
  <2>2. Stacks' <=> Stacks
    BY <2>1 DEF Stacks
  <2>3. (CallsAreGuarded /\ SeenAgrees /\ SentAgrees)'
    BY <2>1, <2>2 DEF RowInv, UpToDate, CallsAreGuarded, SeenAgrees, SentAgrees, Agrees, Acts
  <2>4. OneAtATime'
    BY <2>1, <2>2 DEF RowInv, UpToDate, OneAtATime
  <2> QED BY <2>3, <2>4 DEF UpToDate
<1> QED BY <1>1, <1>2, <1>3, <1>4, <1>5, <1>6, <1>7, <1>8, <1>9, <1>10, <1>11 DEF RowNext

LEMMA RowInvariance == RowSpec => []RowInv
BY RowInvInit, RowInvNext, PTL DEF RowSpec

\* A call that waits is refused by the API only, and by nothing else that happens.
LEMMA OnlyDeclined ==
  ASSUME RowTypeOK, RowNext, NEW i \in Slot,
         sent[i].server = "waiting", sent'[i].server = "refused"
  PROVE  Decline(i)
<1>0. sent \in [Slot -> Sending \cup {NoCall}]
  BY DEF RowTypeOK
<1>1. ASSUME NEW j \in Slot, CallProceeds(j), ~Decline(j)
      PROVE  FALSE
  <2>1. view' = view
    BY <1>1 DEF CallProceeds, Serve, Succeeded, Refetched, RefetchFailed, Failed, Finished, Lost, Forgotten
  <2>2. CASE Serve(j)
    <3>1. sent[j].server = "waiting" /\ sent' = [sent EXCEPT ![j].server = "did"]
      BY <2>2 DEF Serve
    <3> QED BY <2>1, <3>1, ServerSets
  <2>3. CASE Succeeded(j)
    <3>1. sent[j].client = "waiting" /\ sent' = [sent EXCEPT ![j].client = "refetching"]
      BY <2>3 DEF Succeeded
    <3> QED BY <2>1, <3>1, ClientSets
  <2>4. CASE Refetched(j) \/ RefetchFailed(j) \/ Failed(j)
    <3>1. Finished(j)
      BY <2>4 DEF Refetched, RefetchFailed, Failed
    <3> QED BY <3>1, FinishedFacts
  <2>5. CASE Lost(j)
    <3>1. CASE sent[j].server = "waiting"
      <4>1. sent[j].client = "waiting" /\ sent' = [sent EXCEPT ![j].client = "gone"]
        BY <2>5, <3>1 DEF Lost
      <4> QED BY <2>1, <4>1, ClientSets
    <3>2. CASE sent[j].server # "waiting"
      <4>1. sent' = [sent EXCEPT ![j] = NoCall]
        BY <2>5, <3>2 DEF Lost
      <4> QED BY <2>1, <4>1, OneReplaced
    <3> QED BY <3>1, <3>2
  <2>6. CASE Forgotten(j)
    <3>1. sent' = [sent EXCEPT ![j] = NoCall]
      BY <2>6 DEF Forgotten
    <3> QED BY <2>1, <3>1, OneReplaced
  <2> QED BY <1>1, <2>2, <2>3, <2>4, <2>5, <2>6 DEF CallProceeds
<1>2. ASSUME NEW j \in Slot, Decline(j)
      PROVE  j = i
  <2>1. view' = view /\ sent[j].server = "waiting" /\ sent' = [sent EXCEPT ![j].server = "refused"]
    BY <1>2 DEF Decline
  <2> QED BY <2>1, ServerSets
<1>3. ASSUME NEW j \in Slot, NEW a \in Acts, Send(j, a), view' = view
      PROVE  FALSE
  BY <1>3, SendFacts
<1>4. \A j \in Slot : Submit(j) => dialog \in Acts /\ Send(j, dialog) /\ view' = view
  BY RowAssumptions DEF Submit, RowTypeOK, Acts
<1>5. \A j \in Slot : \A a \in Acts : Click(j, a) => Send(j, a) /\ view' = view
  BY DEF Click
<1>6. ASSUME Reopen
      PROVE  FALSE
  <2>1. sent'[i] = [sent[i] EXCEPT !.client = "gone"] /\ sent[i] \in Sending
    BY <1>6, CallFacts DEF Reopen
  <2>2. sent'[i].server = sent[i].server
    BY <2>1, CallEdited
  <2> QED BY <2>2
<1>7. (\E a \in Acts : OpenDialog(a) \/ ClickElsewhere(a)) \/ CloseDialog \/ ElsewhereEnds \/ OthersAct \/ Reread
      => sent' = sent
  BY DEF OpenDialog, ClickElsewhere, CloseDialog, ElsewhereEnds, OthersAct, Reread
<1> QED BY <1>1, <1>2, <1>3, <1>4, <1>5, <1>6, <1>7 DEF RowNext

\* While a page is up to date, the API refuses what the page has offered only if
\* the row alone does not decide, or if the page offers it for rows that the API
\* does not take (updateBooking, nannyActions and the other handlers behind the
\* buttons of the pages).
THEOREM RefusalsExplained == RowSpec => RefusalsHaveAReason
<1>1. ASSUME RowInv, [RowNext]_rowVars, NEW i \in Slot,
             sent[i].server = "waiting", sent'[i].server = "refused"
      PROVE  astray \/ sent[i].act \in Uncertain \/ <<view, sent[i].act>> \in Hopeless
  <2>1. RowNext
    BY <1>1 DEF rowVars
  <2>2. Decline(i)
    BY <1>1, <2>1, OnlyDeclined DEF RowInv
  <2>3. row \notin Takes[view][sent[i].act] \/ sent[i].act \in Uncertain
    BY <2>2 DEF Decline
  <2> QED BY <1>1, <2>3 DEF RowInv, UpToDate, SentAgrees
<1>2. RowInv /\ [RowNext]_rowVars =>
        [\A i \in Slot :
           sent[i].server = "waiting" /\ sent'[i].server = "refused" =>
             \/ astray \/ sent[i].act \in Uncertain \/ <<view, sent[i].act>> \in Hopeless]_rowVars
  BY <1>1
<1> QED BY <1>2, RowInvariance, PTL DEF RowSpec, RefusalsHaveAReason

-----------------------------------------------------------------------------
(* The query cache *)

CacheTypeOK ==
  /\ watch.op \in Op /\ watch.query \in Alters[watch.op]
  /\ look \in BOOLEAN
  /\ entry \in [held : BOOLEAN, mark : {"fresh", "aged", "invalid", "failed"}]
  /\ fetch \in [stage : {"idle", "sent", "read"}, late : BOOLEAN]
  /\ call \in [client : {"none", "waiting", "telling", "done"},
               server : {"none", "working", "did", "refused", "failed"}]
  /\ behind \in BOOLEAN /\ excused \in BOOLEAN

\* The browser has yet to hear of the write, or to act on having heard of it.
ToBeTold ==
  \/ call.client = "telling"
  \/ call.client = "waiting" /\ call.server = "did"
  \/ call.client = "waiting" /\ call.server = "failed" /\ op \in Always

\* An answer from before the write may still come only if that is excused.
AnswersOK ==
  fetch.late => /\ fetch.stage = "read"
                /\ ToBeTold \/ IsGap \/ excused

(* Data that lacks a write, when nothing is under way that will bring it, is
   marked, so that it is fetched when it is looked at; and nobody looks at it
   unless that fetch has failed. *)
MarksOK ==
  entry.held /\ behind /\ fetch.stage = "idle" =>
    \/ ToBeTold \/ IsGap \/ excused
    \/ entry.mark = "failed" \/ (entry.mark = "invalid" /\ ~Observed)

CacheInv == CacheTypeOK /\ AnswersOK /\ MarksOK

USE CacheAssumptions

\* What is altered and is no gap is told.
LEMMA GapOrTold == CacheTypeOK => IsGap \/ IsTold
  BY DEF CacheTypeOK, IsGap, IsTold, op, query

LEMMA CacheInitInv == CacheInit => CacheInv
  <1> SUFFICES ASSUME NEW w \in Watches, CacheStart(w) PROVE CacheInv
    BY DEF CacheInit
  <1>1. w.op \in Op /\ w.query \in Alters[w.op]
    BY DEF Watches
  <1> QED BY <1>1 DEF CacheStart, CacheInv, CacheTypeOK, AnswersOK, MarksOK, NoData, NoFetch, NewFetch

LEMMA CacheStep == CacheInv /\ [CacheNext]_cacheVars => CacheInv'
  <1> SUFFICES ASSUME CacheInv, [CacheNext]_cacheVars PROVE CacheInv'
    OBVIOUS
  <1>0. CacheTypeOK /\ AnswersOK /\ MarksOK /\ (IsGap \/ IsTold)
    BY GapOrTold DEF CacheInv
  <1> USE <1>0 DEF CacheInv
  <1>1. ASSUME NEW p \in watch.pages, Navigate(p) PROVE CacheInv'
    BY <1>1 DEF Navigate, FetchIf, CacheTypeOK, AnswersOK, MarksOK, ToBeTold, IsGap, Observed, Framed, Mounts, Stale, query, op, NewFetch
  <1>2. CASE LookAway
    <2>1. look' = FALSE /\ UNCHANGED <<watch, page, entry, fetch, call, made, behind, excused>>
      BY <1>2 DEF LookAway
    <2>2. CacheTypeOK'
      BY <2>1 DEF CacheTypeOK
    <2>3. ToBeTold' = ToBeTold /\ IsGap' = IsGap /\ (Observed' => Observed)
      BY <2>1 DEF ToBeTold, IsGap, Observed, Framed, Mounts, query, op
    <2>4. AnswersOK' /\ MarksOK'
      BY <2>1, <2>3 DEF AnswersOK, MarksOK
    <2> QED BY <2>2, <2>4
  <1>3. CASE LookBack
    BY <1>3 DEF LookBack, FetchIf, CacheTypeOK, AnswersOK, MarksOK, ToBeTold, IsGap, Observed, Framed, Mounts, Stale, query, op, NewFetch
  <1>4. CASE Refetch
    BY <1>4 DEF Refetch, CacheTypeOK, AnswersOK, MarksOK, NewFetch
  <1>5. CASE Reload
    BY <1>5 DEF Reload, CacheTypeOK, AnswersOK, MarksOK, NewFetch, NoFetch, NoData
  <1>6. CASE Age
    BY <1>6 DEF Age, CacheTypeOK, AnswersOK, MarksOK, ToBeTold, IsGap, Observed, Framed, Mounts, query, op
  <1>7. CASE Collect
    BY <1>7 DEF Collect, CacheTypeOK, AnswersOK, MarksOK, ToBeTold, IsGap, Observed, Framed, Mounts, query, op, NoData
  <1>8. CASE FetchReads
    BY <1>8 DEF FetchReads, CacheTypeOK, AnswersOK, MarksOK
  <1>9. CASE FetchLands
    BY <1>9 DEF FetchLands, CacheTypeOK, AnswersOK, MarksOK, ToBeTold, IsGap, query, op, NoFetch
  <1>10. CASE FetchFails
    BY <1>10 DEF FetchFails, CacheTypeOK, AnswersOK, MarksOK, NoFetch
  <1>11. CASE Mutate
    BY <1>11 DEF Mutate, CacheTypeOK, AnswersOK, MarksOK, ToBeTold, IsGap, Observed, Framed, Mounts, query, op
  <1>12. CASE Commit
    BY <1>12 DEF Commit, CacheTypeOK, AnswersOK, MarksOK, ToBeTold
  <1>13. CASE Refuse
    BY <1>13 DEF Refuse, CacheTypeOK, AnswersOK, MarksOK, ToBeTold, IsGap, Observed, Framed, Mounts, query, op
  <1>14. CASE Answer
    BY <1>14 DEF Answer, CacheTypeOK, AnswersOK, MarksOK, ToBeTold, IsGap, IsTold, Observed, Framed, Mounts, query, op
  <1>15. CASE AnswerIsLost
    BY <1>15 DEF AnswerIsLost, CacheTypeOK, AnswersOK, MarksOK, ToBeTold, IsGap, IsTold, Observed, Framed, Mounts, query, op
  <1>16. CASE Tell
    BY <1>16 DEF Tell, CacheTypeOK, AnswersOK, MarksOK, ToBeTold, IsGap, Observed, Framed, Mounts, query, op, NewFetch
  <1>17. CASE FailPartDone
    BY <1>17 DEF FailPartDone, CacheTypeOK, AnswersOK, MarksOK, ToBeTold, op
  <1>18. CASE UNCHANGED cacheVars
    BY <1>18 DEF cacheVars, CacheTypeOK, AnswersOK, MarksOK, ToBeTold, IsGap, Observed, Framed, Mounts, query, op
  <1> QED BY <1>1, <1>2, <1>3, <1>4, <1>5, <1>6, <1>7, <1>8, <1>9, <1>10, <1>11, <1>12,
             <1>13, <1>14, <1>15, <1>16, <1>17, <1>18 DEF CacheNext

(* What is on the screen includes what the user has done, for any pages,
   queries and mutations whose gaps are named and any number of calls. *)
THEOREM OwnWorkIsShown == CacheSpec => []OwnWorkShows
  <1>1. CacheInv => OwnWorkShows
    BY DEF CacheInv, MarksOK, ToBeTold, OwnWorkShows
  <1> QED BY <1>1, CacheInitInv, CacheStep, PTL DEF CacheSpec
=============================================================================
