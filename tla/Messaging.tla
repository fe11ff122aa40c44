------------------------------ MODULE Messaging ------------------------------
(***************************************************************************)
(* Messages: the page of one user (MessagesView, NannyMessagesView) and    *)
(* the handlers that it calls.  A conversation is shown because it was     *)
(* picked or, until then, because it is the first of the list, which is    *)
(* ordered by the latest message.  Sending looks at the lock, stores the   *)
(* message and marks the conversation read, one statement after the other; *)
(* others write, and administrators lock, unlock and hide, in between.     *)
(*                                                                         *)
(* A text is a number.  What the messages say, and which of them have been *)
(* read, is left out; the list may be fetched again at any time, as it is  *)
(* when the window gets the focus.                                         *)
(***************************************************************************)
EXTENDS Naturals

CONSTANTS
  Conversation,
  Sender,       \* bound: send requests of the page that are under way
  MaxTexts,     \* bound: texts the user writes
  Nobody        \* no conversation

AtRest == "at rest"
Paused == "paused"

ASSUME MessagingAssumptions ==
  /\ Nobody \notin Conversation /\ Conversation # {}
  /\ AtRest \notin Sender /\ Paused \notin Sender
  /\ MaxTexts \in Nat

VARIABLES
  top,      \* the conversation with the latest message
  locked,   \* the conversation that is locked, if any (bound: one at a time)
  h,        \* handlers of POST /conversations/:id/messages
  list,     \* the list as the page has it
  picked,   \* the conversation that was chosen in the list or by a notification
  draft,    \* the text in the composer, 0 if it is empty
  send,     \* the send mutation: at rest, waiting for the network, or its handler
  texts,    \* how many texts have been written
  stored,   \* [text -> how often it is in the database: never, once, 2 for more]
  told      \* texts of which the page has said that sending failed

server == <<top, locked>>
page == <<list, picked, draft, send, told>>
messagingVars == <<server, page, h, texts, stored>>

Text == 1..MaxTexts
Handling == [pc : {"idle", "check", "insert", "read", "done", "failed"},
             conv : Conversation \cup {Nobody}, text : 0..MaxTexts]
Quiet == [pc |-> "idle", conv |-> Nobody, text |-> 0]
Server == [top |-> top, locked |-> locked]
Shown == IF picked # Nobody THEN picked ELSE list.top

MessagingTypeOK ==
  /\ top \in Conversation /\ locked \in Conversation \cup {Nobody}
  /\ list \in [top : Conversation, locked : Conversation \cup {Nobody}]
  /\ h \in [Sender -> Handling]
  /\ \A p \in Sender : h[p].text <= texts /\ (h[p].text # 0 <=> h[p].pc \in {"check", "insert"})
  /\ send \in {AtRest, Paused} \cup Sender
  /\ send \in Sender => h[send].pc # "idle" /\ h[send].text \in {0, draft}
  /\ picked \in Conversation \cup {Nobody}
  /\ draft \in 0..texts /\ texts \in 0..MaxTexts
  /\ stored \in [Text -> 0..2] /\ told \subseteq 1..texts

MessagingInit ==
  /\ top \in Conversation /\ locked = Nobody
  /\ h = [p \in Sender |-> Quiet]
  /\ list = Server
  /\ picked = Nobody /\ draft = 0
  /\ send = AtRest
  /\ texts = 0 /\ stored = [t \in Text |-> 0] /\ told = {}

-----------------------------------------------------------------------------
(* The page *)

\* Mutant (ClearedOnlyIfStored): the composer is open while a message is being sent.
CanWriteAlways == Shown # list.locked

(* The composer is there unless the conversation is known to be locked, and
   disabled while a message is being sent. *)
CanWrite == send = AtRest /\ Shown # list.locked

(* The user writes another text, over one that could not be sent or not. *)
Write ==
  /\ CanWrite /\ texts < MaxTexts
  /\ texts' = texts + 1 /\ draft' = texts + 1
  /\ UNCHANGED <<server, h, list, picked, send, stored, told>>

(* The text in the composer stays when another conversation is chosen. *)
Pick(c) ==
  /\ picked # c /\ picked' = c
  /\ UNCHANGED <<server, h, list, draft, send, texts, stored, told>>

(* mutationFn asks what is shown when it runs. *)
Request(p) ==
  /\ h[p] = Quiet
  /\ h' = [h EXCEPT ![p] = [pc |-> "check", conv |-> Shown, text |-> draft]]
  /\ send' = p
  /\ UNCHANGED <<server, list, picked, draft, texts, stored, told>>

\* Mutant (SentTwiceOnlyIfTold): Enter sends while a message is being sent.
ClickAgain(p) == draft # 0 /\ Shown # list.locked /\ Request(p)

Click(p) == draft # 0 /\ CanWrite /\ Request(p)

(* Without a network the mutation waits for one. *)
ClickOffline ==
  /\ draft # 0 /\ CanWrite
  /\ send' = Paused
  /\ UNCHANGED <<server, list, picked, draft, h, texts, stored, told>>

Resume(p) == send = Paused /\ Request(p)

SendSucceeds(p) ==
  /\ send = p /\ h[p].pc = "done"
  /\ h' = [h EXCEPT ![p] = Quiet]
  /\ send' = AtRest /\ draft' = 0
  /\ UNCHANGED <<server, list, picked, texts, stored, told>>

(* The text stays in the composer, below the error. *)
Says == send' = AtRest /\ told' = told \cup {draft}

SendFails(p) ==
  /\ send = p /\ h[p].pc = "failed"
  /\ h' = [h EXCEPT ![p] = Quiet] /\ Says
  /\ UNCHANGED <<server, list, picked, draft, texts, stored>>

AnswerIsLost(p) ==
  /\ send = p /\ Says
  /\ UNCHANGED <<server, list, picked, draft, h, texts, stored>>

ListArrives ==
  /\ list' = Server /\ list # Server
  /\ UNCHANGED <<server, h, picked, draft, send, texts, stored, told>>

(* The page is left and opened again; what is being sent goes on. *)
Reopen ==
  /\ send # Paused
  /\ picked' = Nobody /\ draft' = 0 /\ send' = AtRest
  /\ UNCHANGED <<server, list, h, texts, stored, told>>

-----------------------------------------------------------------------------
(* The API *)

Goes(p, pc) == h' = [h EXCEPT ![p] = [@ EXCEPT !.pc = pc]]
Leaves(p, pc) == h' = [h EXCEPT ![p] = [Quiet EXCEPT !.pc = pc]]

(* The conversation is read, with its lock. *)
SendChecks(p) ==
  /\ h[p].pc = "check"
  /\ IF h[p].conv = locked THEN Leaves(p, "failed") ELSE Goes(p, "insert")
  /\ UNCHANGED <<server, page, texts, stored>>

(* CreateMessage does not ask for the lock again. *)
SendInserts(p) ==
  /\ h[p].pc = "insert"
  /\ Leaves(p, "read") /\ top' = h[p].conv
  /\ stored' = [stored EXCEPT ![h[p].text] = IF @ < 2 THEN @ + 1 ELSE @]
  /\ UNCHANGED <<locked, page, texts>>

SendMarksRead(p) ==
  /\ h[p].pc = "read"
  /\ Leaves(p, "done")
  /\ UNCHANGED <<server, page, texts, stored>>

(* A statement fails; the message may have been stored before. *)
SendErrs(p) ==
  /\ h[p].pc \in {"check", "insert", "read"}
  /\ Leaves(p, "failed")
  /\ UNCHANGED <<server, page, texts, stored>>

SendIsOver(p) ==
  /\ h[p].pc \in {"done", "failed"} /\ send # p
  /\ h' = [h EXCEPT ![p] = Quiet]
  /\ UNCHANGED <<server, page, texts, stored>>

OtherSends(c) ==
  /\ c # locked /\ top # c /\ top' = c
  /\ UNCHANGED <<locked, h, page, texts, stored>>

(* Without messages a conversation is in the list by when it was changed. *)
Lock(c) ==
  /\ locked = Nobody /\ locked' = c /\ top' \in {top, c}
  /\ UNCHANGED <<h, page, texts, stored>>

Unlock ==
  /\ locked # Nobody /\ locked' = Nobody /\ top' \in {top, locked}
  /\ UNCHANGED <<h, page, texts, stored>>

(* The latest message of all is taken out of sight. *)
HideMessage ==
  /\ top' \in Conversation \ {top}
  /\ UNCHANGED <<locked, h, page, texts, stored>>

-----------------------------------------------------------------------------
MessagingNext ==
  \/ Write \/ ClickOffline \/ ListArrives \/ Reopen \/ Unlock \/ HideMessage
  \/ \E c \in Conversation : Pick(c) \/ OtherSends(c) \/ Lock(c)
  \/ \E p \in Sender :
       \/ Click(p) \/ Resume(p) \/ SendSucceeds(p) \/ SendFails(p) \/ AnswerIsLost(p)
       \/ SendChecks(p) \/ SendInserts(p) \/ SendMarksRead(p) \/ SendErrs(p) \/ SendIsOver(p)

MessagingSpec == MessagingInit /\ [][MessagingNext]_messagingVars

-----------------------------------------------------------------------------
(* A text is stored again only after the page has said that it was not sent,
   which it may say of a message that the server has stored. *)
SentTwiceOnlyIfTold == \A t \in Text : stored[t] > 1 => t \in told

(* The composer of a page that stays open is emptied only of a text that is
   stored, whatever was picked, locked or answered late in between. *)
ClearedOnlyIfStored ==
  [][draft # 0 /\ draft' = 0 /\ ~Reopen => stored[draft] > 0]_messagingVars
=============================================================================
