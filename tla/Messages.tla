------------------------------- MODULE Messages -------------------------------
(***************************************************************************)
(* The buyer's messages: message.service.ts, and pages/messages of         *)
(* frontend/src.  The page keeps a count of unread messages beside the     *)
(* list: both come with one answer, for which the table is read twice, and *)
(* each message that is read lowers the count, whatever list is on the     *)
(* page by then.  Bound: fewer messages than the 50 of a page.             *)
(***************************************************************************)
EXTENDS Integers, FiniteSets

CONSTANTS Msgs, Lines   \* Lines: slots for requests on their way

ASSUME MsgsAssumption == IsFiniteSet(Msgs)

VARIABLES
  box,           \* backend: the messages, "none", "unread" or "read"
  msgs,          \* the list on the page: for each message whether it is read
  unreadCount, msgsLoading,
  lines,         \* requests on their way
  skewed         \* history: since the list was answered a message was counted down that it
                 \* had not as unread; or the table changed while it was read for the list

msgPage == <<msgs, unreadCount, msgsLoading>>
msgVars == <<box, msgPage, lines, skewed>>

In(states) == {m \in Msgs : box[m] \in states}
Quiet == [kind |-> "free"]
Open(l) == lines[l] = Quiet /\ \A k \in Lines : lines[k] = Quiet => l <= k
Sends(l, c) == lines' = [lines EXCEPT ![l] = c]

(***************************************************************************)
(* The backend.                                                            *)
(***************************************************************************)

\* notify: the handlers of orders write a message.
Notify ==
  /\ \E m \in In({"none"}) : box' = [box EXCEPT ![m] = "unread"]
  /\ UNCHANGED <<msgPage, lines, skewed>>

\* list: the messages, and then the count of those that are unread.
ListItems(l) ==
  /\ lines[l].kind = "load"
  /\ Sends(l, [kind |-> "listed", box |-> box,
               items |-> [m \in In({"unread", "read"}) |-> box[m] = "read"]])
  /\ UNCHANGED <<box, msgPage, skewed>>
CountUnread(l) ==
  /\ lines[l].kind = "listed"
  /\ Sends(l, [kind |-> "loaded", items |-> lines[l].items,
               unread |-> Cardinality(In({"unread"})), even |-> box = lines[l].box])
  /\ UNCHANGED <<box, msgPage, skewed>>

MarkRead(m) == box' = [box EXCEPT ![m] = "read"]
MarkAllRead == box' = [m \in Msgs |-> IF box[m] = "unread" THEN "read" ELSE box[m]]

(***************************************************************************)
(* The page.                                                               *)
(***************************************************************************)
LoadMessages(l) == msgsLoading' = TRUE /\ Sends(l, [kind |-> "load"])

\* onShow, also when the program comes back to the foreground.
ShowMessages ==
  /\ \E l \in Lines : Open(l) /\ LoadMessages(l)
  /\ UNCHANGED <<box, msgs, unreadCount, skewed>>

\* The answer replaces the list: a message tapped in the old one is marked there, in vain.
Detached(c) == IF c.kind = "read" THEN [c EXCEPT !.here = FALSE] ELSE c
ListAnsweredKeepsCount(l) ==                                   \* mutant
  /\ lines[l].kind = "loaded"
  /\ msgs' = lines[l].items
  /\ skewed' = ~lines[l].even
  /\ msgsLoading' = FALSE
  /\ lines' = [k \in Lines |-> IF k = l THEN Quiet ELSE Detached(lines[k])]
  /\ UNCHANGED <<box, unreadCount>>
ListAnswered(l) ==
  /\ lines[l].kind = "loaded"
  /\ msgs' = lines[l].items
  /\ unreadCount' = lines[l].unread
  /\ skewed' = ~lines[l].even
  /\ msgsLoading' = FALSE
  /\ lines' = [k \in Lines |-> IF k = l THEN Quiet ELSE Detached(lines[k])]
  /\ UNCHANGED box
\* A toast, or nothing when the session is over.
ListFails(l) ==
  /\ lines[l].kind \in {"load", "listed", "loaded"}
  /\ msgsLoading' = FALSE
  /\ Sends(l, Quiet)
  /\ UNCHANGED <<box, msgs, unreadCount, skewed>>

\* onReadAll: its button is there while the count is not 0.
OnReadAll ==
  /\ ~msgsLoading /\ DOMAIN msgs # {} /\ unreadCount > 0
  /\ \E l \in Lines : Open(l) /\ Sends(l, [kind |-> "all"])
  /\ MarkAllRead
  /\ UNCHANGED <<msgPage, skewed>>
AllRead(l) ==
  /\ lines[l].kind = "all"
  /\ LoadMessages(l)
  /\ UNCHANGED <<box, msgs, unreadCount, skewed>>

\* onOpen of a message that is not read in the list; the request may not arrive.
OnOpenMessage(m) ==
  /\ ~msgsLoading /\ m \in DOMAIN msgs /\ ~msgs[m]
  /\ \E ok \in BOOLEAN :
       /\ IF ok THEN MarkRead(m) ELSE UNCHANGED box
       /\ \E l \in Lines :
            Open(l) /\ Sends(l, [kind |-> "read", msg |-> m, ok |-> ok, here |-> TRUE])
  /\ UNCHANGED <<msgPage, skewed>>

Marked(l) ==
  /\ msgs' = IF lines[l].here THEN [msgs EXCEPT ![lines[l].msg] = TRUE] ELSE msgs
  /\ unreadCount' = IF unreadCount > 0 THEN unreadCount - 1 ELSE 0
  /\ skewed' = (skewed \/ msgs' = msgs)
  /\ Sends(l, Quiet)
  /\ UNCHANGED <<box, msgsLoading>>
ReadAnswered(l) == lines[l].kind = "read" /\ lines[l].ok /\ Marked(l)

\* A request fails, or its answer is lost: a toast, or silence.
PostLost(l) ==
  /\ lines[l].kind \in {"all", "read"}
  /\ Sends(l, Quiet)
  /\ UNCHANGED <<box, msgPage, skewed>>

MessagesInit ==
  /\ box \in [Msgs -> {"none", "unread"}]
  /\ msgs = [m \in {} |-> FALSE] /\ unreadCount = 0 /\ msgsLoading = TRUE
  /\ lines = [l \in Lines |-> IF \A k \in Lines : l <= k THEN [kind |-> "load"] ELSE Quiet]
  /\ skewed = FALSE

LineGoesOn(l) ==
  \/ ListItems(l) \/ CountUnread(l) \/ ListAnswered(l) \/ ListFails(l)
  \/ AllRead(l) \/ ReadAnswered(l) \/ PostLost(l)

MessagesNext ==
  \/ \E l \in Lines : LineGoesOn(l)
  \/ \E m \in Msgs : OnOpenMessage(m)
  \/ Notify \/ ShowMessages \/ OnReadAll

MessagesSpec == MessagesInit /\ [][MessagesNext]_msgVars

(***************************************************************************)
(* Properties.                                                             *)
(***************************************************************************)

\* What the page shows are messages there are.
MessagesTypeOK ==
  /\ box \in [Msgs -> {"none", "unread", "read"}]
  /\ DOMAIN msgs \subseteq In({"unread", "read"})
  /\ unreadCount \in 0..Cardinality(Msgs)

\* The count that the page shows is that of the messages it marks as unread, unless one was
\* counted down twice, or from a list that was replaced, or the table changed between the
\* reads for the list.
CountMatchesList == ~skewed => unreadCount = Cardinality({m \in DOMAIN msgs : ~msgs[m]})

\* A message that the page marks as read is read in the table.
ReadIsStored == \A m \in DOMAIN msgs : msgs[m] => box[m] = "read"

\* The messages on the page, the number unread above them and the table agree
\* (messages/index.vue, MessageService).
MessagesInv == MessagesTypeOK /\ CountMatchesList /\ ReadIsStored

=============================================================================
