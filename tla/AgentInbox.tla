----------------------------- MODULE AgentInbox -----------------------------
(***************************************************************************)
(* The inbox of an agent: a directory with a file per message. A receiver  *)
(* reads the files one by one and, when it clears, lists the directory     *)
(* again and removes what it finds. Two executions of the agent may        *)
(* receive at once.                                                        *)
(*                                                                         *)
(* Sources: message_send and message_recv of                               *)
(* AgentsCatalogue/lib/system/agent.py.                                    *)
(***************************************************************************)
EXTENDS Naturals, FiniteSets

CONSTANTS
  Messages,
  Receivers  \* executions of the agent the inbox belongs to

ASSUME InboxAssumption == IsFiniteSet(Messages) /\ IsFiniteSet(Receivers)

VARIABLES
  message,   \* message -> [sent : "no", "half" or "yes", file : is there one?]
  receiver,  \* receiver -> [pc, clear, todo : files to go through, read : what it has,
             \*              knew : messages written when it listed them]
  delivered, \* messages that were returned
  dropped    \* history: messages that may be lost, by the ways the code has

inboxVars == <<message, receiver, delivered, dropped>>

Waiting == [pc |-> "idle", clear |-> FALSE, todo |-> {}, read |-> {}, knew |-> {}]
InBox == {m \in Messages : message[m].file}
Written == {m \in Messages : message[m].sent = "yes"}

InboxInit ==
  /\ message = [m \in Messages |-> [sent |-> "no", file |-> FALSE]]
  /\ receiver = [r \in Receivers |-> Waiting] /\ delivered = {} /\ dropped = {}

\* message_send: write_text creates the file, then fills it, though it be gone.
CreateMessage(m) ==
  /\ message[m].sent = "no" /\ message' = [message EXCEPT ![m] = [sent |-> "half", file |-> TRUE]]
  /\ UNCHANGED <<receiver, delivered, dropped>>

FillMessage(m) ==
  /\ message[m].sent = "half" /\ message' = [message EXCEPT ![m].sent = "yes"]
  /\ UNCHANGED <<receiver, delivered, dropped>>

-----------------------------------------------------------------------------
(* message_recv *)

ListInbox(r, clear) ==
  /\ receiver[r].pc = "idle" /\ InBox # {}
  /\ receiver' = [receiver EXCEPT ![r] =
       [Waiting EXCEPT !.pc = "read", !.clear = clear, !.todo = InBox, !.knew = InBox \cap Written]]
  /\ UNCHANGED <<message, delivered, dropped>>

\* Mutant of ReadMessage: one is enough.
ReadOnlyOne(r, m) ==
  /\ receiver[r].pc = "read" /\ m \in receiver[r].todo
  /\ receiver' = [receiver EXCEPT ![r].todo = {}, ![r].read = @ \cup ({m} \cap InBox \cap Written)]
  /\ UNCHANGED <<message, delivered, dropped>>

\* A file that is gone or half written is passed over.
ReadMessage(r, m) ==
  /\ receiver[r].pc = "read" /\ m \in receiver[r].todo
  /\ receiver' = [receiver EXCEPT ![r].todo = @ \ {m}, ![r].read = @ \cup ({m} \cap InBox \cap Written)]
  /\ UNCHANGED <<message, delivered, dropped>>

ListAgain(r) ==
  /\ receiver[r].pc = "read" /\ receiver[r].todo = {} /\ receiver[r].clear
  /\ receiver' = [receiver EXCEPT ![r].pc = "clear", ![r].todo = InBox]
  /\ UNCHANGED <<message, delivered, dropped>>

\* What came since the first listing, or was half written, goes unread.
RemoveMessage(r, m) ==
  /\ receiver[r].pc = "clear" /\ m \in receiver[r].todo /\ message[m].file
  /\ message' = [message EXCEPT ![m].file = FALSE]
  /\ receiver' = [receiver EXCEPT ![r].todo = @ \ {m}]
  /\ dropped' = dropped \cup ({m} \ receiver[r].knew)
  /\ UNCHANGED delivered

\* Another one removed it: the error ends the call, and what it had read goes with it.
RemoveFails(r) ==
  /\ receiver[r].pc = "clear" /\ receiver[r].todo \ InBox # {}
  /\ receiver' = [receiver EXCEPT ![r] = Waiting] /\ dropped' = dropped \cup receiver[r].read
  /\ UNCHANGED <<message, delivered>>

ReturnMessages(r) ==
  /\ receiver[r].pc # "idle" /\ receiver[r].todo = {} /\ (receiver[r].clear => receiver[r].pc = "clear")
  /\ delivered' = delivered \cup receiver[r].read /\ receiver' = [receiver EXCEPT ![r] = Waiting]
  /\ UNCHANGED <<message, dropped>>

KillReceiver(r) ==
  /\ receiver[r].pc # "idle" /\ receiver' = [receiver EXCEPT ![r] = Waiting]
  /\ dropped' = IF receiver[r].pc = "clear" THEN dropped \cup receiver[r].read ELSE dropped
  /\ UNCHANGED <<message, delivered>>

InboxNext ==
  \/ \E m \in Messages : CreateMessage(m) \/ FillMessage(m)
  \/ \E r \in Receivers :
       \/ \E clear \in BOOLEAN : ListInbox(r, clear)
       \/ \E m \in Messages : ReadMessage(r, m) \/ RemoveMessage(r, m)
       \/ ListAgain(r) \/ RemoveFails(r) \/ ReturnMessages(r) \/ KillReceiver(r)

InboxSpec == InboxInit /\ [][InboxNext]_inboxVars

-----------------------------------------------------------------------------
\* A message that was sent is in the box, in the hands of a receiver or was returned,
\* unless it came, or was finished, between the two listings of a receiver that clears,
\* or a receiver ended while it cleared.
MessageKept ==
  \A m \in Written :
    message[m].file \/ m \in delivered \cup dropped \/ \E r \in Receivers : m \in receiver[r].read
=============================================================================
