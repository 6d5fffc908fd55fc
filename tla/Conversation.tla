---------------------------- MODULE Conversation ----------------------------
(***************************************************************************)
(* What the chats promise to those who read them from the database: a chat *)
(* has two existing users, a message has an open chat and a sender of it,  *)
(* and a chat that holds a message is neither closed nor does it lose a    *)
(* user.  Each operation is one step.                                      *)
(***************************************************************************)
CONSTANTS Users, Chats, Messages, Texts, None

VARIABLES users,    \* the accounts
          chats,    \* the Chat table
          messages  \* the Message table

RowStates == {"unused", "live", "gone"}

NewChat    == [state |-> "unused", initiator |-> None, participant |-> None]
NewMessage == [state |-> "unused", chat |-> None, sender |-> None, text |-> None]

Members(c) == {chats[c].initiator, chats[c].participant}
ChatsOf(u) == {c \in Chats : chats[c].state = "live" /\ u \in Members(c)}
IsEmpty(c) == \A m \in Messages : messages[m].state = "live" => messages[m].chat # c

ConversationInit ==
  /\ users = Users
  /\ chats = [c \in Chats |-> NewChat]
  /\ messages = [m \in Messages |-> NewMessage]

Opened(c, u, v) ==
  /\ chats[c] = NewChat
  /\ {u, v} \subseteq users
  /\ chats' = [chats EXCEPT ![c] = [state |-> "live", initiator |-> u, participant |-> v]]
  /\ UNCHANGED <<users, messages>>

Closed(c) ==
  /\ chats[c].state = "live"
  /\ IsEmpty(c)
  /\ chats' = [chats EXCEPT ![c].state = "gone"]
  /\ UNCHANGED <<users, messages>>

Posted(m, c, u, t) ==
  /\ messages[m] = NewMessage
  /\ chats[c].state = "live"
  /\ u \in Members(c)
  /\ messages' = [messages EXCEPT ![m] =
                    [state |-> "live", chat |-> c, sender |-> u, text |-> t]]
  /\ UNCHANGED <<users, chats>>

\* Only chats of two have messages that can be edited or retracted.
Changeable(m) ==
  /\ messages[m].state = "live"
  /\ chats[messages[m].chat].initiator # chats[messages[m].chat].participant

Edited(m, t) ==
  /\ Changeable(m)
  /\ messages' = [messages EXCEPT ![m].text = t]
  /\ UNCHANGED <<users, chats>>

Retracted(m) ==
  /\ Changeable(m)
  /\ messages' = [messages EXCEPT ![m].state = "gone"]
  /\ UNCHANGED <<users, chats>>

Left(u) ==
  /\ u \in users
  /\ \A c \in ChatsOf(u) : IsEmpty(c)
  /\ users' = users \ {u}
  /\ chats' = [c \in Chats |-> IF c \in ChatsOf(u) THEN [chats[c] EXCEPT !.state = "gone"]
                                                   ELSE chats[c]]
  /\ UNCHANGED messages

ConversationNext ==
  \/ \E c \in Chats : Closed(c) \/ \E u, v \in Users : Opened(c, u, v)
  \/ \E m \in Messages, c \in Chats, u \in Users, t \in Texts : Posted(m, c, u, t)
  \/ \E m \in Messages : Retracted(m) \/ \E t \in Texts : Edited(m, t)
  \/ \E u \in Users : Left(u)

ConversationSpec == ConversationInit /\ [][ConversationNext]_<<users, chats, messages>>
=============================================================================
