-------------------------------- MODULE Chat --------------------------------
(***************************************************************************)
(* ChatService and MessagesService with the tables Chat, UserChatStatus    *)
(* and Message, the events of ChatSocketGateway and the mail of a new      *)
(* message.                                                                *)
(*                                                                         *)
(* A request reads what it needs, then writes in an interactive            *)
(* transaction and emits its event before that transaction commits.  Rows  *)
(* are locked as PostgreSQL does: by the transaction that deletes or       *)
(* updates them, and a chat also by those that insert or delete one of its *)
(* messages.  A request that is refused before it writes changes nothing   *)
(* and is no step.                                                         *)
(*                                                                         *)
(* No row of UserChatStatus ever changes (UserChatStatusService.update     *)
(* refuses every request): all are active and unmuted, one per member, two *)
(* for the one member of a chat with oneself.                              *)
(***************************************************************************)
CONSTANTS Requests,
          Users, Chats, Messages, Texts,
          None,
          KeysLoaded  \* does messageConfig hold the keys of the messages?

ASSUME NoneAssumption == None \notin Users \union Chats \union Messages \union Texts
ASSUME DisjointAssumption == Chats \intersect Messages = {}
ASSUME KeysAssumption == KeysLoaded \in BOOLEAN

VARIABLES users,     \* the User table
          chats,     \* the Chat table
          messages,  \* the Message table
          expired,   \* messages older than messageUpdateTime
          feed,      \* what the events tell of each chat and message
          misled,    \* rows told of by a transaction that rolled back
          mailed,    \* messages with a job in the queue 'mail'
          req        \* the requests

rowVars  == <<users, chats, messages, expired>>
feedVars == <<feed, misled>>
vars     == <<rowVars, feedVars, mailed, req>>

\* "inserted" rows are not committed, "lost" rows never will be.
RowStates == {"unused", "inserted", "live", "gone", "lost"}
Kinds     == {"none", "open", "close", "post", "edit", "retract"}
InTx      == {"saved", "written"}
Stages    == {"idle", "checked"} \union InTx

ChatRows    == [state : RowStates, initiator : Users \union {None},
                participant : Users \union {None}]
MessageRows == [state : RowStates, chat : Chats \union {None},
                sender : Users \union {None}, text : Texts \union {None}]
RequestRows == [kind : Kinds, at : Stages, user : Users \union {None},
                peer : Users \union {None}, chat : Chats \union {None},
                message : Messages \union {None}, text : Texts \union {None}]

NewChat    == [state |-> "unused", initiator |-> None, participant |-> None]
NewMessage == [state |-> "unused", chat |-> None, sender |-> None, text |-> None]

Request(kind, stage, u, v, c, m, t) ==
  [kind |-> kind, at |-> stage, user |-> u, peer |-> v, chat |-> c, message |-> m, text |-> t]

Idle == Request("none", "idle", None, None, None, None, None)

TypeOK ==
  /\ users \in SUBSET Users
  /\ chats \in [Chats -> ChatRows]
  /\ messages \in [Messages -> MessageRows]
  /\ expired \in SUBSET Messages
  /\ feed \in [Chats \union Messages -> {"unseen", "shown", "gone"}]
  /\ misled \in SUBSET (Chats \union Messages)
  /\ mailed \in SUBSET Messages
  /\ req \in [Requests -> RequestRows]

Init ==
  /\ users = Users
  /\ chats = [c \in Chats |-> NewChat]
  /\ messages = [m \in Messages |-> NewMessage]
  /\ expired = {}
  /\ feed = [x \in Chats \union Messages |-> "unseen"]
  /\ misled = {}
  /\ mailed = {}
  /\ req = [r \in Requests |-> Idle]

-----------------------------------------------------------------------------

Live(c)    == chats[c].state = "live"
Stored(m)  == messages[m].state = "live"
Members(c) == {chats[c].initiator, chats[c].participant}
ChatsOf(u) == {c \in Chats : Live(c) /\ u \in Members(c)}

\* Message.chat is RESTRICT: a chat with messages cannot be deleted.
\* Mutant: the messages of a chat do not keep it.
IsEmpty_Cascade(c) == TRUE

IsEmpty(c) == \A m \in Messages : Stored(m) => messages[m].chat # c

Becomes(r, request) == req' = [req EXCEPT ![r] = request]

Starts(r, request) ==
  /\ req[r].at = "idle"
  /\ Becomes(r, request)
  /\ UNCHANGED <<rowVars, feedVars, mailed>>

Goes(r, stage) == Becomes(r, [req[r] EXCEPT !.at = stage])

Replies(r) == Becomes(r, Idle)

\* The write failed; the transaction has done nothing.
Refused(r) == Replies(r) /\ UNCHANGED <<rowVars, feedVars, mailed>>

Emits(x, event) == feed' = [feed EXCEPT ![x] = event]

Is(r, kind, stage) == req[r].kind = kind /\ req[r].at = stage

-----------------------------------------------------------------------------
(* Row locks                                                               *)

\* Mutant: a write does not keep others from writing.
HoldsMessage_None(q, m) == FALSE

HoldsMessage(q, m) ==
  req[q].message = m /\ req[q].kind \in {"edit", "retract"} /\ req[q].at = "written"

\* A transaction that deletes c keeps messages from being added to it.
\* Mutant: the insertion of a message does not look at the chat.
Deleting_Unlocked(q, c) == FALSE

Deleting(q, c) == req[q].chat = c /\ Is(q, "close", "written")

\* ... and one that adds or deletes a message of c keeps c from being deleted.
HoldsChat(q, c) ==
  /\ req[q].chat = c
  /\ req[q].kind \in {"close", "post", "retract"}
  /\ req[q].at \in InTx

\* An inserted chat holds the rows of its users.
HoldsUser(q, u) == Is(q, "open", "written") /\ u \in {req[q].user, req[q].peer}

-----------------------------------------------------------------------------
(* createChat                                                              *)

Exists(u, v) == \E c \in Chats : Live(c) /\ Members(c) = {u, v}

\* checkUserById, verifyChatExistence, and a name nobody has for the room.
CheckChat(r, u, v) ==
  /\ {u, v} \subseteq users
  /\ ~ Exists(u, v)
  /\ Starts(r, Request("open", "checked", u, v, None, None, None))

\* Chat and UserChatStatus reference their users.
\* Mutant: the user may have been deleted since the check.
UsersExist_Unchecked(r) == TRUE

UsersExist(r) == {req[r].user, req[r].peer} \subseteq users

InsertChat(r, c) ==
  /\ chats[c] = NewChat
  /\ UsersExist(r)
  /\ chats' = [chats EXCEPT ![c] = [state |-> "inserted", initiator |-> req[r].user,
                                    participant |-> req[r].peer]]
  /\ Emits(c, "shown")
  /\ Becomes(r, Request("open", "written", req[r].user, req[r].peer, c, None, None))
  /\ UNCHANGED <<users, messages, expired, misled, mailed>>

\* Without an unused id the request ends: the bound of the model.
SaveChat(r) ==
  /\ Is(r, "open", "checked")
  /\ \/ \E c \in Chats : InsertChat(r, c)
     \/ ~ (UsersExist(r) /\ \E c \in Chats : chats[c] = NewChat) /\ Refused(r)

-----------------------------------------------------------------------------
(* ChatService.remove                                                      *)

\* findChatByIdAndCheck, checkChatAccessForUser
CheckRemoval(r, u, c) ==
  /\ Live(c)
  /\ u \in Members(c)
  /\ Starts(r, Request("close", "checked", u, None, c, None, None))

DeleteChat(r) ==
  LET c == req[r].chat
  IN  /\ Is(r, "close", "checked")
      /\ \A q \in Requests : ~ HoldsChat(q, c)
      /\ IF Live(c) /\ IsEmpty(c)
         THEN /\ Emits(c, "gone")
              /\ Goes(r, "written")
              /\ UNCHANGED <<rowVars, misled, mailed>>
         ELSE Refused(r)

-----------------------------------------------------------------------------
(* MessagesService.create                                                  *)

\* retrieveChatById and findChatByUser: a chat that u is a member of.
ChatOfUser(u, c) == Live(c) /\ u \in Members(c)

\* validateChatIsActive: both members have a status in the chat, a row that
\* goes with its user; every status is active, as no code changes one.
ChatIsActive(c) == Members(c) \subseteq users

\* examineAndRetrieveChatById, and encrypt, which throws without a key.
CheckPost(r, u, c, t) ==
  /\ KeysLoaded
  /\ ChatOfUser(u, c)
  /\ ChatIsActive(c)
  /\ Starts(r, Request("post", "checked", u, None, c, None, t))

\* Mutant: saveMessage is called with its arguments in the wrong order.
InsertMessage_Swapped(r, m) ==
  /\ messages[m] = NewMessage
  /\ Live(req[r].chat)
  /\ messages' = [messages EXCEPT ![m] = [state |-> "inserted", chat |-> req[r].chat,
                                          sender |-> req[r].text, text |-> req[r].user]]
  /\ Emits(m, "shown")
  /\ Becomes(r, Request("post", "saved", req[r].user, None, req[r].chat, m, req[r].text))
  /\ UNCHANGED <<users, chats, expired, misled, mailed>>

InsertMessage(r, m) ==
  /\ messages[m] = NewMessage
  /\ Live(req[r].chat)
  /\ messages' = [messages EXCEPT ![m] = [state |-> "inserted", chat |-> req[r].chat,
                                          sender |-> req[r].user, text |-> req[r].text]]
  /\ Emits(m, "shown")
  /\ Becomes(r, Request("post", "saved", req[r].user, None, req[r].chat, m, req[r].text))
  /\ UNCHANGED <<users, chats, expired, misled, mailed>>

SaveMessage(r) ==
  /\ Is(r, "post", "checked")
  /\ \A q \in Requests : ~ Deleting(q, req[r].chat)
  /\ \/ \E m \in Messages : InsertMessage(r, m)
     \/ ~ (Live(req[r].chat) /\ \E m \in Messages : messages[m] = NewMessage) /\ Refused(r)

\* sendNotificationEmail adds a job, inside the transaction.
Mail(m) == mailed' = mailed \union {m}

NotifyUser(r) ==
  /\ Is(r, "post", "saved")
  /\ Mail(req[r].message)
  /\ Goes(r, "written")
  /\ UNCHANGED <<rowVars, feedVars>>

-----------------------------------------------------------------------------
(* MessagesService.update and remove                                       *)

\* Mutant: any member may change a message.
Owns_Member(u, m) == u \in Members(messages[m].chat)

\* findMessageInChatByUser
Owns(u, m) == messages[m].sender = u

\* getChatByUser, validateChatStatus, verifyMessageInChat: a chat with
\* oneself has two statuses and is refused.
MayChange(u, m) ==
  /\ KeysLoaded
  /\ Stored(m)
  /\ ChatOfUser(u, messages[m].chat)
  /\ chats[messages[m].chat].initiator # chats[messages[m].chat].participant
  /\ Owns(u, m)

\* processMessage, then encryptUpdateMessage, updateMessageStatus and the
\* validation of the new text.
CheckEdit(r, u, m, t) ==
  /\ MayChange(u, m)
  /\ m \notin expired
  /\ t # messages[m].text
  /\ Starts(r, Request("edit", "checked", u, None, messages[m].chat, m, t))

CheckRetraction(r, u, m) ==
  /\ MayChange(u, m)
  /\ Starts(r, Request("retract", "checked", u, None, messages[m].chat, m, None))

Unheld(m) == \A q \in Requests : ~ HoldsMessage(q, m)

\* Mutant: the write does not look whether the row is still there.
StillThere_Ignored(m) == TRUE

\* Otherwise the query fails (P2025).
StillThere(m) == Stored(m)

\* The event carries the message as it was read, so the old text.
UpdateMessage(r) ==
  LET m == req[r].message
  IN  /\ Is(r, "edit", "checked")
      /\ Unheld(m)
      /\ IF StillThere(m)
         THEN /\ Emits(m, "shown")
              /\ Goes(r, "written")
              /\ UNCHANGED <<rowVars, misled, mailed>>
         ELSE Refused(r)

DeleteMessage(r) ==
  LET m == req[r].message
  IN  /\ Is(r, "retract", "checked")
      /\ Unheld(m)
      /\ IF StillThere(m)
         THEN /\ Emits(m, "gone")
              /\ Goes(r, "written")
              /\ UNCHANGED <<rowVars, misled, mailed>>
         ELSE Refused(r)

-----------------------------------------------------------------------------
(* The end of a transaction, and of a user                                 *)

ChatBecomes(r, state)    == chats' = [chats EXCEPT ![req[r].chat].state = state]
MessageBecomes(r, state) == messages' = [messages EXCEPT ![req[r].message].state = state]

CommitClose(r) == ChatBecomes(r, "gone")

CommitEdit(r) == messages' = [messages EXCEPT ![req[r].message].text = req[r].text]

Commit(r) ==
  /\ req[r].at = "written"
  /\ \/ req[r].kind = "open" /\ ChatBecomes(r, "live") /\ UNCHANGED messages
     \/ req[r].kind = "close" /\ CommitClose(r) /\ UNCHANGED messages
     \/ req[r].kind = "post" /\ MessageBecomes(r, "live") /\ UNCHANGED chats
     \/ req[r].kind = "edit" /\ CommitEdit(r) /\ UNCHANGED chats
     \/ req[r].kind = "retract" /\ MessageBecomes(r, "gone") /\ UNCHANGED chats
  /\ Replies(r)
  /\ UNCHANGED <<users, expired, feedVars, mailed>>

\* The row whose coming or going the transaction of r has announced.
Announced(r) ==
  CASE req[r].kind \in {"open", "close"}   -> {req[r].chat}
    [] req[r].kind \in {"post", "retract"} -> {req[r].message}
    [] OTHER -> {}

\* A write, the queue or the commit fails, the transaction times out or the
\* process dies: what was inserted is lost, what was emitted is not.
Rollback(r) ==
  /\ req[r].at \in InTx
  /\ \/ req[r].kind = "open" /\ ChatBecomes(r, "lost") /\ UNCHANGED messages
     \/ req[r].kind = "post" /\ MessageBecomes(r, "lost") /\ UNCHANGED chats
     \/ req[r].kind \in {"close", "edit", "retract"} /\ UNCHANGED <<chats, messages>>
  /\ misled' = misled \union Announced(r)
  /\ Replies(r)
  /\ UNCHANGED <<users, expired, feed, mailed>>

\* UserService.delete: the chats of the user are deleted with the row,
\* unless one of them has messages.
DeleteUser(u) ==
  /\ u \in users
  /\ \A q \in Requests : ~ HoldsUser(q, u) /\ \A c \in ChatsOf(u) : ~ HoldsChat(q, c)
  /\ \A c \in ChatsOf(u) : IsEmpty(c)
  /\ users' = users \ {u}
  /\ chats' = [c \in Chats |-> IF c \in ChatsOf(u) THEN [chats[c] EXCEPT !.state = "gone"]
                                                   ELSE chats[c]]
  /\ UNCHANGED <<messages, expired, feedVars, mailed, req>>

\* messageUpdateTime passes.
Expire(m) ==
  /\ Stored(m) /\ m \notin expired
  /\ expired' = expired \union {m}
  /\ UNCHANGED <<users, chats, messages, feedVars, mailed, req>>

Check(r) ==
  \E u \in Users :
    \/ \E v \in Users : CheckChat(r, u, v)
    \/ \E c \in Chats : CheckRemoval(r, u, c) \/ \E t \in Texts : CheckPost(r, u, c, t)
    \/ \E m \in Messages : CheckRetraction(r, u, m) \/ \E t \in Texts : CheckEdit(r, u, m, t)

Proceed(r) ==
  \/ SaveChat(r) \/ DeleteChat(r)
  \/ SaveMessage(r) \/ NotifyUser(r) \/ UpdateMessage(r) \/ DeleteMessage(r)
  \/ Commit(r)

Next ==
  \/ \E r \in Requests : Check(r) \/ Proceed(r) \/ Rollback(r)
  \/ \E u \in Users : DeleteUser(u)
  \/ \E m \in Messages : Expire(m)

Spec == Init /\ [][Next]_vars

-----------------------------------------------------------------------------
(* Properties                                                              *)

\* Every message, committed or not, is in a chat that exists, between users
\* who exist, and its sender is one of them: whatever removal of the chat or
\* of a user ran beside MessagesService.create.
MessagesHaveTheirChat ==
  \A m \in Messages :
    messages[m].state \in {"inserted", "live"} =>
      /\ Live(messages[m].chat)
      /\ messages[m].sender \in Members(messages[m].chat)
      /\ Members(messages[m].chat) \subseteq users

\* Chats that exist are between users who exist.
ChatsHaveTheirUsers ==
  \A c \in Chats : chats[c].state \in {"inserted", "live"} => Members(c) \subseteq users

Open(x, q) == req[q].at \in InTx /\ x \in {req[q].chat, req[q].message}

\* A client that follows the events knows which messages exist: the events
\* of a row are emitted under its lock, so in the order of the commits.
FeedFollowsStore ==
  \A m \in Messages \ misled :
    (\A q \in Requests : ~ Open(m, q)) => (feed[m] = "shown" <=> Stored(m))

\* ... and which chats: one that went without an event lost a user.
FeedFollowsChats ==
  \A c \in Chats \ misled :
    (\A q \in Requests : ~ Open(c, q)) =>
      /\ Live(c) => feed[c] = "shown"
      /\ feed[c] = "shown" => Live(c) \/ ~ (Members(c) \subseteq users)

\* The receiver of a stored message has been notified.
MessagesAreMailed == \A m \in Messages : Stored(m) => m \in mailed

\* The events and the mails tell the clients what the tables hold.
ClientsAreTold == FeedFollowsStore /\ FeedFollowsChats /\ MessagesAreMailed

\* No event tells of a row after it was announced gone.
GoneStaysGone ==
  [][\A x \in (Chats \union Messages) \ misled : feed[x] = "gone" => feed'[x] = "gone"]_vars

\* Only its author's request changes or removes a message.
AuthorsOnly ==
  [][\A m \in Messages :
       Stored(m) /\ messages'[m] # messages[m] =>
         \E r \in Requests : req[r].user = messages[m].sender /\ req[r].message = m
                             /\ req'[r].at = "idle" /\ req[r].at = "written"]_vars

RowAsRead(row, new) == IF row.state \in {"inserted", "lost"} THEN new ELSE row

Committed == INSTANCE Conversation WITH
  chats    <- [c \in Chats |-> RowAsRead(chats[c], NewChat)],
  messages <- [m \in Messages |-> RowAsRead(messages[m], NewMessage)]

\* What the database holds is a conversation.
KeepsPromise == Committed!ConversationSpec

\* throwIfChatExists: one chat between two users.
OneChatPerPair ==
  \A c, d \in Chats : Live(c) /\ Live(d) /\ Members(c) = Members(d) => c = d

=============================================================================
