----------------------------- MODULE ChatProofs -----------------------------
(***************************************************************************)
(* Proofs about Chat, for any number of requests, users, chats, messages   *)
(* and texts: the chats and messages of the database are those of a        *)
(* conversation.                                                           *)
(*                                                                         *)
(* The inductive invariant says, of each request in a transaction, which   *)
(* row it has inserted or locked (OpenOK, CloseOK, PostOK, ChangeOK), that *)
(* no two of them share one (Exclusive), and that every row not yet        *)
(* committed has such a request (ChatOK, MessageOK).                       *)
(*                                                                         *)
(* A second invariant, Told, is inductive given the first: what the events *)
(* have told of a row follows from its state and from whether an open      *)
(* transaction is about to remove it; its mail is in the queue before it   *)
(* can commit; and requests to change a message come from its sender.      *)
(***************************************************************************)
EXTENDS Chat, TLAPS

Settled(c) == chats[c].state \in {"live", "gone"}

\* Neither a message nor one on its way.
Vacant(c) ==
  \A m \in Messages : messages[m].state \in {"inserted", "live"} => messages[m].chat # c

Opening(r) == req[r].kind = "open" /\ req[r].at = "written"
Closing(r) == req[r].kind = "close" /\ req[r].at = "written"
Posting(r) == req[r].kind = "post" /\ req[r].at \in InTx
Changing(r) == req[r].kind \in {"edit", "retract"} /\ req[r].at = "written"

StageOK(r) ==
  /\ req[r].at = "idle" <=> req[r].kind = "none"
  /\ req[r].at = "saved" => req[r].kind = "post"

OpenOK(r) ==
  /\ req[r].kind = "open" => req[r].user \in Users /\ req[r].peer \in Users
  /\ Opening(r) =>
       /\ req[r].chat \in Chats
       /\ chats[req[r].chat].state = "inserted"
       /\ chats[req[r].chat].initiator = req[r].user
       /\ chats[req[r].chat].participant = req[r].peer

CloseOK(r) ==
  /\ req[r].kind = "close" => req[r].chat \in Chats /\ Settled(req[r].chat)
  /\ Closing(r) => Live(req[r].chat) /\ Vacant(req[r].chat)

PostOK(r) ==
  /\ req[r].kind = "post" =>
       /\ req[r].chat \in Chats /\ req[r].user \in Users /\ req[r].text \in Texts
       /\ Settled(req[r].chat)
       /\ req[r].user \in Members(req[r].chat)
  /\ Posting(r) =>
       /\ req[r].message \in Messages
       /\ messages[req[r].message].state = "inserted"
       /\ messages[req[r].message].chat = req[r].chat
       /\ messages[req[r].message].sender = req[r].user
       /\ messages[req[r].message].text = req[r].text

ChangeOK(r) ==
  /\ req[r].kind \in {"edit", "retract"} =>
       /\ req[r].message \in Messages
       /\ messages[req[r].message].state \in {"live", "gone"}
       /\ messages[req[r].message].chat = req[r].chat
       /\ req[r].chat \in Chats
       /\ Settled(req[r].chat)
       /\ chats[req[r].chat].initiator # chats[req[r].chat].participant
  /\ req[r].kind = "edit" => req[r].text \in Texts
  /\ Changing(r) => Stored(req[r].message)

RequestOK(r) == StageOK(r) /\ OpenOK(r) /\ CloseOK(r) /\ PostOK(r) /\ ChangeOK(r)

Exclusive(q, r) ==
  /\ Opening(q) /\ Opening(r) => req[q].chat # req[r].chat
  /\ Posting(q) /\ Posting(r) => req[q].message # req[r].message
  /\ Changing(q) /\ Changing(r) => req[q].message # req[r].message
  /\ Closing(q) /\ Closing(r) => req[q].chat # req[r].chat

ChatOK(c) ==
  /\ chats[c].state # "unused" =>
       chats[c].initiator \in Users /\ chats[c].participant \in Users
  /\ chats[c].state \in {"inserted", "live"} =>
       chats[c].initiator \in users /\ chats[c].participant \in users
  /\ chats[c].state = "inserted" => \E q \in Requests : Opening(q) /\ req[q].chat = c

MessageOK(m) ==
  /\ messages[m].state # "unused" =>
       /\ messages[m].chat \in Chats /\ messages[m].sender \in Users
       /\ messages[m].text \in Texts
       /\ Settled(messages[m].chat)
       /\ messages[m].sender \in Members(messages[m].chat)
  /\ messages[m].state \in {"inserted", "live"} => Live(messages[m].chat)
  /\ messages[m].state = "inserted" =>
       \E q \in Requests : Posting(q) /\ req[q].message = m

Relations ==
  /\ \A r \in Requests : RequestOK(r)
  /\ \A q, r \in Requests : q # r => Exclusive(q, r)
  /\ \A c \in Chats : ChatOK(c)
  /\ \A m \in Messages : MessageOK(m)

IInv == TypeOK /\ Relations

-----------------------------------------------------------------------------

\* A request fits its type.
LEMMA RequestType ==
  ASSUME NEW kind \in Kinds, NEW stage \in Stages, NEW u \in Users \union {None},
         NEW v \in Users \union {None}, NEW c \in Chats \union {None},
         NEW m \in Messages \union {None}, NEW t \in Texts \union {None}
  PROVE  Request(kind, stage, u, v, c, m, t) \in RequestRows
  BY DEF Request, RequestRows

LEMMA IdleType == Idle \in RequestRows
  BY RequestType DEF Idle, Kinds, Stages

\* The requests other than r stay as they are.
LEMMA OthersKept ==
  ASSUME TypeOK, NEW r \in Requests, NEW x, Becomes(r, x)
  PROVE  /\ req'[r] = x
         /\ \A q \in Requests \ {r} : req'[q] = req[q]
  BY DEF TypeOK, Becomes

\* A step of one request that changes no row of the tables.
LEMMA RowsKept ==
  ASSUME IInv, NEW r \in Requests, NEW x, Becomes(r, x),
         UNCHANGED <<users, chats, messages>>,
         RequestOK(r)',
         \A q \in Requests \ {r} : Exclusive(q, r)' /\ Exclusive(r, q)',
         ~ Opening(r),
         Posting(r) => x.kind = "post" /\ x.at \in InTx /\ x.message = req[r].message
  PROVE  Relations'
<1>1. req'[r] = x /\ \A q \in Requests \ {r} : req'[q] = req[q]
  BY OthersKept DEF IInv, Relations
<1>2. \A q \in Requests : RequestOK(q)'
  <2> SUFFICES ASSUME NEW q \in Requests, q # r PROVE RequestOK(q)'
    OBVIOUS
  <2>1. req'[q] = req[q] /\ RequestOK(q)
    BY <1>1 DEF IInv, Relations
  <2> QED
    BY <2>1 DEF RequestOK, StageOK, OpenOK, CloseOK, PostOK, ChangeOK, Opening, Closing, Posting,
                Changing, Settled, Vacant, Live, Stored, Members
<1>3. \A p, q \in Requests : p # q => Exclusive(p, q)'
  <2> SUFFICES ASSUME NEW p \in Requests, NEW q \in Requests, p # q, p # r, q # r
               PROVE  Exclusive(p, q)'
    OBVIOUS
  <2>1. req'[p] = req[p] /\ req'[q] = req[q] /\ Exclusive(p, q)
    BY <1>1 DEF IInv, Relations
  <2> QED
    BY <2>1 DEF Exclusive, Opening, Closing, Posting, Changing
<1>4. \A c \in Chats : ChatOK(c)'
  <2> SUFFICES ASSUME NEW c \in Chats PROVE ChatOK(c)'
    OBVIOUS
  <2>1. ChatOK(c)
    BY DEF IInv, Relations
  <2>2. ASSUME NEW q \in Requests, Opening(q), req[q].chat = c
        PROVE  Opening(q)' /\ (req[q].chat = c)'
    BY <1>1, <2>2 DEF Opening
  <2> QED
    BY <2>1, <2>2 DEF ChatOK
<1>5. \A m \in Messages : MessageOK(m)'
  <2> SUFFICES ASSUME NEW m \in Messages PROVE MessageOK(m)'
    OBVIOUS
  <2>1. MessageOK(m)
    BY DEF IInv, Relations
  <2>2. ASSUME NEW q \in Requests, Posting(q), req[q].message = m
        PROVE  Posting(q)' /\ (req[q].message = m)'
    <3>1. CASE q = r
      BY <1>1, <2>2, <3>1 DEF Posting
    <3>2. CASE q # r
      BY <1>1, <2>2, <3>2 DEF Posting
    <3> QED
      BY <3>1, <3>2
  <2>3. messages[m].state = "inserted" =>
          (\E q \in Requests : Posting(q) /\ req[q].message = m)'
    BY <2>1, <2>2 DEF MessageOK
  <2> QED
    BY <2>1, <2>3 DEF MessageOK, Settled, Live, Members
<1> QED
  BY <1>2, <1>3, <1>4, <1>5 DEF Relations

-----------------------------------------------------------------------------
(* The checks and the refusals                                             *)

\* A request that starts.
LEMMA StartsKeeps ==
  ASSUME IInv, NEW r \in Requests, NEW x \in RequestRows, Starts(r, x), RequestOK(r)',
         x.at = "checked"
  PROVE  IInv'
<1>1. Becomes(r, x) /\ UNCHANGED <<rowVars, feedVars, mailed>> /\ req[r].at = "idle"
  BY DEF Starts
<1>2. req'[r] = x
  BY <1>1, OthersKept DEF IInv
<1>3. TypeOK'
  BY <1>1 DEF IInv, TypeOK, Becomes, rowVars, feedVars
<1>4. \A q \in Requests \ {r} : Exclusive(q, r)' /\ Exclusive(r, q)'
  BY <1>2 DEF Exclusive, Opening, Closing, Posting, Changing, InTx
<1>5. ~ Opening(r) /\ ~ Posting(r)
  BY <1>1 DEF Opening, Posting, InTx
<1> QED
  BY <1>1, <1>3, <1>4, <1>5, RowsKept DEF IInv, rowVars

\* A request that ends before it wrote.
LEMMA RefusedKeeps ==
  ASSUME IInv, NEW r \in Requests, Refused(r), req[r].at = "checked"
  PROVE  IInv'
<1>1. Becomes(r, Idle) /\ UNCHANGED <<rowVars, feedVars, mailed>>
  BY DEF Refused, Replies
<1>2. req'[r] = Idle
  BY <1>1, OthersKept DEF IInv
<1>3. TypeOK'
  BY <1>1, IdleType DEF IInv, TypeOK, Becomes, rowVars, feedVars
<1>4. \A q \in Requests \ {r} : Exclusive(q, r)' /\ Exclusive(r, q)'
  BY <1>2 DEF Idle, Request, Exclusive, Opening, Closing, Posting, Changing, InTx
<1>5. ~ Opening(r) /\ ~ Posting(r)
  BY DEF Opening, Posting, InTx
<1>6. RequestOK(r)'
  BY <1>2 DEF Idle, Request, RequestOK, StageOK, OpenOK, CloseOK, PostOK, ChangeOK, Opening,
              Closing, Posting, Changing, InTx
<1> QED
  BY <1>1, <1>3, <1>4, <1>5, <1>6, RowsKept DEF IInv, rowVars

LEMMA CheckKeeps ==
  ASSUME IInv, NEW r \in Requests, Check(r)
  PROVE  IInv'
<1> USE DEF Kinds, Stages
<1>1. PICK u \in Users :
        \/ \E v \in Users : CheckChat(r, u, v)
        \/ \E c \in Chats : CheckRemoval(r, u, c) \/ \E t \in Texts : CheckPost(r, u, c, t)
        \/ \E m \in Messages : CheckRetraction(r, u, m)
                               \/ \E t \in Texts : CheckEdit(r, u, m, t)
  BY DEF Check
<1> DEFINE Fits(x) == Starts(r, x) /\ x \in RequestRows /\ x.at = "checked"
<1>2. ASSUME NEW x, Fits(x), RequestOK(r)'
      PROVE  IInv'
  BY <1>2, StartsKeeps
<1>3. ASSUME NEW x, Fits(x)
      PROVE  req'[r] = x /\ UNCHANGED <<users, chats, messages>>
  BY <1>3, OthersKept DEF Starts, IInv, rowVars
<1>4. CASE \E v \in Users : CheckChat(r, u, v)
  <2>1. PICK v \in Users : CheckChat(r, u, v)
    BY <1>4
  <2> DEFINE x == Request("open", "checked", u, v, None, None, None)
  <2>2. Fits(x)
    BY <2>1, RequestType DEF CheckChat, Request
  <2>3. RequestOK(r)'
    BY <1>3, <2>2 DEF Request, RequestOK, StageOK, OpenOK, CloseOK, PostOK, ChangeOK, Opening,
                      Closing, Posting, Changing, InTx
  <2> QED
    BY <1>2, <2>2, <2>3
<1>5. CASE \E c \in Chats : CheckRemoval(r, u, c)
  <2>1. PICK c \in Chats : CheckRemoval(r, u, c)
    BY <1>5
  <2> DEFINE x == Request("close", "checked", u, None, c, None, None)
  <2>2. Fits(x)
    BY <2>1, RequestType DEF CheckRemoval, Request
  <2>3. RequestOK(r)'
    BY <1>3, <2>1, <2>2 DEF CheckRemoval, Request, RequestOK, StageOK, OpenOK, CloseOK, PostOK,
                            ChangeOK, Opening, Closing, Posting, Changing, InTx, Live, Settled
  <2> QED
    BY <1>2, <2>2, <2>3
<1>6. CASE \E c \in Chats, t \in Texts : CheckPost(r, u, c, t)
  <2>1. PICK c \in Chats, t \in Texts : CheckPost(r, u, c, t)
    BY <1>6
  <2> DEFINE x == Request("post", "checked", u, None, c, None, t)
  <2>2. Fits(x)
    BY <2>1, RequestType DEF CheckPost, Request
  <2>3. RequestOK(r)'
    BY <1>3, <2>1, <2>2 DEF CheckPost, Request, RequestOK, StageOK, OpenOK, CloseOK, PostOK,
                            ChangeOK, Opening, Closing, Posting, Changing, InTx, Live, Settled,
                            Members, ChatOfUser
  <2> QED
    BY <1>2, <2>2, <2>3
<1>7. ASSUME NEW m \in Messages, MayChange(u, m)
      PROVE  /\ messages[m].state = "live"
             /\ messages[m].chat \in Chats
             /\ Settled(messages[m].chat)
             /\ chats[messages[m].chat].initiator # chats[messages[m].chat].participant
  BY <1>7 DEF MayChange, ChatOfUser, IInv, Relations, MessageOK, Stored
<1>8. CASE \E m \in Messages, t \in Texts : CheckEdit(r, u, m, t)
  <2>1. PICK m \in Messages, t \in Texts : CheckEdit(r, u, m, t)
    BY <1>8
  <2> DEFINE x == Request("edit", "checked", u, None, messages[m].chat, m, t)
  <2>2. Fits(x)
    BY <1>7, <2>1, RequestType DEF CheckEdit, Request
  <2>3. RequestOK(r)'
    BY <1>3, <1>7, <2>1, <2>2 DEF CheckEdit, Request, RequestOK, StageOK, OpenOK, CloseOK, PostOK,
                                  ChangeOK, Opening, Closing, Posting, Changing, InTx, Settled
  <2> QED
    BY <1>2, <2>2, <2>3
<1>9. CASE \E m \in Messages : CheckRetraction(r, u, m)
  <2>1. PICK m \in Messages : CheckRetraction(r, u, m)
    BY <1>9
  <2> DEFINE x == Request("retract", "checked", u, None, messages[m].chat, m, None)
  <2>2. Fits(x)
    BY <1>7, <2>1, RequestType DEF CheckRetraction, Request
  <2>3. RequestOK(r)'
    BY <1>3, <1>7, <2>1, <2>2 DEF CheckRetraction, Request, RequestOK, StageOK, OpenOK, CloseOK,
                                  PostOK, ChangeOK, Opening, Closing, Posting, Changing, InTx,
                                  Settled
  <2> QED
    BY <1>2, <2>2, <2>3
<1> QED
  BY <1>1, <1>4, <1>5, <1>6, <1>8, <1>9

-----------------------------------------------------------------------------
(* Writes to rows that exist, and the mail                                 *)

\* A request at "checked" whose write is done and holds its row.
LEMMA WrittenKeeps ==
  ASSUME IInv, NEW r \in Requests, Goes(r, "written"), req[r].kind # "post",
         req[r].kind # "open", req[r].at = "checked",
         UNCHANGED <<rowVars, misled, mailed>>,
         feed' \in [Chats \union Messages -> {"unseen", "shown", "gone"}],
         req[r].kind = "close" =>
           /\ Live(req[r].chat) /\ Vacant(req[r].chat)
           /\ \A q \in Requests : ~ HoldsChat(q, req[r].chat),
         req[r].kind # "close" => Stored(req[r].message) /\ Unheld(req[r].message)
  PROVE  IInv'
<1> DEFINE x == [req[r] EXCEPT !.at = "written"]
<1>0. TypeOK /\ req[r] \in RequestRows /\ RequestOK(r)
  BY DEF IInv, Relations, TypeOK
<1>1. Becomes(r, x) /\ UNCHANGED <<users, chats, messages>>
  BY DEF Goes, rowVars
<1>2. req'[r] = x /\ \A q \in Requests \ {r} : req'[q] = req[q]
  BY <1>0, <1>1, OthersKept
<1>3. x \in RequestRows /\ x.at = "written" /\ x.kind = req[r].kind /\ x.chat = req[r].chat
      /\ x.message = req[r].message /\ x.text = req[r].text /\ x.user = req[r].user
      /\ x.peer = req[r].peer
  BY <1>0 DEF RequestRows, Stages, InTx
<1>4. TypeOK'
  BY <1>0, <1>1, <1>3 DEF TypeOK, Becomes, rowVars
<1>5. RequestOK(r)'
  <2>1. StageOK(r)' /\ OpenOK(r)' /\ PostOK(r)'
    BY <1>0, <1>2, <1>3 DEF RequestOK, StageOK, OpenOK, PostOK, Opening, Posting
  <2>2. CloseOK(r)'
    BY <1>0, <1>1, <1>2, <1>3 DEF RequestOK, CloseOK, Closing, Live, Vacant, Settled
  <2>3. ChangeOK(r)'
    BY <1>0, <1>1, <1>2, <1>3 DEF RequestOK, ChangeOK, Changing, Stored, Settled
  <2> QED
    BY <2>1, <2>2, <2>3 DEF RequestOK
<1>6. ASSUME NEW q \in Requests \ {r}
      PROVE  Exclusive(q, r)' /\ Exclusive(r, q)'
  BY <1>2, <1>3 DEF Exclusive, Opening, Posting, Closing, Changing, HoldsChat, HoldsMessage,
                    Unheld, InTx
<1>7. ~ Opening(r) /\ ~ Posting(r)
  BY DEF Opening, Posting
<1> QED
  BY <1>1, <1>4, <1>5, <1>6, <1>7, RowsKept DEF IInv

LEMMA DeleteChatKeeps ==
  ASSUME IInv, NEW r \in Requests, DeleteChat(r)
  PROVE  IInv'
<1> DEFINE c == req[r].chat
<1>1. req[r].kind = "close" /\ req[r].at = "checked" /\ \A q \in Requests : ~ HoldsChat(q, c)
  BY DEF DeleteChat, Is
<1>2. CASE Live(c) /\ IsEmpty(c)
  <2>1. Emits(c, "gone") /\ Goes(r, "written") /\ UNCHANGED <<rowVars, misled, mailed>>
    BY <1>2 DEF DeleteChat
  <2>2. Vacant(c)
    <3> SUFFICES ASSUME NEW m \in Messages, messages[m].state = "inserted", messages[m].chat = c
                 PROVE  FALSE
      BY <1>2 DEF Vacant, IsEmpty, Stored
    <3>1. PICK q \in Requests : Posting(q) /\ req[q].message = m
      BY DEF IInv, Relations, MessageOK
    <3>2. PostOK(q)
      BY DEF IInv, Relations, RequestOK
    <3> QED
      BY <1>1, <3>1, <3>2 DEF PostOK, Posting, HoldsChat
  <2>3. feed' \in [Chats \union Messages -> {"unseen", "shown", "gone"}]
    BY <2>1 DEF IInv, TypeOK, Emits
  <2> QED
    BY <1>1, <1>2, <2>1, <2>2, <2>3, WrittenKeeps
<1>3. CASE ~ (Live(c) /\ IsEmpty(c))
  BY <1>1, <1>3, RefusedKeeps DEF DeleteChat
<1> QED
  BY <1>2, <1>3

LEMMA UpdateMessageKeeps ==
  ASSUME IInv, NEW r \in Requests, UpdateMessage(r)
  PROVE  IInv'
<1> DEFINE m == req[r].message
<1>1. req[r].kind = "edit" /\ req[r].at = "checked" /\ Unheld(m)
  BY DEF UpdateMessage, Is
<1>2. CASE StillThere(m)
  <2>1. /\ Emits(m, "shown") /\ Goes(r, "written")
        /\ UNCHANGED <<rowVars, misled, mailed>>
    BY <1>2 DEF UpdateMessage
  <2>2. m \in Messages /\ messages[m] \in MessageRows
    BY <1>1 DEF IInv, Relations, RequestOK, ChangeOK, TypeOK
  <2>3. feed' \in [Chats \union Messages -> {"unseen", "shown", "gone"}]
    BY <2>1, <2>2 DEF IInv, TypeOK, Emits, MessageRows
  <2> QED
    BY <1>1, <1>2, <2>1, <2>3, WrittenKeeps DEF StillThere
<1>3. CASE ~ StillThere(m)
  BY <1>1, <1>3, RefusedKeeps DEF UpdateMessage
<1> QED
  BY <1>2, <1>3

LEMMA DeleteMessageKeeps ==
  ASSUME IInv, NEW r \in Requests, DeleteMessage(r)
  PROVE  IInv'
<1> DEFINE m == req[r].message
<1>1. req[r].kind = "retract" /\ req[r].at = "checked" /\ Unheld(m)
  BY DEF DeleteMessage, Is
<1>2. CASE StillThere(m)
  <2>1. Emits(m, "gone") /\ Goes(r, "written") /\ UNCHANGED <<rowVars, misled, mailed>>
    BY <1>2 DEF DeleteMessage
  <2>2. feed' \in [Chats \union Messages -> {"unseen", "shown", "gone"}]
    BY <2>1 DEF IInv, TypeOK, Emits
  <2> QED
    BY <1>1, <1>2, <2>1, <2>2, WrittenKeeps DEF StillThere
<1>3. CASE ~ StillThere(m)
  BY <1>1, <1>3, RefusedKeeps DEF DeleteMessage
<1> QED
  BY <1>2, <1>3

LEMMA NotifyUserKeeps ==
  ASSUME IInv, NEW r \in Requests, NotifyUser(r)
  PROVE  IInv'
<1> DEFINE x == [req[r] EXCEPT !.at = "written"]
<1>0. /\ TypeOK /\ req[r] \in RequestRows /\ RequestOK(r)
      /\ req[r].kind = "post" /\ req[r].at = "saved"
  BY DEF IInv, Relations, TypeOK, NotifyUser, Is
<1>1. Becomes(r, x) /\ UNCHANGED <<rowVars, feedVars>> /\ mailed' = mailed \union {req[r].message}
  BY DEF NotifyUser, Goes, Mail
<1>2. req'[r] = x /\ \A q \in Requests \ {r} : req'[q] = req[q]
  BY <1>0, <1>1, OthersKept
<1>3. x \in RequestRows /\ x.at = "written" /\ x.kind = "post" /\ x.chat = req[r].chat
      /\ x.message = req[r].message /\ x.text = req[r].text /\ x.user = req[r].user
  BY <1>0 DEF RequestRows, Stages, InTx
<1>4. req[r].message \in Messages /\ Posting(r)
  BY <1>0 DEF RequestOK, PostOK, Posting, InTx
<1>5. TypeOK'
  BY <1>0, <1>1, <1>3, <1>4 DEF TypeOK, Becomes, rowVars, feedVars
<1>6. RequestOK(r)'
  <2>1. StageOK(r)' /\ OpenOK(r)' /\ CloseOK(r)' /\ ChangeOK(r)'
    BY <1>2, <1>3 DEF StageOK, OpenOK, CloseOK, ChangeOK, Opening, Closing, Changing
  <2>2. PostOK(r)'
    BY <1>0, <1>1, <1>2, <1>3, <1>4 DEF RequestOK, PostOK, Posting, Settled, Members, rowVars
  <2> QED
    BY <2>1, <2>2 DEF RequestOK
<1>7. ASSUME NEW q \in Requests \ {r}
      PROVE  Exclusive(q, r)' /\ Exclusive(r, q)'
  <2>1. Exclusive(q, r) /\ Exclusive(r, q)
    BY DEF IInv, Relations
  <2> QED
    BY <1>2, <1>3, <1>4, <2>1 DEF Exclusive, Opening, Posting, Closing, Changing
<1>8. ~ Opening(r)
  BY <1>0 DEF Opening
<1>9. x.kind = "post" /\ x.at \in InTx /\ x.message = req[r].message
  BY <1>3 DEF InTx
<1> QED
  BY <1>1, <1>5, <1>6, <1>7, <1>8, <1>9, RowsKept DEF IInv, rowVars

-----------------------------------------------------------------------------
(* Insertions                                                              *)

LEMMA InsertChatKeeps ==
  ASSUME IInv, NEW r \in Requests, NEW c \in Chats, InsertChat(r, c),
         req[r].kind = "open", req[r].at = "checked"
  PROVE  IInv'
<1> DEFINE x == Request("open", "written", req[r].user, req[r].peer, c, None, None)
           row == [state |-> "inserted", initiator |-> req[r].user,
                   participant |-> req[r].peer]
<1>0. /\ TypeOK /\ req[r] \in RequestRows /\ RequestOK(r)
      /\ req[r].user \in Users /\ req[r].peer \in Users
      /\ req[r].user \in users /\ req[r].peer \in users
  BY DEF IInv, Relations, TypeOK, InsertChat, UsersExist, RequestOK, OpenOK
<1>1. /\ Becomes(r, x) /\ chats' = [chats EXCEPT ![c] = row] /\ Emits(c, "shown")
      /\ chats[c].state = "unused"
      /\ UNCHANGED <<users, messages, expired, misled, mailed>>
  BY DEF InsertChat, NewChat
<1>2. req'[r] = x /\ \A q \in Requests \ {r} : req'[q] = req[q]
  BY <1>0, <1>1, OthersKept
<1>3. /\ x \in RequestRows /\ x.at = "written" /\ x.kind = "open" /\ x.chat = c
      /\ x.user = req[r].user /\ x.peer = req[r].peer
  BY <1>0, RequestType DEF Kinds, Stages, InTx, Request
<1>4. /\ chats'[c] = row /\ row \in ChatRows
      /\ \A d \in Chats \ {c} : chats'[d] = chats[d]
  BY <1>0, <1>1 DEF TypeOK, ChatRows, RowStates
<1>5. TypeOK'
  BY <1>0, <1>1, <1>3, <1>4 DEF TypeOK, Becomes, Emits
<1>6. ASSUME NEW q \in Requests
      PROVE  RequestOK(q)'
  <2>1. CASE q = r
    BY <1>0, <1>2, <1>3, <1>4, <2>1 DEF RequestOK, StageOK, OpenOK, CloseOK, PostOK, ChangeOK,
      Opening, Closing, Posting, Changing
  <2>2. CASE q # r
    <3>1. req'[q] = req[q] /\ RequestOK(q)
      BY <1>2, <2>2 DEF IInv, Relations
    <3>2. StageOK(q)' /\ OpenOK(q)'
      BY <1>1, <1>4, <3>1 DEF RequestOK, StageOK, OpenOK, Opening
    <3>3. CloseOK(q)'
      BY <1>1, <1>4, <3>1 DEF RequestOK, CloseOK, Closing, Settled, Live, Vacant
    <3>4. PostOK(q)'
      BY <1>1, <1>4, <3>1 DEF RequestOK, PostOK, Posting, Settled, Members
    <3>5. ChangeOK(q)'
      BY <1>1, <1>4, <3>1 DEF RequestOK, ChangeOK, Changing, Settled, Stored
    <3> QED
      BY <3>2, <3>3, <3>4, <3>5 DEF RequestOK
  <2> QED
    BY <2>1, <2>2
<1>7. ASSUME NEW p \in Requests, NEW q \in Requests, p # q
      PROVE  Exclusive(p, q)'
  <2>1. Exclusive(p, q) /\ OpenOK(p) /\ OpenOK(q)
    BY <1>7 DEF IInv, Relations, RequestOK
  <2> QED
    BY <1>1, <1>2, <1>3, <1>7, <2>1 DEF Exclusive, OpenOK, Opening, Closing, Posting, Changing
<1>8. ASSUME NEW d \in Chats
      PROVE  ChatOK(d)'
  <2>1. CASE d = c
    BY <1>0, <1>1, <1>2, <1>3, <1>4, <2>1 DEF ChatOK, Opening
  <2>2. CASE d # c
    <3>1. ChatOK(d) /\ chats'[d] = chats[d]
      BY <1>4, <2>2 DEF IInv, Relations
    <3>2. ASSUME NEW q \in Requests, Opening(q), req[q].chat = d
          PROVE  Opening(q)' /\ (req[q].chat = d)'
      BY <1>2, <1>0, <3>2 DEF Opening, InsertChat, OpenOK
    <3> QED
      BY <1>1, <3>1, <3>2 DEF ChatOK
  <2> QED
    BY <2>1, <2>2
<1>9. ASSUME NEW m \in Messages
      PROVE  MessageOK(m)'
  <2>1. MessageOK(m)
    BY DEF IInv, Relations
  <2>2. ASSUME NEW q \in Requests, Posting(q), req[q].message = m
        PROVE  Posting(q)' /\ (req[q].message = m)'
    BY <1>2, <2>2 DEF Posting, InTx
  <2>3. messages[m].state = "inserted" =>
          (\E q \in Requests : Posting(q) /\ req[q].message = m)'
    BY <2>1, <2>2 DEF MessageOK
  <2> QED
    BY <1>1, <1>4, <2>1, <2>3 DEF MessageOK, Settled, Live, Members
<1> QED
  BY <1>5, <1>6, <1>7, <1>8, <1>9 DEF IInv, Relations

LEMMA SaveChatKeeps ==
  ASSUME IInv, NEW r \in Requests, SaveChat(r)
  PROVE  IInv'
  BY InsertChatKeeps, RefusedKeeps DEF SaveChat, Is

LEMMA InsertMessageKeeps ==
  ASSUME IInv, NEW r \in Requests, NEW m \in Messages, InsertMessage(r, m),
         req[r].kind = "post", req[r].at = "checked",
         \A q \in Requests : ~ Deleting(q, req[r].chat)
  PROVE  IInv'
<1> DEFINE x == Request("post", "saved", req[r].user, None, req[r].chat, m, req[r].text)
           row == [state |-> "inserted", chat |-> req[r].chat, sender |-> req[r].user,
                   text |-> req[r].text]
<1>0. /\ TypeOK /\ req[r] \in RequestRows /\ RequestOK(r)
      /\ req[r].user \in Users /\ req[r].chat \in Chats /\ req[r].text \in Texts
      /\ req[r].user \in Members(req[r].chat) /\ Live(req[r].chat)
  BY DEF IInv, Relations, TypeOK, InsertMessage, RequestOK, PostOK
<1>1. /\ Becomes(r, x) /\ messages' = [messages EXCEPT ![m] = row] /\ Emits(m, "shown")
      /\ messages[m].state = "unused"
      /\ UNCHANGED <<users, chats, expired, misled, mailed>>
  BY DEF InsertMessage, NewMessage
<1>2. req'[r] = x /\ \A q \in Requests \ {r} : req'[q] = req[q]
  BY <1>0, <1>1, OthersKept
<1>3. /\ x \in RequestRows /\ x.at = "saved" /\ x.kind = "post" /\ x.chat = req[r].chat
      /\ x.user = req[r].user /\ x.text = req[r].text /\ x.message = m
  BY <1>0, RequestType DEF Kinds, Stages, InTx, Request
<1>4. /\ messages'[m] = row /\ row \in MessageRows
      /\ \A n \in Messages \ {m} : messages'[n] = messages[n]
  BY <1>0, <1>1 DEF TypeOK, MessageRows, RowStates
<1>5. TypeOK'
  BY <1>0, <1>1, <1>3, <1>4 DEF TypeOK, Becomes, Emits
<1>6. ASSUME NEW q \in Requests
      PROVE  RequestOK(q)'
  <2>1. CASE q = r
    BY <1>0, <1>1, <1>2, <1>3, <1>4, <2>1 DEF RequestOK, StageOK, OpenOK, CloseOK, PostOK,
      ChangeOK, Opening, Closing, Posting, Changing, Settled, Members
  <2>2. CASE q # r
    <3>1. req'[q] = req[q] /\ RequestOK(q)
      BY <1>2, <2>2 DEF IInv, Relations
    <3>2. StageOK(q)' /\ OpenOK(q)'
      BY <1>1, <3>1 DEF RequestOK, StageOK, OpenOK, Opening
    <3>3. CloseOK(q)'
      <4>1. Closing(q) => req[q].chat # req[r].chat
        BY DEF Closing, Deleting, Is
      <4> QED
        BY <1>1, <1>4, <3>1, <4>1 DEF RequestOK, CloseOK, Closing, Settled, Live, Vacant
    <3>4. PostOK(q)'
      BY <1>1, <1>4, <3>1 DEF RequestOK, PostOK, Posting, Settled, Members
    <3>5. ChangeOK(q)'
      BY <1>1, <1>4, <3>1 DEF RequestOK, ChangeOK, Changing, Settled, Stored
    <3> QED
      BY <3>2, <3>3, <3>4, <3>5 DEF RequestOK
  <2> QED
    BY <2>1, <2>2
<1>7. ASSUME NEW p \in Requests, NEW q \in Requests, p # q
      PROVE  Exclusive(p, q)'
  <2>1. Exclusive(p, q) /\ PostOK(p) /\ PostOK(q)
    BY <1>7 DEF IInv, Relations, RequestOK
  <2> QED
    BY <1>1, <1>2, <1>3, <1>7, <2>1 DEF Exclusive, PostOK, Opening, Closing, Posting, Changing
<1>8. ASSUME NEW c \in Chats
      PROVE  ChatOK(c)'
  <2>1. ChatOK(c)
    BY DEF IInv, Relations
  <2>2. ASSUME NEW q \in Requests, Opening(q), req[q].chat = c
        PROVE  Opening(q)' /\ (req[q].chat = c)'
    BY <1>2, <2>2 DEF Opening
  <2> QED
    BY <1>1, <2>1, <2>2 DEF ChatOK
<1>9. ASSUME NEW n \in Messages
      PROVE  MessageOK(n)'
  <2>1. CASE n = m
    <3>1. Posting(r)' /\ (req[r].message = n)'
      BY <1>2, <1>3, <2>1 DEF Posting, InTx
    <3> QED
      BY <1>0, <1>1, <1>4, <2>1, <3>1 DEF MessageOK, Settled, Live, Members
  <2>2. CASE n # m
    <3>1. MessageOK(n) /\ messages'[n] = messages[n]
      BY <1>4, <2>2 DEF IInv, Relations
    <3>2. ASSUME NEW q \in Requests, Posting(q), req[q].message = n
          PROVE  Posting(q)' /\ (req[q].message = n)'
      BY <1>2, <3>2 DEF Posting, InTx
    <3> QED
      BY <1>1, <3>1, <3>2 DEF MessageOK, Settled, Live, Members
  <2> QED
    BY <2>1, <2>2
<1> QED
  BY <1>5, <1>6, <1>7, <1>8, <1>9 DEF IInv, Relations

LEMMA SaveMessageKeeps ==
  ASSUME IInv, NEW r \in Requests, SaveMessage(r)
  PROVE  IInv'
  BY InsertMessageKeeps, RefusedKeeps DEF SaveMessage, Is

-----------------------------------------------------------------------------
(* The end of a transaction                                                *)

\* What a request that has ended is and is not.
LEMMA EndedRequest ==
  ASSUME TypeOK, NEW r \in Requests, Becomes(r, Idle)
  PROVE  /\ \A q \in Requests \ {r} : req'[q] = req[q]
         /\ ~ Opening(r)' /\ ~ Closing(r)' /\ ~ Posting(r)' /\ ~ Changing(r)'
         /\ RequestOK(r)'
<1>1. req'[r] = Idle /\ \A q \in Requests \ {r} : req'[q] = req[q]
  BY OthersKept
<1>2. ~ Opening(r)' /\ ~ Closing(r)' /\ ~ Posting(r)' /\ ~ Changing(r)'
  BY <1>1 DEF Idle, Request, Opening, Closing, Posting, Changing, InTx
<1>3. RequestOK(r)'
  BY <1>1, <1>2 DEF Idle, Request, RequestOK, StageOK, OpenOK, CloseOK, PostOK, ChangeOK
<1> QED
  BY <1>1, <1>2, <1>3

\* Those that go on exclude each other as before.
LEMMA EndedExclusive ==
  ASSUME IInv, NEW r \in Requests, Becomes(r, Idle)
  PROVE  \A p, q \in Requests : p # q => Exclusive(p, q)'
<1> SUFFICES ASSUME NEW p \in Requests, NEW q \in Requests, p # q
             PROVE  Exclusive(p, q)'
  OBVIOUS
<1>1. Exclusive(p, q)
  BY DEF IInv, Relations
<1>2. /\ \A n \in Requests \ {r} : req'[n] = req[n]
      /\ ~ Opening(r)' /\ ~ Closing(r)' /\ ~ Posting(r)' /\ ~ Changing(r)'
  BY EndedRequest DEF IInv
<1>3. CASE p # r /\ q # r
  BY <1>1, <1>2, <1>3 DEF Exclusive, Opening, Closing, Posting, Changing
<1>4. CASE p = r \/ q = r
  BY <1>2, <1>4 DEF Exclusive
<1> QED
  BY <1>3, <1>4

\* The transaction of createChat ends.
LEMMA EndOpen ==
  ASSUME IInv, NEW r \in Requests, Opening(r), NEW state \in {"live", "lost"},
         ChatBecomes(r, state), Becomes(r, Idle), UNCHANGED <<users, messages>>
  PROVE  Relations' /\ chats' \in [Chats -> ChatRows]
<1> DEFINE c == req[r].chat
<1>0. /\ TypeOK /\ OpenOK(r) /\ c \in Chats /\ chats[c] \in ChatRows
      /\ chats[c].state = "inserted" /\ ChatOK(c)
  BY DEF IInv, Relations, RequestOK, OpenOK, TypeOK
<1>1. /\ chats'[c] = [chats[c] EXCEPT !.state = state]
      /\ \A d \in Chats \ {c} : chats'[d] = chats[d]
      /\ chats' \in [Chats -> ChatRows]
  BY <1>0 DEF ChatBecomes, TypeOK, ChatRows, RowStates
<1>2. /\ chats'[c].state = state /\ chats'[c].initiator = chats[c].initiator
      /\ chats'[c].participant = chats[c].participant
  BY <1>0, <1>1 DEF ChatRows
<1>3. /\ \A q \in Requests \ {r} : req'[q] = req[q]
      /\ ~ Opening(r)' /\ ~ Closing(r)' /\ ~ Posting(r)' /\ ~ Changing(r)'
      /\ RequestOK(r)'
  BY <1>0, EndedRequest
<1>4. ASSUME NEW q \in Requests, q # r
      PROVE  RequestOK(q)'
  <2>1. req'[q] = req[q] /\ RequestOK(q) /\ Exclusive(q, r)
    BY <1>3, <1>4 DEF IInv, Relations
  <2>2. StageOK(q)' /\ OpenOK(q)'
    BY <1>1, <2>1 DEF RequestOK, StageOK, OpenOK, Opening, Exclusive
  <2>3. CloseOK(q)'
    BY <1>0, <1>1, <2>1 DEF RequestOK, CloseOK, Closing, Settled, Live, Vacant
  <2>4. PostOK(q)'
    BY <1>0, <1>1, <2>1 DEF RequestOK, PostOK, Posting, Settled, Members
  <2>5. ChangeOK(q)'
    BY <1>0, <1>1, <2>1 DEF RequestOK, ChangeOK, Changing, Settled, Stored
  <2> QED
    BY <2>2, <2>3, <2>4, <2>5 DEF RequestOK
<1>5. ASSUME NEW d \in Chats
      PROVE  ChatOK(d)'
  <2>1. CASE d = c
    BY <1>0, <1>2, <2>1 DEF ChatOK
  <2>2. CASE d # c
    <3>1. ChatOK(d) /\ chats'[d] = chats[d]
      BY <1>1, <2>2 DEF IInv, Relations
    <3>2. ASSUME NEW q \in Requests, Opening(q), req[q].chat = d
          PROVE  Opening(q)' /\ (req[q].chat = d)'
      BY <1>3, <2>2, <3>2 DEF Opening
    <3> QED
      BY <3>1, <3>2 DEF ChatOK
  <2> QED
    BY <2>1, <2>2
<1>6. ASSUME NEW m \in Messages
      PROVE  MessageOK(m)'
  <2>1. MessageOK(m)
    BY DEF IInv, Relations
  <2>2. ASSUME NEW q \in Requests, Posting(q), req[q].message = m
        PROVE  Posting(q)' /\ (req[q].message = m)'
    BY <1>3, <2>2 DEF Posting, Opening
  <2>3. messages[m].state = "inserted" =>
          (\E q \in Requests : Posting(q) /\ req[q].message = m)'
    BY <2>1, <2>2 DEF MessageOK
  <2> QED
    BY <1>0, <1>1, <2>1, <2>3 DEF MessageOK, Settled, Live, Members
<1> QED
  BY <1>1, <1>3, <1>4, <1>5, <1>6, EndedExclusive DEF Relations

\* The deletion of a chat commits.
LEMMA EndClose ==
  ASSUME IInv, NEW r \in Requests, Closing(r),
         ChatBecomes(r, "gone"), Becomes(r, Idle), UNCHANGED <<users, messages>>
  PROVE  Relations' /\ chats' \in [Chats -> ChatRows]
<1> DEFINE c == req[r].chat
<1>0. /\ TypeOK /\ c \in Chats /\ chats[c] \in ChatRows
      /\ chats[c].state = "live" /\ Vacant(c) /\ ChatOK(c)
  BY DEF IInv, Relations, RequestOK, CloseOK, Closing, TypeOK, Live
<1>1. /\ chats'[c] = [chats[c] EXCEPT !.state = "gone"]
      /\ \A d \in Chats \ {c} : chats'[d] = chats[d]
      /\ chats' \in [Chats -> ChatRows]
  BY <1>0 DEF ChatBecomes, TypeOK, ChatRows, RowStates
<1>2. /\ chats'[c].state = "gone" /\ chats'[c].initiator = chats[c].initiator
      /\ chats'[c].participant = chats[c].participant
  BY <1>0, <1>1 DEF ChatRows
<1>7. /\ \A d \in Chats : Settled(d) => Settled(d)'
      /\ \A d \in Chats : chats'[d].initiator = chats[d].initiator
                         /\ chats'[d].participant = chats[d].participant
      /\ \A d \in Chats : d # c /\ Live(d) => Live(d)'
  BY <1>1, <1>2 DEF Settled, Live
<1>3. /\ \A q \in Requests \ {r} : req'[q] = req[q]
      /\ ~ Opening(r)' /\ ~ Closing(r)' /\ ~ Posting(r)' /\ ~ Changing(r)'
      /\ RequestOK(r)'
  BY <1>0, EndedRequest
<1>4. ASSUME NEW q \in Requests, q # r
      PROVE  RequestOK(q)'
  <2>1. req'[q] = req[q] /\ RequestOK(q) /\ Exclusive(q, r)
    BY <1>3, <1>4 DEF IInv, Relations
  <2>2. StageOK(q)' /\ OpenOK(q)'
    BY <1>0, <1>1, <2>1 DEF RequestOK, StageOK, OpenOK, Opening
  <2>3. CloseOK(q)'
    BY <1>7, <2>1 DEF RequestOK, CloseOK, Closing, Vacant, Exclusive
  <2>4. PostOK(q)'
    BY <1>7, <2>1 DEF RequestOK, PostOK, Posting, Members
  <2>5. ChangeOK(q)'
    BY <1>7, <2>1 DEF RequestOK, ChangeOK, Changing, Stored
  <2> QED
    BY <2>2, <2>3, <2>4, <2>5 DEF RequestOK
<1>5. ASSUME NEW d \in Chats
      PROVE  ChatOK(d)'
  <2>1. CASE d = c
    BY <1>0, <1>2, <2>1 DEF ChatOK
  <2>2. CASE d # c
    <3>1. ChatOK(d) /\ chats'[d] = chats[d]
      BY <1>1, <2>2 DEF IInv, Relations
    <3>2. ASSUME NEW q \in Requests, Opening(q), req[q].chat = d
          PROVE  Opening(q)' /\ (req[q].chat = d)'
      BY <1>3, <3>2 DEF Opening, Closing
    <3> QED
      BY <3>1, <3>2 DEF ChatOK
  <2> QED
    BY <2>1, <2>2
<1>6. ASSUME NEW m \in Messages
      PROVE  MessageOK(m)'
  <2>1. MessageOK(m)
    BY DEF IInv, Relations
  <2>2. ASSUME NEW q \in Requests, Posting(q), req[q].message = m
        PROVE  Posting(q)' /\ (req[q].message = m)'
    BY <1>3, <2>2 DEF Posting, Closing
  <2>3. messages[m].state = "inserted" =>
          (\E q \in Requests : Posting(q) /\ req[q].message = m)'
    BY <2>1, <2>2 DEF MessageOK
  <2> QED
    BY <1>0, <1>1, <1>2, <2>1, <2>3 DEF MessageOK, Settled, Live, Members, Vacant
<1>8. \A q \in Requests : RequestOK(q)'
  BY <1>3, <1>4
<1>9. \A p, q \in Requests : p # q => Exclusive(p, q)'
  BY EndedExclusive
<1>10. Relations'
  BY <1>5, <1>6, <1>8, <1>9 DEF Relations
<1> QED
  BY <1>1, <1>10

\* The transaction of MessagesService.create ends.
LEMMA EndPost ==
  ASSUME IInv, NEW r \in Requests, Posting(r), NEW state \in {"live", "lost"},
         MessageBecomes(r, state), Becomes(r, Idle), UNCHANGED <<users, chats>>
  PROVE  Relations' /\ messages' \in [Messages -> MessageRows]
<1> DEFINE m == req[r].message
<1>0. /\ TypeOK /\ m \in Messages /\ messages[m] \in MessageRows
      /\ messages[m].state = "inserted" /\ MessageOK(m)
  BY DEF IInv, Relations, RequestOK, PostOK, TypeOK
<1>1. /\ messages'[m] = [messages[m] EXCEPT !.state = state]
      /\ \A n \in Messages \ {m} : messages'[n] = messages[n]
      /\ messages' \in [Messages -> MessageRows]
  BY <1>0 DEF MessageBecomes, TypeOK, MessageRows, RowStates
<1>2. /\ messages'[m].state = state /\ messages'[m].chat = messages[m].chat
      /\ messages'[m].sender = messages[m].sender /\ messages'[m].text = messages[m].text
  BY <1>0, <1>1 DEF MessageRows
<1>7. ASSUME NEW c \in Chats, Vacant(c)
      PROVE  Vacant(c)'
  <2>1. ASSUME NEW n \in Messages, messages'[n].state \in {"inserted", "live"}
        PROVE  messages'[n].chat # c
    <3>1. CASE n = m
      BY <1>0, <1>2, <1>7, <3>1 DEF Vacant
    <3>2. CASE n # m
      BY <1>1, <1>7, <2>1, <3>2 DEF Vacant
    <3> QED
      BY <3>1, <3>2
  <2> QED
    BY <2>1 DEF Vacant
<1>3. /\ \A q \in Requests \ {r} : req'[q] = req[q]
      /\ ~ Opening(r)' /\ ~ Closing(r)' /\ ~ Posting(r)' /\ ~ Changing(r)'
      /\ RequestOK(r)'
  BY <1>0, EndedRequest
<1>4. ASSUME NEW q \in Requests, q # r
      PROVE  RequestOK(q)'
  <2>1. req'[q] = req[q] /\ RequestOK(q) /\ Exclusive(q, r)
    BY <1>3, <1>4 DEF IInv, Relations
  <2>2. StageOK(q)' /\ OpenOK(q)'
    BY <2>1 DEF RequestOK, StageOK, OpenOK, Opening
  <2>3. CloseOK(q)'
    BY <1>7, <2>1 DEF RequestOK, CloseOK, Closing, Settled, Live
  <2>4. PostOK(q)'
    BY <1>0, <1>1, <2>1 DEF RequestOK, PostOK, Posting, Settled, Members, Exclusive
  <2>5. ChangeOK(q)'
    BY <1>0, <1>1, <2>1 DEF RequestOK, ChangeOK, Changing, Settled, Stored
  <2> QED
    BY <2>2, <2>3, <2>4, <2>5 DEF RequestOK
<1>5. ASSUME NEW c \in Chats
      PROVE  ChatOK(c)'
  <2>1. ChatOK(c)
    BY DEF IInv, Relations
  <2>2. ASSUME NEW q \in Requests, Opening(q), req[q].chat = c
        PROVE  Opening(q)' /\ (req[q].chat = c)'
    BY <1>3, <2>2 DEF Opening, Posting
  <2> QED
    BY <2>1, <2>2 DEF ChatOK
<1>6. ASSUME NEW n \in Messages
      PROVE  MessageOK(n)'
  <2>1. CASE n = m
    BY <1>0, <1>2, <2>1 DEF MessageOK, Settled, Live, Members
  <2>2. CASE n # m
    <3>1. MessageOK(n) /\ messages'[n] = messages[n]
      BY <1>1, <2>2 DEF IInv, Relations
    <3>2. ASSUME NEW q \in Requests, Posting(q), req[q].message = n
          PROVE  Posting(q)' /\ (req[q].message = n)'
      BY <1>3, <2>2, <3>2 DEF Posting
    <3> QED
      BY <3>1, <3>2 DEF MessageOK, Settled, Live, Members
  <2> QED
    BY <2>1, <2>2
<1> QED
  BY <1>1, <1>3, <1>4, <1>5, <1>6, EndedExclusive DEF Relations

\* The transaction of MessagesService.update or remove commits.
LEMMA EndChange ==
  ASSUME IInv, NEW r \in Requests, Changing(r), Becomes(r, Idle), UNCHANGED <<users, chats>>,
         \/ MessageBecomes(r, "gone")
         \/ CommitEdit(r) /\ req[r].text \in Texts
  PROVE  Relations' /\ messages' \in [Messages -> MessageRows]
<1> DEFINE m == req[r].message
<1>0. /\ TypeOK /\ m \in Messages /\ messages[m] \in MessageRows
      /\ messages[m].state = "live" /\ MessageOK(m)
  BY DEF IInv, Relations, RequestOK, ChangeOK, Changing, TypeOK, Stored
<1>1. /\ \A n \in Messages \ {m} : messages'[n] = messages[n]
      /\ messages' \in [Messages -> MessageRows]
      /\ messages'[m].state \in {"live", "gone"} /\ messages'[m].chat = messages[m].chat
      /\ messages'[m].sender = messages[m].sender /\ messages'[m].text \in Texts
  <2>1. CASE MessageBecomes(r, "gone")
    BY <1>0, <2>1 DEF MessageBecomes, TypeOK, MessageRows, RowStates, MessageOK
  <2>2. CASE CommitEdit(r) /\ req[r].text \in Texts
    BY <1>0, <2>2 DEF CommitEdit, TypeOK, MessageRows
  <2> QED
    BY <2>1, <2>2
<1>3. /\ \A q \in Requests \ {r} : req'[q] = req[q]
      /\ ~ Opening(r)' /\ ~ Closing(r)' /\ ~ Posting(r)' /\ ~ Changing(r)'
      /\ RequestOK(r)'
  BY <1>0, EndedRequest
<1>4. ASSUME NEW q \in Requests, q # r
      PROVE  RequestOK(q)'
  <2>1. req'[q] = req[q] /\ RequestOK(q) /\ Exclusive(q, r)
    BY <1>3, <1>4 DEF IInv, Relations
  <2>2. StageOK(q)' /\ OpenOK(q)'
    BY <2>1 DEF RequestOK, StageOK, OpenOK, Opening
  <2>3. CloseOK(q)'
    BY <1>0, <1>1, <2>1 DEF RequestOK, CloseOK, Closing, Settled, Live, Vacant
  <2>4. PostOK(q)'
    BY <1>0, <1>1, <2>1 DEF RequestOK, PostOK, Posting, Settled, Members
  <2>5. ChangeOK(q)'
    BY <1>0, <1>1, <2>1 DEF RequestOK, ChangeOK, Changing, Settled, Stored, Exclusive
  <2> QED
    BY <2>2, <2>3, <2>4, <2>5 DEF RequestOK
<1>5. ASSUME NEW c \in Chats
      PROVE  ChatOK(c)'
  <2>1. ChatOK(c)
    BY DEF IInv, Relations
  <2>2. ASSUME NEW q \in Requests, Opening(q), req[q].chat = c
        PROVE  Opening(q)' /\ (req[q].chat = c)'
    BY <1>3, <2>2 DEF Opening, Changing
  <2> QED
    BY <2>1, <2>2 DEF ChatOK
<1>6. ASSUME NEW n \in Messages
      PROVE  MessageOK(n)'
  <2>1. CASE n = m
    BY <1>0, <1>1, <2>1 DEF MessageOK, Settled, Live, Members
  <2>2. CASE n # m
    <3>1. MessageOK(n) /\ messages'[n] = messages[n]
      BY <1>1, <2>2 DEF IInv, Relations
    <3>2. ASSUME NEW q \in Requests, Posting(q), req[q].message = n
          PROVE  Posting(q)' /\ (req[q].message = n)'
      BY <1>3, <3>2 DEF Posting, Changing
    <3> QED
      BY <3>1, <3>2 DEF MessageOK, Settled, Live, Members
  <2> QED
    BY <2>1, <2>2
<1> QED
  BY <1>1, <1>3, <1>4, <1>5, <1>6, EndedExclusive DEF Relations

LEMMA CommitKeeps ==
  ASSUME IInv, NEW r \in Requests, Commit(r)
  PROVE  IInv'
<1>1. /\ req[r].at = "written" /\ Becomes(r, Idle)
      /\ UNCHANGED <<users, expired, feedVars, mailed>>
      /\ TypeOK
  BY DEF Commit, Replies, IInv
<1>2. Relations' /\ chats' \in [Chats -> ChatRows] /\ messages' \in [Messages -> MessageRows]
  <2>1. CASE req[r].kind = "open" /\ ChatBecomes(r, "live") /\ UNCHANGED messages
    BY <1>1, <2>1, EndOpen DEF Opening, TypeOK
  <2>2. CASE req[r].kind = "close" /\ CommitClose(r) /\ UNCHANGED messages
    BY <1>1, <2>2, EndClose DEF Closing, TypeOK, CommitClose
  <2>3. CASE req[r].kind = "post" /\ MessageBecomes(r, "live") /\ UNCHANGED chats
    BY <1>1, <2>3, EndPost DEF Posting, TypeOK, InTx
  <2>4. CASE req[r].kind = "edit" /\ CommitEdit(r) /\ UNCHANGED chats
    BY <1>1, <2>4, EndChange DEF Changing, TypeOK, IInv, Relations, RequestOK, ChangeOK
  <2>5. CASE req[r].kind = "retract" /\ MessageBecomes(r, "gone") /\ UNCHANGED chats
    BY <1>1, <2>5, EndChange DEF Changing, TypeOK
  <2> QED
    BY <2>1, <2>2, <2>3, <2>4, <2>5 DEF Commit
<1>3. TypeOK'
  BY <1>1, <1>2, IdleType DEF TypeOK, Becomes, feedVars
<1> QED
  BY <1>2, <1>3 DEF IInv

LEMMA RollbackKeeps ==
  ASSUME IInv, NEW r \in Requests, Rollback(r)
  PROVE  IInv'
<1>1. /\ req[r].at \in InTx /\ Becomes(r, Idle)
      /\ UNCHANGED <<users, expired, feed, mailed>>
      /\ misled' = misled \union Announced(r)
      /\ TypeOK /\ RequestOK(r)
  BY DEF Rollback, Replies, IInv, Relations
<1>2. Relations' /\ chats' \in [Chats -> ChatRows] /\ messages' \in [Messages -> MessageRows]
  <2>1. CASE req[r].kind = "open" /\ ChatBecomes(r, "lost") /\ UNCHANGED messages
    BY <1>1, <2>1, EndOpen DEF Opening, TypeOK, RequestOK, StageOK, InTx
  <2>2. CASE req[r].kind = "post" /\ MessageBecomes(r, "lost") /\ UNCHANGED chats
    BY <1>1, <2>2, EndPost DEF Posting, TypeOK
  <2>3. CASE req[r].kind \in {"close", "edit", "retract"} /\ UNCHANGED <<chats, messages>>
    <3>1. RequestOK(r)' /\ ~ Opening(r) /\ ~ Posting(r)
      BY <1>1, <2>3, EndedRequest DEF Opening, Posting
    <3> QED
      BY <1>1, <2>3, <3>1, EndedExclusive, RowsKept DEF TypeOK
  <2> QED
    BY <2>1, <2>2, <2>3 DEF Rollback
<1>3. Announced(r) \subseteq Chats \union Messages
  BY <1>1 DEF Announced, RequestOK, StageOK, OpenOK, CloseOK, PostOK, ChangeOK, Opening, Posting,
              InTx
<1>4. TypeOK'
  BY <1>1, <1>2, <1>3, IdleType DEF TypeOK, Becomes
<1> QED
  BY <1>2, <1>4 DEF IInv

-----------------------------------------------------------------------------
(* Users and time                                                          *)

\* A chat without stored messages that no transaction holds awaits none.
LEMMA EmptyIsVacant ==
  ASSUME IInv, NEW c \in Chats, IsEmpty(c), \A q \in Requests : ~ HoldsChat(q, c)
  PROVE  Vacant(c)
<1> SUFFICES ASSUME NEW m \in Messages, messages[m].state = "inserted", messages[m].chat = c
             PROVE  FALSE
  BY DEF Vacant, IsEmpty, Stored
<1>1. PICK q \in Requests : Posting(q) /\ req[q].message = m
  BY DEF IInv, Relations, MessageOK
<1>2. PostOK(q)
  BY DEF IInv, Relations, RequestOK
<1> QED
  BY <1>1, <1>2 DEF PostOK, Posting, HoldsChat

LEMMA DeleteUserKeeps ==
  ASSUME IInv, NEW u \in Users, DeleteUser(u)
  PROVE  IInv'
<1>1. /\ TypeOK
      /\ users' = users \ {u}
      /\ UNCHANGED <<messages, expired, feedVars, mailed, req>>
      /\ \A q \in Requests : ~ HoldsUser(q, u)
      /\ \A q \in Requests, c \in ChatsOf(u) : ~ HoldsChat(q, c)
  BY DEF DeleteUser, IInv
<1>2. ASSUME NEW c \in Chats
      PROVE  /\ c \in ChatsOf(u) <=> Live(c) /\ (chats[c].initiator = u \/ chats[c].participant = u)
             /\ chats'[c].initiator = chats[c].initiator
             /\ chats'[c].participant = chats[c].participant
             /\ chats'[c].state = IF c \in ChatsOf(u) THEN "gone" ELSE chats[c].state
             /\ chats'[c] \in ChatRows
  <2>1. chats[c] \in ChatRows
    BY <1>1 DEF TypeOK
  <2>2. chats'[c] = IF c \in ChatsOf(u) THEN [chats[c] EXCEPT !.state = "gone"] ELSE chats[c]
    BY DEF DeleteUser
  <2>3. c \in ChatsOf(u) <=> Live(c) /\ (chats[c].initiator = u \/ chats[c].participant = u)
    BY DEF ChatsOf, Members
  <2> QED
    BY <2>1, <2>2, <2>3 DEF ChatRows, RowStates
<1>3. TypeOK'
  <2>1. chats' \in [Chats -> ChatRows]
    BY <1>2 DEF DeleteUser
  <2> QED
    BY <1>1, <2>1 DEF TypeOK, feedVars
<1>4. ASSUME NEW c \in Chats
      PROVE  /\ Settled(c) => Settled(c)'
             /\ chats[c].state = "inserted" => chats'[c].state = "inserted"
             /\ Live(c) /\ c \notin ChatsOf(u) => Live(c)'
  BY <1>2 DEF Settled, Live, ChatsOf
<1>5. ASSUME NEW c \in ChatsOf(u)
      PROVE  c \in Chats /\ Vacant(c)
  BY <1>1, EmptyIsVacant DEF DeleteUser, ChatsOf
<1>6. ASSUME NEW q \in Requests
      PROVE  RequestOK(q)'
  <2>1. RequestOK(q) /\ req' = req /\ messages' = messages
    BY <1>1 DEF IInv, Relations
  <2>2. StageOK(q)' /\ OpenOK(q)'
    BY <1>2, <1>4, <2>1 DEF RequestOK, StageOK, OpenOK, Opening
  <2>3. CloseOK(q)'
    <3>1. Closing(q) => req[q].chat \notin ChatsOf(u)
      BY <1>1 DEF Closing, HoldsChat, InTx
    <3> QED
      BY <1>4, <2>1, <3>1 DEF RequestOK, CloseOK, Closing, Vacant
  <2>4. PostOK(q)'
    BY <1>2, <1>4, <2>1 DEF RequestOK, PostOK, Posting, Members
  <2>5. ChangeOK(q)'
    BY <1>2, <1>4, <2>1 DEF RequestOK, ChangeOK, Changing, Stored
  <2> QED
    BY <2>2, <2>3, <2>4, <2>5 DEF RequestOK
<1>7. ASSUME NEW p \in Requests, NEW q \in Requests, p # q
      PROVE  Exclusive(p, q)'
  <2>1. Exclusive(p, q)
    BY <1>7 DEF IInv, Relations
  <2> QED
    BY <1>1, <2>1 DEF Exclusive, Opening, Closing, Posting, Changing
<1>8. ASSUME NEW c \in Chats
      PROVE  ChatOK(c)'
  <2>1. ChatOK(c)
    BY DEF IInv, Relations
  <2>2. chats[c].state = "inserted" => chats[c].initiator # u /\ chats[c].participant # u
    <3>1. SUFFICES ASSUME chats[c].state = "inserted"
                   PROVE  chats[c].initiator # u /\ chats[c].participant # u
      OBVIOUS
    <3>2. PICK q \in Requests : Opening(q) /\ req[q].chat = c
      BY <2>1, <3>1 DEF ChatOK
    <3>3. OpenOK(q)
      BY DEF IInv, Relations, RequestOK
    <3> QED
      BY <1>1, <3>2, <3>3 DEF OpenOK, Opening, HoldsUser, Is
  <2>3. (\E q \in Requests : Opening(q) /\ req[q].chat = c)
          => (\E q \in Requests : Opening(q) /\ req[q].chat = c)'
    BY <1>1 DEF Opening
  <2> QED
    BY <1>1, <1>2, <2>1, <2>2, <2>3 DEF ChatOK, Live
<1>9. ASSUME NEW m \in Messages
      PROVE  MessageOK(m)'
  <2>1. MessageOK(m)
    BY DEF IInv, Relations
  <2>2. messages[m].state \in {"inserted", "live"} => messages[m].chat \notin ChatsOf(u)
    BY <1>5 DEF Vacant
  <2>3. (\E q \in Requests : Posting(q) /\ req[q].message = m)
          => (\E q \in Requests : Posting(q) /\ req[q].message = m)'
    BY <1>1 DEF Posting
  <2> QED
    BY <1>1, <1>2, <1>4, <2>1, <2>2, <2>3 DEF MessageOK, Members
<1> QED
  BY <1>3, <1>6, <1>7, <1>8, <1>9 DEF IInv, Relations

\* Relations speaks of these variables only.
LEMMA RelationsKept ==
  ASSUME Relations, UNCHANGED <<users, chats, messages, req>>
  PROVE  Relations'
<1>1. ASSUME NEW q \in Requests
      PROVE  RequestOK(q)'
  BY DEF Relations, RequestOK, StageOK, OpenOK, CloseOK, PostOK, ChangeOK, Opening, Closing,
         Posting, Changing, Settled, Live, Vacant, Stored, Members
<1>2. ASSUME NEW p \in Requests, NEW q \in Requests, p # q
      PROVE  Exclusive(p, q)'
  BY <1>2 DEF Relations, Exclusive, Opening, Closing, Posting, Changing
<1>3. ASSUME NEW c \in Chats
      PROVE  ChatOK(c)'
  BY DEF Relations, ChatOK, Opening
<1>4. ASSUME NEW m \in Messages
      PROVE  MessageOK(m)'
  BY DEF Relations, MessageOK, Posting, Settled, Live, Members
<1> QED
  BY <1>1, <1>2, <1>3, <1>4 DEF Relations

-----------------------------------------------------------------------------
(* The invariant                                                           *)

LEMMA InitHolds == Init => IInv
<1> SUFFICES ASSUME Init PROVE IInv
  OBVIOUS
<1>1. TypeOK
  BY IdleType DEF Init, TypeOK, NewChat, NewMessage, ChatRows, MessageRows, RowStates
<1>2. ASSUME NEW r \in Requests
      PROVE  RequestOK(r) /\ ~ Opening(r) /\ ~ Closing(r) /\ ~ Posting(r) /\ ~ Changing(r)
  BY DEF Init, Idle, Request, RequestOK, StageOK, OpenOK, CloseOK, PostOK, ChangeOK, Opening,
         Closing, Posting, Changing, InTx
<1>3. (\A c \in Chats : ChatOK(c)) /\ (\A m \in Messages : MessageOK(m))
  BY DEF Init, NewChat, NewMessage, ChatOK, MessageOK
<1> QED
  BY <1>1, <1>2, <1>3 DEF IInv, Relations, Exclusive

LEMMA StepKeeps == IInv /\ [Next]_vars => IInv'
<1> SUFFICES ASSUME IInv, [Next]_vars PROVE IInv'
  OBVIOUS
<1>1. ASSUME NEW r \in Requests, Check(r) \/ Proceed(r) \/ Rollback(r)
      PROVE  IInv'
  BY <1>1, CheckKeeps, SaveChatKeeps, DeleteChatKeeps, SaveMessageKeeps, NotifyUserKeeps,
     UpdateMessageKeeps, DeleteMessageKeeps, CommitKeeps, RollbackKeeps DEF Proceed
<1>2. ASSUME NEW u \in Users, DeleteUser(u)
      PROVE  IInv'
  BY <1>2, DeleteUserKeeps
<1>3. ASSUME NEW m \in Messages, Expire(m)
      PROVE  IInv'
  <2>1. Relations'
    BY <1>3, RelationsKept DEF Expire, IInv
  <2> QED
    BY <1>3, <2>1 DEF Expire, IInv, TypeOK, feedVars
<1>4. CASE UNCHANGED vars
  <2>1. Relations'
    BY <1>4, RelationsKept DEF vars, rowVars, IInv
  <2> QED
    BY <1>4, <2>1 DEF vars, rowVars, feedVars, IInv, TypeOK
<1> QED
  BY <1>1, <1>2, <1>3, <1>4 DEF Next

\* The relation of rows, locks and requests above always holds: what a
\* transaction inserted or locked is its own until it ends.
THEOREM Invariance == Spec => []IInv
<1> QED
  BY InitHolds, StepKeeps, PTL DEF Spec

\* Every value keeps its type.
THEOREM TypeCorrect == Spec => []TypeOK
<1>1. IInv => TypeOK
  BY DEF IInv
<1> QED
  BY <1>1, Invariance, PTL

\* Messages are in chats that exist, between users who exist, one of whom
\* sent it, whatever is removed while they are sent.
THEOREM ChatsKeepMessages == Spec => []MessagesHaveTheirChat
<1>1. IInv => MessagesHaveTheirChat
  BY DEF IInv, Relations, MessageOK, ChatOK, MessagesHaveTheirChat, Live, Members
<1> QED
  BY <1>1, Invariance, PTL

\* Chats are between users who exist, whoever is deleted while they are
\* created.
THEOREM UsersOfChats == Spec => []ChatsHaveTheirUsers
<1>1. IInv => ChatsHaveTheirUsers
  BY DEF IInv, Relations, ChatOK, ChatsHaveTheirUsers, Members
<1> QED
  BY <1>1, Invariance, PTL

-----------------------------------------------------------------------------
(* What the clients are told                                               *)

\* q has announced that x goes.
Takes(q, x) ==
  \/ Closing(q) /\ req[q].chat = x
  \/ Changing(q) /\ req[q].kind = "retract" /\ req[q].message = x

Leaving(x) == \E q \in Requests : Takes(q, x)

\* What the events have told of a row in state s.
RowTold(x, s) ==
  /\ s # "lost"
  /\ s = "unused" => feed[x] = "unseen"
  /\ s = "inserted" => feed[x] = "shown"
  /\ s = "live" => feed[x] = IF Leaving(x) THEN "gone" ELSE "shown"

\* A chat may go with a user, and nobody is told.
ChatTold(c) ==
  c \notin misled =>
    /\ RowTold(c, chats[c].state)
    /\ chats[c].state = "gone" => feed[c] = "gone" \/ ~ (Members(c) \subseteq users)

MessageTold(m) ==
  m \notin misled =>
    /\ RowTold(m, messages[m].state)
    /\ messages[m].state = "gone" => feed[m] = "gone"

\* The mail of a message is in the queue before its transaction can commit.
MailInv ==
  /\ MessagesAreMailed
  /\ \A q \in Requests : Posting(q) /\ req[q].at = "written" => req[q].message \in mailed

\* Requests to change a message come from its sender.
AuthorInv ==
  \A q \in Requests :
    req[q].kind \in {"edit", "retract"} => req[q].user = messages[req[q].message].sender

Told ==
  /\ \A c \in Chats : ChatTold(c)
  /\ \A m \in Messages : MessageTold(m)
  /\ MailInv
  /\ AuthorInv

\* Only one request takes a row.
LEMMA TakesAlone ==
  ASSUME IInv, NEW q \in Requests, NEW r \in Requests, q # r, NEW x, Takes(q, x)
  PROVE  ~ Takes(r, x)
<1>1. Exclusive(q, r) /\ CloseOK(q) /\ ChangeOK(q) /\ CloseOK(r) /\ ChangeOK(r)
  BY DEF IInv, Relations, RequestOK
<1> QED
  BY <1>1, DisjointAssumption DEF Takes, Exclusive, CloseOK, ChangeOK, Closing, Changing

\* A step of r about one row at most.
LEMMA ToldStep ==
  ASSUME IInv, Told, NEW r \in Requests, NEW x, Becomes(r, x), NEW row,
         misled \subseteq misled', mailed \subseteq mailed', users' = users,
         \A c \in Chats : c # row => chats'[c] = chats[c] /\ feed'[c] = feed[c],
         \A m \in Messages : m # row => messages'[m] = messages[m] /\ feed'[m] = feed[m],
         \A y \in Chats \union Messages : y # row => ~ Takes(r, y) /\ ~ Takes(r, y)',
         row \in Chats => ChatTold(row)',
         row \in Messages => MessageTold(row)',
         \A m \in Messages : /\ Stored(m)' => Stored(m) \/ m \in mailed'
                             /\ messages[m].state \in {"live", "gone"} =>
                                  messages'[m].sender = messages[m].sender,
         x.kind = "post" /\ x.at = "written" => x.message \in mailed',
         x.kind \in {"edit", "retract"} => x.user = messages'[x.message].sender
  PROVE  Told'
<1>1. req'[r] = x /\ \A q \in Requests \ {r} : req'[q] = req[q]
  BY OthersKept DEF IInv
<1>2. ASSUME NEW y \in Chats \union Messages, y # row
      PROVE  Leaving(y)' <=> Leaving(y)
  <2>1. ~ Takes(r, y) /\ ~ Takes(r, y)'
    BY <1>2
  <2>2. \A q \in Requests \ {r} : Takes(q, y)' <=> Takes(q, y)
    BY <1>1 DEF Takes, Closing, Changing
  <2> QED
    BY <2>1, <2>2 DEF Leaving
<1>3. ASSUME NEW c \in Chats
      PROVE  ChatTold(c)'
  <2>1. CASE c # row
    <3>1. ChatTold(c)
      BY DEF Told
    <3> QED
      BY <1>2, <2>1, <3>1 DEF ChatTold, RowTold, Members
  <2> QED
    BY <2>1
<1>4. ASSUME NEW m \in Messages
      PROVE  MessageTold(m)'
  <2>1. CASE m # row
    <3>1. MessageTold(m)
      BY DEF Told
    <3> QED
      BY <1>2, <2>1, <3>1 DEF MessageTold, RowTold
  <2> QED
    BY <2>1
<1>5. MailInv'
  BY <1>1 DEF Told, MailInv, MessagesAreMailed, Posting
<1>6. AuthorInv'
  <2> SUFFICES ASSUME NEW q \in Requests, q # r, (req[q].kind \in {"edit", "retract"})'
               PROVE  (req[q].user = messages[req[q].message].sender)'
    BY <1>1 DEF AuthorInv
  <2>1. req'[q] = req[q] /\ ChangeOK(q)
    BY <1>1 DEF IInv, Relations, RequestOK
  <2> QED
    BY <2>1 DEF Told, AuthorInv, ChangeOK
<1> QED
  BY <1>3, <1>4, <1>5, <1>6 DEF Told

\* A request that starts, or is refused, tells nothing.
LEMMA QuietTells ==
  ASSUME IInv, Told, NEW r \in Requests, NEW x, Becomes(r, x),
         UNCHANGED <<rowVars, feedVars, mailed>>,
         req[r].at \in {"idle", "checked"}, x.at \in {"idle", "checked"},
         x.kind \in {"edit", "retract"} => x.user = messages[x.message].sender
  PROVE  Told'
<1>1. req'[r] = x
  BY OthersKept DEF IInv
<1>2. \A y : ~ Takes(r, y) /\ ~ Takes(r, y)'
  BY <1>1 DEF Takes, Closing, Changing
<1>3. None \notin Chats /\ None \notin Messages
  BY NoneAssumption
<1>4. UNCHANGED <<users, chats, messages, feed, misled, mailed>>
  BY DEF rowVars, feedVars
<1> QED
  BY <1>2, <1>3, <1>4, ToldStep DEF Stored

LEMMA RefusedTells ==
  ASSUME IInv, Told, NEW r \in Requests, req[r].at = "checked", Refused(r)
  PROVE  Told'
<1>1. Becomes(r, Idle) /\ UNCHANGED <<rowVars, feedVars, mailed>>
  BY DEF Refused, Replies
<1>2. Idle.at = "idle" /\ Idle.kind = "none"
  BY DEF Idle, Request
<1> QED
  BY <1>1, <1>2, QuietTells

LEMMA CheckTells ==
  ASSUME IInv, Told, NEW r \in Requests, Check(r)
  PROVE  Told'
<1>1. ASSUME NEW x, Starts(r, x), x.at = "checked",
             x.kind \in {"edit", "retract"} => x.user = messages[x.message].sender
      PROVE  Told'
  BY <1>1, QuietTells DEF Starts
<1>2. ASSUME NEW u \in Users, NEW v \in Users, CheckChat(r, u, v)
      PROVE  Told'
  BY <1>1, <1>2 DEF CheckChat, Request
<1>3. ASSUME NEW u \in Users, NEW c \in Chats, CheckRemoval(r, u, c)
      PROVE  Told'
  BY <1>1, <1>3 DEF CheckRemoval, Request
<1>4. ASSUME NEW u \in Users, NEW c \in Chats, NEW t \in Texts, CheckPost(r, u, c, t)
      PROVE  Told'
  BY <1>1, <1>4 DEF CheckPost, Request
<1>5. ASSUME NEW u \in Users, NEW m \in Messages, NEW t \in Texts, CheckEdit(r, u, m, t)
      PROVE  Told'
  BY <1>1, <1>5 DEF CheckEdit, MayChange, Owns, Request
<1>6. ASSUME NEW u \in Users, NEW m \in Messages, CheckRetraction(r, u, m)
      PROVE  Told'
  BY <1>1, <1>6 DEF CheckRetraction, MayChange, Owns, Request
<1> QED
  BY <1>2, <1>3, <1>4, <1>5, <1>6 DEF Check

\* A removal, an edit and a retraction announce themselves under the lock of
\* their row.
LEMMA AnnouncementTells ==
  ASSUME IInv, Told, NEW r \in Requests, req[r].at = "checked", Goes(r, "written"),
         NEW row, NEW event, Emits(row, event), UNCHANGED <<rowVars, misled, mailed>>,
         \/ /\ req[r].kind = "close" /\ row = req[r].chat /\ event = "gone"
            /\ Live(row)
         \/ /\ req[r].kind = "retract" /\ row = req[r].message /\ event = "gone"
            /\ Stored(row)
         \/ /\ req[r].kind = "edit" /\ row = req[r].message /\ event = "shown"
            /\ Stored(row) /\ Unheld(row)
  PROVE  Told'
<1> DEFINE x == [req[r] EXCEPT !.at = "written"]
<1>1. /\ req[r] \in RequestRows /\ CloseOK(r) /\ ChangeOK(r)
      /\ feed \in [Chats \union Messages -> {"unseen", "shown", "gone"}]
  BY DEF IInv, Relations, RequestOK, TypeOK
<1>2. Becomes(r, x)
  BY DEF Goes
<1>3. /\ x.at = "written" /\ x.kind = req[r].kind /\ x.chat = req[r].chat
      /\ x.message = req[r].message /\ x.user = req[r].user
  BY <1>1 DEF RequestRows
<1>4. req'[r] = x /\ \A q \in Requests \ {r} : req'[q] = req[q]
  BY <1>2, OthersKept DEF IInv
<1>5. /\ row \in Chats \union Messages
      /\ feed'[row] = event
      /\ \A y \in Chats \union Messages : y # row => feed'[y] = feed[y]
  BY <1>1 DEF Emits, CloseOK, ChangeOK
<1>6. /\ UNCHANGED <<users, chats, messages, misled, mailed>>
  BY DEF rowVars
<1>7. \A y : y # row => ~ Takes(r, y) /\ ~ Takes(r, y)'
  BY <1>3, <1>4 DEF Takes, Closing, Changing
<1>8. x.kind \in {"edit", "retract"} => x.user = messages'[x.message].sender
  BY <1>3, <1>6 DEF Told, AuthorInv
<1>9. ASSUME event = "gone"
      PROVE  Leaving(row)'
  <2>1. Takes(r, row)'
    BY <1>3, <1>4, <1>9 DEF Takes, Closing, Changing
  <2> QED
    BY <2>1 DEF Leaving
<1>10. row \in Chats => ChatTold(row)'
  <2>1. row \in Chats => req[r].kind = "close"
    BY <1>1, DisjointAssumption DEF ChangeOK
  <2> QED
    BY <1>5, <1>6, <1>9, <2>1 DEF ChatTold, RowTold, Live
<1>11. row \in Messages => MessageTold(row)'
  <2> SUFFICES ASSUME row \in Messages, event = "shown"
               PROVE  MessageTold(row)'
    BY <1>1, <1>5, <1>6, <1>9, DisjointAssumption DEF MessageTold, RowTold, Stored, CloseOK
  <2>1. ASSUME NEW q \in Requests
        PROVE  ~ Takes(q, row)'
    <3>1. CASE q = r
      BY <1>3, <1>4, <3>1 DEF Takes, Closing, Changing
    <3>2. CASE q # r
      <4>1. req'[q] = req[q] /\ CloseOK(q)
        BY <1>4, <3>2 DEF IInv, Relations, RequestOK
      <4> QED
        BY <4>1, DisjointAssumption
           DEF Takes, Closing, Changing, Unheld, HoldsMessage, CloseOK
    <3> QED
      BY <3>1, <3>2
  <2> QED
    BY <1>5, <1>6, <2>1 DEF MessageTold, RowTold, Stored, Leaving
<1>12. \A m \in Messages : Stored(m)' => Stored(m)
  BY <1>6 DEF Stored
<1>13. /\ \A c \in Chats : c # row => chats'[c] = chats[c] /\ feed'[c] = feed[c]
       /\ \A m \in Messages : m # row => messages'[m] = messages[m] /\ feed'[m] = feed[m]
  BY <1>5, <1>6
<1>14. /\ x.kind # "post"
       /\ \A m \in Messages : messages'[m].sender = messages[m].sender
  BY <1>3, <1>6
<1> HIDE DEF x
<1> QED
  BY <1>2, <1>6, <1>7, <1>8, <1>10, <1>11, <1>12, <1>13, <1>14, ToldStep

LEMMA WriteTells ==
  ASSUME IInv, Told, NEW r \in Requests,
         DeleteChat(r) \/ UpdateMessage(r) \/ DeleteMessage(r)
  PROVE  Told'
<1>1. CASE DeleteChat(r)
  BY <1>1, AnnouncementTells, RefusedTells DEF DeleteChat, Is
<1>2. CASE UpdateMessage(r)
  BY <1>2, AnnouncementTells, RefusedTells DEF UpdateMessage, Is, StillThere
<1>3. CASE DeleteMessage(r)
  BY <1>3, AnnouncementTells, RefusedTells DEF DeleteMessage, Is, StillThere
<1> QED
  BY <1>1, <1>2, <1>3

LEMMA SaveChatTells ==
  ASSUME IInv, Told, NEW r \in Requests, SaveChat(r)
  PROVE  Told'
<1>1. req[r].kind = "open" /\ req[r].at = "checked"
  BY DEF SaveChat, Is
<1>2. ASSUME NEW c \in Chats, InsertChat(r, c)
      PROVE  Told'
  <2> DEFINE x == Request("open", "written", req[r].user, req[r].peer, c, None, None)
  <2>1. /\ Becomes(r, x) /\ UNCHANGED <<users, messages, misled, mailed>>
        /\ Emits(c, "shown") /\ TypeOK
    BY <1>2 DEF InsertChat, IInv
  <2>2. /\ feed'[c] = "shown" /\ chats'[c].state = "inserted"
        /\ \A d \in Chats : d # c => chats'[d] = chats[d] /\ feed'[d] = feed[d]
        /\ \A m \in Messages : feed'[m] = feed[m]
    BY <1>2, <2>1, DisjointAssumption DEF InsertChat, Emits, TypeOK
  <2>3. req'[r] = x /\ x.kind = "open"
    BY <2>1, OthersKept DEF Request
  <2>4. \A y : ~ Takes(r, y) /\ ~ Takes(r, y)'
    BY <1>1, <2>3 DEF Takes, Closing, Changing
  <2>5. ChatTold(c)' /\ c \notin Messages
    BY <2>2, DisjointAssumption DEF ChatTold, RowTold
  <2>6. \A m \in Messages : Stored(m)' => Stored(m)
    BY <2>1 DEF Stored
  <2> QED
    BY <2>1, <2>2, <2>3, <2>4, <2>5, <2>6, ToldStep
<1> QED
  BY <1>1, <1>2, RefusedTells DEF SaveChat

LEMMA SaveMessageTells ==
  ASSUME IInv, Told, NEW r \in Requests, SaveMessage(r)
  PROVE  Told'
<1>1. req[r].kind = "post" /\ req[r].at = "checked"
  BY DEF SaveMessage, Is
<1>2. ASSUME NEW m \in Messages, InsertMessage(r, m)
      PROVE  Told'
  <2> DEFINE x == Request("post", "saved", req[r].user, None, req[r].chat, m, req[r].text)
  <2>1. /\ Becomes(r, x) /\ UNCHANGED <<users, chats, misled, mailed>>
        /\ Emits(m, "shown") /\ TypeOK /\ messages[m].state = "unused"
    BY <1>2 DEF InsertMessage, IInv, NewMessage
  <2>2. /\ feed'[m] = "shown" /\ messages'[m].state = "inserted"
        /\ \A n \in Messages : n # m => messages'[n] = messages[n] /\ feed'[n] = feed[n]
        /\ \A c \in Chats : feed'[c] = feed[c]
    BY <1>2, <2>1, DisjointAssumption DEF InsertMessage, Emits, TypeOK
  <2>3. req'[r] = x /\ x.kind = "post" /\ x.at = "saved"
    BY <2>1, OthersKept DEF Request
  <2>4. \A y : ~ Takes(r, y) /\ ~ Takes(r, y)'
    BY <1>1, <2>3 DEF Takes, Closing, Changing
  <2>5. MessageTold(m)' /\ m \notin Chats
    BY <2>2, DisjointAssumption DEF MessageTold, RowTold
  <2>6. \A n \in Messages : /\ Stored(n)' => Stored(n)
                            /\ messages[n].state \in {"live", "gone"} =>
                                 messages'[n].sender = messages[n].sender
    BY <2>1, <2>2 DEF Stored
  <2> QED
    BY <2>1, <2>2, <2>3, <2>4, <2>5, <2>6, ToldStep
<1> QED
  BY <1>1, <1>2, RefusedTells DEF SaveMessage

LEMMA NotifyUserTells ==
  ASSUME IInv, Told, NEW r \in Requests, NotifyUser(r)
  PROVE  Told'
<1> DEFINE x == [req[r] EXCEPT !.at = "written"]
<1>1. /\ Becomes(r, x) /\ UNCHANGED <<users, chats, messages, feed, misled>>
      /\ req[r].kind = "post" /\ mailed' = mailed \union {req[r].message}
      /\ req[r] \in RequestRows
  BY DEF NotifyUser, Goes, Is, Mail, rowVars, feedVars, IInv, TypeOK
<1>2. req'[r] = x /\ x.kind = "post" /\ x.message = req[r].message
  BY <1>1, OthersKept DEF RequestRows, IInv
<1>3. \A y : ~ Takes(r, y) /\ ~ Takes(r, y)'
  BY <1>1, <1>2 DEF Takes, Closing, Changing
<1>4. None \notin Chats /\ None \notin Messages
  BY NoneAssumption
<1>5. \A m \in Messages : Stored(m)' => Stored(m)
  BY <1>1 DEF Stored
<1> QED
  BY <1>1, <1>2, <1>3, <1>4, <1>5, ToldStep


\* A transaction that ends, with the row it has written.
LEMMA EndTells ==
  ASSUME IInv, Told, NEW r \in Requests, req[r].at \in InTx, Replies(r), NEW row,
         UNCHANGED <<users, feed, mailed>>, misled \subseteq misled',
         row = IF req[r].kind \in {"open", "close"} THEN req[r].chat ELSE req[r].message,
         \A c \in Chats : c # row => chats'[c] = chats[c],
         \A m \in Messages : m # row => messages'[m] = messages[m],
         row \in Chats => ChatTold(row)',
         row \in Messages => MessageTold(row)',
         \A m \in Messages : /\ Stored(m)' => Stored(m) \/ m \in mailed
                             /\ messages[m].state \in {"live", "gone"} =>
                                  messages'[m].sender = messages[m].sender
  PROVE  Told'
<1>1. Becomes(r, Idle) /\ Idle.kind = "none"
  BY DEF Replies, Idle, Request
<1>2. req'[r] = Idle
  BY <1>1, OthersKept DEF IInv
<1>3. \A y : y # row => ~ Takes(r, y) /\ ~ Takes(r, y)'
  BY <1>1, <1>2 DEF Takes, Closing, Changing
<1>4. Idle.kind # "post" /\ Idle.kind \notin {"edit", "retract"}
  BY <1>1
<1>5. /\ \A c \in Chats : c # row => chats'[c] = chats[c] /\ feed'[c] = feed[c]
      /\ \A m \in Messages : m # row => messages'[m] = messages[m] /\ feed'[m] = feed[m]
      /\ mailed \subseteq mailed'
      /\ \A m \in Messages : Stored(m)' => Stored(m) \/ m \in mailed'
  OBVIOUS
<1> HIDE DEF Idle
<1> QED
  BY <1>1, <1>3, <1>4, <1>5, ToldStep

\* The row of a transaction that ends is nobody else's.
LEMMA EndLeaves ==
  ASSUME IInv, NEW r \in Requests, req[r].at \in InTx, Replies(r), NEW row
  PROVE  /\ Opening(r) /\ row = req[r].chat => ~ Leaving(row)'
         /\ Posting(r) /\ row = req[r].message => ~ Leaving(row)'
         /\ Changing(r) /\ row = req[r].message => ~ Leaving(row)'
         /\ Takes(r, row) => Leaving(row)
         /\ Changing(r) /\ req[r].kind = "edit" /\ row = req[r].message => ~ Leaving(row)
<1>1. req'[r] = Idle /\ \A q \in Requests \ {r} : req'[q] = req[q]
  BY OthersKept DEF IInv, Replies
<1>2. ~ Takes(r, row)'
  BY <1>1 DEF Takes, Closing, Changing, Idle, Request
<1>3. OpenOK(r) /\ PostOK(r) /\ ChangeOK(r)
  BY DEF IInv, Relations, RequestOK
<1>4. ASSUME NEW q \in Requests, q # r, Takes(q, row)
      PROVE  /\ ~ (Opening(r) /\ row = req[r].chat)
             /\ ~ (Posting(r) /\ row = req[r].message)
             /\ ~ (Changing(r) /\ row = req[r].message)
  <2>1. CloseOK(q) /\ ChangeOK(q) /\ Exclusive(q, r)
    BY <1>4 DEF IInv, Relations, RequestOK
  <2> QED
    BY <1>3, <1>4, <2>1, DisjointAssumption
       DEF Takes, CloseOK, ChangeOK, OpenOK, PostOK, Exclusive, Live, Stored, Closing, Changing,
           Opening, Posting
<1>5. \A q \in Requests \ {r} : Takes(q, row)' <=> Takes(q, row)
  BY <1>1 DEF Takes, Closing, Changing
<1>6. Changing(r) /\ req[r].kind = "edit" /\ row = req[r].message => ~ Takes(r, row)
  BY DEF Takes, Closing, Changing
<1> QED
  BY <1>2, <1>4, <1>5, <1>6 DEF Leaving

LEMMA CommitTells ==
  ASSUME IInv, Told, NEW r \in Requests, Commit(r)
  PROVE  Told'
<1>1. /\ TypeOK /\ req[r].at = "written" /\ req[r].at \in InTx /\ Replies(r)
      /\ UNCHANGED <<users, feed, misled, mailed>>
      /\ OpenOK(r) /\ CloseOK(r) /\ PostOK(r) /\ ChangeOK(r)
  BY DEF Commit, feedVars, IInv, Relations, RequestOK, InTx
<1>2. CASE req[r].kind = "open" /\ ChatBecomes(r, "live") /\ UNCHANGED messages
  <2> SUFFICES ASSUME NEW c, c = req[r].chat PROVE Told'
    OBVIOUS
  <2>1. c \in Chats /\ c \notin Messages /\ chats[c].state = "inserted" /\ ~ Leaving(c)'
    BY <1>1, <1>2, EndLeaves, DisjointAssumption DEF OpenOK, Opening
  <2>2. chats'[c].state = "live" /\ \A d \in Chats : d # c => chats'[d] = chats[d]
    BY <1>1, <1>2, <2>1 DEF ChatBecomes, TypeOK, ChatRows
  <2>3. ChatTold(c)'
    BY <1>1, <2>1, <2>2 DEF Told, ChatTold, RowTold
  <2> QED
    BY <1>1, <1>2, <2>1, <2>2, <2>3, EndTells DEF Stored
<1>3. CASE req[r].kind = "close" /\ CommitClose(r) /\ UNCHANGED messages
  <2> SUFFICES ASSUME NEW c, c = req[r].chat PROVE Told'
    OBVIOUS
  <2>1. c \in Chats /\ c \notin Messages /\ chats[c].state = "live" /\ Leaving(c)
    BY <1>1, <1>3, EndLeaves, DisjointAssumption DEF CloseOK, Closing, Takes, Live
  <2>2. chats'[c].state = "gone" /\ \A d \in Chats : d # c => chats'[d] = chats[d]
    BY <1>1, <1>3, <2>1 DEF CommitClose, ChatBecomes, TypeOK, ChatRows
  <2>3. ChatTold(c)'
    BY <1>1, <2>1, <2>2 DEF Told, ChatTold, RowTold
  <2> QED
    BY <1>1, <1>3, <2>1, <2>2, <2>3, EndTells DEF Stored
<1>4. CASE req[r].kind = "post" /\ MessageBecomes(r, "live") /\ UNCHANGED chats
  <2> SUFFICES ASSUME NEW m, m = req[r].message PROVE Told'
    OBVIOUS
  <2>1. /\ Posting(r) /\ m \in Messages /\ m \notin Chats /\ messages[m].state = "inserted"
        /\ ~ Leaving(m)' /\ m \in mailed
    BY <1>1, <1>4, EndLeaves, DisjointAssumption DEF PostOK, Posting, Told, MailInv
  <2>2. messages'[m].state = "live" /\ \A n \in Messages : n # m => messages'[n] = messages[n]
    BY <1>1, <1>4, <2>1 DEF MessageBecomes, TypeOK, MessageRows
  <2>3. MessageTold(m)'
    BY <1>1, <2>1, <2>2 DEF Told, MessageTold, RowTold
  <2> QED
    BY <1>1, <1>4, <2>1, <2>2, <2>3, EndTells DEF Stored
<1>5. CASE req[r].kind = "edit" /\ CommitEdit(r) /\ UNCHANGED chats
  <2> SUFFICES ASSUME NEW m, m = req[r].message PROVE Told'
    OBVIOUS
  <2>1. /\ Changing(r) /\ m \in Messages /\ m \notin Chats /\ messages[m].state = "live"
        /\ ~ Leaving(m)' /\ ~ Leaving(m)
    BY <1>1, <1>5, EndLeaves, DisjointAssumption DEF ChangeOK, Changing, Stored
  <2>2. /\ messages'[m].state = "live" /\ messages'[m].sender = messages[m].sender
        /\ \A n \in Messages : n # m => messages'[n] = messages[n]
    BY <1>1, <1>5, <2>1 DEF CommitEdit, TypeOK, MessageRows
  <2>3. MessageTold(m)'
    BY <1>1, <2>1, <2>2 DEF Told, MessageTold, RowTold
  <2> QED
    BY <1>1, <1>5, <2>1, <2>2, <2>3, EndTells DEF Stored
<1>6. CASE req[r].kind = "retract" /\ MessageBecomes(r, "gone") /\ UNCHANGED chats
  <2> SUFFICES ASSUME NEW m, m = req[r].message PROVE Told'
    OBVIOUS
  <2>1. /\ Changing(r) /\ m \in Messages /\ m \notin Chats /\ messages[m].state = "live"
        /\ Leaving(m)
    BY <1>1, <1>6, EndLeaves, DisjointAssumption DEF ChangeOK, Changing, Stored, Takes
  <2>2. /\ messages'[m].state = "gone" /\ messages'[m].sender = messages[m].sender
        /\ \A n \in Messages : n # m => messages'[n] = messages[n]
    BY <1>1, <1>6, <2>1 DEF MessageBecomes, TypeOK, MessageRows
  <2>3. MessageTold(m)'
    BY <1>1, <2>1, <2>2 DEF Told, MessageTold, RowTold
  <2> QED
    BY <1>1, <1>6, <2>1, <2>2, <2>3, EndTells DEF Stored
<1> QED
  BY <1>2, <1>3, <1>4, <1>5, <1>6 DEF Commit

LEMMA RollbackTells ==
  ASSUME IInv, Told, NEW r \in Requests, Rollback(r)
  PROVE  Told'
<1>1. /\ TypeOK /\ req[r].at \in InTx /\ Replies(r) /\ UNCHANGED <<users, feed, mailed>>
      /\ misled' = misled \union Announced(r)
      /\ StageOK(r) /\ OpenOK(r) /\ CloseOK(r) /\ PostOK(r) /\ ChangeOK(r)
  BY DEF Rollback, IInv, Relations, RequestOK
<1>2. CASE req[r].kind = "open" /\ ChatBecomes(r, "lost") /\ UNCHANGED messages
  <2> SUFFICES ASSUME NEW c, c = req[r].chat PROVE Told'
    OBVIOUS
  <2>1. c \in Chats /\ c \notin Messages /\ c \in misled'
    BY <1>1, <1>2, DisjointAssumption DEF StageOK, OpenOK, Opening, InTx, Announced
  <2>2. \A d \in Chats : d # c => chats'[d] = chats[d]
    BY <1>1, <1>2, <2>1 DEF ChatBecomes, TypeOK
  <2>3. ChatTold(c)'
    BY <2>1 DEF ChatTold
  <2> QED
    BY <1>1, <1>2, <2>1, <2>2, <2>3, EndTells DEF Stored
<1>3. CASE req[r].kind = "post" /\ MessageBecomes(r, "lost") /\ UNCHANGED chats
  <2> SUFFICES ASSUME NEW m, m = req[r].message PROVE Told'
    OBVIOUS
  <2>1. /\ m \in Messages /\ m \notin Chats /\ m \in misled' /\ messages[m].state = "inserted"
    BY <1>1, <1>3, DisjointAssumption DEF PostOK, Posting, Announced
  <2>2. messages'[m].state = "lost" /\ \A n \in Messages : n # m => messages'[n] = messages[n]
    BY <1>1, <1>3, <2>1 DEF MessageBecomes, TypeOK, MessageRows
  <2>3. MessageTold(m)'
    BY <2>1 DEF MessageTold
  <2> QED
    BY <1>1, <1>3, <2>1, <2>2, <2>3, EndTells DEF Stored
<1>4. CASE req[r].kind \in {"close", "retract"} /\ UNCHANGED <<chats, messages>>
  <2> SUFFICES ASSUME NEW row, row = IF req[r].kind \in {"open", "close"} THEN req[r].chat
                                                                           ELSE req[r].message
               PROVE  Told'
    OBVIOUS
  <2>1. row \in misled'
    BY <1>1, <1>4 DEF Announced
  <2>2. (row \in Chats => ChatTold(row)') /\ (row \in Messages => MessageTold(row)')
    BY <2>1 DEF ChatTold, MessageTold
  <2>3. \A m \in Messages : Stored(m)' => Stored(m)
    BY <1>4 DEF Stored
  <2> QED
    BY <1>1, <1>4, <2>2, <2>3, EndTells
<1>5. CASE req[r].kind = "edit" /\ UNCHANGED <<chats, messages>>
  <2> SUFFICES ASSUME NEW m, m = req[r].message PROVE Told'
    OBVIOUS
  <2>1. /\ Changing(r) /\ m \in Messages /\ m \notin Chats /\ messages[m].state = "live"
        /\ ~ Leaving(m)' /\ ~ Leaving(m)
    BY <1>1, <1>5, EndLeaves, DisjointAssumption DEF StageOK, ChangeOK, Changing, Stored, InTx
  <2>2. MessageTold(m)'
    BY <1>1, <1>5, <2>1 DEF Told, MessageTold, RowTold
  <2>3. \A n \in Messages : Stored(n)' => Stored(n)
    BY <1>5 DEF Stored
  <2> QED
    BY <1>1, <1>5, <2>1, <2>2, <2>3, EndTells
<1> QED
  BY <1>2, <1>3, <1>4, <1>5 DEF Rollback

\* Nobody is told of a chat that goes with one of its users.
LEMMA DeleteUserTells ==
  ASSUME IInv, Told, NEW u \in Users, DeleteUser(u)
  PROVE  Told'
<1>1. /\ u \in users /\ users' = users \ {u}
      /\ UNCHANGED <<messages, feed, misled, mailed, req>>
      /\ chats' = [c \in Chats |-> IF c \in ChatsOf(u) THEN [chats[c] EXCEPT !.state = "gone"]
                                                       ELSE chats[c]]
      /\ TypeOK
  BY DEF DeleteUser, feedVars, IInv
<1>2. \A y : Leaving(y)' <=> Leaving(y)
  BY <1>1 DEF Leaving, Takes, Closing, Changing
<1>3. ASSUME NEW c \in Chats
      PROVE  ChatTold(c)'
  <2>1. ChatTold(c) /\ chats[c] \in ChatRows
    BY <1>1 DEF Told, TypeOK
  <2>2. CASE c \in ChatsOf(u)
    <3>1. /\ chats'[c].state = "gone" /\ chats'[c].initiator = chats[c].initiator
          /\ chats'[c].participant = chats[c].participant
      BY <1>1, <2>1, <2>2 DEF ChatRows
    <3>2. u \in Members(c)'
      BY <2>2, <3>1 DEF ChatsOf, Members
    <3> QED
      BY <1>1, <3>1, <3>2 DEF ChatTold, RowTold
  <2>3. CASE c \notin ChatsOf(u)
    <3>1. chats'[c] = chats[c] /\ users' \subseteq users
      BY <1>1, <2>3
    <3>2. RowTold(c, chats[c].state) => RowTold(c, chats[c].state)'
      BY <1>1, <1>2, <3>1 DEF RowTold
    <3> QED
      BY <1>1, <2>1, <3>1, <3>2 DEF ChatTold, Members
  <2> QED
    BY <2>2, <2>3
<1>4. ASSUME NEW m \in Messages
      PROVE  MessageTold(m)'
  BY <1>1, <1>2 DEF Told, MessageTold, RowTold
<1>5. MailInv' /\ AuthorInv'
  BY <1>1 DEF Told, MailInv, AuthorInv, MessagesAreMailed, Stored, Posting
<1> QED
  BY <1>3, <1>4, <1>5 DEF Told

LEMMA StepTells == IInv /\ Told /\ [Next]_vars => Told'
<1> SUFFICES ASSUME IInv, Told, [Next]_vars PROVE Told'
  OBVIOUS
<1>1. ASSUME NEW r \in Requests, Check(r) \/ Proceed(r) \/ Rollback(r)
      PROVE  Told'
  BY <1>1, CheckTells, SaveChatTells, WriteTells, SaveMessageTells, NotifyUserTells, CommitTells,
     RollbackTells DEF Proceed
<1>2. ASSUME NEW u \in Users, DeleteUser(u)
      PROVE  Told'
  BY <1>2, DeleteUserTells
<1>3. CASE (\E m \in Messages : Expire(m)) \/ UNCHANGED vars
  <2>1. UNCHANGED <<users, chats, messages, feed, misled, mailed, req>>
    BY <1>3 DEF Expire, vars, rowVars, feedVars
  <2> QED
    BY <2>1 DEF Told, ChatTold, MessageTold, RowTold, Leaving, Takes, Closing, Changing, Posting,
                MailInv, AuthorInv, MessagesAreMailed, Stored, Members
<1> QED
  BY <1>1, <1>2, <1>3 DEF Next

LEMMA InitTold == Init => Told
  BY DEF Init, Told, ChatTold, MessageTold, RowTold, MailInv, AuthorInv, MessagesAreMailed,
         NewChat, NewMessage, Idle, Request, Stored, Posting, InTx

LEMMA TellsAlways == Spec => []Told
  BY InitTold, StepTells, Invariance, PTL DEF Spec

\* Whenever no transaction is about a row, what the events told of it is what
\* the tables hold, except for rows a rolled-back transaction told of and
\* chats that went with a user; and every stored message has its mail.
THEOREM EventsTellTheTruth == Spec => []ClientsAreTold
<1>1. IInv /\ Told => ClientsAreTold
  <2> SUFFICES ASSUME IInv, Told PROVE ClientsAreTold
    OBVIOUS
  <2>1. ASSUME NEW y \in Chats \union Messages, \A q \in Requests : ~ Open(y, q)
        PROVE  ~ Leaving(y)
    BY <2>1 DEF Open, Leaving, Takes, Closing, Changing, InTx
  <2>2. ASSUME NEW m \in Messages \ misled, \A q \in Requests : ~ Open(m, q)
        PROVE  feed[m] = "shown" <=> Stored(m)
    <3>1. MessageTold(m) /\ MessageOK(m) /\ messages[m].state \in RowStates
      BY DEF Told, IInv, Relations, TypeOK, MessageRows
    <3>2. messages[m].state # "inserted"
      BY <2>2, <3>1 DEF MessageOK, Posting, Open
    <3> QED
      BY <2>1, <2>2, <3>1, <3>2 DEF MessageTold, RowTold, Stored, RowStates
  <2>3. ASSUME NEW c \in Chats \ misled, \A q \in Requests : ~ Open(c, q)
        PROVE  /\ Live(c) => feed[c] = "shown"
               /\ feed[c] = "shown" => Live(c) \/ ~ (Members(c) \subseteq users)
    <3>1. ChatTold(c) /\ ChatOK(c) /\ chats[c].state \in RowStates
      BY DEF Told, IInv, Relations, TypeOK, ChatRows
    <3>2. chats[c].state # "inserted"
      BY <2>3, <3>1 DEF ChatOK, Opening, Open, InTx
    <3> QED
      BY <2>1, <2>3, <3>1, <3>2 DEF ChatTold, RowTold, Live, RowStates
  <2> QED
    BY <2>2, <2>3 DEF ClientsAreTold, FeedFollowsStore, FeedFollowsChats, Told, MailInv
<1> QED
  BY <1>1, Invariance, TellsAlways, PTL

\* A message nobody holds is not being removed.
LEMMA UnheldStays ==
  ASSUME IInv, NEW m \in Messages, Unheld(m)
  PROVE  ~ Leaving(m)
<1> SUFFICES ASSUME NEW q \in Requests, Takes(q, m) PROVE FALSE
  BY DEF Leaving
<1>1. CloseOK(q)
  BY DEF IInv, Relations, RequestOK
<1> QED
  BY <1>1, DisjointAssumption DEF Takes, Closing, Changing, CloseOK, Unheld, HoldsMessage

\* The events of the writes, of a row that has not been announced gone.
LEMMA WriteGone ==
  ASSUME IInv, Told, NEW r \in Requests, SaveChat(r) \/ SaveMessage(r),
         NEW x \in Chats \union Messages, x \notin misled, feed[x] = "gone"
  PROVE  feed'[x] = "gone"
<1>1. feed \in [Chats \union Messages -> {"unseen", "shown", "gone"}]
  BY DEF IInv, TypeOK
<1>2. CASE UNCHANGED feed
  BY <1>2
<1>3. ASSUME NEW c \in Chats, InsertChat(r, c)
      PROVE  feed'[x] = "gone"
  <2>1. c # x
    BY <1>3 DEF InsertChat, NewChat, Told, ChatTold, RowTold
  <2> QED
    BY <1>1, <1>3, <2>1 DEF InsertChat, Emits
<1>4. ASSUME NEW m \in Messages, InsertMessage(r, m)
      PROVE  feed'[x] = "gone"
  <2>1. m # x
    BY <1>4 DEF InsertMessage, NewMessage, Told, MessageTold, RowTold
  <2> QED
    BY <1>1, <1>4, <2>1 DEF InsertMessage, Emits
<1> QED
  BY <1>2, <1>3, <1>4 DEF SaveChat, SaveMessage, Refused, feedVars

LEMMA ChangeGone ==
  ASSUME IInv, Told, NEW r \in Requests, DeleteChat(r) \/ DeleteMessage(r) \/ UpdateMessage(r),
         NEW x \in Chats \union Messages, x \notin misled, feed[x] = "gone"
  PROVE  feed'[x] = "gone"
<1>1. feed \in [Chats \union Messages -> {"unseen", "shown", "gone"}]
  BY DEF IInv, TypeOK
<1>2. CASE UNCHANGED feed
  BY <1>2
<1>3. CASE Emits(req[r].chat, "gone") \/ Emits(req[r].message, "gone")
  BY <1>1, <1>3 DEF Emits
<1>4. CASE /\ Is(r, "edit", "checked") /\ Emits(req[r].message, "shown")
           /\ Stored(req[r].message) /\ Unheld(req[r].message)
  <2>1. req[r].message \in Messages
    BY <1>4 DEF IInv, Relations, RequestOK, ChangeOK, Is
  <2>2. req[r].message # x
    BY <1>4, <2>1, UnheldStays DEF Told, MessageTold, RowTold, Stored
  <2> QED
    BY <1>1, <1>4, <2>2 DEF Emits
<1> QED
  BY <1>2, <1>3, <1>4
     DEF DeleteChat, DeleteMessage, UpdateMessage, Refused, feedVars, StillThere

LEMMA StepGone ==
  ASSUME IInv, Told, [Next]_vars, NEW x \in Chats \union Messages, x \notin misled,
         feed[x] = "gone"
  PROVE  feed'[x] = "gone"
<1>1. ASSUME NEW r \in Requests, Check(r) \/ Proceed(r) \/ Rollback(r)
      PROVE  feed'[x] = "gone"
  <2>1. CASE Check(r)
    BY <2>1 DEF Check, CheckChat, CheckRemoval, CheckPost, CheckRetraction, CheckEdit, Starts,
                feedVars
  <2>2. CASE NotifyUser(r) \/ Commit(r) \/ Rollback(r)
    BY <2>2 DEF NotifyUser, Commit, Rollback, feedVars
  <2> QED
    BY <1>1, <2>1, <2>2, WriteGone, ChangeGone DEF Proceed
<1>2. CASE (\E u \in Users : DeleteUser(u)) \/ (\E m \in Messages : Expire(m)) \/ UNCHANGED vars
  BY <1>2 DEF DeleteUser, Expire, vars, feedVars
<1> QED
  BY <1>1, <1>2 DEF Next

\* Once announced gone a row is never announced again: an edit that waited
\* for the removal of its message finds no message.
THEOREM NoEventAfterGone == Spec => GoneStaysGone
<1>1. IInv /\ Told /\ [Next]_vars =>
        [\A x \in (Chats \union Messages) \ misled : feed[x] = "gone" => feed'[x] = "gone"]_vars
  BY StepGone
<1> QED
  BY <1>1, Invariance, TellsAlways, PTL DEF Spec, GoneStaysGone

\* A stored message changes only when the transaction of its author's
\* request commits.
LEMMA StepByAuthor ==
  ASSUME IInv, Told, [Next]_vars, NEW m \in Messages, Stored(m), messages'[m] # messages[m]
  PROVE  \E r \in Requests : req[r].user = messages[m].sender /\ req[r].message = m
                             /\ req'[r].at = "idle" /\ req[r].at = "written"
<1>1. /\ messages \in [Messages -> MessageRows]
      /\ \A r \in Requests : PostOK(r) /\ StageOK(r)
  BY DEF IInv, TypeOK, Relations, RequestOK
<1>2. ~ UNCHANGED messages
  OBVIOUS
<1>3. ~ ((\E u \in Users : DeleteUser(u)) \/ (\E n \in Messages : Expire(n)) \/ UNCHANGED vars)
  BY <1>2 DEF DeleteUser, Expire, vars, rowVars
<1>4. PICK r \in Requests : Check(r) \/ Proceed(r) \/ Rollback(r)
  BY <1>3 DEF Next
<1>5. ~ Check(r)
  BY <1>2 DEF Check, CheckChat, CheckRemoval, CheckPost, CheckRetraction, CheckEdit, Starts,
              rowVars
<1>6. ~ (SaveChat(r) \/ DeleteChat(r) \/ NotifyUser(r) \/ UpdateMessage(r) \/ DeleteMessage(r))
  BY <1>2 DEF SaveChat, InsertChat, DeleteChat, NotifyUser, UpdateMessage, DeleteMessage,
              Refused, rowVars
<1>7. ~ SaveMessage(r)
  <2>1. ASSUME NEW n \in Messages, InsertMessage(r, n)
        PROVE  FALSE
    <3>1. n # m
      BY <2>1 DEF InsertMessage, NewMessage, Stored
    <3> QED
      BY <1>1, <2>1, <3>1 DEF InsertMessage
  <2> QED
    BY <1>2, <2>1 DEF SaveMessage, Refused, rowVars
<1>8. Commit(r) \/ Rollback(r)
  BY <1>4, <1>5, <1>6, <1>7 DEF Proceed
<1>9. req[r].message = m
  BY <1>1, <1>2, <1>8 DEF Commit, Rollback, MessageBecomes, CommitEdit
<1>10. req[r].kind # "post"
  BY <1>1, <1>8, <1>9 DEF Commit, Rollback, PostOK, Posting, InTx, Stored
<1>11. Commit(r) /\ req[r].kind \in {"edit", "retract"}
  BY <1>2, <1>8, <1>10 DEF Commit, Rollback
<1>12. req[r].user = messages[m].sender
  BY <1>9, <1>11 DEF Told, AuthorInv
<1>13. req'[r].at = "idle" /\ req[r].at = "written"
  BY <1>11, OthersKept DEF Commit, Replies, Idle, Request, IInv
<1> QED
  BY <1>9, <1>12, <1>13

THEOREM ChangedByAuthors == Spec => AuthorsOnly
<1>1. IInv /\ Told /\ [Next]_vars =>
        [\A m \in Messages :
           Stored(m) /\ messages'[m] # messages[m] =>
             \E r \in Requests : req[r].user = messages[m].sender /\ req[r].message = m
                                 /\ req'[r].at = "idle" /\ req[r].at = "written"]_vars
  BY StepByAuthor
<1> QED
  BY <1>1, Invariance, TellsAlways, PTL DEF Spec, AuthorsOnly

-----------------------------------------------------------------------------
(* The database is a conversation                                          *)

ReadChats    == [c \in Chats |-> RowAsRead(chats[c], NewChat)]
ReadMessages == [m \in Messages |-> RowAsRead(messages[m], NewMessage)]

\* Rows that are not read may come and go.
LEMMA ViewKept ==
  ASSUME users' = users,
         \A c \in Chats : RowAsRead(chats[c], NewChat)' = RowAsRead(chats[c], NewChat),
         \A m \in Messages : RowAsRead(messages[m], NewMessage)' = RowAsRead(messages[m], NewMessage)
  PROVE  UNCHANGED <<users, ReadChats, ReadMessages>>
  BY DEF ReadChats, ReadMessages

LEMMA RowsUnread ==
  ASSUME UNCHANGED <<users, chats, messages>>
  PROVE  UNCHANGED <<users, ReadChats, ReadMessages>>
  BY DEF ReadChats, ReadMessages, RowAsRead

\* Insertions, and what rolls back, are never read.
LEMMA UnreadSteps ==
  ASSUME IInv, NEW r \in Requests, Check(r) \/ SaveChat(r) \/ DeleteChat(r) \/ SaveMessage(r)
           \/ NotifyUser(r) \/ UpdateMessage(r) \/ DeleteMessage(r) \/ Rollback(r)
  PROVE  UNCHANGED <<users, ReadChats, ReadMessages>>
<1>0. TypeOK /\ RequestOK(r)
  BY DEF IInv, Relations
<1>1. CASE Check(r) \/ DeleteChat(r) \/ NotifyUser(r) \/ UpdateMessage(r) \/ DeleteMessage(r)
           \/ Refused(r)
  <2>1. UNCHANGED <<users, chats, messages>>
    BY <1>1 DEF Check, CheckChat, CheckRemoval, CheckPost, CheckEdit, CheckRetraction, Starts,
                DeleteChat, NotifyUser, UpdateMessage, DeleteMessage, Refused, rowVars
  <2> QED
    BY <2>1, RowsUnread
<1>2. ASSUME NEW c \in Chats, InsertChat(r, c)
      PROVE  UNCHANGED <<users, ReadChats, ReadMessages>>
  <2>1. /\ chats'[c].state = "inserted" /\ chats[c] = NewChat
        /\ \A d \in Chats \ {c} : chats'[d] = chats[d]
    BY <1>0, <1>2 DEF InsertChat, TypeOK
  <2> QED
    BY <1>2, <2>1, ViewKept DEF InsertChat, RowAsRead
<1>3. ASSUME NEW m \in Messages, InsertMessage(r, m)
      PROVE  UNCHANGED <<users, ReadChats, ReadMessages>>
  <2>1. /\ messages'[m].state = "inserted" /\ messages[m] = NewMessage
        /\ \A n \in Messages \ {m} : messages'[n] = messages[n]
    BY <1>0, <1>3 DEF InsertMessage, TypeOK
  <2> QED
    BY <1>3, <2>1, ViewKept DEF InsertMessage, RowAsRead
<1>4. CASE Rollback(r)
  <2>1. CASE req[r].kind = "open" /\ ChatBecomes(r, "lost") /\ UNCHANGED messages
    <3>1. req[r].chat \in Chats /\ chats[req[r].chat].state = "inserted"
      BY <1>0, <1>4, <2>1 DEF Rollback, RequestOK, StageOK, OpenOK, Opening, InTx
    <3>2. /\ chats'[req[r].chat].state = "lost"
          /\ \A d \in Chats \ {req[r].chat} : chats'[d] = chats[d]
      BY <1>0, <2>1, <3>1 DEF ChatBecomes, TypeOK, ChatRows
    <3> QED
      BY <1>4, <2>1, <3>1, <3>2, ViewKept DEF Rollback, RowAsRead
  <2>2. CASE req[r].kind = "post" /\ MessageBecomes(r, "lost") /\ UNCHANGED chats
    <3>1. req[r].message \in Messages /\ messages[req[r].message].state = "inserted"
      BY <1>0, <1>4, <2>2 DEF Rollback, RequestOK, PostOK, Posting
    <3>2. /\ messages'[req[r].message].state = "lost"
          /\ \A n \in Messages \ {req[r].message} : messages'[n] = messages[n]
      BY <1>0, <2>2, <3>1 DEF MessageBecomes, TypeOK, MessageRows
    <3> QED
      BY <1>4, <2>2, <3>1, <3>2, ViewKept DEF Rollback, RowAsRead
  <2>3. CASE UNCHANGED <<chats, messages>>
    BY <1>4, <2>3, RowsUnread DEF Rollback
  <2> QED
    BY <1>4, <2>1, <2>2, <2>3 DEF Rollback
<1> QED
  BY <1>1, <1>2, <1>3, <1>4 DEF SaveChat, SaveMessage

\* createChat opens a chat.
LEMMA OpenPromise ==
  ASSUME IInv, NEW r \in Requests, Opening(r), ChatBecomes(r, "live"),
         UNCHANGED <<users, messages>>
  PROVE  Committed!Opened(req[r].chat, req[r].user, req[r].peer)
<1> DEFINE c == req[r].chat
<1>1. /\ TypeOK /\ c \in Chats /\ chats[c] \in ChatRows /\ chats[c].state = "inserted"
      /\ chats[c].initiator = req[r].user /\ chats[c].participant = req[r].peer
      /\ {req[r].user, req[r].peer} \subseteq users
  BY DEF IInv, Relations, RequestOK, OpenOK, TypeOK, ChatOK
<1>2. ReadChats[c] = NewChat
  BY <1>1 DEF ReadChats, RowAsRead
<1>3. chats'[c] = [state |-> "live", initiator |-> req[r].user, participant |-> req[r].peer]
  BY <1>1 DEF ChatBecomes, TypeOK, ChatRows
<1>4. ReadChats' = [ReadChats EXCEPT ![c] = chats'[c]]
  <2>1. \A d \in Chats \ {c} : chats'[d] = chats[d]
    BY <1>1 DEF ChatBecomes, TypeOK
  <2>2. chats'[c].state = "live"
    BY <1>3
  <2> QED
    BY <1>1, <2>1, <2>2 DEF ReadChats, RowAsRead
<1>5. UNCHANGED <<users, ReadMessages>>
  BY DEF ReadMessages, RowAsRead
<1> QED
  BY <1>1, <1>2, <1>3, <1>4, <1>5
     DEF Committed!Opened, Committed!NewChat, NewChat, ReadChats, ReadMessages

\* ChatService.remove closes one without messages.
LEMMA ClosePromise ==
  ASSUME IInv, NEW r \in Requests, Closing(r), ChatBecomes(r, "gone"),
         UNCHANGED <<users, messages>>
  PROVE  Committed!Closed(req[r].chat)
<1> DEFINE c == req[r].chat
<1>1. /\ TypeOK /\ c \in Chats /\ chats[c] \in ChatRows /\ chats[c].state = "live" /\ Vacant(c)
  BY DEF IInv, Relations, RequestOK, CloseOK, Closing, TypeOK, Live
<1>2. ReadChats[c] = chats[c]
  BY <1>1 DEF ReadChats, RowAsRead
<1>3. ReadChats' = [ReadChats EXCEPT ![c].state = "gone"]
  <2>1. chats'[c] = [chats[c] EXCEPT !.state = "gone"] /\ chats'[c].state = "gone"
    BY <1>1 DEF ChatBecomes, TypeOK, ChatRows
  <2>2. \A d \in Chats \ {c} : chats'[d] = chats[d]
    BY <1>1 DEF ChatBecomes, TypeOK
  <2> QED
    BY <1>1, <1>2, <2>1, <2>2 DEF ReadChats, RowAsRead
<1>4. \A m \in Messages : ReadMessages[m].state = "live" => ReadMessages[m].chat # c
  BY <1>1 DEF ReadMessages, RowAsRead, NewMessage, Vacant
<1>5. UNCHANGED <<users, ReadMessages>>
  BY DEF ReadMessages, RowAsRead
<1> QED
  BY <1>1, <1>2, <1>3, <1>4, <1>5
     DEF Committed!Closed, Committed!IsEmpty, ReadChats, ReadMessages

\* MessagesService.create posts a message of a member into an open chat.
LEMMA PostPromise ==
  ASSUME IInv, NEW r \in Requests, Posting(r), MessageBecomes(r, "live"),
         UNCHANGED <<users, chats>>
  PROVE  Committed!Posted(req[r].message, req[r].chat, req[r].user, req[r].text)
<1> DEFINE m == req[r].message
           c == req[r].chat
<1>1. /\ TypeOK /\ m \in Messages /\ messages[m] \in MessageRows
      /\ messages[m].state = "inserted" /\ messages[m].chat = c
      /\ messages[m].sender = req[r].user /\ messages[m].text = req[r].text
      /\ c \in Chats /\ chats[c].state = "live" /\ req[r].user \in Members(c)
  BY DEF IInv, Relations, RequestOK, PostOK, TypeOK, MessageOK, Live, Posting
<1>2. ReadMessages[m] = NewMessage /\ ReadChats[c] = chats[c]
  BY <1>1 DEF ReadMessages, ReadChats, RowAsRead
<1>3. messages'[m] = [state |-> "live", chat |-> c, sender |-> req[r].user,
                      text |-> req[r].text]
  BY <1>1 DEF MessageBecomes, TypeOK, MessageRows
<1>4. ReadMessages' = [ReadMessages EXCEPT ![m] = messages'[m]]
  <2>1. \A n \in Messages \ {m} : messages'[n] = messages[n]
    BY <1>1 DEF MessageBecomes, TypeOK
  <2>2. messages'[m].state = "live"
    BY <1>3
  <2> QED
    BY <1>1, <2>1, <2>2 DEF ReadMessages, RowAsRead
<1>5. UNCHANGED <<users, ReadChats>>
  BY DEF ReadChats, RowAsRead
<1> QED
  BY <1>1, <1>2, <1>3, <1>4, <1>5 DEF Committed!Posted, Committed!NewMessage, Committed!Members,
     NewMessage, Members, ReadChats, ReadMessages

\* What update and remove change is a stored message of a chat of two.
LEMMA ChangePromise ==
  ASSUME IInv, NEW r \in Requests, Changing(r), UNCHANGED <<users, chats>>
  PROVE  /\ MessageBecomes(r, "gone") => Committed!Retracted(req[r].message)
         /\ CommitEdit(r) => Committed!Edited(req[r].message, req[r].text)
<1> DEFINE m == req[r].message
           c == messages[m].chat
<1>1. /\ TypeOK /\ m \in Messages /\ messages[m] \in MessageRows /\ messages[m].state = "live"
      /\ c \in Chats /\ chats[c].state \in {"live", "gone"}
      /\ chats[c].initiator # chats[c].participant
  BY DEF IInv, Relations, RequestOK, ChangeOK, Changing, TypeOK, Stored, Settled
<1>2. ReadMessages[m] = messages[m] /\ ReadChats[c] = chats[c]
  BY <1>1 DEF ReadMessages, ReadChats, RowAsRead
<1>3. Committed!Changeable(m)
  BY <1>1, <1>2 DEF Committed!Changeable, ReadChats, ReadMessages
<1>4. UNCHANGED <<users, ReadChats>>
  BY DEF ReadChats, RowAsRead
<1>5. ASSUME MessageBecomes(r, "gone")
      PROVE  ReadMessages' = [ReadMessages EXCEPT ![m].state = "gone"]
  <2>1. messages'[m] = [messages[m] EXCEPT !.state = "gone"] /\ messages'[m].state = "gone"
    BY <1>1, <1>5 DEF MessageBecomes, TypeOK, MessageRows
  <2>2. \A n \in Messages \ {m} : messages'[n] = messages[n]
    BY <1>1, <1>5 DEF MessageBecomes, TypeOK
  <2> QED
    BY <1>1, <1>2, <2>1, <2>2 DEF ReadMessages, RowAsRead
<1>6. ASSUME CommitEdit(r)
      PROVE  ReadMessages' = [ReadMessages EXCEPT ![m].text = req[r].text]
  <2>1. messages'[m] = [messages[m] EXCEPT !.text = req[r].text] /\ messages'[m].state = "live"
    BY <1>1, <1>6 DEF CommitEdit, TypeOK, MessageRows
  <2>2. \A n \in Messages \ {m} : messages'[n] = messages[n]
    BY <1>1, <1>6 DEF CommitEdit, TypeOK
  <2> QED
    BY <1>1, <1>2, <2>1, <2>2 DEF ReadMessages, RowAsRead
<1> QED
  BY <1>3, <1>4, <1>5, <1>6
     DEF Committed!Retracted, Committed!Edited, ReadChats, ReadMessages

\* A user who is deleted leaves empty chats only.
LEMMA LeavePromise ==
  ASSUME IInv, NEW u \in Users, DeleteUser(u)
  PROVE  Committed!Left(u)
<1>1. ASSUME NEW c \in Chats
      PROVE  /\ chats[c] \in ChatRows
             /\ ReadChats[c].state = "live" <=> Live(c)
             /\ Live(c) => ReadChats[c] = chats[c]
  BY DEF ReadChats, RowAsRead, NewChat, IInv, TypeOK, Live
<1>2. Committed!ChatsOf(u) = ChatsOf(u)
  BY <1>1 DEF Committed!ChatsOf, Committed!Members, ChatsOf, Members, ReadChats
<1>3. ASSUME NEW c \in ChatsOf(u)
      PROVE  Committed!IsEmpty(c)
  <2>1. IsEmpty(c)
    BY DEF DeleteUser
  <2> QED
    BY <2>1 DEF IsEmpty, Committed!IsEmpty, Stored, RowAsRead, NewMessage
<1>4. ReadChats' = [c \in Chats |-> IF c \in ChatsOf(u)
                                    THEN [ReadChats[c] EXCEPT !.state = "gone"]
                                    ELSE ReadChats[c]]
  <2> SUFFICES ASSUME NEW c \in Chats
               PROVE  RowAsRead(chats[c], NewChat)' =
                        IF c \in ChatsOf(u) THEN [ReadChats[c] EXCEPT !.state = "gone"]
                                            ELSE ReadChats[c]
    BY DEF ReadChats
  <2>1. chats'[c] = IF c \in ChatsOf(u) THEN [chats[c] EXCEPT !.state = "gone"] ELSE chats[c]
    BY DEF DeleteUser
  <2>2. CASE c \in ChatsOf(u)
    <3>1. ReadChats[c] = chats[c] /\ chats'[c].state = "gone"
      BY <1>1, <2>1, <2>2 DEF ChatsOf, ChatRows
    <3> QED
      BY <2>1, <2>2, <3>1 DEF RowAsRead
  <2>3. CASE c \notin ChatsOf(u)
    BY <2>1, <2>3 DEF ReadChats, RowAsRead
  <2> QED
    BY <2>2, <2>3
<1>5. UNCHANGED ReadMessages /\ u \in users /\ users' = users \ {u}
  BY DEF ReadMessages, RowAsRead, DeleteUser
<1> QED
  BY <1>2, <1>3, <1>4, <1>5 DEF Committed!Left, ReadChats, ReadMessages

LEMMA CommitPromise ==
  ASSUME IInv, NEW r \in Requests, Commit(r)
  PROVE  Committed!ConversationNext
<1>1. /\ req[r].at = "written" /\ users' = users /\ OpenOK(r) /\ CloseOK(r) /\ PostOK(r)
      /\ ChangeOK(r)
  BY DEF Commit, IInv, Relations, RequestOK
<1>2. CASE req[r].kind = "open" /\ ChatBecomes(r, "live") /\ UNCHANGED messages
  <2>1. Opening(r) /\ req[r].chat \in Chats /\ req[r].user \in Users /\ req[r].peer \in Users
    BY <1>1, <1>2 DEF Opening, OpenOK
  <2> QED
    BY <1>1, <1>2, <2>1, OpenPromise DEF Committed!ConversationNext
<1>3. CASE req[r].kind = "close" /\ CommitClose(r) /\ UNCHANGED messages
  <2>1. Closing(r) /\ req[r].chat \in Chats
    BY <1>1, <1>3 DEF Closing, CloseOK
  <2> QED
    BY <1>1, <1>3, <2>1, ClosePromise DEF Committed!ConversationNext, CommitClose
<1>4. CASE req[r].kind = "post" /\ MessageBecomes(r, "live") /\ UNCHANGED chats
  <2>1. /\ Posting(r) /\ req[r].chat \in Chats /\ req[r].user \in Users /\ req[r].text \in Texts
        /\ req[r].message \in Messages
    BY <1>1, <1>4 DEF Posting, PostOK, InTx
  <2> QED
    BY <1>1, <1>4, <2>1, PostPromise DEF Committed!ConversationNext
<1>5. CASE req[r].kind = "edit" /\ CommitEdit(r) /\ UNCHANGED chats
  <2>1. Changing(r) /\ req[r].message \in Messages /\ req[r].text \in Texts
    BY <1>1, <1>5 DEF Changing, ChangeOK
  <2> QED
    BY <1>1, <1>5, <2>1, ChangePromise DEF Committed!ConversationNext
<1>6. CASE req[r].kind = "retract" /\ MessageBecomes(r, "gone") /\ UNCHANGED chats
  <2>1. Changing(r) /\ req[r].message \in Messages
    BY <1>1, <1>6 DEF Changing, ChangeOK
  <2> QED
    BY <1>1, <1>6, <2>1, ChangePromise DEF Committed!ConversationNext
<1> QED
  BY <1>2, <1>3, <1>4, <1>5, <1>6 DEF Commit

\* What the tables hold changes as the abstract conversation allows, for
\* every interleaving of the requests: Chat implements Conversation.
THEOREM ChatIsConversation == Spec => KeepsPromise
<1>1. Init => Committed!ConversationInit
  BY DEF Init, Committed!ConversationInit, Committed!NewChat, Committed!NewMessage, NewChat,
         NewMessage, RowAsRead
<1>2. IInv /\ [Next]_vars =>
        [Committed!ConversationNext]_<<users, ReadChats, ReadMessages>>
  <2> SUFFICES ASSUME IInv, [Next]_vars
               PROVE  [Committed!ConversationNext]_<<users, ReadChats, ReadMessages>>
    OBVIOUS
  <2>1. ASSUME NEW r \in Requests, Check(r) \/ Proceed(r) \/ Rollback(r)
        PROVE  \/ Committed!ConversationNext
               \/ UNCHANGED <<users, ReadChats, ReadMessages>>
    BY <2>1, UnreadSteps, CommitPromise DEF Proceed
  <2>2. ASSUME NEW u \in Users, DeleteUser(u)
        PROVE  Committed!ConversationNext
    BY <2>2, LeavePromise DEF Committed!ConversationNext
  <2>3. ASSUME NEW m \in Messages, Expire(m)
        PROVE  UNCHANGED <<users, ReadChats, ReadMessages>>
    BY <2>3, RowsUnread DEF Expire
  <2>4. CASE UNCHANGED vars
    BY <2>4, RowsUnread DEF vars, rowVars
  <2> QED
    BY <2>1, <2>2, <2>3, <2>4 DEF Next
<1>3. KeepsPromise <=> /\ Committed!ConversationInit
                       /\ [][Committed!ConversationNext]_<<users, ReadChats, ReadMessages>>
  BY DEF KeepsPromise, Committed!ConversationSpec, ReadChats, ReadMessages
<1> QED
  BY <1>1, <1>2, <1>3, Invariance, PTL DEF Spec
=============================================================================
