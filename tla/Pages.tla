-------------------------------- MODULE Pages -------------------------------
(***************************************************************************)
(* A client that reads a listing page by page: the messages of a chat, the *)
(* chats of a user, advertisements, users, banned words.                   *)
(*                                                                         *)
(* Each page takes two statements outside any transaction: a count, which  *)
(* the page and its size are checked against, and the select with OFFSET   *)
(* and LIMIT.  Rows come and go, and begin or cease to match the filter,   *)
(* between the two and between the pages.  The client takes page after     *)
(* page until one is refused.                                              *)
(*                                                                         *)
(* A listing is ordered by the time its rows were created, or last         *)
(* updated, either way, or not at all.  Rows are numbered in that order as *)
(* it is when the client begins, so that a later row has a larger number.  *)
(* An update gives a row a new place only when the listing is ordered by   *)
(* updatedAt.                                                              *)
(***************************************************************************)
EXTENDS Naturals, FiniteSets

CONSTANTS MaxWrites,  \* bound of the model: the rows that are ever written,
                      \* and the updates that give one a new place
          Sizes,      \* the page sizes clients ask for
          MaxSize     \* the largest page of each handler

Handlers == {"messages", "chats", "ads", "users", "words"}

ASSUME WritesAssumption == MaxWrites \in Nat
ASSUME SizesAssumption == Sizes \subseteq Nat
ASSUME MaxSizeAssumption == MaxSize \in [Handlers -> Nat]

\* "messages": all are counted and listed, and the chat is looked up first;
\* "all": the same without a chat; "filtered": all are counted, those that
\* match are listed; "chats" and "unread": those with an unread message are
\* counted, and all of the user's chats, or only those, are listed.
Listings == {"messages", "all", "filtered", "chats", "unread"}

\* orderBy createdAt (postedAt of an advertisement), updatedAt, or none.
\* No code counts the views of an advertisement: all rows are equal in that
\* order, which is none.  Nor does any update a chat: its updatedAt is when
\* it was created.
Sorts == {"created", "updated", "none"}

VARIABLES clock,    \* how many writes there were; a row is named by the first
          time,     \* the one that gave each row the place it has
          live,     \* the rows that are there
          marked,   \* those that match the filter, or have an unread message
          open,     \* the chat of the messages is there
          listing, sort, newestFirst, size,   \* what the client asks for
          stage,    \* where the request for the next page is
          skip,     \* its offset
          blank,    \* the last page answered was empty
          seen,     \* for checking: the rows of the pages so far
          again,    \* for checking: some page repeated a row
          since,    \* for checking: the rows listed when the client began
          lost,     \* for checking: listed rows have gone since then
          gained,   \* for checking: rows were added to the listing since then
          moved,    \* for checking: listed rows that have a new place since then
          gone      \* for checking: listed rows have gone since the count

table == <<clock, time, live, marked, open>>
query == <<listing, sort, newestFirst, size>>
walk == <<stage, skip, blank, seen, again>>
history == <<since, lost, gained, moved, gone>>
vars == <<table, query, walk, history>>

\* "asking": the next page is not requested yet, or its chat not looked up;
\* the ends are a query refused for its size or its filter, 404, 400 or 409 for the chat,
\* 400 and 404 for the page, and 500.
Stages == {"idle", "asking", "admitted", "counted",
           "invalid", "refused", "tooLarge", "noPage", "failed"}

TypeOK ==
  /\ clock \in 0..MaxWrites
  /\ time \in [1..MaxWrites -> 1..MaxWrites]
  /\ live \subseteq 1..clock
  /\ marked \subseteq live
  /\ open \in BOOLEAN
  /\ listing \in Listings
  /\ sort \in Sorts
  /\ newestFirst \in BOOLEAN
  /\ size \in Nat
  /\ stage \in Stages
  /\ skip \in Nat
  /\ seen \subseteq 1..clock
  /\ since \subseteq 1..clock
  /\ moved \subseteq 1..clock
  /\ {blank, again, lost, gained, gone} \subseteq BOOLEAN

Init ==
  /\ clock \in 0..MaxWrites
  /\ time = [r \in 1..MaxWrites |-> r]
  /\ live = 1..clock
  /\ marked \in SUBSET (1..clock)
  /\ open = TRUE
  /\ listing = "all"
  /\ sort = "created"
  /\ newestFirst = FALSE
  /\ size = 0
  /\ stage = "idle"
  /\ skip = 0
  /\ blank = FALSE
  /\ seen = {}
  /\ since = {}
  /\ moved = {}
  /\ again = FALSE
  /\ lost = FALSE
  /\ gained = FALSE
  /\ gone = FALSE

-----------------------------------------------------------------------------
\* The where of the count, and that of the select.
CountedOf(l) == IF l \in {"chats", "unread"} THEN live \intersect marked ELSE live
ListedOf(l) == IF l \in {"filtered", "unread"} THEN live \intersect marked ELSE live

Counted == CountedOf(listing)
Listed == ListedOf(listing)

\* The rows of T down to r by their times t, newest first or oldest first.
Upto(d, t, T, r) == {q \in T : IF d THEN t[q] >= t[r] ELSE t[q] <= t[r]}

\* The place of r when T is ordered as the client asks.
Place(T, r) == Cardinality(Upto(newestFirst, time, T, r))

-----------------------------------------------------------------------------
\* validateDto: a size the handler does not serve is refused; page 1 is next.
SizeServed(h, s) == s \in 1..MaxSize[h]

Ask(h, l, k, d, s) ==
  /\ stage = "idle"
  /\ listing' = l
  /\ sort' = k
  /\ newestFirst' = (d /\ k # "none")  \* without an order, either
  /\ size' = s
  /\ stage' = IF SizeServed(h, s) THEN "asking" ELSE "invalid"
  /\ since' = ListedOf(l)
  /\ lost' = FALSE
  /\ gained' = FALSE
  /\ moved' = {}
  /\ gone' = FALSE
  /\ UNCHANGED <<table, skip, blank, seen, again>>

\* Messages are always the newest first.
AskMessages(s) == Ask("messages", "messages", "created", TRUE, s)

\* unread = false is what filters; a query without it lists every chat.  A
\* query without sort has no order.
AskChats(unread, k, d, s) ==
  /\ k \in {"created", "none"}
  /\ Ask("chats", IF unread = FALSE THEN "unread" ELSE "chats", k, d, s)

\* Without sortField or sortOrder there is no order.
AskAds(filter, k, d, s) == Ask("ads", IF filter THEN "filtered" ELSE "all", k, d, s)

\* validateUserAndQuery: an ordinary user asks for what only administrators
\* may see: 403.
AskHiddenAds ==
  /\ stage = "idle"
  /\ stage' = "invalid"
  /\ UNCHANGED <<table, query, skip, blank, seen, again, history>>

AskUsers(filter, k, d, s) == Ask("users", IF filter THEN "filtered" ELSE "all", k, d, s)

\* Without them, the newest word is first.
AskWords(k, d, s) ==
  /\ k \in {"created", "updated"}
  /\ Ask("words", "all", k, d, s)

\* getChatByUser and validateChatStatus, before each page of messages; the
\* status of the user may be another than active.
Admit ==
  /\ stage = "asking"
  /\ \/ /\ listing = "messages" => open
        /\ stage' = "admitted"
     \/ /\ listing = "messages"
        /\ stage' = "refused"
  /\ UNCHANGED <<table, query, skip, blank, seen, again, history>>

\* Mutant: a page is refused although one row is left for it.
PageExists_Late(total) == total > skip + 1

\* Mutant: a page is accepted although no row is left for it.
PageExists_Early(total) == total >= skip

PageExists(total) == total >= skip + 1

SizeFits(total) == size <= total

\* Messages check the size first, the others the number of the page.
Count ==
  /\ stage = "admitted"
  /\ LET total == Cardinality(Counted)
     IN  stage' = CASE PageExists(total) /\ SizeFits(total) -> "counted"
                    [] PageExists(total) /\ ~SizeFits(total) -> "tooLarge"
                    [] ~PageExists(total) /\ SizeFits(total) -> "noPage"
                    [] OTHER -> IF listing = "messages" THEN "tooLarge" ELSE "noPage"
  /\ gone' = FALSE
  /\ UNCHANGED <<table, query, skip, blank, seen, again, since, lost, gained, moved>>

\* Mutant: one row too many.
PageOf_Longer(T) == {r \in T : skip < Place(T, r) /\ Place(T, r) <= skip + size + 1}

\* OFFSET skip LIMIT size.
PageOf(T) == {r \in T : skip < Place(T, r) /\ Place(T, r) <= skip + size}

\* Without an order any rows may make up a page, as many as any order gives.
MayBePage(rows) ==
  IF sort = "none" THEN Cardinality(rows) = Cardinality(PageOf(Listed))
                   ELSE rows = PageOf(Listed)

Select ==
  \E rows \in SUBSET Listed :
    /\ stage = "counted"
    /\ MayBePage(rows)
    /\ blank' = (rows = {})
    /\ seen' = seen \union rows
    /\ again' = (again \/ \E r \in rows : r \in seen)
    /\ skip' = skip + size
    /\ stage' = "asking"
    /\ UNCHANGED <<table, query, history>>

Walking == stage \in {"asking", "admitted", "counted"}

\* A statement fails.
Fail ==
  /\ Walking
  /\ stage' = "failed"
  /\ UNCHANGED <<table, query, skip, blank, seen, again, history>>

-----------------------------------------------------------------------------
\* What the others' step does to the listing, remembered for the properties.
\* Init has every listing a client may meet, and what is done to it after the
\* last page is no concern of the client.
Watch ==
  /\ Walking
  /\ UNCHANGED <<query, walk, since>>
  /\ lost' = (lost \/ \E r \in Listed : r \notin Listed')
  /\ gone' = (gone \/ \E r \in Listed : r \notin Listed')
  /\ gained' = (gained \/ \E r \in Listed' : r \notin Listed)
  /\ moved' = moved \union {r \in Listed \intersect Listed' : time'[r] # time[r]}

Add(match) ==
  /\ open
  /\ clock < MaxWrites
  /\ clock' = clock + 1
  /\ live' = live \union {clock + 1}
  /\ marked' = IF match THEN marked \union {clock + 1} ELSE marked
  /\ UNCHANGED <<time, open>>
  /\ Watch

Remove(r) ==
  /\ r \in live
  /\ live' = live \ {r}
  /\ marked' = marked \ {r}
  /\ UNCHANGED <<clock, time, open>>
  /\ Watch

\* @updatedAt
Touch(r) ==
  IF sort = "updated"
  THEN /\ clock < MaxWrites
       /\ clock' = clock + 1
       /\ time' = [time EXCEPT ![r] = clock + 1]
  ELSE UNCHANGED <<clock, time>>

\* A message in the chat, or an update of the row, which may have matched the
\* filter before.
Mark(r) ==
  /\ r \in live
  /\ marked' = marked \union {r}
  /\ Touch(r)
  /\ UNCHANGED <<live, open>>
  /\ Watch

\* The last unread message of the chat is read, or an update of the row.
Unmark(r) ==
  /\ r \in live
  /\ marked' = marked \ {r}
  /\ Touch(r)
  /\ UNCHANGED <<live, open>>
  /\ Watch

\* The chat is deleted, with its messages.
Close ==
  /\ listing = "messages"
  /\ open' = FALSE
  /\ live' = {}
  /\ marked' = {}
  /\ UNCHANGED <<clock, time>>
  /\ Watch

Next ==
  \/ \E s \in Sizes : AskMessages(s)
  \/ \E filter, d \in BOOLEAN, k \in Sorts, s \in Sizes :
       AskChats(filter, k, d, s) \/ AskAds(filter, k, d, s) \/ AskUsers(filter, k, d, s)
  \/ \E k \in Sorts, d \in BOOLEAN, s \in Sizes : AskWords(k, d, s)
  \/ AskHiddenAds
  \/ Admit \/ Count \/ Select \/ Fail
  \/ \E match \in BOOLEAN : Add(match)
  \/ \E r \in 1..MaxWrites : Remove(r) \/ Mark(r) \/ Unmark(r)
  \/ Close

Spec == Init /\ [][Next]_vars

-----------------------------------------------------------------------------
(* Properties                                                              *)

\* A client that reads an ordered listing until there is no further page has
\* seen everything that was listed when it began and has kept its place,
\* unless some of it was removed, or an update moved a row from the front to
\* the end: either moves what follows to pages that were read before.  Where
\* the newest is first, an update moves a row away from the client, who may
\* miss it, and no other.  For chats none of this holds: those without an
\* unread message are listed but not counted.
WalkIsComplete ==
  /\ stage = "noPage" /\ sort # "none" /\ listing # "chats"
  /\ ~lost
  /\ newestFirst \/ moved = {}
  => since \ moved \subseteq seen

\* A page after the last is refused: an empty one is only answered when rows
\* went between the count and the select, or when the count ignores a filter.
EmptyPageHasACause ==
  stage = "asking" /\ blank => gone \/ listing = "filtered"

\* No row of an ordered listing comes twice unless one was added, or moved
\* by an update, which moves those that follow.
RowComesOnce == again => gained \/ moved # {} \/ sort = "none"
=============================================================================
