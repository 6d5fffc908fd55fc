----------------------------- MODULE AdLifecycle -----------------------------
(***************************************************************************)
(* What moderation promises the rest of the marketplace about one          *)
(* advertisement row.  A row appears "onModeration".  It then carries a    *)
(* verdict, and the verdict is the judgement of the text it was submitted  *)
(* with against the list of banned words as that list stood at some        *)
(* moment since the submission.  Nothing is promised about when, nor that  *)
(* a verdict comes at all, nor that it is the last one.                    *)
(***************************************************************************)
CONSTANTS Ads,              \* advertisement ids
          Words,            \* words of texts and of the banned list, as typed
          Lower,            \* lower-casing, a function on Words
          LongWords         \* words of at least three characters

ASSUME LowerAssumption == Lower \in [Words -> Words]
ASSUME LongWordsAssumption == LongWords \subseteq Words

VARIABLES row,      \* committed status of each advertisement, or "absent"
          text,     \* words of title and description of each submitted one
          banned,   \* the BannedWord table
          lists     \* the banned lists that were current since submission

lifeVars == <<row, text, banned, lists>>

Verdicts == {"active", "moderationRejected"}
Statuses == {"absent", "onModeration"} \union Verdicts

\* isWordBanned over getWordsFromAdvertisement: both sides lower-cased, and
\* only words of three characters and more are looked up.
Hit(t, list) ==
  \E w \in t : /\ Lower[w] \in LongWords
               /\ \E b \in list : Lower[b] = Lower[w]

VerdictOf(t, list) == IF Hit(t, list) THEN "moderationRejected" ELSE "active"

LifeTypeOK ==
  /\ row \in [Ads -> Statuses]
  /\ text \in [Ads -> SUBSET Words]
  /\ banned \in SUBSET Words
  /\ lists \in [Ads -> SUBSET SUBSET Words]

LifeInit ==
  /\ row = [a \in Ads |-> "absent"]
  /\ text = [a \in Ads |-> {}]
  /\ banned \in SUBSET Words
  /\ lists = [a \in Ads |-> {}]

\* An advertisement is submitted: from now on the lists it may be judged by
\* are collected.
Submitted(a, t) ==
  /\ lists[a] = {}
  /\ text' = [text EXCEPT ![a] = t]
  /\ lists' = [lists EXCEPT ![a] = {banned}]
  /\ UNCHANGED <<row, banned>>

Published(a) ==
  /\ row[a] = "absent"
  /\ lists[a] # {}
  /\ row' = [row EXCEPT ![a] = "onModeration"]
  /\ UNCHANGED <<text, banned, lists>>

Judged(a) ==
  /\ row[a] # "absent"
  /\ \E list \in lists[a] : row' = [row EXCEPT ![a] = VerdictOf(text[a], list)]
  /\ UNCHANGED <<text, banned, lists>>

\* The banned list changes; every submitted advertisement may be judged by
\* the new list.
ListChanged(list) ==
  /\ banned' = list
  /\ lists' = [a \in Ads |-> IF lists[a] = {} THEN {} ELSE lists[a] \union {list}]
  /\ UNCHANGED <<row, text>>

LifeNext ==
  \/ \E a \in Ads : \/ \E t \in SUBSET Words : Submitted(a, t)
                    \/ Published(a)
                    \/ Judged(a)
  \/ \E list \in SUBSET Words : ListChanged(list)

LifeSpec == LifeInit /\ [][LifeNext]_lifeVars
-----------------------------------------------------------------------------
(* What it comes to                                                        *)

\* What readers see judged was judged right, by some list in force since.
VerdictsAreJust ==
  \A a \in Ads : row[a] \in Verdicts =>
                   \E list \in lists[a] : row[a] = VerdictOf(text[a], list)
=============================================================================
