------------------------------- MODULE Shelves -------------------------------
(***************************************************************************)
(* What the catalogue promises to those who read it from the database.     *)
(* Categories differ by name, and a parent exists.  An advertisement is in *)
(* an existing category and has an existing owner, so neither can go       *)
(* before it.  A list of favourites has judged advertisements of others on *)
(* it, and gains or loses them one by one.  Each operation is one step.    *)
(***************************************************************************)
CONSTANTS Users, Cats, Names, Ads,
          OwnerOf,        \* who posts each advertisement
          NoCat, NoName

VARIABLES users,       \* the accounts
          cats,        \* the Category table
          ads,         \* the Advertisement table
          favourites   \* user and advertisement on the user's list

shelfVars == <<users, cats, ads, favourites>>

Verdicts == {"active", "moderationRejected"}

NewCategory == [state |-> "unused", name |-> NoName, parent |-> NoCat]
NewAd       == [status |-> "unused", category |-> NoCat]

Live(c)      == cats[c].state = "live"
\* the unique index on the name, as the category c meets it
Free(n, c)   == \A d \in Cats \ {c} : Live(d) => cats[d].name # n
Parent(p)    == p = NoCat \/ (p \in Cats /\ Live(p))
Posted(a)    == ads[a].status \in {"onModeration"} \union Verdicts
AdsIn(c)     == {a \in Ads : Posted(a) /\ ads[a].category = c}
AdsOf(u)     == {a \in Ads : Posted(a) /\ OwnerOf[a] = u}

ShelvesInit ==
  /\ users = Users
  /\ cats = [c \in Cats |-> NewCategory]
  /\ ads = [a \in Ads |-> NewAd]
  /\ favourites = {}

Added(c, n, p) ==
  /\ cats[c] = NewCategory
  /\ Free(n, c) /\ Parent(p)
  /\ cats' = [cats EXCEPT ![c] = [state |-> "live", name |-> n, parent |-> p]]
  /\ UNCHANGED <<users, ads, favourites>>

Changed(c, n, p) ==
  /\ Live(c)
  /\ Free(n, c) /\ Parent(p)
  /\ cats' = [cats EXCEPT ![c] = [state |-> "live", name |-> n, parent |-> p]]
  /\ UNCHANGED <<users, ads, favourites>>

\* The children become roots.
Removed(c) ==
  /\ Live(c)
  /\ AdsIn(c) = {}
  /\ cats' = [d \in Cats |->
                IF d = c THEN [NewCategory EXCEPT !.state = "gone"]
                ELSE IF cats[d].parent = c THEN [cats[d] EXCEPT !.parent = NoCat]
                ELSE cats[d]]
  /\ UNCHANGED <<users, ads, favourites>>

Placed(a, c) ==
  /\ ads[a].status = "unused"
  /\ OwnerOf[a] \in users
  /\ Live(c)
  /\ ads' = [ads EXCEPT ![a] = [status |-> "onModeration", category |-> c]]
  /\ UNCHANGED <<users, cats, favourites>>

Judged(a, verdict) ==
  /\ Posted(a)
  /\ ads' = [ads EXCEPT ![a].status = verdict]
  /\ UNCHANGED <<users, cats, favourites>>

Favoured(u, a) ==
  /\ u \in users
  /\ ads[a].status \in Verdicts
  /\ OwnerOf[a] # u
  /\ favourites' = favourites \union {<<u, a>>}
  /\ UNCHANGED <<users, cats, ads>>

Unfavoured(u, a) ==
  /\ favourites' = favourites \ {<<u, a>>}
  /\ UNCHANGED <<users, cats, ads>>

Left(u) ==
  /\ AdsOf(u) = {}
  /\ users' = users \ {u}
  /\ favourites' = {f \in favourites : f[1] # u}
  /\ UNCHANGED <<cats, ads>>

ShelvesNext ==
  \/ \E c \in Cats :
       \/ \E n \in Names, p \in Cats \union {NoCat} : Added(c, n, p) \/ Changed(c, n, p)
       \/ Removed(c)
       \/ \E a \in Ads : Placed(a, c)
  \/ \E a \in Ads : \/ \E verdict \in Verdicts : Judged(a, verdict)
                    \/ \E u \in Users : Favoured(u, a) \/ Unfavoured(u, a)
  \/ \E u \in Users : Left(u)

ShelvesSpec == ShelvesInit /\ [][ShelvesNext]_shelfVars
-----------------------------------------------------------------------------
(* What it comes to                                                        *)

\* Two categories differ by name, whichever of add and rename came first.
NamesDiffer ==
  \A c, d \in Cats : Live(c) /\ Live(d) /\ cats[c].name = cats[d].name => c = d

\* No category is below one that was removed.
ParentsExist == \A c \in Cats : Live(c) => Parent(cats[c].parent)

\* A list belongs to a user there is and has judged advertisements of others.
ListsAreOfOthers ==
  \A f \in favourites : /\ f \in users \X Ads
                        /\ ads[f[2]].status \in Verdicts
                        /\ OwnerOf[f[2]] # f[1]
=============================================================================
