------------------------------ MODULE Catalogue ------------------------------
(***************************************************************************)
(* AdsCategoriesService, AdvertisementService.create as far as the         *)
(* category and the owner go, FavouriteService and the deletion of users,  *)
(* with the tables Category, Advertisement, Favourite and the join table   *)
(* of the last two.                                                        *)
(*                                                                         *)
(* A request reads outside of any transaction and then writes in one       *)
(* statement, where PostgreSQL checks its indexes and foreign keys; only   *)
(* an advertisement is inserted in a transaction that stays open, which    *)
(* keeps its category and its owner from being deleted.  A request that is *)
(* refused before it writes changes nothing and is no step.  The verdicts  *)
(* on advertisements come from AdModeration.                               *)
(***************************************************************************)
CONSTANTS Requests,
          Users, Cats, Names, Ads,
          OwnerOf,        \* who posts each advertisement
          NoCat, NoName, NoAd, NoUser,
          Kept            \* a field that an update does not write

ASSUME OwnerAssumption == OwnerOf \in [Ads -> Users]
ASSUME NoCatAssumption == NoCat \notin Cats
ASSUME NoNameAssumption == NoName \notin Names
ASSUME KeptAssumption == Kept \notin Names \union Cats \union {NoCat, NoName}

VARIABLES users,       \* the User table
          cats,        \* the Category table
          ads,         \* the Advertisement table
          lists,       \* users with a row in the table Favourite
          favourites,  \* the join table: a user's list and an advertisement
          moved,       \* categories whose parent an update has written
          req          \* the requests

shelfVars == <<users, cats, ads, favourites>>
vars == <<shelfVars, lists, moved, req>>

Verdicts  == {"active", "moderationRejected"}
\* "inserted" rows are not committed.
AdStates  == {"unused", "inserted", "onModeration"} \union Verdicts
Fields    == [name : Names \union {NoName, Kept}, parent : Cats \union {NoCat, Kept}]
Kinds     == {"none", "add", "change", "drop", "place", "favour", "unfavour"}
Stages    == {"idle", "reading", "checked", "inserted"}
Reads     == {"ad", "list"}

\* found: what a request of the kinds "favour" and "unfavour" has read.
RequestRows == [kind : Kinds, at : Stages, cat : Cats \union {NoCat}, fields : Fields,
                ad : Ads \union {NoAd}, user : Users \union {NoUser}, found : SUBSET Reads]

NewCategory == [state |-> "unused", name |-> NoName, parent |-> NoCat]
NewAd       == [status |-> "unused", category |-> NoCat]
NoFields    == [name |-> NoName, parent |-> NoCat]
Idle == [kind |-> "none", at |-> "idle", cat |-> NoCat, fields |-> NoFields,
         ad |-> NoAd, user |-> NoUser, found |-> {}]

TypeOK ==
  /\ users \in SUBSET Users
  /\ cats \in [Cats -> [state : {"unused", "live", "gone"}, name : Names \union {NoName},
                        parent : Cats \union {NoCat}]]
  /\ ads \in [Ads -> [status : AdStates, category : Cats \union {NoCat}]]
  /\ lists \in SUBSET Users
  /\ favourites \in SUBSET (Users \X Ads)
  /\ moved \in SUBSET Cats
  /\ req \in [Requests -> RequestRows]

Init ==
  /\ users = Users
  /\ cats = [c \in Cats |-> NewCategory]
  /\ ads = [a \in Ads |-> NewAd]
  /\ lists = {}
  /\ favourites = {}
  /\ moved = {}
  /\ req = [r \in Requests |-> Idle]

-----------------------------------------------------------------------------

Live(c)    == cats[c].state = "live"
Parent(p)  == p = NoCat \/ (p \in Cats /\ Live(p))
Posted(a)  == ads[a].status \in {"onModeration"} \union Verdicts
Pending(a) == ads[a].status = "inserted"

\* findCategoryByName finds nothing.
Unnamed(n) == \A d \in Cats : Live(d) => cats[d].name # n

\* The index on Category.name, as a write of the row c meets it.
\* Mutant: the index is missing.
Free_NoIndex(n, c) == TRUE

Free(n, c) == \A d \in Cats \ {c} : Live(d) => cats[d].name # n

Becomes(r, request) == req' = [req EXCEPT ![r] = request]

Starts(r, request) ==
  /\ req[r].at = "idle"
  /\ Becomes(r, request)
  /\ UNCHANGED <<shelfVars, lists, moved>>

Is(r, kind, stage) == req[r].kind = kind /\ req[r].at = stage

Replies(r) == Becomes(r, Idle)

\* The request is refused, or its statement fails.
Refused(r) == Replies(r) /\ UNCHANGED <<shelfVars, lists, moved>>

-----------------------------------------------------------------------------
(* AdsCategoriesService                                                    *)

CategoryRequest(kind, c, f) ==
  [Idle EXCEPT !.kind = kind, !.at = "checked", !.cat = c, !.fields = f]

\* validateAndFindCategory
CheckCreate(r, n, p) ==
  /\ Unnamed(n) /\ Parent(p)
  /\ Starts(r, CategoryRequest("add", NoCat, [name |-> n, parent |-> p]))

CreateCategory(r) ==
  LET f == req[r].fields
      May(c) == cats[c] = NewCategory /\ Free(f.name, c) /\ Parent(f.parent) IN
  /\ Is(r, "add", "checked")
  /\ \/ \E c \in Cats :
          /\ May(c)
          /\ cats' = [cats EXCEPT ![c] = [state |-> "live", name |-> f.name,
                                          parent |-> f.parent]]
          /\ Replies(r)
          /\ UNCHANGED <<users, ads, favourites, lists, moved>>
     \/ (\A c \in Cats : ~ May(c)) /\ Refused(r)

\* minimizeUpdates drops what would not change; the parent is looked up, its
\* own ancestors are not.
CheckUpdate(r, c, n, p) ==
  /\ Live(c)
  /\ n # Kept => n # cats[c].name /\ Unnamed(n)
  /\ p # Kept => p # cats[c].parent /\ Parent(p)
  /\ Starts(r, CategoryRequest("change", c, [name |-> n, parent |-> p]))

\* Mutant: what minimizeUpdates dropped is written as missing.
Written_Raw(field, old) == field

Written(field, old) == IF field = Kept THEN old ELSE field

UpdateCategory(r) ==
  LET c == req[r].cat
      f == req[r].fields
      name == Written(f.name, cats[c].name)
      parent == Written(f.parent, cats[c].parent) IN
  /\ Is(r, "change", "checked")
  /\ IF Live(c) /\ Free(name, c) /\ Parent(parent)
     THEN /\ cats' = [cats EXCEPT ![c] = [state |-> "live", name |-> name,
                                          parent |-> parent]]
          /\ moved' = IF f.parent = Kept THEN moved ELSE moved \union {c}
          /\ Replies(r)
          /\ UNCHANGED <<users, ads, favourites, lists>>
     ELSE Refused(r)

CheckRemove(r, c) ==
  /\ Live(c)
  /\ Starts(r, CategoryRequest("drop", c, NoFields))

\* Mutant: the children of a removed category move up to its parent.
Orphan_MovesUp(d, c) == IF cats[d].parent = c THEN cats[c].parent ELSE cats[d].parent

\* Category.parent is SET NULL.
Orphan(d, c) == IF cats[d].parent = c THEN NoCat ELSE cats[d].parent

\* Mutant: an insert in progress does not lock its category.
LockedByInsert_Not(c) == FALSE

LockedByInsert(c) == \E a \in Ads : Pending(a) /\ ads[a].category = c

\* Advertisement.category is RESTRICT.
InUse(c) == \E a \in Ads : Posted(a) /\ ads[a].category = c

\* The statement waits for the locks on the row.
DeleteCategory(r) ==
  LET c == req[r].cat IN
  /\ Is(r, "drop", "checked")
  /\ ~ LockedByInsert(c)
  /\ IF Live(c) /\ ~ InUse(c)
     THEN /\ cats' = [d \in Cats |->
                        IF d = c THEN [NewCategory EXCEPT !.state = "gone"]
                        ELSE [cats[d] EXCEPT !.parent = Orphan(d, c)]]
          /\ Replies(r)
          /\ UNCHANGED <<users, ads, favourites, lists, moved>>
     ELSE Refused(r)

-----------------------------------------------------------------------------
(* AdvertisementService.create                                             *)

\* validateCategory
CheckCategory(r, u, c) ==
  /\ u \in users
  /\ Live(c)
  /\ Starts(r, [Idle EXCEPT !.kind = "place", !.at = "checked", !.cat = c, !.user = u])

\* saveAdvertisement; the advertisements that the model has for the user
\* may be used up.
InsertAd(r) ==
  LET u == req[r].user
      May(a) == /\ ads[a] = NewAd /\ OwnerOf[a] = u
                /\ u \in users /\ Live(req[r].cat) IN
  /\ Is(r, "place", "checked")
  /\ \/ \E a \in Ads :
          /\ May(a)
          /\ ads' = [ads EXCEPT ![a] = [status |-> "inserted", category |-> req[r].cat]]
          /\ Becomes(r, [req[r] EXCEPT !.at = "inserted", !.ad = a])
          /\ UNCHANGED <<users, cats, favourites, lists, moved>>
     \/ (\A a \in Ads : ~ May(a)) /\ Refused(r)

Ends(r, row) ==
  /\ Is(r, "place", "inserted")
  /\ ads' = [ads EXCEPT ![req[r].ad] = row]
  /\ Replies(r)
  /\ UNCHANGED <<users, cats, favourites, lists, moved>>

CommitAd(r) == Ends(r, [status |-> "onModeration", category |-> req[r].cat])

\* The queue refuses the job, the transaction times out or the process dies:
\* there never was a row.
RollbackAd(r) == Ends(r, NewAd)

\* What AdModeration decides, now or when a job is redelivered.
Judge(a, verdict) ==
  /\ Posted(a)
  /\ ads' = [ads EXCEPT ![a].status = verdict]
  /\ UNCHANGED <<users, cats, favourites, lists, moved, req>>

-----------------------------------------------------------------------------
(* FavouriteService                                                        *)

\* findAdvertisementById
FindAds(a) == ads[a].status = "active"

InFavourites(u, a) == <<u, a>> \in favourites

FavouriteRequest(kind, u, a, found) ==
  [Idle EXCEPT !.kind = kind, !.at = "reading", !.ad = a, !.user = u, !.found = found]

\* findAds, validateUserIsNotAdOwner
CheckFavour(r, u, a) ==
  /\ u \in users
  /\ FindAds(a)
  /\ OwnerOf[a] # u
  /\ Starts(r, FavouriteRequest("favour", u, a, {"ad"}))

Finds(r, what, stage) ==
  /\ Becomes(r, [req[r] EXCEPT !.at = stage, !.found = @ \union {what}])
  /\ UNCHANGED <<shelfVars, lists, moved>>

\* findFavouriteAdsForUser, checkAndThrowIfInFavourites
FindFavourite(r) ==
  LET u == req[r].user IN
  /\ Is(r, "favour", "reading")
  /\ CASE InFavourites(u, req[r].ad) -> Refused(r)
       [] u \in lists /\ ~ InFavourites(u, req[r].ad) -> Finds(r, "list", "checked")
       [] OTHER -> Finds(r, "ad", "checked")

\* Mutant: the list is set to what was read and the new advertisement.
Connect_Set(u, a) == {f \in favourites : f[1] # u} \union {<<u, a>>}

Connect(u, a) == favourites \union {<<u, a>>}

\* addAdToFavourites, or createFavouriteForUser when no list was found.
SaveFavourite(r) ==
  LET u == req[r].user
      found == "list" \in req[r].found IN
  /\ Is(r, "favour", "checked")
  /\ IF (found /\ u \in lists) \/ (~ found /\ u \in users \ lists)
     THEN /\ favourites' = Connect(u, req[r].ad)
          /\ lists' = lists \union {u}
          /\ Replies(r)
          /\ UNCHANGED <<users, cats, ads, moved>>
     ELSE Refused(r)

CheckUnfavour(r, u, a) ==
  /\ u \in users
  /\ Starts(r, FavouriteRequest("unfavour", u, a, {}))

\* findAdvertisementAndFavourite reads both at once, in either order.
FindForRemoval(r, what) ==
  /\ Is(r, "unfavour", "reading")
  /\ what \in Reads \ req[r].found
  /\ IF CASE what = "ad"   -> FindAds(req[r].ad)
          [] what = "list" -> InFavourites(req[r].user, req[r].ad)
     THEN Finds(r, what, "reading")
     ELSE Refused(r)

\* deteleAdsByFavourite
RemoveFavourite(r) ==
  /\ Is(r, "unfavour", "reading")
  /\ req[r].found = Reads
  /\ IF req[r].user \in lists
     THEN /\ favourites' = favourites \ {<<req[r].user, req[r].ad>>}
          /\ Replies(r)
          /\ UNCHANGED <<users, cats, ads, lists, moved>>
     ELSE Refused(r)

-----------------------------------------------------------------------------

\* Advertisement.user is RESTRICT; the list of the user cascades.
DeleteUser(u) ==
  /\ u \in users
  /\ \A a \in Ads : Posted(a) \/ Pending(a) => OwnerOf[a] # u
  /\ users' = users \ {u}
  /\ lists' = lists \ {u}
  /\ favourites' = {f \in favourites : f[1] # u}
  /\ UNCHANGED <<cats, ads, moved, req>>

\* A call of a request fails before anything is written.
Fail(r) == req[r].at \in {"reading", "checked"} /\ Refused(r)

Check(r) ==
  \/ \E c \in Cats : \/ CheckRemove(r, c)
                     \/ \E u \in Users : CheckCategory(r, u, c)
                     \/ \E n \in Names \union {Kept}, p \in Cats \union {NoCat, Kept} :
                          CheckUpdate(r, c, n, p)
  \/ \E n \in Names, p \in Cats \union {NoCat} : CheckCreate(r, n, p)
  \/ \E u \in Users, a \in Ads : CheckFavour(r, u, a) \/ CheckUnfavour(r, u, a)

Proceed(r) ==
  \/ CreateCategory(r) \/ UpdateCategory(r) \/ DeleteCategory(r)
  \/ InsertAd(r) \/ CommitAd(r) \/ RollbackAd(r)
  \/ FindFavourite(r) \/ SaveFavourite(r)
  \/ \E what \in Reads : FindForRemoval(r, what)
  \/ RemoveFavourite(r)

Next ==
  \/ \E r \in Requests : Check(r) \/ Proceed(r) \/ Fail(r)
  \/ \E a \in Ads, verdict \in Verdicts : Judge(a, verdict)
  \/ \E u \in Users : DeleteUser(u)

Spec == Init /\ [][Next]_vars

-----------------------------------------------------------------------------
(* Properties                                                              *)

\* Every advertisement, committed or not, has an existing category and owner,
\* whatever removal ran beside AdvertisementService.create.
AdsHaveCategory ==
  \A a \in Ads : Posted(a) \/ Pending(a) =>
    ads[a].category \in {c \in Cats : Live(c)} /\ OwnerOf[a] \in users

\* Categories whose parent no update has written hang together as trees: any
\* set of them has one whose parent is outside of it.  update itself lets a
\* category move below its own child.
NoLoops ==
  \A S \in SUBSET {c \in Cats \ moved : Live(c)} :
    S # {} => \E c \in S : cats[c].parent \notin S

\* An advertisement leaves a list by a request to remove it or with the user;
\* no other request that works on a list it read before takes it off.
LeavesOnRequest ==
  [][\A f \in favourites \ favourites' :
       \/ f[1] \notin users'
       \/ \E r \in Requests : /\ req[r].kind = "unfavour" /\ req'[r].at = "idle"
                              /\ req[r].user = f[1] /\ req[r].ad = f[2]]_vars

Committed == INSTANCE Shelves WITH
  ads <- [a \in Ads |-> IF Pending(a) THEN NewAd ELSE ads[a]]

\* What the database holds are the shelves of Shelves: requests act on rows
\* they read before, the indexes and foreign keys decide.
Promise == Committed!ShelvesSpec

=============================================================================
