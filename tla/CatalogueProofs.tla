--------------------------- MODULE CatalogueProofs ---------------------------
(***************************************************************************)
(* Theorems of Catalogue.  IInv says what a request may rely on between    *)
(* the step that read a row and the one that writes: a judged              *)
(* advertisement stays judged, an uncommitted one is its request's alone,  *)
(* and the foreign keys hold for rows that are not committed as well.      *)
(***************************************************************************)
EXTENDS Catalogue, TLAPS

Inserting(r) == Is(r, "place", "inserted")

\* The parameters of a request fit its kind.
Sound(x) ==
  /\ x.kind = "add" => x.fields.name \in Names /\ x.fields.parent # Kept
  /\ x.kind = "change" => x.cat \in Cats /\ x.fields.name # NoName
  /\ x.kind = "drop" => x.cat \in Cats
  /\ x.kind = "place" => x.cat \in Cats /\ x.user \in Users
  /\ x.kind \in {"favour", "unfavour"} => x.ad \in Ads /\ x.user \in Users

\* What a request works on is still as it was read or inserted.
RequestOK(r) ==
  /\ Sound(req[r])
  /\ Inserting(r) => /\ req[r].ad \in Ads
                     /\ ads[req[r].ad] = [status |-> "inserted", category |-> req[r].cat]
  /\ req[r].kind = "favour" => /\ ads[req[r].ad].status \in Verdicts
                               /\ OwnerOf[req[r].ad] # req[r].user

Exclusive(q, r) == Inserting(q) /\ Inserting(r) => req[q].ad # req[r].ad

CatOK(c) ==
  /\ Live(c) => cats[c].name \in Names
  /\ cats[c].parent # NoCat => Live(cats[c].parent)

Relations ==
  /\ \A r \in Requests : RequestOK(r)
  /\ \A q, r \in Requests : q # r => Exclusive(q, r)
  /\ \A c \in Cats : CatOK(c)
  /\ AdsHaveCategory
  /\ lists \subseteq users

IInv == TypeOK /\ Relations /\ NoLoops

-----------------------------------------------------------------------------
(* Steps                                                                   *)

\* The requests other than r stay as they are.
LEMMA OthersKept ==
  ASSUME TypeOK, NEW r \in Requests, NEW x, Becomes(r, x)
  PROVE  /\ req'[r] = x
         /\ \A q \in Requests \ {r} : req'[q] = req[q]
  BY DEF TypeOK, Becomes

\* What one request does to the other ones, if it leaves their rows alone.
LEMMA RequestsKept ==
  ASSUME IInv, NEW r \in Requests, NEW x \in RequestRows, Becomes(r, x),
         RequestOK(r)',
         \A a \in Ads : ads'[a] = ads[a] \/ ads[a] = NewAd \/ (Inserting(r) /\ req[r].ad = a),
         x.kind = "place" /\ x.at = "inserted" => ads[x.ad] = NewAd
  PROVE  /\ \A q \in Requests : RequestOK(q)'
         /\ \A q, s \in Requests : q # s => Exclusive(q, s)'
         /\ req' \in [Requests -> RequestRows]
<1>0. TypeOK /\ Relations
  BY DEF IInv
<1>1. req'[r] = x /\ \A q \in Requests \ {r} : req'[q] = req[q]
  BY <1>0, OthersKept
<1>2. \A q \in Requests \ {r} : Inserting(q)' <=> Inserting(q)
  BY <1>1 DEF Inserting, Is
<1>3. ASSUME NEW q \in Requests \ {r} PROVE RequestOK(q)'
  <2>1. RequestOK(q) /\ Exclusive(q, r)
    BY <1>0 DEF Relations
  <2>2. Inserting(q) => ads'[req[q].ad] = ads[req[q].ad]
    BY <2>1 DEF RequestOK, Exclusive, NewAd
  <2>3. req[q].kind = "favour" => ads'[req[q].ad] = ads[req[q].ad]
    <3> SUFFICES ASSUME req[q].kind = "favour" PROVE ads'[req[q].ad] = ads[req[q].ad]
      OBVIOUS
    <3>1. req[q].ad \in Ads /\ ads[req[q].ad].status \in Verdicts
      BY <2>1 DEF RequestOK, Sound
    <3>2. ads[req[q].ad] # NewAd
      BY <3>1 DEF NewAd, Verdicts
    <3>3. RequestOK(r)
      BY <1>0 DEF Relations
    <3>4. Inserting(r) => ads[req[r].ad].status = "inserted"
      BY <3>3 DEF RequestOK
    <3> QED
      BY <3>1, <3>2, <3>4 DEF Verdicts
  <2> QED
    BY <1>1, <1>2, <2>1, <2>2, <2>3 DEF RequestOK
<1>4. ASSUME NEW q \in Requests \ {r} PROVE Exclusive(q, r)' /\ Exclusive(r, q)'
  <2>1. RequestOK(q)
    BY <1>0 DEF Relations
  <2>2. Inserting(q) => ads[req[q].ad] # NewAd
    BY <2>1 DEF RequestOK, NewAd
  <2> QED
    BY <1>1, <1>2, <2>2 DEF Exclusive, Inserting, Is
<1>5. ASSUME NEW q \in Requests \ {r}, NEW s \in Requests \ {r}, q # s PROVE Exclusive(q, s)'
  BY <1>0, <1>1, <1>2, <1>5 DEF Relations, Exclusive
<1>6. req' \in [Requests -> RequestRows]
  BY <1>0 DEF TypeOK, Becomes
<1> QED
  BY <1>3, <1>4, <1>5, <1>6

\* A step that only changes what a request knows.
LEMMA ReadKeeps ==
  ASSUME IInv, NEW r \in Requests, NEW x \in RequestRows, Becomes(r, x), RequestOK(r)',
         ~ (x.kind = "place" /\ x.at = "inserted"), UNCHANGED <<shelfVars, lists, moved>>
  PROVE  IInv'
<1>1. UNCHANGED <<users, cats, ads, favourites, lists, moved>>
  BY DEF shelfVars
<1>2. /\ \A q \in Requests : RequestOK(q)'
      /\ \A q, s \in Requests : q # s => Exclusive(q, s)'
      /\ req' \in [Requests -> RequestRows]
  BY <1>1, RequestsKept
<1> QED
  BY <1>1, <1>2 DEF IInv, TypeOK, Relations, CatOK, Live, AdsHaveCategory, Posted, Pending, NoLoops

\* A request that is over.
LEMMA IdleOK ==
  /\ Idle \in RequestRows
  /\ \A r \in Requests : req'[r] = Idle => RequestOK(r)'
  BY DEF Idle, NoFields, RequestRows, Fields, Kinds, Stages, Reads, RequestOK, Sound, Inserting, Is

LEMMA RefusedKeeps ==
  ASSUME IInv, NEW r \in Requests, Refused(r)
  PROVE  IInv'
<1>1. req'[r] = Idle
  BY OthersKept DEF IInv, Refused, Replies
<1> QED
  BY <1>1, IdleOK, ReadKeeps DEF Refused, Replies, Idle

\* A request that starts, other than for a favourite.
LEMMA StartsKeeps ==
  ASSUME IInv, NEW r \in Requests, NEW x \in RequestRows, Starts(r, x), Sound(x),
         x.kind # "favour", x.at # "inserted"
  PROVE  IInv'
<1>1. Becomes(r, x) /\ UNCHANGED <<shelfVars, lists, moved>> /\ req'[r] = x
  BY OthersKept DEF IInv, Starts
<1>2. RequestOK(r)'
  BY <1>1 DEF RequestOK, Inserting, Is
<1> QED
  BY <1>1, <1>2, ReadKeeps

\* Every look-up that a request starts with.
LEMMA CheckKeeps ==
  ASSUME IInv, NEW r \in Requests, Check(r)
  PROVE  IInv'
<1>0. TypeOK /\ Relations
  BY DEF IInv
<1>t. /\ "checked" \in Stages /\ "reading" \in Stages /\ {} \in SUBSET Reads /\ {"ad"} \in SUBSET Reads
      /\ NoFields \in Fields
      /\ {"add", "change", "drop", "place", "favour", "unfavour"} \subseteq Kinds
  BY DEF Stages, Reads, NoFields, Fields, Kinds
<1>2. ASSUME NEW c \in Cats, CheckRemove(r, c) PROVE IInv'
  <2> DEFINE x == CategoryRequest("drop", c, NoFields)
  <2>1. x \in RequestRows /\ Sound(x) /\ x.kind = "drop" /\ x.at = "checked"
    BY <1>t DEF CategoryRequest, Idle, RequestRows, Sound
  <2> HIDE DEF x
  <2> QED
    BY <1>2, <2>1, StartsKeeps DEF CheckRemove, x
<1>3. ASSUME NEW c \in Cats, NEW u \in Users, CheckCategory(r, u, c) PROVE IInv'
  <2> DEFINE x == [Idle EXCEPT !.kind = "place", !.at = "checked", !.cat = c, !.user = u]
  <2>1. x \in RequestRows /\ Sound(x) /\ x.kind = "place" /\ x.at = "checked"
    BY <1>t DEF Idle, RequestRows, Sound
  <2>2. Starts(r, x)
    BY <1>3 DEF CheckCategory
  <2> HIDE DEF x
  <2> QED
    BY <2>1, <2>2, StartsKeeps
<1>4. ASSUME NEW c \in Cats, NEW n \in Names \union {Kept}, NEW p \in Cats \union {NoCat, Kept},
             CheckUpdate(r, c, n, p)
      PROVE  IInv'
  <2> DEFINE f == [name |-> n, parent |-> p]
             x == CategoryRequest("change", c, f)
  <2>1. f \in Fields /\ f.name # NoName
    BY KeptAssumption, NoNameAssumption DEF Fields
  <2>2. Starts(r, x)
    BY <1>4 DEF CheckUpdate
  <2> HIDE DEF f
  <2>3. x \in RequestRows /\ Sound(x) /\ x.kind = "change" /\ x.at = "checked"
    BY <1>t, <2>1 DEF CategoryRequest, Idle, RequestRows, Sound
  <2> HIDE DEF x
  <2> QED
    BY <2>2, <2>3, StartsKeeps
<1>5. ASSUME NEW n \in Names, NEW p \in Cats \union {NoCat}, CheckCreate(r, n, p)
      PROVE  IInv'
  <2> DEFINE f == [name |-> n, parent |-> p]
             x == CategoryRequest("add", NoCat, f)
  <2>1. f \in Fields /\ f.name \in Names /\ f.parent # Kept
    BY KeptAssumption DEF Fields
  <2>2. Starts(r, x)
    BY <1>5 DEF CheckCreate
  <2> HIDE DEF f
  <2>3. x \in RequestRows /\ Sound(x) /\ x.kind = "add" /\ x.at = "checked"
    BY <1>t, <2>1 DEF CategoryRequest, Idle, RequestRows, Sound
  <2> HIDE DEF x
  <2> QED
    BY <2>2, <2>3, StartsKeeps
<1>6. ASSUME NEW u \in Users, NEW a \in Ads, CheckFavour(r, u, a) PROVE IInv'
  <2> DEFINE x == FavouriteRequest("favour", u, a, {"ad"})
  <2>1. ads[a].status \in Verdicts /\ OwnerOf[a] # u /\ UNCHANGED ads
    BY <1>6 DEF CheckFavour, FindAds, Verdicts, Starts, shelfVars
  <2>2. x \in RequestRows /\ Sound(x) /\ x.kind = "favour" /\ x.user = u /\ x.ad = a
    BY <1>t DEF FavouriteRequest, Idle, RequestRows, Sound
  <2>3. Becomes(r, x) /\ UNCHANGED <<shelfVars, lists, moved>>
    BY <1>6 DEF CheckFavour, Starts
  <2> HIDE DEF x
  <2>4. RequestOK(r)'
    <3>1. req'[r] = x
      BY <1>0, <2>3, OthersKept
    <3> QED
      BY <2>1, <2>2, <3>1 DEF RequestOK, Inserting, Is
  <2> QED
    BY <2>2, <2>3, <2>4, ReadKeeps
<1>7. ASSUME NEW u \in Users, NEW a \in Ads, CheckUnfavour(r, u, a) PROVE IInv'
  <2> DEFINE x == FavouriteRequest("unfavour", u, a, {})
  <2>1. x \in RequestRows /\ Sound(x) /\ x.kind = "unfavour" /\ x.at = "reading"
    BY <1>t DEF FavouriteRequest, Idle, RequestRows, Sound
  <2>2. Starts(r, x)
    BY <1>7 DEF CheckUnfavour
  <2> HIDE DEF x
  <2> QED
    BY <2>1, <2>2, StartsKeeps
<1> QED
  BY <1>2, <1>3, <1>4, <1>5, <1>6, <1>7 DEF Check

-----------------------------------------------------------------------------
(* Categories                                                              *)

\* A write to the table Category that keeps what the other tables refer to.
LEMMA CategoryKeeps ==
  ASSUME IInv, NEW r \in Requests, Replies(r), UNCHANGED <<users, ads, favourites, lists>>,
         cats' \in [Cats -> [state : {"unused", "live", "gone"}, name : Names \union {NoName},
                             parent : Cats \union {NoCat}]],
         moved' \in SUBSET Cats,
         \A c \in Cats : CatOK(c)',
         \A a \in Ads : Posted(a) \/ Pending(a) => Live(ads[a].category)',
         NoLoops'
  PROVE  IInv'
<1>1. req'[r] = Idle /\ RequestOK(r)'
  BY OthersKept, IdleOK DEF IInv, Replies
<1>2. /\ \A q \in Requests : RequestOK(q)'
      /\ \A q, s \in Requests : q # s => Exclusive(q, s)'
      /\ req' \in [Requests -> RequestRows]
  BY <1>1, IdleOK, RequestsKept DEF Replies, Idle
<1> QED
  BY <1>2 DEF IInv, TypeOK, Relations, AdsHaveCategory, Posted, Pending, Live

\* Creation: no category can have the new one as its parent.
LEMMA CreateKeeps ==
  ASSUME IInv, NEW r \in Requests, CreateCategory(r)
  PROVE  IInv'
<1>0. TypeOK /\ Relations /\ RequestOK(r)
  BY DEF IInv, Relations
<1> DEFINE f == req[r].fields
           new == [state |-> "live", name |-> f.name, parent |-> f.parent]
<1>1. ASSUME NEW c \in Cats, cats[c] = NewCategory, Parent(f.parent),
             cats' = [cats EXCEPT ![c] = new],
             Replies(r), UNCHANGED <<users, ads, favourites, lists, moved>>
      PROVE  IInv'
  <2>1. f.name \in Names /\ f.parent \in Cats \union {NoCat}
    BY <1>0, <1>1, KeptAssumption DEF CreateCategory, Is, RequestOK, Sound, Parent
  <2>2. /\ cats'[c] = new /\ \A d \in Cats \ {c} : cats'[d] = cats[d]
        /\ ~ Live(c)
    BY <1>0, <1>1 DEF TypeOK, NewCategory, Live
  <2>3. cats' \in [Cats -> [state : {"unused", "live", "gone"}, name : Names \union {NoName},
                            parent : Cats \union {NoCat}]]
    BY <1>0, <1>1, <2>1 DEF TypeOK
  <2>4. \A d \in Cats : cats[d].parent # c /\ (Live(d) => Live(d)')
    BY <1>0, <2>2, NoCatAssumption DEF Relations, CatOK, Live
  <2>5. \A d \in Cats : CatOK(d)'
    BY <1>0, <1>1, <2>1, <2>2, <2>4, NoCatAssumption DEF Relations, CatOK, Live, Parent
  <2>6. \A a \in Ads : Posted(a) \/ Pending(a) => Live(ads[a].category)'
    BY <1>0, <1>1, <2>2 DEF Relations, AdsHaveCategory, Live, Posted, Pending, TypeOK
  <2>7. NoLoops'
    <3> SUFFICES ASSUME NEW S \in SUBSET {d \in Cats \ moved : Live(d)'}, S # {}
                 PROVE  \E d \in S : cats'[d].parent \notin S
      BY <1>1 DEF NoLoops
    <3> DEFINE T == S \ {c}
    <3>1. T \in SUBSET {d \in Cats \ moved : Live(d)}
      BY <2>2 DEF Live
    <3>2. CASE T = {}
      <4>1. c \in S /\ f.parent # c
        BY <1>1, <2>2, <3>2, NoCatAssumption DEF Parent
      <4> QED
        BY <2>2, <3>2, <4>1
    <3>3. CASE T # {}
      <4>1. PICK d \in T : cats[d].parent \notin T
        BY <3>1, <3>3 DEF IInv, NoLoops
      <4> QED
        BY <2>2, <2>4, <4>1
    <3> QED
      BY <3>2, <3>3
  <2>8. moved' \in SUBSET Cats
    BY <1>0, <1>1 DEF TypeOK
  <2> QED
    BY <1>1, <2>3, <2>5, <2>6, <2>7, <2>8, CategoryKeeps
<1> QED
  BY <1>1, RefusedKeeps DEF CreateCategory

\* A category that is moved drops out of what NoLoops is about.
LEMMA UpdateKeeps ==
  ASSUME IInv, NEW r \in Requests, UpdateCategory(r)
  PROVE  IInv'
<1>0. TypeOK /\ Relations /\ RequestOK(r)
  BY DEF IInv, Relations
<1> DEFINE c == req[r].cat
           f == req[r].fields
           name == Written(f.name, cats[c].name)
           parent == Written(f.parent, cats[c].parent)
           new == [state |-> "live", name |-> name, parent |-> parent]
<1>1. CASE /\ Live(c) /\ Parent(parent)
           /\ cats' = [cats EXCEPT ![c] = new]
           /\ moved' = IF f.parent = Kept THEN moved ELSE moved \union {c}
           /\ Replies(r)
           /\ UNCHANGED <<users, ads, favourites, lists>>
  <2>1. c \in Cats /\ f \in Fields /\ f.name # NoName
    BY <1>0 DEF UpdateCategory, Is, RequestOK, Sound, TypeOK, RequestRows
  <2>2. name \in Names /\ parent \in Cats \union {NoCat}
    BY <1>0, <1>1, <2>1 DEF Fields, Relations, CatOK, Parent, Written
  <2>3. /\ cats'[c] = new /\ \A d \in Cats \ {c} : cats'[d] = cats[d]
        /\ \A d \in Cats : Live(d)' <=> Live(d)
    BY <1>0, <1>1, <2>1 DEF TypeOK, Live
  <2>4. cats' \in [Cats -> [state : {"unused", "live", "gone"}, name : Names \union {NoName},
                            parent : Cats \union {NoCat}]]
    BY <1>0, <1>1, <2>2 DEF TypeOK
  <2>5. \A d \in Cats : CatOK(d)'
    BY <1>0, <1>1, <2>1, <2>2, <2>3 DEF Relations, CatOK, Parent, Live
  <2>6. \A a \in Ads : Posted(a) \/ Pending(a) => Live(ads[a].category)'
    BY <1>0, <1>1, <2>1, <2>3 DEF Relations, AdsHaveCategory, Live, Posted, Pending, TypeOK
  <2>7. /\ moved' \in SUBSET Cats /\ moved \subseteq moved'
        /\ \A d \in Cats \ moved' : cats'[d].parent = cats[d].parent
    BY <1>0, <1>1, <2>1, <2>3 DEF TypeOK, Written
  <2>8. NoLoops'
    <3> SUFFICES ASSUME NEW S \in SUBSET {d \in Cats \ moved' : Live(d)'}, S # {}
                 PROVE  \E d \in S : cats'[d].parent \notin S
      BY DEF NoLoops
    <3>1. S \in SUBSET {d \in Cats \ moved : Live(d)}
      BY <2>3, <2>7
    <3>2. PICK d \in S : cats[d].parent \notin S
      BY <3>1 DEF IInv, NoLoops
    <3> QED
      BY <2>7, <3>2
  <2> QED
    BY <1>1, <2>4, <2>5, <2>6, <2>7, <2>8, CategoryKeeps
<1> QED
  BY <1>1, RefusedKeeps DEF UpdateCategory

\* The children of a category that goes are roots.
LEMMA DeleteKeeps ==
  ASSUME IInv, NEW r \in Requests, DeleteCategory(r)
  PROVE  IInv'
<1>0. TypeOK /\ Relations /\ RequestOK(r)
  BY DEF IInv, Relations
<1> DEFINE c == req[r].cat
<1>1. CASE /\ ~ LockedByInsert(c) /\ Live(c) /\ ~ InUse(c)
           /\ cats' = [d \in Cats |->
                         IF d = c THEN [NewCategory EXCEPT !.state = "gone"]
                         ELSE [cats[d] EXCEPT !.parent = Orphan(d, c)]]
           /\ Replies(r)
           /\ UNCHANGED <<users, ads, favourites, lists, moved>>
  <2>1. c \in Cats
    BY <1>0 DEF DeleteCategory, Is, RequestOK, Sound
  <2>2. cats'[c] = [state |-> "gone", name |-> NoName, parent |-> NoCat]
    BY <1>1, <2>1 DEF NewCategory
  <2>3. \A d \in Cats \ {c} :
          /\ cats'[d].state = cats[d].state /\ cats'[d].name = cats[d].name
          /\ cats'[d].parent = IF cats[d].parent = c THEN NoCat ELSE cats[d].parent
          /\ cats'[d] \in [state : {"unused", "live", "gone"}, name : Names \union {NoName},
                           parent : Cats \union {NoCat}]
    BY <1>0, <1>1 DEF TypeOK, Orphan
  <2>4. cats' \in [Cats -> [state : {"unused", "live", "gone"}, name : Names \union {NoName},
                            parent : Cats \union {NoCat}]]
    BY <1>1, <2>2, <2>3
  <2>5. \A d \in Cats : CatOK(d)'
    BY <1>0, <2>2, <2>3, NoCatAssumption, <2>1 DEF Relations, CatOK, Live
  <2>6. \A a \in Ads : Posted(a) \/ Pending(a) => Live(ads[a].category)'
    <3> SUFFICES ASSUME NEW a \in Ads, Posted(a) \/ Pending(a) PROVE Live(ads[a].category)'
      OBVIOUS
    <3>1. Live(ads[a].category) /\ ads[a].category # c
      BY <1>0, <1>1 DEF Relations, AdsHaveCategory, InUse, LockedByInsert
    <3>2. ads[a].category \in Cats
      BY <1>0 DEF Relations, AdsHaveCategory
    <3> QED
      BY <1>1, <2>3, <3>1, <3>2 DEF Live
  <2>7. NoLoops'
    <3> SUFFICES ASSUME NEW S \in SUBSET {d \in Cats \ moved : Live(d)'}, S # {}
                 PROVE  \E d \in S : cats'[d].parent \notin S
      BY <1>1 DEF NoLoops
    <3>1. S \in SUBSET {d \in Cats \ moved : Live(d)} /\ c \notin S
      <4>1. ASSUME NEW d \in S
            PROVE  d \in Cats \ moved /\ d # c /\ Live(d)
        BY <2>2, <2>3 DEF Live
      <4> QED  BY <4>1
    <3>2. PICK d \in S : cats[d].parent \notin S
      BY <3>1 DEF IInv, NoLoops
    <3>3. d \in Cats \ {c} /\ S \subseteq Cats
      BY <3>1, <3>2
    <3>4. cats'[d].parent = NoCat \/ cats'[d].parent = cats[d].parent
      BY <2>3, <3>3
    <3> QED
      BY <3>2, <3>3, <3>4, NoCatAssumption
  <2>8. moved' \in SUBSET Cats
    BY <1>0, <1>1 DEF TypeOK
  <2> QED
    BY <1>1, <2>4, <2>5, <2>6, <2>7, <2>8, CategoryKeeps
<1> QED
  BY <1>1, RefusedKeeps DEF DeleteCategory

-----------------------------------------------------------------------------
(* Advertisements                                                          *)

\* A write of one advertisement by the request that inserts it.
LEMMA AdKeeps ==
  ASSUME IInv, NEW r \in Requests, NEW x \in RequestRows, Becomes(r, x), NEW a \in Ads, NEW row,
         row \in [status : AdStates, category : Cats \union {NoCat}],
         ads' = [ads EXCEPT ![a] = row],
         UNCHANGED <<users, cats, favourites, lists, moved>>,
         ads[a] = NewAd \/ (Inserting(r) /\ req[r].ad = a),
         x.kind = "place" /\ x.at = "inserted" => ads[x.ad] = NewAd,
         RequestOK(r)',
         row = NewAd \/ (/\ row.category \in {c \in Cats : Live(c)} /\ OwnerOf[a] \in users)
  PROVE  IInv'
<1>0. TypeOK /\ Relations
  BY DEF IInv
<1>1. ads'[a] = row /\ \A b \in Ads \ {a} : ads'[b] = ads[b]
  BY <1>0 DEF TypeOK
<1>2. /\ \A q \in Requests : RequestOK(q)'
      /\ \A q, s \in Requests : q # s => Exclusive(q, s)'
      /\ req' \in [Requests -> RequestRows]
  BY <1>1, RequestsKept
<1>3. AdsHaveCategory'
  <2>1. row = NewAd => ~ (Posted(a)' \/ Pending(a)')
    BY <1>1 DEF Posted, Pending, NewAd, Verdicts
  <2> QED
    BY <1>0, <1>1, <2>1 DEF Relations, AdsHaveCategory, Posted, Pending, Live
<1>4. ads' \in [Ads -> [status : AdStates, category : Cats \union {NoCat}]]
  BY <1>0 DEF TypeOK
<1> QED
  BY <1>0, <1>2, <1>3, <1>4 DEF IInv, TypeOK, Relations, CatOK, Live, NoLoops

LEMMA InsertAdKeeps ==
  ASSUME IInv, NEW r \in Requests, InsertAd(r)
  PROVE  IInv'
<1>0. TypeOK /\ RequestOK(r)
  BY DEF IInv, Relations
<1>1. /\ Is(r, "place", "checked")
      /\ req[r].cat \in Cats /\ req[r].user \in Users /\ req[r] \in RequestRows
  BY <1>0 DEF InsertAd, Is, RequestOK, Sound, TypeOK
<1>2. ASSUME NEW a \in Ads, ads[a] = NewAd, OwnerOf[a] \in users, Live(req[r].cat),
             ads' = [ads EXCEPT ![a] = [status |-> "inserted", category |-> req[r].cat]],
             Becomes(r, [req[r] EXCEPT !.at = "inserted", !.ad = a]),
             UNCHANGED <<users, cats, favourites, lists, moved>>
      PROVE  IInv'
  <2> DEFINE x   == [req[r] EXCEPT !.at = "inserted", !.ad = a]
             row == [status |-> "inserted", category |-> req[r].cat]
  <2>1. /\ x \in RequestRows /\ x.kind = "place" /\ x.at = "inserted" /\ x.ad = a
        /\ x.cat = req[r].cat /\ x.user = req[r].user
    BY <1>1 DEF RequestRows, Stages, Is
  <2>2. row \in [status : AdStates, category : Cats \union {NoCat}]
    BY <1>1 DEF AdStates
  <2>3. req'[r] = x /\ ads'[a] = row
    BY <1>0, <1>2 DEF TypeOK, Becomes
  <2>4. ads' = [ads EXCEPT ![a] = row] /\ Becomes(r, x) /\ row.category \in Cats
        /\ row.category = req[r].cat
    BY <1>1, <1>2
  <2> HIDE DEF x
  <2>5. RequestOK(r)'
    BY <1>1, <2>1, <2>3 DEF RequestOK, Sound, Inserting, Is
  <2> HIDE DEF row
  <2> QED
    BY <1>1, <1>2, <2>1, <2>2, <2>4, <2>5, AdKeeps
<1> QED
  BY <1>2, RefusedKeeps DEF InsertAd

LEMMA EndsKeeps ==
  ASSUME IInv, NEW r \in Requests, CommitAd(r) \/ RollbackAd(r)
  PROVE  IInv'
<1>0. TypeOK /\ Relations /\ RequestOK(r)
  BY DEF IInv, Relations
<1>1. /\ Inserting(r) /\ req[r].ad \in Ads
      /\ ads[req[r].ad] = [status |-> "inserted", category |-> req[r].cat]
      /\ req[r].cat \in {c \in Cats : Live(c)} /\ OwnerOf[req[r].ad] \in users
  <2>1. Inserting(r)
    BY DEF CommitAd, RollbackAd, Ends, Inserting
  <2>2. req[r].ad \in Ads /\ ads[req[r].ad] = [status |-> "inserted", category |-> req[r].cat]
    BY <1>0, <2>1 DEF RequestOK
  <2>3. Pending(req[r].ad) /\ ads[req[r].ad].category = req[r].cat
    BY <2>2 DEF Pending
  <2> QED
    BY <1>0, <2>1, <2>2, <2>3 DEF Relations, AdsHaveCategory
<1>2. PICK row \in {NewAd, [status |-> "onModeration", category |-> req[r].cat]} : Ends(r, row)
  BY DEF CommitAd, RollbackAd
<1>3. /\ row \in [status : AdStates, category : Cats \union {NoCat}]
      /\ row = NewAd \/ row.category = req[r].cat
  BY <1>1 DEF NewAd, AdStates
<1>4. RequestOK(r)' /\ Idle \in RequestRows /\ Idle.kind = "none"
  <2>1. req'[r] = Idle
    BY <1>0, <1>2, OthersKept DEF Ends, Replies
  <2> QED
    BY <2>1, IdleOK DEF Idle
<1> QED
  BY <1>1, <1>2, <1>3, <1>4, AdKeeps DEF Ends, Replies

LEMMA JudgeKeeps ==
  ASSUME IInv, NEW a \in Ads, NEW verdict \in Verdicts, Judge(a, verdict)
  PROVE  IInv'
<1>0. TypeOK /\ Relations
  BY DEF IInv
<1>1. /\ ads'[a].status = verdict /\ ads'[a].category = ads[a].category
      /\ \A b \in Ads \ {a} : ads'[b] = ads[b]
      /\ ads' \in [Ads -> [status : AdStates, category : Cats \union {NoCat}]]
  BY <1>0 DEF Judge, TypeOK, AdStates
<1>2. ads[a].status \notin {"inserted"}
  BY DEF Judge, Posted, Verdicts
<1>3. ASSUME NEW r \in Requests PROVE RequestOK(r)'
  <2>1. RequestOK(r) /\ req' = req
    BY <1>0 DEF Relations, Judge
  <2>2. Inserting(r) => req[r].ad # a
    BY <1>2, <2>1 DEF RequestOK
  <2> QED
    BY <1>1, <2>1, <2>2 DEF RequestOK, Sound, Inserting, Is
<1>4. AdsHaveCategory'
  BY <1>0, <1>1 DEF Judge, Relations, AdsHaveCategory, Posted, Pending, Live
<1> QED
  BY <1>0, <1>1, <1>3, <1>4
     DEF Judge, IInv, TypeOK, Relations, Exclusive, Inserting, Is, CatOK, Live, NoLoops

-----------------------------------------------------------------------------
(* Favourites                                                              *)

\* A write to a list, which nothing else refers to.
LEMMA ListKeeps ==
  ASSUME IInv, NEW r \in Requests, Replies(r), UNCHANGED <<users, cats, ads, moved>>,
         favourites' \in SUBSET (Users \X Ads), lists' \subseteq users
  PROVE  IInv'
<1>1. req'[r] = Idle /\ RequestOK(r)'
  BY OthersKept, IdleOK DEF IInv, Replies
<1>2. /\ \A q \in Requests : RequestOK(q)'
      /\ \A q, s \in Requests : q # s => Exclusive(q, s)'
      /\ req' \in [Requests -> RequestRows]
  BY <1>1, IdleOK, RequestsKept DEF Replies, Idle
<1> QED
  BY <1>2 DEF IInv, TypeOK, Relations, CatOK, Live, AdsHaveCategory, Posted, Pending, NoLoops

\* A look-up on the way.
LEMMA FindsKeeps ==
  ASSUME IInv, NEW r \in Requests, NEW what \in Reads, NEW stage \in {"reading", "checked"},
         Finds(r, what, stage), req[r].kind \in {"favour", "unfavour"}
  PROVE  IInv'
<1>0. TypeOK /\ RequestOK(r) /\ req[r] \in RequestRows
  BY DEF IInv, Relations, TypeOK
<1> DEFINE x == [req[r] EXCEPT !.at = stage, !.found = @ \union {what}]
<1>1. /\ x \in RequestRows /\ x.kind = req[r].kind /\ x.ad = req[r].ad /\ x.user = req[r].user
      /\ x.kind # "place"
  BY <1>0 DEF RequestRows, Stages
<1>2. Becomes(r, x) /\ UNCHANGED <<shelfVars, lists, moved>>
  BY DEF Finds
<1> HIDE DEF x
<1>3. RequestOK(r)'
  <2>1. req'[r] = x /\ ads' = ads
    BY <1>0, <1>2, OthersKept DEF shelfVars
  <2> QED
    BY <1>0, <1>1, <2>1 DEF RequestOK, Sound, Inserting, Is
<1> QED
  BY <1>1, <1>2, <1>3, ReadKeeps

LEMMA FavouriteKeeps ==
  ASSUME IInv, NEW r \in Requests,
         \/ FindFavourite(r) \/ SaveFavourite(r) \/ RemoveFavourite(r)
         \/ \E what \in Reads : FindForRemoval(r, what)
  PROVE  IInv'
<1>0. TypeOK /\ RequestOK(r) /\ lists \subseteq users
  BY DEF IInv, Relations
<1>1. CASE FindFavourite(r)
  <2>1. Refused(r) \/ \E what \in Reads : Finds(r, what, "checked")
    BY <1>1 DEF FindFavourite, Reads
  <2>2. req[r].kind = "favour"
    BY <1>1 DEF FindFavourite, Is
  <2> QED
    BY <2>1, <2>2, RefusedKeeps, FindsKeeps
<1>2. ASSUME NEW what \in Reads, FindForRemoval(r, what) PROVE IInv'
  <2>1. (Refused(r) \/ Finds(r, what, "reading")) /\ req[r].kind = "unfavour"
    BY <1>2 DEF FindForRemoval, Is
  <2> QED
    BY <2>1, RefusedKeeps, FindsKeeps
<1>3. CASE SaveFavourite(r)
  <2>1. req[r].ad \in Ads /\ req[r].user \in Users
    BY <1>0, <1>3 DEF SaveFavourite, Is, RequestOK, Sound
  <2>2. CASE /\ req[r].user \in users
             /\ favourites' = Connect(req[r].user, req[r].ad)
             /\ lists' = lists \union {req[r].user}
             /\ Replies(r) /\ UNCHANGED <<users, cats, ads, moved>>
    BY <1>0, <2>1, <2>2, ListKeeps DEF TypeOK, Connect
  <2> QED
    BY <1>0, <1>3, <2>2, RefusedKeeps DEF SaveFavourite
<1>4. CASE RemoveFavourite(r)
  <2>1. CASE /\ favourites' \subseteq favourites
             /\ Replies(r) /\ UNCHANGED <<users, cats, ads, lists, moved>>
    BY <1>0, <2>1, ListKeeps DEF TypeOK
  <2> QED
    BY <1>4, <2>1, RefusedKeeps DEF RemoveFavourite
<1> QED
  BY <1>1, <1>2, <1>3, <1>4

-----------------------------------------------------------------------------

LEMMA DeleteUserKeeps ==
  ASSUME IInv, NEW u \in Users, DeleteUser(u)
  PROVE  IInv'
<1>0. TypeOK /\ Relations
  BY DEF IInv
<1>1. UNCHANGED <<cats, ads, moved, req>> /\ users' = users \ {u} /\ lists' = lists \ {u}
      /\ favourites' \subseteq favourites
  BY DEF DeleteUser
<1>2. AdsHaveCategory'
  BY <1>0, <1>1 DEF DeleteUser, Relations, AdsHaveCategory, Posted, Pending, Live
<1> QED
  BY <1>0, <1>1, <1>2 DEF IInv, TypeOK, Relations, RequestOK, Sound, Exclusive, Inserting, Is,
                          CatOK, Live, NoLoops

LEMMA InitHolds == Init => IInv
  BY KeptAssumption
     DEF Init, IInv, TypeOK, Relations, RequestOK, Sound, Exclusive, Inserting, Is, CatOK, Live,
         AdsHaveCategory, Posted, Pending, NoLoops, NewCategory, NewAd, AdStates, Verdicts,
         Idle, NoFields, RequestRows, Fields, Kinds, Stages, Reads

LEMMA StepKeeps == IInv /\ [Next]_vars => IInv'
<1> SUFFICES ASSUME IInv, [Next]_vars PROVE IInv'
  OBVIOUS
<1>1. ASSUME NEW r \in Requests, Check(r) \/ Proceed(r) \/ Fail(r) PROVE IInv'
  BY <1>1, CheckKeeps, CreateKeeps, UpdateKeeps, DeleteKeeps, InsertAdKeeps, EndsKeeps,
     FavouriteKeeps, RefusedKeeps DEF Proceed, Fail
<1>2. ASSUME NEW a \in Ads, NEW verdict \in Verdicts, Judge(a, verdict) PROVE IInv'
  BY <1>2, JudgeKeeps
<1>3. ASSUME NEW u \in Users, DeleteUser(u) PROVE IInv'
  BY <1>3, DeleteUserKeeps
<1>4. CASE UNCHANGED vars
  BY <1>4 DEF vars, shelfVars, IInv, TypeOK, Relations, RequestOK, Sound, Exclusive, Inserting, Is,
              CatOK, Live, AdsHaveCategory, Posted, Pending, NoLoops
<1> QED
  BY <1>1, <1>2, <1>3, <1>4 DEF Next

THEOREM Invariance == Spec => []IInv
<1> QED
  BY InitHolds, StepKeeps, PTL DEF Spec

\* Every value keeps its type.
THEOREM TypeCorrect == Spec => []TypeOK
<1>1. IInv => TypeOK
  BY DEF IInv
<1> QED
  BY <1>1, Invariance, PTL

\* No removal of a category or of a user leaves an advertisement behind,
\* committed or about to be.
THEOREM AdsKeepTheirCategory == Spec => []AdsHaveCategory
<1>1. IInv => AdsHaveCategory
  BY DEF IInv, Relations
<1> QED
  BY <1>1, Invariance, PTL

\* Loops of categories come from moves alone, however many categories there
\* are.
THEOREM OnlyMovesMakeLoops == Spec => []NoLoops
<1>1. IInv => NoLoops
  BY DEF IInv
<1> QED
  BY <1>1, Invariance, PTL

-----------------------------------------------------------------------------
(* Steps of the lists and of the tables                                    *)

\* An advertisement leaves a list on request or with the user.
THEOREM ListsShrinkOnRequest == Spec => LeavesOnRequest
<1> DEFINE Leaves == \A f \in favourites \ favourites' :
              \/ f[1] \notin users'
              \/ \E r \in Requests : /\ req[r].kind = "unfavour" /\ req'[r].at = "idle"
                                     /\ req[r].user = f[1] /\ req[r].ad = f[2]
<1>1. IInv /\ [Next]_vars => [Leaves]_vars
  <2> SUFFICES ASSUME IInv, Next PROVE Leaves
    OBVIOUS
  <2>0. TypeOK
    BY DEF IInv
  <2>1. CASE favourites \subseteq favourites'
    BY <2>1
  <2>2. ASSUME NEW u \in Users, DeleteUser(u) PROVE Leaves
    BY <2>2 DEF DeleteUser
  <2>3. ASSUME NEW r \in Requests, RemoveFavourite(r), ~ Refused(r) PROVE Leaves
    <3>1. /\ favourites' = favourites \ {<<req[r].user, req[r].ad>>}
          /\ req[r].kind = "unfavour" /\ Becomes(r, Idle)
      BY <2>3 DEF RemoveFavourite, Is, Replies
    <3>2. req'[r].at = "idle"
      BY <2>0, <3>1, OthersKept DEF Idle
    <3> QED
      BY <3>1, <3>2
  <2>4. ASSUME NEW r \in Requests, Refused(r) \/ Check(r) \/ Fail(r) PROVE favourites' = favourites
    BY <2>4 DEF Refused, shelfVars, Check, CheckRemove, CheckCategory, CheckUpdate, CheckCreate,
                CheckFavour, CheckUnfavour, Starts, Fail
  <2>5. ASSUME NEW r \in Requests, Proceed(r), ~ Refused(r), ~ RemoveFavourite(r)
        PROVE  favourites \subseteq favourites'
    <3>1. ASSUME NEW what, NEW stage, Finds(r, what, stage) PROVE favourites' = favourites
      BY <3>1 DEF Finds, shelfVars
    <3>2. CASE FindFavourite(r)
      BY <2>5, <3>1, <3>2 DEF FindFavourite
    <3>3. CASE \E what \in Reads : FindForRemoval(r, what)
      BY <2>5, <3>1, <3>3 DEF FindForRemoval
    <3>4. CASE SaveFavourite(r)
      BY <2>5, <3>4 DEF SaveFavourite, Connect
    <3>5. CASE \/ CreateCategory(r) \/ UpdateCategory(r) \/ DeleteCategory(r)
               \/ InsertAd(r) \/ CommitAd(r) \/ RollbackAd(r)
      BY <2>5, <3>5 DEF CreateCategory, UpdateCategory, DeleteCategory, InsertAd, CommitAd,
                        RollbackAd, Ends
    <3> QED
      BY <2>5, <3>2, <3>3, <3>4, <3>5 DEF Proceed
  <2>6. ASSUME NEW a \in Ads, NEW verdict \in Verdicts, Judge(a, verdict)
        PROVE  favourites' = favourites
    BY <2>6 DEF Judge
  <2> QED
    BY <2>1, <2>2, <2>3, <2>4, <2>5, <2>6 DEF Next
<1>2. LeavesOnRequest <=> [][Leaves]_vars
  BY DEF LeavesOnRequest
<1> QED
  BY <1>1, <1>2, Invariance, PTL DEF Spec

\* The table Advertisement as others read it.
ReadAds  == [a \in Ads |-> IF Pending(a) THEN NewAd ELSE ads[a]]
ReadVars == <<users, cats, ReadAds, favourites>>

LEMMA ReadsUnchanged == UNCHANGED shelfVars => UNCHANGED ReadVars
  BY DEF shelfVars, ReadVars, ReadAds, Pending

\* The shelves see the same categories.
LEMMA SameShelves ==
  /\ \A c \in Cats, n \in Names : Free(n, c) => Committed!Free(n, c)
  /\ \A p : Parent(p) => Committed!Parent(p)
  /\ \A c \in Cats : Committed!Live(c) <=> Live(c)
  BY DEF Free, Committed!Free, Parent, Committed!Parent, Live, Committed!Live

LEMMA CategoryPromise ==
  ASSUME IInv, NEW r \in Requests, CreateCategory(r) \/ UpdateCategory(r) \/ DeleteCategory(r)
  PROVE  Committed!ShelvesNext \/ UNCHANGED ReadVars
<1>0. TypeOK /\ Relations /\ RequestOK(r)
  BY DEF IInv, Relations
<1>1. CASE Refused(r)
  BY <1>1, ReadsUnchanged DEF Refused
<1>2. CASE CreateCategory(r) /\ ~ Refused(r)
  <2> DEFINE f == req[r].fields
  <2>1. PICK c \in Cats :
          /\ cats[c] = NewCategory /\ Free(f.name, c) /\ Parent(f.parent)
          /\ cats' = [cats EXCEPT ![c] = [state |-> "live", name |-> f.name, parent |-> f.parent]]
          /\ UNCHANGED <<users, ads, favourites>>
    BY <1>2 DEF CreateCategory
  <2>2. f.name \in Names /\ f.parent \in Cats \union {NoCat}
    BY <1>0, <1>2, <2>1 DEF CreateCategory, Is, RequestOK, Sound, Parent
  <2>3. ReadAds' = ReadAds
    BY <2>1 DEF ReadAds, Pending
  <2>4. Committed!Added(c, f.name, f.parent)
    BY <2>1, <2>2, <2>3, SameShelves
       DEF Committed!Added, Committed!NewCategory, NewCategory, ReadAds
  <2> QED
    BY <2>2, <2>4 DEF Committed!ShelvesNext
<1>3. CASE UpdateCategory(r) /\ ~ Refused(r)
  <2> DEFINE c == req[r].cat
             f == req[r].fields
             name == Written(f.name, cats[c].name)
             parent == Written(f.parent, cats[c].parent)
  <2>1. /\ Live(c) /\ Free(name, c) /\ Parent(parent)
        /\ cats' = [cats EXCEPT ![c] = [state |-> "live", name |-> name, parent |-> parent]]
        /\ UNCHANGED <<users, ads, favourites>>
    BY <1>3 DEF UpdateCategory
  <2>2. c \in Cats /\ f \in Fields /\ f.name # NoName
    BY <1>0, <1>3 DEF UpdateCategory, Is, RequestOK, Sound, TypeOK, RequestRows
  <2>3. name \in Names /\ parent \in Cats \union {NoCat}
    BY <1>0, <2>1, <2>2 DEF Fields, Relations, CatOK, Parent, Written
  <2>4. ReadAds' = ReadAds
    BY <2>1 DEF ReadAds, Pending
  <2> HIDE DEF c, name, parent
  <2>5. Committed!Changed(c, name, parent)
    BY <2>1, <2>2, <2>3, <2>4, SameShelves DEF Committed!Changed, ReadAds
  <2> QED
    BY <2>2, <2>3, <2>5 DEF Committed!ShelvesNext
<1>4. CASE DeleteCategory(r) /\ ~ Refused(r)
  <2> DEFINE c == req[r].cat
  <2>1. /\ ~ LockedByInsert(c) /\ Live(c) /\ ~ InUse(c)
        /\ cats' = [d \in Cats |->
                      IF d = c THEN [NewCategory EXCEPT !.state = "gone"]
                      ELSE [cats[d] EXCEPT !.parent = Orphan(d, c)]]
        /\ UNCHANGED <<users, ads, favourites>>
    BY <1>4 DEF DeleteCategory
  <2>2. c \in Cats
    BY <1>0, <1>4 DEF DeleteCategory, Is, RequestOK, Sound
  <2>3. ReadAds' = ReadAds
    BY <2>1 DEF ReadAds, Pending
  <2>4. Committed!AdsIn(c) = {}
    BY <2>1 DEF Committed!AdsIn, Committed!Posted, Committed!Verdicts, ReadAds, NewAd, InUse,
                Posted, Verdicts, Pending
  <2>5. cats' = [d \in Cats |->
                   IF d = c THEN [NewCategory EXCEPT !.state = "gone"]
                   ELSE IF cats[d].parent = c THEN [cats[d] EXCEPT !.parent = NoCat]
                   ELSE cats[d]]
    <3>1. ASSUME NEW d \in Cats, cats[d].parent # c
          PROVE  [cats[d] EXCEPT !.parent = cats[d].parent] = cats[d]
      BY <1>0 DEF TypeOK
    <3> QED
      BY <2>1, <3>1 DEF Orphan
  <2> HIDE DEF c
  <2>6. Committed!Removed(c)
    BY <2>1, <2>2, <2>3, <2>4, <2>5, SameShelves
       DEF Committed!Removed, Committed!NewCategory, NewCategory, ReadAds
  <2> QED
    BY <2>2, <2>6 DEF Committed!ShelvesNext
<1> QED
  BY <1>1, <1>2, <1>3, <1>4

LEMMA CommitPromise ==
  ASSUME TypeOK, NEW a \in Ads, NEW c \in Cats,
         ads[a] = [status |-> "inserted", category |-> c], Live(c), OwnerOf[a] \in users,
         ads' = [ads EXCEPT ![a] = [status |-> "onModeration", category |-> c]],
         UNCHANGED <<users, cats, favourites>>
  PROVE  Committed!ShelvesNext
<1> DEFINE row == [status |-> "onModeration", category |-> c]
<1>1. ads'[a] = row /\ \A b \in Ads \ {a} : ads'[b] = ads[b]
  BY DEF TypeOK
<1>2. ReadAds' = [ReadAds EXCEPT ![a] = row] /\ ReadAds[a] = NewAd
  <2>1. /\ \A b \in Ads \ {a} : ReadAds'[b] = ReadAds[b]
        /\ ReadAds'[a] = row /\ ReadAds[a] = NewAd
    BY <1>1 DEF ReadAds, Pending
  <2>2. ReadAds' = [b \in Ads |-> ReadAds'[b]] /\ ReadAds = [b \in Ads |-> ReadAds[b]]
    BY DEF ReadAds
  <2> HIDE DEF row
  <2> QED
    BY <2>1, <2>2
<1>3. Committed!Placed(a, c)
  BY <1>2, SameShelves DEF Committed!Placed, ReadAds, NewAd
<1> QED
  BY <1>3 DEF Committed!ShelvesNext

\* An insertion is read by nobody before it commits.
LEMMA AdPromise ==
  ASSUME IInv, NEW r \in Requests, InsertAd(r) \/ CommitAd(r) \/ RollbackAd(r)
  PROVE  Committed!ShelvesNext \/ UNCHANGED ReadVars
<1>0. TypeOK /\ Relations /\ RequestOK(r)
  BY DEF IInv, Relations
<1>1. CASE Refused(r)
  BY <1>1, ReadsUnchanged DEF Refused
<1>2. ASSUME NEW a \in Ads, NEW row, ads' = [ads EXCEPT ![a] = row],
             ads[a] = NewAd \/ Pending(a), row = NewAd \/ row.status = "inserted",
             UNCHANGED <<users, cats, favourites>>
      PROVE  UNCHANGED ReadVars
  <2>1. ads'[a] = row /\ \A b \in Ads \ {a} : ads'[b] = ads[b]
    BY <1>0, <1>2 DEF TypeOK
  <2>2. \A b \in Ads : (IF Pending(b) THEN NewAd ELSE ads[b])'
                         = IF Pending(b) THEN NewAd ELSE ads[b]
    BY <1>2, <2>1 DEF Pending, NewAd
  <2> QED
    BY <1>2, <2>2 DEF ReadVars, ReadAds
<1>3. CASE InsertAd(r) /\ ~ Refused(r)
  <2>1. PICK a \in Ads : /\ ads[a] = NewAd
                         /\ ads' = [ads EXCEPT ![a] = [status   |-> "inserted",
                                                       category |-> req[r].cat]]
                         /\ UNCHANGED <<users, cats, favourites>>
    BY <1>3 DEF InsertAd
  <2> QED
    BY <1>2, <2>1
<1>4. CASE CommitAd(r) \/ RollbackAd(r)
  <2> DEFINE a == req[r].ad
             c == req[r].cat
             row == [status |-> "onModeration", category |-> c]
  <2>1. a \in Ads /\ ads[a] = [status |-> "inserted", category |-> c] /\ Pending(a)
    BY <1>0, <1>4 DEF CommitAd, RollbackAd, Ends, RequestOK, Inserting, Pending
  <2>2. c \in Cats /\ Live(c) /\ OwnerOf[a] \in users
    BY <1>0, <2>1 DEF Relations, AdsHaveCategory
  <2>3. CASE RollbackAd(r)
    BY <1>2, <2>1, <2>3 DEF RollbackAd, Ends
  <2>4. CASE CommitAd(r)
    <3>1. ads' = [ads EXCEPT ![a] = row] /\ UNCHANGED <<users, cats, favourites>>
      BY <2>4 DEF CommitAd, Ends
    <3> HIDE DEF a, c
    <3> QED
      BY <1>0, <2>1, <2>2, <3>1, CommitPromise
  <2> QED
    BY <1>4, <2>3, <2>4
<1> QED
  BY <1>1, <1>3, <1>4

LEMMA JudgePromise ==
  ASSUME IInv, NEW a \in Ads, NEW verdict \in Verdicts, Judge(a, verdict)
  PROVE  Committed!ShelvesNext
<1>0. TypeOK
  BY DEF IInv
<1>1. /\ Posted(a) /\ ~ Pending(a)
      /\ ads' = [ads EXCEPT ![a] = [ads[a] EXCEPT !.status = verdict]]
      /\ UNCHANGED <<users, cats, favourites>>
  BY DEF Judge, Posted, Pending, Verdicts
<1>2. /\ ads'[a] = [ads[a] EXCEPT !.status = verdict] /\ ads'[a].status = verdict
      /\ \A b \in Ads \ {a} : ads'[b] = ads[b]
  BY <1>0, <1>1 DEF TypeOK
<1>3. ReadAds' = [ReadAds EXCEPT ![a].status = verdict] /\ ReadAds[a] = ads[a]
  <2>1. ReadAds[a] = ads[a]
    BY <1>1 DEF ReadAds
  <2>2. ~ Pending(a)'
    BY <1>2 DEF Pending, Verdicts
  <2>3. ReadAds'[a] = [ReadAds[a] EXCEPT !.status = verdict]
    BY <1>2, <2>1, <2>2 DEF ReadAds
  <2>4. \A b \in Ads \ {a} : ReadAds'[b] = ReadAds[b]
    BY <1>2 DEF ReadAds, Pending
  <2>5. DOMAIN ReadAds = Ads /\ ReadAds' = [b \in Ads |-> ReadAds'[b]]
    BY DEF ReadAds
  <2> QED  BY <2>1, <2>3, <2>4, <2>5
<1>4. Committed!Judged(a, verdict)
  BY <1>1, <1>3 DEF Committed!Judged, Committed!Posted, Committed!Verdicts, Posted, Verdicts, ReadAds
<1> QED
  BY <1>4 DEF Committed!ShelvesNext, Committed!Verdicts, Verdicts

LEMMA FavouritePromise ==
  ASSUME IInv, NEW r \in Requests, SaveFavourite(r) \/ RemoveFavourite(r)
  PROVE  Committed!ShelvesNext \/ UNCHANGED ReadVars
<1>0. TypeOK /\ RequestOK(r) /\ lists \subseteq users
  BY DEF IInv, Relations
<1> DEFINE u == req[r].user
           a == req[r].ad
<1>1. CASE Refused(r)
  BY <1>1, ReadsUnchanged DEF Refused
<1>2. CASE SaveFavourite(r) /\ ~ Refused(r)
  <2>1. /\ u \in users /\ favourites' = favourites \union {<<u, a>>}
        /\ UNCHANGED <<users, cats, ads>>
    BY <1>0, <1>2 DEF SaveFavourite, Connect
  <2>2. u \in Users /\ a \in Ads /\ ads[a].status \in Verdicts /\ OwnerOf[a] # u
    BY <1>0, <1>2 DEF SaveFavourite, Is, RequestOK, Sound
  <2>3. ReadAds' = ReadAds /\ ReadAds[a].status \in Verdicts
    BY <2>1, <2>2 DEF ReadAds, Pending, Verdicts
  <2> HIDE DEF u, a
  <2>4. Committed!Favoured(u, a)
    BY <2>1, <2>2, <2>3 DEF Committed!Favoured, Committed!Verdicts, Verdicts, ReadAds
  <2> QED
    BY <2>2, <2>4 DEF Committed!ShelvesNext
<1>3. CASE RemoveFavourite(r) /\ ~ Refused(r)
  <2>1. favourites' = favourites \ {<<u, a>>} /\ UNCHANGED <<users, cats, ads>>
    BY <1>3 DEF RemoveFavourite
  <2>2. u \in Users /\ a \in Ads
    BY <1>0, <1>3 DEF RemoveFavourite, Is, RequestOK, Sound
  <2>3. ReadAds' = ReadAds
    BY <2>1 DEF ReadAds, Pending
  <2> HIDE DEF u, a
  <2>4. Committed!Unfavoured(u, a)
    BY <2>1, <2>3 DEF Committed!Unfavoured, ReadAds
  <2> QED
    BY <2>2, <2>4 DEF Committed!ShelvesNext
<1> QED
  BY <1>1, <1>2, <1>3

LEMMA LeavePromise ==
  ASSUME IInv, NEW u \in Users, DeleteUser(u)
  PROVE  Committed!ShelvesNext
<1>1. Committed!AdsOf(u) = {}
  BY DEF DeleteUser, Committed!AdsOf, Committed!Posted, Committed!Verdicts, Posted, Verdicts,
         Pending, NewAd
<1>2. ReadAds' = ReadAds
  BY DEF DeleteUser, ReadAds, Pending
<1>3. Committed!Left(u)
  BY <1>1, <1>2 DEF Committed!Left, DeleteUser, ReadAds
<1> QED
  BY <1>3 DEF Committed!ShelvesNext

\* What the database holds follows Shelves, for any number of categories,
\* advertisements, users and requests.
THEOREM KeepsPromise == Spec => Promise
<1>1. Init => Committed!ShelvesInit
  BY DEF Init, Committed!ShelvesInit, Committed!NewCategory, Committed!NewAd, NewCategory, NewAd,
         Pending
<1>2. IInv /\ [Next]_vars => [Committed!ShelvesNext]_ReadVars
  <2> SUFFICES ASSUME IInv, [Next]_vars PROVE Committed!ShelvesNext \/ UNCHANGED ReadVars
    OBVIOUS
  <2>1. ASSUME NEW r \in Requests, \/ Check(r) \/ Fail(r) \/ FindFavourite(r)
                                   \/ \E what \in Reads : FindForRemoval(r, what)
        PROVE  UNCHANGED ReadVars
    <3>1. UNCHANGED shelfVars
      BY <2>1 DEF Check, CheckRemove, CheckCategory, CheckUpdate, CheckCreate, CheckFavour,
                  CheckUnfavour, Starts, Fail, Refused, FindFavourite, FindForRemoval, Finds
    <3> QED
      BY <3>1, ReadsUnchanged
  <2>2. ASSUME NEW r \in Requests, Proceed(r)
        PROVE  Committed!ShelvesNext \/ UNCHANGED ReadVars
    BY <2>1, <2>2, CategoryPromise, AdPromise, FavouritePromise DEF Proceed
  <2>3. CASE UNCHANGED vars
    BY <2>3, ReadsUnchanged DEF vars
  <2> QED
    BY <2>1, <2>2, <2>3, JudgePromise, LeavePromise DEF Next
<1>3. Promise <=> Committed!ShelvesInit /\ [][Committed!ShelvesNext]_ReadVars
  BY DEF Promise, Committed!ShelvesSpec, Committed!shelfVars, ReadVars, ReadAds
<1> QED
  BY <1>1, <1>2, <1>3, Invariance, PTL DEF Spec
-----------------------------------------------------------------------------
(* What the promise comes to                                               *)

ShelvesInv ==
  /\ cats \in [Cats -> [state : {"unused", "live", "gone"}, name : Names \union {NoName},
                        parent : Cats \union {NoCat}]]
  /\ ReadAds \in [Ads -> [status : AdStates, category : Cats \union {NoCat}]]
  /\ Committed!NamesDiffer
  /\ Committed!ParentsExist
  /\ Committed!ListsAreOfOthers

LEMMA InitShelves == Committed!ShelvesInit => ShelvesInv
  BY DEF Committed!ShelvesInit, Committed!NewCategory, Committed!NewAd, ShelvesInv,
         Committed!NamesDiffer, Committed!ParentsExist, Committed!ListsAreOfOthers,
         Committed!Live, ReadAds, AdStates

LEMMA CategoryShelves ==
  ASSUME ShelvesInv, NEW c \in Cats,
         \/ \E n \in Names, p \in Cats \union {NoCat} : Committed!Added(c, n, p) \/ Committed!Changed(c, n, p)
         \/ Committed!Removed(c)
  PROVE  ShelvesInv'
<1> USE DEF ShelvesInv, Committed!NamesDiffer, Committed!ParentsExist, Committed!ListsAreOfOthers,
            Committed!Live, Committed!Parent, Committed!Free, Committed!NewCategory, Committed!Verdicts
<1>1. UNCHANGED <<users, ReadAds, favourites>>
  BY DEF Committed!Added, Committed!Changed, Committed!Removed, ReadAds
<1>2. ASSUME NEW n \in Names, NEW p \in Cats \union {NoCat},
             Committed!Added(c, n, p) \/ Committed!Changed(c, n, p)
      PROVE  ShelvesInv'
  <2>1. /\ cats' = [cats EXCEPT ![c] = [state |-> "live", name |-> n, parent |-> p]]
        /\ Committed!Free(n, c) /\ Committed!Parent(p)
    BY <1>2 DEF Committed!Added, Committed!Changed
  <2> QED  BY <1>1, <2>1 DEF ReadAds
<1>3. CASE Committed!Removed(c)
  <2>1. \A d \in Cats : cats'[d] = IF d = c THEN [NewCategory EXCEPT !.state = "gone"]
                                   ELSE IF cats[d].parent = c THEN [cats[d] EXCEPT !.parent = NoCat]
                                   ELSE cats[d]
    BY <1>3 DEF Committed!Removed, NewCategory
  <2>2. /\ ~ Live(c)'
        /\ \A d \in Cats \ {c} : /\ Live(d)' <=> Live(d)
                                 /\ cats'[d].name = cats[d].name
                                 /\ cats'[d].parent = IF cats[d].parent = c THEN NoCat
                                                      ELSE cats[d].parent
    <3>1. ~ Live(c)'
      BY <2>1 DEF Live, NewCategory
    <3>2. ASSUME NEW d \in Cats \ {c}
          PROVE  /\ cats'[d].state = cats[d].state /\ cats'[d].name = cats[d].name
                 /\ cats'[d].parent = IF cats[d].parent = c THEN NoCat ELSE cats[d].parent
      <4>1. cats[d] \in [state : {"unused", "live", "gone"}, name : Names \union {NoName},
                         parent : Cats \union {NoCat}]
        OBVIOUS
      <4>2. cats'[d] = IF cats[d].parent = c THEN [cats[d] EXCEPT !.parent = NoCat] ELSE cats[d]
        BY <2>1
      <4> QED  BY <4>1, <4>2
    <3> QED  BY <3>1, <3>2 DEF Live
  <2>3. cats' \in [Cats -> [state : {"unused", "live", "gone"}, name : Names \union {NoName},
                            parent : Cats \union {NoCat}]]
    <3>1. DOMAIN cats' = Cats /\ cats' = [d \in Cats |-> cats'[d]]
      BY <1>3 DEF Committed!Removed
    <3> QED  BY <2>1, <3>1 DEF NewCategory
  <2>4. Committed!NamesDiffer'
    BY <2>2 DEF Live
  <2>5. Committed!ParentsExist'
    BY <2>2 DEF Live
  <2> QED  BY <1>1, <2>3, <2>4, <2>5 DEF ReadAds
<1> QED  BY <1>2, <1>3

\* The lists, by the rows that are read.
LEMMA ListsRead ==
  /\ Committed!ListsAreOfOthers <=>
       \A f \in favourites : /\ f \in users \X Ads
                             /\ ReadAds[f[2]].status \in Verdicts
                             /\ OwnerOf[f[2]] # f[1]
  /\ Committed!ListsAreOfOthers' <=>
       \A f \in favourites' : /\ f \in users' \X Ads
                              /\ ReadAds'[f[2]].status \in Verdicts
                              /\ OwnerOf[f[2]] # f[1]
  BY DEF Committed!ListsAreOfOthers, Committed!Verdicts, Verdicts, ReadAds

LEMMA OtherShelves ==
  ASSUME ShelvesInv,
         \/ \E a \in Ads : \/ \E c \in Cats : Committed!Placed(a, c)
                           \/ \E verdict \in Committed!Verdicts : Committed!Judged(a, verdict)
                           \/ \E u \in Users : Committed!Favoured(u, a) \/ Committed!Unfavoured(u, a)
         \/ \E u \in Users : Committed!Left(u)
         \/ UNCHANGED ReadVars
  PROVE  ShelvesInv'
<1> USE DEF ShelvesInv, Committed!Verdicts
<1>1. cats' = cats
  BY DEF Committed!Placed, Committed!Judged, Committed!Favoured, Committed!Unfavoured,
         Committed!Left, ReadVars
<1>2. Committed!NamesDiffer' /\ Committed!ParentsExist'
  BY <1>1 DEF Committed!NamesDiffer, Committed!ParentsExist, Committed!Live, Committed!Parent
<1>3. ASSUME NEW a \in Ads, NEW c \in Cats, Committed!Placed(a, c)
      PROVE  ShelvesInv'
  <2>1. /\ ReadAds' = [ReadAds EXCEPT ![a] = [status |-> "onModeration", category |-> c]]
        /\ ReadAds[a].status = "unused"
        /\ UNCHANGED <<users, favourites>>
    BY <1>3 DEF Committed!Placed, ReadAds
  <2> QED  BY <1>1, <1>2, <2>1, ListsRead DEF AdStates, Verdicts
<1>4. ASSUME NEW a \in Ads, NEW verdict \in Committed!Verdicts, Committed!Judged(a, verdict)
      PROVE  ShelvesInv'
  <2>1. /\ ReadAds' = [ReadAds EXCEPT ![a].status = verdict]
        /\ UNCHANGED <<users, favourites>>
    BY <1>4 DEF Committed!Judged, ReadAds
  <2> QED  BY <1>1, <1>2, <2>1, ListsRead DEF AdStates, Verdicts
<1>5. ASSUME NEW a \in Ads, NEW u \in Users, Committed!Favoured(u, a) \/ Committed!Unfavoured(u, a)
      PROVE  ShelvesInv'
  BY <1>1, <1>2, <1>5 DEF Committed!Favoured, Committed!Unfavoured, ReadAds, Committed!ListsAreOfOthers
<1>6. ASSUME NEW u \in Users, Committed!Left(u)
      PROVE  ShelvesInv'
  BY <1>1, <1>2, <1>6 DEF Committed!Left, ReadAds, Committed!ListsAreOfOthers
<1>7. CASE UNCHANGED ReadVars
  BY <1>1, <1>2, <1>7 DEF ReadVars, ReadAds, Committed!ListsAreOfOthers
<1> QED  BY <1>3, <1>4, <1>5, <1>6, <1>7

\* Whatever the requests had read, two categories never have one name, a parent
\* is there, and a list has judged advertisements of others on it.
THEOREM ShelvesAreInOrder ==
  Spec => [](Committed!NamesDiffer /\ Committed!ParentsExist /\ Committed!ListsAreOfOthers)
<1>1. ShelvesInv /\ [Committed!ShelvesNext]_ReadVars => ShelvesInv'
  BY CategoryShelves, OtherShelves DEF Committed!ShelvesNext
<1>2. ShelvesInv => Committed!NamesDiffer /\ Committed!ParentsExist /\ Committed!ListsAreOfOthers
  BY DEF ShelvesInv
<1>3. Promise <=> Committed!ShelvesInit /\ [][Committed!ShelvesNext]_ReadVars
  BY DEF Promise, Committed!ShelvesSpec, Committed!shelfVars, ReadVars, ReadAds
<1> QED  BY <1>1, <1>2, <1>3, InitShelves, KeepsPromise, PTL
=============================================================================
