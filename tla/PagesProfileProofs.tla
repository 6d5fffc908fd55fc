------------------------- MODULE PagesProfileProofs -------------------------
(***************************************************************************)
(* Proofs about Pages and about Profile, which have no name in common.     *)
(*                                                                         *)
(* A walk over the pages of a listing is complete, repeats no row and is   *)
(* answered no empty page, up to what others do to the listing meanwhile.  *)
(* The inductive invariant IInv speaks of places: as long as nothing is    *)
(* lost, rows that were there have been seen up to the offset; as long as  *)
(* nothing is gained, what was seen is not beyond it.  The place of a row  *)
(* goes by the time of the write that gave it, which no two rows share.    *)
(*                                                                         *)
(* The handlers of /users/:id decide by a row read earlier.  ProfileInv    *)
(* says that whatever that row, or the row as it is, has of what a request *)
(* asked for is remembered in held, so that an answer is true whichever of *)
(* the two it was made from.                                               *)
(***************************************************************************)
EXTENDS Pages, Profile, FiniteSetTheorems, WellFoundedInduction, TLAPS

-----------------------------------------------------------------------------
(* Places in finite sets of numbers                                        *)

LEMMA LeastExists ==
  ASSUME NEW U \in SUBSET Nat, U # {}
  PROVE  \E m \in U : \A x \in U : m <= x
<1> DEFINE R == OpToRel(<, Nat)
<1>1. \A x, y \in Nat : <<x, y>> \in R <=> x < y
  BY Zenon DEF OpToRel
<1>2. IsWellFoundedOn(R, Nat)
  BY NatLessThanWellFounded, Zenon
<1> HIDE DEF R
<1>3. PICK m \in U : \A y \in U : ~(<<y, m>> \in R)
  BY <1>2, WFMin
<1>4. \A x \in U : m \in Nat /\ x \in Nat /\ ~(x < m)
  BY <1>1, <1>3
<1> QED  BY <1>4

LEMMA GreatestExists ==
  ASSUME NEW n \in Nat, NEW U \in SUBSET (0..n), U # {}
  PROVE  \E m \in U : \A x \in U : x <= m
<1> DEFINE W == {w \in Nat : \E x \in U : x + w = n}
<1>1. \A x \in U : x \in Nat /\ n - x \in Nat /\ x + (n - x) = n
  OBVIOUS
<1>2. W \in SUBSET Nat /\ W # {} /\ \A x \in U : n - x \in W
  BY <1>1
<1>3. PICK w \in W : \A y \in W : w <= y
  <2> HIDE DEF W
  <2> QED  BY <1>2, LeastExists
<1>4. PICK m \in U : m + w = n
  BY <1>3
<1>5. \A x \in U : w <= n - x
  BY <1>2, <1>3
<1> QED  BY <1>1, <1>4, <1>5

\* What comes first in either order, and what comes last.
Before(d, x, y) == IF d THEN x >= y ELSE x <= y

\* Rows T with their times t, no two at the same.
Timed(T, t, n) ==
  /\ T \subseteq 0..n
  /\ \A q \in T : t[q] \in 0..n
  /\ \A q, r \in T : t[q] = t[r] => q = r

LEMMA FirstExists ==
  ASSUME NEW n \in Nat, NEW T, NEW t, Timed(T, t, n), T # {}, NEW d \in BOOLEAN
  PROVE  \E m \in T : \A x \in T : Before(d, t[m], t[x])
<1> DEFINE U == {t[q] : q \in T}
<1>1. U \in SUBSET (0..n) /\ U \in SUBSET Nat /\ U # {}
  <2>1. \A q \in T : t[q] \in 0..n
    BY DEF Timed
  <2>2. 0..n \subseteq Nat
    OBVIOUS
  <2>3. U # {}
    OBVIOUS
  <2>4. \A x \in U : x \in 0..n
    BY <2>1
  <2> HIDE DEF U
  <2> QED  BY <2>2, <2>3, <2>4
<1>2. \E v \in U : \A x \in U : Before(d, v, x)
  <2> HIDE DEF U
  <2>1. CASE d
    BY <1>1, <2>1, GreatestExists DEF Before
  <2>2. CASE ~d
    BY <1>1, <2>2, LeastExists DEF Before
  <2> QED  BY <2>1, <2>2
<1> QED  BY <1>2

LEMMA LastExists ==
  ASSUME NEW n \in Nat, NEW T, NEW t, Timed(T, t, n), T # {}, NEW d \in BOOLEAN
  PROVE  \E m \in T : \A x \in T : Before(d, t[x], t[m])
<1>1. PICK m \in T : \A x \in T : Before(~d, t[m], t[x])
  BY FirstExists
<1> QED  BY <1>1 DEF Before

LEMMA FiniteRows ==
  ASSUME NEW n \in Nat, NEW T \in SUBSET (0..n)
  PROVE  IsFiniteSet(T) /\ Cardinality(T) \in Nat
<1>1. IsFiniteSet(0..n)
  BY FS_Interval
<1>2. IsFiniteSet(T)
  BY <1>1, FS_Subset
<1> QED  BY <1>2, FS_CardinalityType

\* A place lies between 1 and the number of rows.
LEMMA PlaceBounds ==
  ASSUME NEW n \in Nat, NEW T, NEW t, Timed(T, t, n), NEW d \in BOOLEAN, NEW r \in T
  PROVE  /\ IsFiniteSet(T) /\ IsFiniteSet(Upto(d, t, T, r))
         /\ Cardinality(T) \in Nat
         /\ Cardinality(Upto(d, t, T, r)) \in 1..Cardinality(T)
<1>1. IsFiniteSet(T) /\ Cardinality(T) \in Nat
  BY FiniteRows DEF Timed
<1>2. Upto(d, t, T, r) \in SUBSET T /\ r \in Upto(d, t, T, r)
  BY DEF Upto, Timed
<1>3. /\ IsFiniteSet(Upto(d, t, T, r))
      /\ Cardinality(Upto(d, t, T, r)) <= Cardinality(T)
      /\ Cardinality(Upto(d, t, T, r)) \in Nat
  BY <1>1, <1>2, FS_Subset, FS_CardinalityType
<1>4. Cardinality(Upto(d, t, T, r)) # 0
  BY <1>2, <1>3, FS_EmptySet
<1> QED  BY <1>1, <1>3, <1>4

\* If every row that was before r still is, r is no nearer to the front.
LEMMA PlaceGrows ==
  ASSUME NEW n \in Nat, NEW T, NEW t, Timed(T, t, n), NEW V \in SUBSET T, NEW w,
         NEW d \in BOOLEAN, NEW r \in V,
         \A q \in V : Before(d, w[q], w[r]) => Before(d, t[q], t[r])
  PROVE  Cardinality(Upto(d, w, V, r)) <= Cardinality(Upto(d, t, T, r))
<1>1. Upto(d, w, V, r) \in SUBSET Upto(d, t, T, r)
  BY DEF Upto, Before
<1>2. IsFiniteSet(Upto(d, t, T, r))
  BY PlaceBounds
<1> QED  BY <1>1, <1>2, FS_Subset

\* There is a row at every place up to the number of rows.
LEMMA PlaceExists ==
  ASSUME NEW n \in Nat, NEW T, NEW t, Timed(T, t, n), NEW d \in BOOLEAN,
         NEW k \in Nat, k < Cardinality(T)
  PROVE  \E r \in T : Cardinality(Upto(d, t, T, r)) = k + 1
<1> DEFINE P(r) == Cardinality(Upto(d, t, T, r))
           U == {r \in T : P(r) > k}
<1>1. IsFiniteSet(T) /\ Cardinality(T) \in Nat
  BY FiniteRows DEF Timed
<1>2. T # {}
  BY FS_EmptySet
<1>3. PICK z \in T : \A x \in T : Before(d, t[x], t[z])
  BY <1>2, LastExists
<1>4. Upto(d, t, T, z) = T
  BY <1>3 DEF Upto, Before
<1>5. U # {} /\ Timed(U, t, n)
  BY <1>4 DEF Timed
<1>6. PICK m \in U : \A x \in U : Before(d, t[m], t[x])
  <2> HIDE DEF U
  <2> QED  BY <1>5, FirstExists
<1> DEFINE B == Upto(d, t, T, m) \ {m}
<1>7. /\ m \in T /\ P(m) \in Nat /\ P(m) > k /\ P(m) >= 1
      /\ IsFiniteSet(Upto(d, t, T, m)) /\ m \in Upto(d, t, T, m)
  <2>1. m \in T /\ P(m) > k
    BY <1>6
  <2>2. /\ IsFiniteSet(Upto(d, t, T, m)) /\ Cardinality(T) \in Nat
        /\ Cardinality(Upto(d, t, T, m)) \in 1..Cardinality(T)
    BY <2>1, PlaceBounds
  <2>3. m \in Upto(d, t, T, m)
    BY <2>1 DEF Upto, Timed
  <2> QED  BY <1>1, <2>1, <2>2, <2>3
<1>8. IsFiniteSet(B) /\ Cardinality(B) = P(m) - 1
  BY <1>7, FS_RemoveElement
<1>9. CASE B = {}
  BY <1>7, <1>8, <1>9, FS_EmptySet
<1>10. CASE B # {}
  <2>1. Timed(B, t, n) /\ B \in SUBSET T
    BY DEF Upto, Timed
  <2>2. PICK w \in B : \A x \in B : Before(d, t[x], t[w])
    <3> HIDE DEF B
    <3> QED  BY <1>10, <2>1, LastExists
  <2>3. Upto(d, t, T, w) = B
    <3>1. m \in T /\ w \in T /\ w # m /\ Before(d, t[w], t[m])
      BY <1>7, <2>1, <2>2 DEF Upto, Before
    <3>2. \A q \in T : t[q] \in Nat /\ (t[q] = t[m] => q = m) /\ (t[w] = t[m] => w = m)
      BY <3>1 DEF Timed
    <3>3. \A q \in T : Before(d, t[q], t[w]) => Before(d, t[q], t[m]) /\ q # m
      BY <3>1, <3>2 DEF Before
    <3>4. \A q \in T : Before(d, t[q], t[m]) /\ q # m => Before(d, t[q], t[w])
      BY <2>2 DEF Upto, Before
    <3> QED  BY <3>3, <3>4 DEF Upto, Before
  <2>4. w \notin U
    <3>1. w \in T /\ w # m /\ Before(d, t[w], t[m])
      BY <2>1, <2>2 DEF Upto, Before
    <3>2. t[w] \in Nat /\ t[m] \in Nat /\ t[w] # t[m]
      BY <1>7, <3>1 DEF Timed
    <3>3. ~ Before(d, t[m], t[w])
      BY <3>1, <3>2 DEF Before
    <3> QED  BY <1>6, <3>3
  <2>5. P(w) \in Nat
    <3>1. w \in T
      BY <2>1, <2>2
    <3>2. /\ Cardinality(T) \in Nat
          /\ Cardinality(Upto(d, t, T, w)) \in 1..Cardinality(T)
      BY <3>1, PlaceBounds
    <3> QED  BY <3>2
  <2>6. P(w) <= k
    BY <2>1, <2>2, <2>4, <2>5
  <2>7. P(w) = P(m) - 1
    BY <1>8, <2>3
  <2> HIDE DEF P
  <2>8. P(m) = k + 1
    BY <1>7, <2>6, <2>7
  <2> QED  BY <1>7, <2>8 DEF P
<1> QED  BY <1>9, <1>10

-----------------------------------------------------------------------------
(* The inductive invariant                                                 *)

\* Nothing has happened before the client begins.
IdleInv ==
  /\ stage = "idle" => skip = 0 /\ seen = {} /\ since = {} /\ ~blank /\ ~again
  /\ stage \notin {"idle", "invalid"} => size > 0

\* The rows that are there have the place of an earlier write each; a row yet
\* to come will be placed by the write that creates it.
OrderInv ==
  /\ Timed(live, time, clock)
  /\ \A r \in 1..MaxWrites : r > clock => time[r] = r

\* No row has moved towards the client's next page.
Steady == newestFirst \/ moved = {}

\* Up to the offset, what was there and stayed has been seen.
SeenInv ==
  /\ stage # "idle" /\ ~lost => since \subseteq Listed
  /\ stage # "idle" /\ ~lost /\ sort # "none" /\ Steady =>
       \A r \in since \ moved : Place(Listed, r) <= skip => r \in seen
  /\ stage = "noPage" /\ ~lost /\ sort # "none" /\ listing # "chats" /\ Steady =>
       since \ moved \subseteq seen

\* What has been seen is not beyond the offset.
OnceInv ==
  /\ ~gained /\ moved = {} /\ sort # "none" =>
       \A r \in seen \intersect Listed : Place(Listed, r) <= skip
  /\ again => gained \/ moved # {} \/ sort = "none"

\* After the count there is a row for the page.
PageInv ==
  /\ stage = "counted" /\ ~gone /\ listing # "filtered" =>
       skip < Cardinality(Listed)
  /\ stage = "asking" /\ blank => gone \/ listing = "filtered"

IInv == TypeOK /\ IdleInv /\ OrderInv /\ SeenInv /\ OnceInv /\ PageInv

LEMMA InitInv == Init => IInv
<1> SUFFICES ASSUME Init  PROVE IInv
  OBVIOUS
<1>1. TypeOK /\ IdleInv /\ PageInv
  BY DEF Init, TypeOK, IdleInv, PageInv, Listings, Sorts, Stages
<1>2. OrderInv
  <2>1. clock \in Nat /\ clock <= MaxWrites /\ MaxWrites \in Nat
    BY WritesAssumption DEF Init
  <2>2. \A r \in 1..MaxWrites : time[r] = r
    BY DEF Init
  <2>3. \A r \in live : r \in 0..clock /\ r \in 1..MaxWrites
    BY <2>1 DEF Init
  <2> QED  BY <2>1, <2>2, <2>3 DEF OrderInv, Timed
<1>3. SeenInv /\ OnceInv
  BY DEF Init, SeenInv, OnceInv
<1> QED  BY <1>1, <1>2, <1>3 DEF IInv

\* Some rows that are there, by their times.
LEMMA SomeTimed ==
  ASSUME NEW n, NEW T, NEW t, Timed(T, t, n), NEW V \in SUBSET T
  PROVE  Timed(V, t, n)
BY DEF Timed

\* The listed rows are counted, and finite.
LEMMA ListedFinite ==
  ASSUME TypeOK, OrderInv
  PROVE  /\ clock \in Nat
         /\ Listed \in SUBSET (0..clock) /\ Counted \in SUBSET (0..clock)
         /\ IsFiniteSet(Listed) /\ Cardinality(Listed) \in Nat
         /\ IsFiniteSet(Counted) /\ Cardinality(Counted) \in Nat
         /\ newestFirst \in BOOLEAN
         /\ Timed(Listed, time, clock)
         /\ \A r \in Listed : Place(Listed, r) \in 1..Cardinality(Listed)
<1>1. /\ clock \in Nat /\ newestFirst \in BOOLEAN
      /\ Listed \in SUBSET (0..clock) /\ Counted \in SUBSET (0..clock)
  BY WritesAssumption DEF TypeOK, Listed, ListedOf, Counted, CountedOf
<1>2. /\ IsFiniteSet(Listed) /\ Cardinality(Listed) \in Nat
      /\ IsFiniteSet(Counted) /\ Cardinality(Counted) \in Nat
  BY <1>1, FiniteRows
<1>3. Timed(Listed, time, clock)
  <2>1. Listed \in SUBSET live
    BY DEF Listed, ListedOf
  <2> QED  BY <2>1, SomeTimed DEF OrderInv
<1>4. ASSUME NEW r \in Listed  PROVE Place(Listed, r) \in 1..Cardinality(Listed)
  BY <1>1, <1>3, PlaceBounds DEF Place
<1> QED  BY <1>1, <1>2, <1>3, <1>4

\* The same of the next state.
LEMMA ListedFiniteNext ==
  ASSUME TypeOK', OrderInv'
  PROVE  /\ clock' \in Nat /\ newestFirst' \in BOOLEAN
         /\ Listed' \in SUBSET (0..clock')
         /\ Timed(Listed', time', clock')
         /\ \A r \in Listed' : Place(Listed, r)' \in Nat /\ Place(Listed, r)' > 0
<1>1. /\ clock' \in Nat /\ newestFirst' \in BOOLEAN
      /\ Listed' \in SUBSET (0..clock')
  BY WritesAssumption DEF TypeOK, Listed, ListedOf
<1>2. Timed(Listed', time', clock')
  <2>1. Listed' \in SUBSET live'
    BY DEF Listed, ListedOf
  <2>2. Timed(live', time', clock')
    BY DEF OrderInv, Timed
  <2> QED  BY <2>1, <2>2, SomeTimed
<1>3. ASSUME NEW r \in Listed'
      PROVE  Place(Listed, r)' \in Nat /\ Place(Listed, r)' > 0
  <2>1. /\ Cardinality(Listed') \in Nat
        /\ Cardinality(Upto(newestFirst', time', Listed', r)) \in 1..Cardinality(Listed')
    BY <1>1, <1>2, PlaceBounds
  <2>2. Place(Listed, r)' = Cardinality(Upto(newestFirst', time', Listed', r))
    BY DEF Place, Upto
  <2> QED  BY <2>1, <2>2
<1> QED  BY <1>1, <1>2, <1>3

LEMMA AskInv ==
  ASSUME IInv, NEW h \in Handlers, NEW l \in Listings, NEW k \in Sorts, NEW d \in BOOLEAN,
         NEW s \in Sizes, Ask(h, l, k, d, s)
  PROVE  IInv'
<1> USE DEF Ask, table
<1>1. TypeOK'
  BY SizesAssumption DEF IInv, TypeOK, Stages, ListedOf
<1>2. IdleInv' /\ PageInv'
  <2>1. MaxSize[h] \in Nat
    BY MaxSizeAssumption
  <2> QED  BY <2>1, SizesAssumption DEF IInv, IdleInv, PageInv, SizeServed
<1>3. since' = Listed' /\ skip' = 0 /\ seen' = {} /\ ~again'
  BY DEF IInv, IdleInv, Listed, ListedOf
<1>4. OrderInv'
  BY DEF IInv, OrderInv, Timed
<1>5. \A r \in Listed' : Place(Listed, r)' \in Nat /\ Place(Listed, r)' > 0
  BY <1>1, <1>4, ListedFiniteNext
<1>6. SeenInv'
  <2>1. stage' \in {"asking", "invalid"}
    OBVIOUS
  <2>2. \A r \in since' : ~(Place(Listed, r)' <= skip')
    BY <1>3, <1>5
  <2> HIDE DEF Ask
  <2> QED  BY <1>3, <2>1, <2>2 DEF SeenInv
<1>7. OnceInv'
  BY <1>3 DEF OnceInv
<1> QED  BY <1>1, <1>2, <1>4, <1>6, <1>7 DEF IInv

\* A step that leaves the listing and what was seen of it alone.
LEMMA SameListing ==
  ASSUME UNCHANGED <<table, query>>
  PROVE  /\ Listed' = Listed /\ Counted' = Counted
         /\ \A r : Place(Listed, r)' = Place(Listed, r)
         /\ OrderInv => OrderInv'
BY DEF table, query, Listed, ListedOf, Counted, CountedOf, Place, Upto, OrderInv, Timed

LEMMA AdmitInv ==
  ASSUME IInv, Admit \/ Fail
  PROVE  IInv'
<1> USE DEF Admit, Fail, Walking, history
<1>1. TypeOK'
  BY DEF IInv, TypeOK, Stages, table, query
<1>2. IdleInv'
  BY DEF IInv, IdleInv, query
<1>3. SeenInv' /\ OnceInv' /\ PageInv' /\ OrderInv'
  BY SameListing DEF IInv, SeenInv, OnceInv, PageInv, Steady, query
<1> QED  BY <1>1, <1>2, <1>3 DEF IInv

\* A query that is refused at once has seen nothing, and nothing was there.
LEMMA HiddenAdsInv ==
  ASSUME IInv, AskHiddenAds
  PROVE  IInv'
<1> USE DEF AskHiddenAds, history
<1>1. TypeOK' /\ IdleInv' /\ PageInv'
  BY DEF IInv, IdleInv, PageInv, TypeOK, Stages, table, query
<1>2. SeenInv' /\ OnceInv' /\ OrderInv'
  BY SameListing DEF IInv, IdleInv, SeenInv, OnceInv
<1> QED  BY <1>1, <1>2 DEF IInv

\* A refused page is beyond what is counted, so beyond what is listed.
LEMMA CountInv ==
  ASSUME IInv, Count
  PROVE  IInv'
<1> DEFINE total == Cardinality(Counted)
<1>1. /\ stage = "admitted" /\ stage' \in {"counted", "tooLarge", "noPage"}
      /\ stage' = "counted" => total >= skip + 1
      /\ stage' = "noPage" => ~(total >= skip + 1)
      /\ gone' = FALSE
      /\ UNCHANGED <<table, query, skip, blank, seen, again, since, lost, gained, moved>>
  BY DEF Count, PageExists, SizeFits
<1>2. skip \in Nat /\ total \in Nat
  BY ListedFinite DEF IInv, TypeOK
<1> HIDE DEF total
<1>3. TypeOK'
  BY <1>1 DEF IInv, TypeOK, Stages, table, query
<1>4. IdleInv'
  BY <1>1 DEF IInv, IdleInv, query
<1>5. ASSUME stage' = "noPage", ~lost, sort # "none", listing # "chats", Steady
      PROVE  since \ moved \subseteq seen
  <2>1. Listed \subseteq Counted
    BY <1>5 DEF IInv, TypeOK, Listings, Listed, ListedOf, Counted, CountedOf
  <2>2. Cardinality(Listed) <= total
    BY <2>1, ListedFinite, FS_Subset DEF IInv, total
  <2>3. ASSUME NEW r \in since \ moved  PROVE r \in seen
    <3>1. r \in Listed /\ (Place(Listed, r) <= skip => r \in seen)
      BY <1>1, <1>5 DEF IInv, SeenInv
    <3>2. Place(Listed, r) \in 1..Cardinality(Listed) /\ Cardinality(Listed) \in Nat
      BY <3>1, ListedFinite DEF IInv
    <3>3. total <= skip
      BY <1>1, <1>2, <1>5
    <3> QED  BY <1>2, <2>2, <3>1, <3>2, <3>3
  <2> QED  BY <2>3
<1>6. SeenInv' /\ OrderInv'
  BY <1>1, <1>5, SameListing DEF IInv, SeenInv, Steady, query
<1>7. OnceInv'
  BY <1>1, SameListing DEF IInv, OnceInv, query
<1>8. ASSUME stage' = "counted", listing # "filtered"  PROVE skip < Cardinality(Listed)
  <2>1. Counted \subseteq Listed
    BY <1>8 DEF IInv, TypeOK, Listings, Listed, ListedOf, Counted, CountedOf
  <2>2. total <= Cardinality(Listed) /\ Cardinality(Listed) \in Nat
    BY <2>1, ListedFinite, FS_Subset DEF IInv, total
  <2> QED  BY <1>1, <1>2, <1>8, <2>2
<1>9. PageInv'
  BY <1>1, <1>8, SameListing DEF PageInv, query
<1> QED  BY <1>3, <1>4, <1>6, <1>7, <1>9 DEF IInv

\* An ordered page has the rows between the old offset and the new one; the
\* row in the first place behind the old offset is one of them.  One without
\* an order has as many.
LEMMA SelectInv ==
  ASSUME IInv, Select
  PROVE  IInv'
<1>1. PICK rows \in SUBSET Listed :
        /\ stage = "counted" /\ stage' = "asking"
        /\ MayBePage(rows)
        /\ blank' = (rows = {})
        /\ seen' = seen \union rows
        /\ again' = (again \/ \E r \in rows : r \in seen)
        /\ skip' = skip + size
        /\ UNCHANGED <<table, query, history>>
  BY DEF Select
<1>2. /\ skip \in Nat /\ size \in Nat /\ size > 0 /\ skip' \in Nat
      /\ \A r \in Listed : Place(Listed, r) \in 1..Cardinality(Listed)
      /\ Cardinality(Listed) \in Nat /\ Listed \subseteq 1..clock
  <2>1. skip \in Nat /\ size \in Nat /\ size > 0
    BY <1>1 DEF IInv, TypeOK, IdleInv
  <2>2. Listed \subseteq 1..clock
    BY DEF IInv, TypeOK, Listed, ListedOf
  <2> QED  BY <1>1, <2>1, <2>2, ListedFinite DEF IInv
<1>3. \A r : r \in PageOf(Listed) <=>
        r \in Listed /\ skip < Place(Listed, r) /\ Place(Listed, r) <= skip'
  BY <1>1 DEF PageOf
<1>4. sort # "none" => rows = PageOf(Listed)
  BY <1>1 DEF MayBePage
<1>5. TypeOK'
  BY <1>1, <1>2 DEF IInv, TypeOK, Stages, table, query, history
<1>6. IdleInv' /\ OrderInv'
  BY <1>1, <1>2, SameListing DEF IInv, IdleInv, query
<1>7. SeenInv'
  <2>1. UNCHANGED <<since, lost, moved>>
    BY <1>1 DEF history
  <2>2. ASSUME ~lost, sort # "none", Steady, NEW r \in since \ moved,
               Place(Listed, r) <= skip'
        PROVE  r \in seen'
    <3>1. r \in Listed /\ (Place(Listed, r) <= skip => r \in seen)
      BY <1>1, <2>2 DEF IInv, SeenInv
    <3> QED  BY <1>1, <1>2, <1>3, <1>4, <2>2, <3>1
  <2>3. UNCHANGED <<newestFirst, sort>>
    BY <1>1 DEF query
  <2> QED  BY <1>1, <2>1, <2>2, <2>3, SameListing DEF IInv, SeenInv, Steady
<1>8. OnceInv'
  <2>1. UNCHANGED <<gained, moved, sort>>
    BY <1>1 DEF history, query
  <2>2. ASSUME ~gained, moved = {}, sort # "none", NEW r \in seen' \intersect Listed
        PROVE  Place(Listed, r) <= skip'
    <3>1. r \in seen => Place(Listed, r) <= skip
      BY <2>2 DEF IInv, OnceInv
    <3>2. r \in PageOf(Listed) => Place(Listed, r) <= skip'
      BY <1>3
    <3>3. Place(Listed, r) \in Nat /\ skip <= skip'
      <4>1. r \in Listed
        BY <2>2
      <4>2. Place(Listed, r) \in 1..Cardinality(Listed)
        BY <1>2, <4>1
      <4>3. skip <= skip'
        BY <1>1, <1>2
      <4> QED  BY <1>2, <4>2, <4>3
    <3>4. r \in seen \/ r \in PageOf(Listed)
      BY <1>1, <1>4, <2>2
    <3> QED  BY <1>2, <3>1, <3>2, <3>3, <3>4
  <2>3. again' => gained \/ moved # {} \/ sort = "none"
    <3>1. ASSUME NEW r \in rows, r \in seen, ~gained, moved = {}, sort # "none"
          PROVE  FALSE
      <4>1. r \in Listed /\ skip < Place(Listed, r)
        BY <1>3, <1>4, <3>1
      <4>2. Place(Listed, r) <= skip
        BY <3>1, <4>1 DEF IInv, OnceInv
      <4>3. Place(Listed, r) \in Nat /\ skip \in Nat
        BY <1>2, <4>1
      <4> QED  BY <4>1, <4>2, <4>3
    <3> QED  BY <1>1, <3>1 DEF IInv, OnceInv
  <2> QED  BY <1>1, <2>1, <2>2, <2>3, SameListing DEF OnceInv
<1>9. PageInv'
  <2>1. UNCHANGED <<gone, listing>>
    BY <1>1 DEF history, query
  <2>2. ASSUME ~gone, listing # "filtered"  PROVE rows # {}
    <3>1. skip < Cardinality(Listed)
      BY <1>1, <2>2 DEF IInv, PageInv
    <3>2. \E r \in Listed : Place(Listed, r) = skip + 1
      <4>1. clock \in Nat /\ Timed(Listed, time, clock) /\ newestFirst \in BOOLEAN
        BY ListedFinite DEF IInv
      <4>2. \E r \in Listed : Cardinality(Upto(newestFirst, time, Listed, r)) = skip + 1
        <5>1. skip \in Nat
          BY <1>2
        <5> QED  BY <3>1, <4>1, <5>1, PlaceExists
      <4> QED  BY <4>2 DEF Place
    <3>3. PageOf(Listed) # {}
      BY <1>1, <1>2, <1>3, <3>2
    <3>4. IsFiniteSet(PageOf(Listed)) /\ IsFiniteSet({})
      <4>1. PageOf(Listed) \in SUBSET Listed
        BY <1>3
      <4> QED  BY <4>1, ListedFinite, FS_Subset, FS_EmptySet DEF IInv
    <3>5. Cardinality(PageOf(Listed)) # 0 /\ Cardinality({}) = 0
      BY <3>3, <3>4, FS_EmptySet
    <3> QED  BY <1>1, <3>3, <3>5 DEF MayBePage
  <2> QED  BY <1>1, <2>1, <2>2 DEF PageInv
<1> QED  BY <1>5, <1>6, <1>7, <1>8, <1>9 DEF IInv

\* The others: a row that leaves is remembered as lost, and as gone, one that
\* joins as gained, one that an update places before all others as moved.
\* Without the first the place of no row becomes smaller but that of the row
\* that moves, and of those it leaves behind where the oldest is first;
\* without the others none becomes larger.
LEMMA WatchInv ==
  ASSUME IInv, TypeOK', OrderInv', Watch,
         \A q \in Listed \intersect Listed' :
           time'[q] = time[q] \/ \A r \in Listed : time[r] < time'[q]
  PROVE  IInv'
<1>1. /\ UNCHANGED <<query, walk, since>>
      /\ lost' = (lost \/ \E r \in Listed : r \notin Listed')
      /\ gone' = (gone \/ \E r \in Listed : r \notin Listed')
      /\ gained' = (gained \/ \E r \in Listed' : r \notin Listed)
      /\ moved' = moved \union {r \in Listed \intersect Listed' : time'[r] # time[r]}
      /\ stage # "noPage" /\ stage # "idle"
  BY DEF Watch, Walking
<1>2. UNCHANGED <<listing, sort, newestFirst, size, stage, skip, blank, seen, again>>
  BY <1>1 DEF query, walk
<1>3. /\ skip \in Nat
      /\ clock \in Nat /\ Timed(Listed, time, clock)
      /\ clock' \in Nat /\ Timed(Listed', time', clock')
      /\ newestFirst \in BOOLEAN
      /\ Cardinality(Listed) \in Nat /\ Cardinality(Listed') \in Nat
      /\ IsFiniteSet(Listed')
      /\ \A r \in Listed : Place(Listed, r) \in Nat
      /\ \A r \in Listed' : Place(Listed, r)' \in Nat
  <2>1. IsFiniteSet(Listed') /\ Cardinality(Listed') \in Nat
    BY ListedFiniteNext, FiniteRows
  <2>2. skip \in Nat
    BY DEF IInv, TypeOK
  <2>3. \A r \in Listed : Place(Listed, r) \in Nat
    BY ListedFinite DEF IInv
  <2> QED  BY <2>1, <2>2, <2>3, ListedFinite, ListedFiniteNext DEF IInv
<1>4. \A r : Place(Listed, r)' = Cardinality(Upto(newestFirst, time', Listed', r))
  BY <1>2 DEF Place, Upto
<1>5. ASSUME Listed \subseteq Listed', newestFirst \/ moved' = {}, NEW r \in Listed \ moved'
      PROVE  Place(Listed, r) <= Place(Listed, r)'
  <2>1. time'[r] = time[r] /\ time[r] \in Nat
    BY <1>1, <1>3, <1>5 DEF Timed
  <2>2. ASSUME NEW q \in Listed, Before(newestFirst, time[q], time[r])
        PROVE  Before(newestFirst, time'[q], time'[r])
    <3>1. CASE time'[q] = time[q]
      BY <2>1, <2>2, <3>1
    <3>2. CASE time'[q] # time[q]
      <4>1. time[r] < time'[q]
        BY <1>5, <3>2
      <4>2. q \in moved'
        BY <1>1, <1>5, <3>2
      <4>3. newestFirst
        BY <1>5, <4>2
      <4>4. time'[q] \in Nat
        BY <1>3, <1>5 DEF Timed
      <4> QED  BY <2>1, <4>1, <4>3, <4>4 DEF Before
    <3> QED  BY <3>1, <3>2
  <2>3. Cardinality(Upto(newestFirst, time, Listed, r)) <=
        Cardinality(Upto(newestFirst, time', Listed', r))
    BY <1>3, <1>5, <2>2, PlaceGrows
  <2> QED  BY <1>4, <2>3 DEF Place
<1>6. ASSUME Listed' \subseteq Listed, moved' = {}, NEW r \in Listed'
      PROVE  Place(Listed, r)' <= Place(Listed, r)
  <2>1. \A q \in Listed' : time'[q] = time[q]
    BY <1>1, <1>6
  <2>2. Cardinality(Upto(newestFirst, time', Listed', r)) <=
        Cardinality(Upto(newestFirst, time, Listed, r))
    BY <1>3, <1>6, <2>1, PlaceGrows DEF Before
  <2> QED  BY <1>4, <2>2 DEF Place
<1>7. IdleInv'
  BY <1>1, <1>2 DEF IInv, IdleInv
<1>8. SeenInv'
  <2>1. ~lost' => since \subseteq Listed'
    BY <1>1 DEF IInv, SeenInv
  <2>2. ASSUME ~lost', sort # "none", newestFirst \/ moved' = {}, NEW r \in since \ moved',
               Place(Listed, r)' <= skip
        PROVE  r \in seen
    <3>1. ~lost /\ Listed \subseteq Listed' /\ Steady /\ r \in since \ moved
      BY <1>1, <2>2 DEF Steady
    <3>2. r \in Listed /\ (Place(Listed, r) <= skip => r \in seen)
      BY <1>1, <2>2, <3>1 DEF IInv, SeenInv
    <3>3. Place(Listed, r) <= Place(Listed, r)'
      BY <1>5, <2>2, <3>1, <3>2
    <3>4. Place(Listed, r) \in Nat /\ Place(Listed, r)' \in Nat
      BY <1>3, <3>1, <3>2
    <3>5. Place(Listed, r) <= skip
      BY <1>3, <2>2, <3>3, <3>4
    <3> QED  BY <3>2, <3>5
  <2> QED  BY <1>1, <1>2, <2>1, <2>2 DEF SeenInv, Steady
<1>9. OnceInv'
  <2>1. ASSUME ~gained', moved' = {}, sort # "none", NEW r \in seen \intersect Listed'
        PROVE  Place(Listed, r)' <= skip
    <3>1. ~gained /\ Listed' \subseteq Listed /\ moved = {}
      BY <1>1, <2>1
    <3>2. r \in Listed /\ r \in Listed' /\ Place(Listed, r) <= skip
      BY <2>1, <3>1 DEF IInv, OnceInv
    <3>3. Place(Listed, r)' <= Place(Listed, r)
      BY <1>6, <2>1, <3>1, <3>2
    <3> QED  BY <1>3, <3>2, <3>3
  <2>2. again => gained' \/ moved' # {} \/ sort = "none"
    BY <1>1 DEF IInv, OnceInv
  <2> QED  BY <1>2, <2>1, <2>2 DEF OnceInv
<1>10. PageInv'
  <2>1. ASSUME stage = "counted", ~gone', listing # "filtered"
        PROVE  skip < Cardinality(Listed')
    <3>1. ~gone /\ Listed \subseteq Listed'
      BY <1>1, <2>1
    <3>2. skip < Cardinality(Listed)
      BY <2>1, <3>1 DEF IInv, PageInv
    <3>3. Cardinality(Listed) <= Cardinality(Listed')
      BY <1>3, <3>1, FS_Subset
    <3> QED  BY <1>3, <3>2, <3>3
  <2>2. stage = "asking" /\ blank => gone' \/ listing = "filtered"
    BY <1>1 DEF IInv, PageInv
  <2> QED  BY <1>2, <2>1, <2>2 DEF PageInv
<1> QED  BY <1>7, <1>8, <1>9, <1>10 DEF IInv

\* A step of the others leaves each row that stays in its place, or puts it
\* behind all others.
RowsStep ==
  /\ clock' \in 0..MaxWrites /\ clock <= clock'
  /\ time' \in [1..MaxWrites -> 1..MaxWrites]
  /\ live' \subseteq 1..clock' /\ marked' \subseteq live' /\ open' \in BOOLEAN
  /\ OrderInv'
  /\ \A q \in live \intersect live' :
       time'[q] = time[q] \/ \A r \in live : time[r] < time'[q]

LEMMA OutsideInv ==
  ASSUME IInv,
         \/ \E match \in BOOLEAN : Add(match)
         \/ \E r \in 1..MaxWrites : Remove(r) \/ Mark(r) \/ Unmark(r)
         \/ Close
  PROVE  IInv'
<1>1. Watch
  BY DEF Add, Remove, Mark, Unmark, Close
<1>2. UNCHANGED <<query, walk, since>>
  BY <1>1 DEF Watch
<1>3. {lost', gained', gone'} \subseteq BOOLEAN
  BY <1>1 DEF Watch
<1>4. /\ clock \in Nat /\ MaxWrites \in Nat /\ clock <= MaxWrites
      /\ time \in [1..MaxWrites -> 1..MaxWrites]
      /\ live \subseteq 1..clock /\ marked \subseteq live /\ open \in BOOLEAN
      /\ \A q \in live : time[q] \in 0..clock
      /\ \A q, r \in live : time[q] = time[r] => q = r
      /\ \A r \in 1..MaxWrites : r > clock => time[r] = r
  BY WritesAssumption DEF IInv, TypeOK, OrderInv, Timed
<1>5. ASSUME NEW match \in BOOLEAN, Add(match)  PROVE RowsStep
  <2>1. /\ clock + 1 <= MaxWrites /\ clock' = clock + 1 /\ open' \in BOOLEAN /\ time' = time
        /\ live' = live \union {clock + 1}
        /\ marked' \subseteq marked \union {clock + 1}
        /\ marked' \subseteq live'
    BY <1>4, <1>5 DEF Add
  <2>2. time[clock + 1] = clock + 1
    BY <1>4, <2>1
  <2>3. \A q \in live' : q \in 0..clock' /\ time'[q] \in 0..clock'
    BY <1>4, <2>1, <2>2
  <2>4. \A q, r \in live' : time'[q] = time'[r] => q = r
    BY <1>4, <2>1, <2>2
  <2>5. OrderInv'
    BY <1>4, <2>1, <2>3, <2>4 DEF OrderInv, Timed
  <2>6. live' \subseteq 1..clock' /\ clock' \in 0..MaxWrites
    BY <1>4, <2>1
  <2> QED  BY <1>4, <2>1, <2>5, <2>6 DEF RowsStep
<1>6. ASSUME UNCHANGED <<clock, time>>, live' \subseteq live, marked' \subseteq live',
             open' \in BOOLEAN
      PROVE  RowsStep
  <2>1. OrderInv'
    BY <1>4, <1>6 DEF OrderInv, Timed
  <2> QED  BY <1>4, <1>6, <2>1 DEF RowsStep
<1>7. ASSUME NEW r \in 1..MaxWrites, Remove(r)  PROVE RowsStep
  BY <1>4, <1>6, <1>7 DEF Remove
<1>8. ASSUME NEW r \in 1..MaxWrites, Mark(r) \/ Unmark(r)  PROVE RowsStep
  <2>1. /\ r \in live /\ live' = live /\ open' = open /\ marked' \subseteq live'
        /\ Touch(r)
    BY <1>4, <1>8 DEF Mark, Unmark
  <2>2. CASE sort # "updated"
    BY <1>4, <1>6, <2>1, <2>2 DEF Touch
  <2>3. CASE sort = "updated"
    <3>1. /\ clock + 1 <= MaxWrites /\ clock' = clock + 1
          /\ time' = [time EXCEPT ![r] = clock + 1]
      BY <1>4, <2>1, <2>3 DEF Touch
    <3>2. time'[r] = clock + 1 /\ \A q \in 1..MaxWrites : q # r => time'[q] = time[q]
      BY <1>4, <3>1
    <3>3. \A q \in live : /\ q \in Nat /\ q <= clock /\ q \in 1..MaxWrites
                          /\ time[q] \in Nat /\ time[q] <= clock
      BY <1>4
    <3>4. \A q \in live : q \in 0..clock' /\ time'[q] \in 0..clock'
      <4>1. clock \in Nat /\ clock' = clock + 1
        BY <1>4, <3>1
      <4>2. ASSUME NEW q \in live  PROVE q \in 0..clock' /\ time'[q] \in 0..clock'
        <5>1. time'[q] = clock + 1 \/ time'[q] = time[q]
          BY <3>2, <3>3
        <5> QED  BY <3>3, <4>1, <5>1
      <4> QED  BY <4>2
    <3>5. \A q, v \in live : time'[q] = time'[v] => q = v
      <4> SUFFICES ASSUME NEW q \in live, NEW v \in live, time'[q] = time'[v]
                   PROVE  q = v
        OBVIOUS
      <4>1. CASE q # r /\ v # r
        BY <1>4, <3>2, <3>3, <4>1
      <4>2. \A x \in live : x # r => time'[x] # time'[r]
        <5>1. clock \in Nat
          BY <1>4
        <5>2. ASSUME NEW x \in live, x # r  PROVE time'[x] # time'[r]
          <6>1. time'[x] = time[x] /\ time[x] \in Nat /\ time[x] <= clock
            BY <3>2, <3>3, <5>2
          <6> QED  BY <3>2, <5>1, <6>1
        <5> QED  BY <5>2
      <4> QED  BY <4>1, <4>2
    <3>6. \A q \in 1..MaxWrites : q > clock' => time'[q] = q
      <4> SUFFICES ASSUME NEW q \in 1..MaxWrites, q > clock + 1  PROVE time'[q] = q
        BY <3>1
      <4>1. clock \in Nat /\ q \in Nat /\ r \in Nat /\ r <= clock
        BY <1>4, <2>1, <3>3
      <4>2. q > clock /\ q # r
        BY <4>1
      <4>3. time[q] = q
        BY <1>4, <4>2
      <4> QED  BY <3>2, <4>2, <4>3
    <3>7. OrderInv'
      BY <2>1, <3>4, <3>5, <3>6 DEF OrderInv, Timed
    <3>8. \A q \in live : time'[q] = time[q] \/ \A v \in live : time[v] < time'[q]
      <4>1. clock \in Nat
        BY <1>4
      <4>2. \A v \in live : time[v] < clock + 1
        BY <3>3, <4>1
      <4> QED  BY <3>2, <3>3, <4>2
    <3>9. time' \in [1..MaxWrites -> 1..MaxWrites] /\ clock' \in 0..MaxWrites
      BY <1>4, <3>1
    <3>10. live' \subseteq 1..clock'
      BY <1>4, <2>1, <3>1
    <3>11. clock <= clock' /\ open' \in BOOLEAN /\ marked' \subseteq live'
           /\ live \intersect live' = live
      BY <1>4, <2>1, <3>1
    <3> QED  BY <3>7, <3>8, <3>9, <3>10, <3>11 DEF RowsStep
  <2> QED  BY <2>2, <2>3
<1>9. ASSUME Close  PROVE RowsStep
  <2>1. UNCHANGED <<clock, time>> /\ open' = FALSE /\ live' = {} /\ marked' = {}
    BY <1>9 DEF Close
  <2> QED  BY <1>6, <2>1
<1>10. RowsStep
  BY <1>5, <1>7, <1>8, <1>9
<1>11. TypeOK'
  <2>1. /\ seen' \subseteq 1..clock /\ since' \subseteq 1..clock
        /\ moved' \subseteq 1..clock
    BY <1>1, <1>2, <1>4 DEF IInv, TypeOK, walk, Watch, Listed, ListedOf
  <2>2. 1..clock \subseteq 1..clock'
    BY <1>4, <1>10 DEF RowsStep
  <2> QED  BY <1>2, <1>3, <1>10, <2>1, <2>2 DEF IInv, TypeOK, query, walk, RowsStep
<1>12. \A q \in Listed \intersect Listed' :
         time'[q] = time[q] \/ \A r \in Listed : time[r] < time'[q]
  <2>1. Listed \subseteq live /\ Listed' \subseteq live'
    BY DEF Listed, ListedOf
  <2> QED  BY <1>10, <2>1 DEF RowsStep
<1>13. OrderInv'
  BY <1>10 DEF RowsStep
<1> QED  BY <1>1, <1>11, <1>12, <1>13, WatchInv

LEMMA StepInv == IInv /\ [Next]_vars => IInv'
<1> SUFFICES ASSUME IInv, [Next]_vars  PROVE IInv'
  OBVIOUS
<1>1. CASE UNCHANGED vars
  <2>1. UNCHANGED <<table, query, walk, history>>
    BY <1>1 DEF vars
  <2>2. TypeOK' /\ IdleInv'
    BY <2>1 DEF IInv, TypeOK, IdleInv, table, query, walk, history
  <2>3. SeenInv' /\ OnceInv' /\ PageInv' /\ OrderInv'
    BY <2>1, SameListing DEF IInv, SeenInv, OnceInv, PageInv, Steady, walk, history, query
  <2> QED  BY <2>2, <2>3 DEF IInv
<1>2. ASSUME NEW s \in Sizes, AskMessages(s)  PROVE IInv'
  BY <1>2, AskInv DEF AskMessages, Handlers, Listings, Sorts
<1>3. ASSUME NEW unread \in BOOLEAN, NEW k \in Sorts, NEW d \in BOOLEAN, NEW s \in Sizes,
             AskChats(unread, k, d, s)
      PROVE  IInv'
  BY <1>3, AskInv DEF AskChats, Handlers, Listings
<1>4. ASSUME NEW filter \in BOOLEAN, NEW k \in Sorts, NEW d \in BOOLEAN, NEW s \in Sizes,
             AskAds(filter, k, d, s) \/ AskUsers(filter, k, d, s)
      PROVE  IInv'
  BY <1>4, AskInv DEF AskAds, AskUsers, Handlers, Listings
<1>5. ASSUME NEW k \in Sorts, NEW d \in BOOLEAN, NEW s \in Sizes, AskWords(k, d, s)
      PROVE  IInv'
  BY <1>5, AskInv DEF AskWords, Handlers, Listings
<1> QED
  BY <1>1, <1>2, <1>3, <1>4, <1>5, AdmitInv, HiddenAdsInv, CountInv, SelectInv, OutsideInv DEF Next

\* The inductive invariant holds in every state.
THEOREM Invariance == Spec => []IInv
  BY InitInv, StepInv, PTL DEF Spec

\* Every variable keeps its type.
THEOREM TypeCorrect == Spec => []TypeOK
  BY Invariance, PTL DEF IInv

\* A walk to the last page of an ordered listing has seen what was there
\* throughout, unless an update moved it, or a row past it.
THEOREM WalksAreComplete == Spec => []WalkIsComplete
<1>1. IInv => WalkIsComplete
  BY DEF IInv, SeenInv, Steady, WalkIsComplete
<1> QED  BY <1>1, Invariance, PTL

\* An accepted page has rows, unless they went after the count or do not match.
THEOREM PagesAreNotEmpty == Spec => []EmptyPageHasACause
<1>1. IInv => EmptyPageHasACause
  BY DEF IInv, PageInv, EmptyPageHasACause
<1> QED  BY <1>1, Invariance, PTL

\* No row of an ordered listing comes twice unless one was added, or moved by
\* an update.
THEOREM RowsComeOnce == Spec => []RowComesOnce
<1>1. IInv => RowComesOnce
  BY DEF IInv, OnceInv, RowComesOnce
<1> QED  BY <1>1, Invariance, PTL

-----------------------------------------------------------------------------
(* Profile: what a request knows                                           *)

RequestRows == [at : RequestStages, actor : Users \union {None}, target : Users \union {None},
                patch : Patches, read : Rows \union {None}]

ProfileTyped ==
  /\ users \in SUBSET Users
  /\ row \in [Users -> Rows]
  /\ req \in [Requests -> RequestRows]
  /\ answer \in [Requests -> Answers]
  /\ held \in [Requests -> SUBSET Columns]

\* Where the request is tells who sent it and what it may have been told.
StageOK(r) ==
  /\ req[r].at # "over" => answer[r] = "nothing"
  /\ req[r].at = "idle" => DOMAIN req[r].patch = {}
  /\ req[r].at \in {"doomed", "found"} => req[r].actor \in Admins
  /\ req[r].at \in {"admitted", "read"} => req[r].read \in Rows
  /\ req[r].at = "read" =>
       req[r].target \in Users /\ (req[r].actor = req[r].target \/ req[r].actor \in Admins)

\* The row it has read is that of its target.
ReadTarget(r) == req[r].at = "read" \/ (req[r].at = "admitted" /\ req[r].actor = req[r].target)

\* What the row holds, or held when it was read, of what was asked for.
HeldOK(r) ==
  /\ held[r] \subseteq DOMAIN req[r].patch
  /\ req[r].target \in Users =>
       \A f \in DOMAIN req[r].patch :
         row[req[r].target][f] = req[r].patch[f] => f \in held[r]
  /\ ReadTarget(r) =>
       \A f \in DOMAIN req[r].patch : req[r].read[f] = req[r].patch[f] => f \in held[r]

ProfileInv == ProfileTyped /\ \A r \in Requests : StageOK(r) /\ HeldOK(r)

LEMMA PatchType ==
  ASSUME NEW p \in Patches
  PROVE  DOMAIN p \subseteq Columns /\ \A f \in DOMAIN p : p[f] \in Values
<1> QED  BY DEF Patches

LEMMA NoPatchType == NoPatch \in Patches /\ DOMAIN NoPatch = {}
<1>1. NoPatch \in [{} -> Values]
  BY DEF NoPatch
<1> QED  BY <1>1 DEF NoPatch, Patches

\* A request goes on, with the row it had read or a new one.
LEMMA GoesFacts ==
  ASSUME ProfileTyped, NEW r \in Requests, NEW step \in RequestStages, Goes(r, step)
  PROVE  /\ req' \in [Requests -> RequestRows]
         /\ \A q \in Requests \ {r} : req'[q] = req[q]
         /\ req'[r].at = step /\ req'[r].actor = req[r].actor
         /\ req'[r].target = req[r].target /\ req'[r].patch = req[r].patch
         /\ req'[r].read = req[r].read
<1>1. req[r] \in RequestRows
  BY DEF ProfileTyped
<1> QED  BY <1>1 DEF Goes, ProfileTyped, RequestRows

LEMMA ReadsFacts ==
  ASSUME ProfileTyped, NEW r \in Requests, NEW step \in RequestStages, NEW u \in Users,
         Reads(r, step, u)
  PROVE  /\ req' \in [Requests -> RequestRows]
         /\ \A q \in Requests \ {r} : req'[q] = req[q]
         /\ req'[r].at = step /\ req'[r].actor = req[r].actor
         /\ req'[r].target = req[r].target /\ req'[r].patch = req[r].patch
         /\ req'[r].read = row[u]
<1>1. req[r] \in RequestRows /\ row[u] \in Rows
  BY DEF ProfileTyped
<1> QED  BY <1>1 DEF Reads, ProfileTyped, RequestRows

\* A step of one request that leaves the rows alone.
LEMMA QuietKeeps ==
  ASSUME ProfileInv, NEW r \in Requests,
         req' \in [Requests -> RequestRows], \A q \in Requests \ {r} : req'[q] = req[q],
         req'[r].actor = req[r].actor, req'[r].target = req[r].target,
         req'[r].patch = req[r].patch,
         answer' \in [Requests -> Answers], \A q \in Requests \ {r} : answer'[q] = answer[q],
         UNCHANGED <<row, held>>, users' \in SUBSET users,
         StageOK(r)',
         ReadTarget(r)' =>
           \/ ReadTarget(r) /\ req'[r].read = req[r].read
           \/ req'[r].target \in Users /\ req'[r].read = row[req'[r].target]
  PROVE  ProfileInv'
<1>1. ProfileTyped'
  BY DEF ProfileInv, ProfileTyped
<1>2. HeldOK(r)'
  BY DEF ProfileInv, HeldOK
<1>3. ASSUME NEW q \in Requests, q # r
      PROVE  StageOK(q)' /\ HeldOK(q)'
  <2>1. req'[q] = req[q] /\ answer'[q] = answer[q] /\ StageOK(q) /\ HeldOK(q)
    BY <1>3 DEF ProfileInv
  <2> QED  BY <2>1 DEF StageOK, HeldOK, ReadTarget
<1> QED  BY <1>1, <1>2, <1>3 DEF ProfileInv

\* An answer that writes no row.
LEMMA AnswerKeeps ==
  ASSUME ProfileInv, NEW r \in Requests, NEW a \in Answers, Told(r, a),
         UNCHANGED <<row, held>>, users' \in SUBSET users
  PROVE  ProfileInv'
<1>1. /\ req' \in [Requests -> RequestRows]
      /\ \A q \in Requests \ {r} : req'[q] = req[q]
      /\ req'[r].at = "over" /\ req'[r].actor = req[r].actor
      /\ req'[r].target = req[r].target /\ req'[r].patch = req[r].patch
  BY GoesFacts DEF Told, ProfileInv, RequestStages
<1>2. /\ answer' \in [Requests -> Answers]
      /\ \A q \in Requests \ {r} : answer'[q] = answer[q]
  BY DEF Told, ProfileInv, ProfileTyped
<1>3. StageOK(r)' /\ ~ ReadTarget(r)'
  BY <1>1 DEF StageOK, ReadTarget
<1> QED  BY <1>1, <1>2, <1>3, QuietKeeps

\* The steps that read or decide.
LEMMA DecisionKeeps ==
  ASSUME ProfileInv, NEW r \in Requests,
         \/ AdmitUser(r) \/ AdmitSuperAdmin(r) \/ EmptyBody(r) \/ WrongId(r)
         \/ FindForSuperAdmin(r) \/ CheckOwn(r) \/ Unchanged(r)
         \/ FindForDelete(r) \/ DeleteUser(r) \/ Fails(r)
  PROVE  ProfileInv'
<1>1. ProfileTyped /\ StageOK(r) /\ req[r] \in RequestRows
  BY DEF ProfileInv, ProfileTyped
<1>2. {"over", "admitted", "doomed", "read", "found"} \subseteq RequestStages
  BY DEF RequestStages
<1>3. {"refused", "unchanged", "deleted", "failed"} \subseteq Answers
  BY DEF Answers
<1>q. ASSUME UNCHANGED <<users, row, answer, held>>
      PROVE  /\ answer' \in [Requests -> Answers] /\ users' \in SUBSET users
             /\ \A q \in Requests \ {r} : answer'[q] = answer[q]
             /\ UNCHANGED <<row, held>>
  BY <1>1, <1>q DEF ProfileTyped
<1>4. CASE Refuse(r) \/ Unchanged(r) \/ DeleteUser(r) \/ Fails(r)
  BY <1>3, <1>4, AnswerKeeps DEF Refuse, Unchanged, DeleteUser, Fails
<1>5. ASSUME NEW step \in RequestStages, Goes(r, step), UNCHANGED <<users, row, answer, held>>,
             req[r].at # "over",
             \/ step \in {"doomed", "found"} /\ req[r].actor \in Admins
             \/ /\ step = "read" /\ req[r].at = "admitted" /\ req[r].actor = req[r].target
                /\ req[r].target \in Users
      PROVE  ProfileInv'
  <2>1. /\ req' \in [Requests -> RequestRows]
        /\ \A q \in Requests \ {r} : req'[q] = req[q]
        /\ req'[r].at = step /\ req'[r].actor = req[r].actor
        /\ req'[r].target = req[r].target /\ req'[r].patch = req[r].patch
        /\ req'[r].read = req[r].read
    BY <1>1, <1>5, GoesFacts
  <2>2. StageOK(r)'
    BY <1>1, <1>5, <2>1 DEF StageOK
  <2>3. ReadTarget(r)' => ReadTarget(r)
    BY <1>5, <2>1 DEF ReadTarget
  <2>4. /\ answer' \in [Requests -> Answers] /\ users' \in SUBSET users
        /\ \A q \in Requests \ {r} : answer'[q] = answer[q]
        /\ UNCHANGED <<row, held>>
    BY <1>q, <1>5
  <2> QED  BY <2>1, <2>2, <2>3, <2>4, QuietKeeps
<1>6. ASSUME NEW step \in RequestStages, NEW u \in users, Reads(r, step, u),
             UNCHANGED <<users, row, answer, held>>, req[r].at # "over",
             \/ step = "admitted" /\ u = req[r].actor
             \/ step = "read" /\ u = req[r].target /\ req[r].actor \in Admins
      PROVE  ProfileInv'
  <2>1. u \in Users /\ row[u] \in Rows
    BY <1>1 DEF ProfileTyped
  <2>2. /\ req' \in [Requests -> RequestRows]
        /\ \A q \in Requests \ {r} : req'[q] = req[q]
        /\ req'[r].at = step /\ req'[r].actor = req[r].actor
        /\ req'[r].target = req[r].target /\ req'[r].patch = req[r].patch
        /\ req'[r].read = row[u]
    BY <1>1, <1>6, <2>1, ReadsFacts
  <2>3. StageOK(r)'
    BY <1>1, <1>6, <2>1, <2>2 DEF StageOK
  <2>4. ReadTarget(r)' => req'[r].target = u
    BY <1>6, <2>2 DEF ReadTarget
  <2>5. ReadTarget(r)' => req'[r].target \in Users /\ req'[r].read = row[req'[r].target]
    BY <2>1, <2>2, <2>4
  <2>6. /\ answer' \in [Requests -> Answers] /\ users' \in SUBSET users
        /\ \A q \in Requests \ {r} : answer'[q] = answer[q]
        /\ UNCHANGED <<row, held>>
    BY <1>q, <1>6
  <2> QED  BY <2>2, <2>3, <2>5, <2>6, QuietKeeps
<1>7. CASE AdmitUser(r)
  BY <1>2, <1>4, <1>6, <1>7 DEF AdmitUser, Is
<1>8. CASE AdmitSuperAdmin(r)
  BY <1>2, <1>4, <1>5, <1>8 DEF AdmitSuperAdmin, Is
<1>9. CASE FindForSuperAdmin(r)
  BY <1>2, <1>4, <1>6, <1>9 DEF FindForSuperAdmin, Is
<1>10. CASE CheckOwn(r)
  BY <1>1, <1>2, <1>4, <1>5, <1>10 DEF CheckOwn, Is, RequestRows
<1>11. CASE FindForDelete(r)
  BY <1>1, <1>2, <1>4, <1>5, <1>11 DEF FindForDelete, Is, StageOK
<1> QED  BY <1>4, <1>7, <1>8, <1>9, <1>10, <1>11 DEF EmptyBody, WrongId

\* What the rows hold is remembered.
LEMMA RememberFacts ==
  ASSUME req' \in [Requests -> RequestRows], row' \in [Users -> Rows],
         held \in [Requests -> SUBSET Columns], Remember
  PROVE  /\ held' \in [Requests -> SUBSET Columns]
         /\ \A q \in Requests :
              /\ held'[q] = held[q] \union Holding(q)
              /\ held[q] \subseteq DOMAIN req'[q].patch => held'[q] \subseteq DOMAIN req'[q].patch
              /\ req'[q].target \in Users =>
                   \A f \in DOMAIN req'[q].patch :
                     row'[req'[q].target][f] = req'[q].patch[f] => f \in held'[q]
<1>1. ASSUME NEW q \in Requests
      PROVE  /\ held'[q] = held[q] \union Holding(q)
             /\ Holding(q) \subseteq DOMAIN req'[q].patch
             /\ DOMAIN req'[q].patch \subseteq Columns
  <2>1. req'[q].patch \in Patches
    BY DEF RequestRows
  <2> QED  BY <2>1, PatchType DEF Remember, Holding
<1>2. held' = [q \in Requests |-> held'[q]]
  BY DEF Remember
<1>3. \A q \in Requests : held'[q] \in SUBSET Columns
  BY <1>1
<1> QED  BY <1>1, <1>2, <1>3 DEF Holding

\* A new request.
LEMMA ArriveKeeps ==
  ASSUME ProfileInv, NEW r \in Requests, NEW step \in {"update", "delete"},
         NEW actor \in Users, NEW target \in Users \union {None}, NEW patch \in Patches,
         Arrive(r, step, actor, target, patch)
  PROVE  ProfileInv'
<1> DEFINE new == [at |-> step, actor |-> actor, target |-> target, patch |-> patch,
                   read |-> None]
<1>1. ProfileTyped /\ StageOK(r) /\ HeldOK(r)
  BY DEF ProfileInv
<1>2. new \in RequestRows
  BY DEF RequestRows, RequestStages
<1>3. /\ req' \in [Requests -> RequestRows] /\ req'[r] = new
      /\ \A q \in Requests \ {r} : req'[q] = req[q]
  BY <1>1, <1>2 DEF Arrive, ProfileTyped
<1>4. UNCHANGED <<users, row, answer>> /\ Remember
  BY DEF Arrive
<1>5. held[r] = {} /\ answer[r] = "nothing"
  BY <1>1 DEF Arrive, Is, StageOK, HeldOK
<1>6. /\ held' \in [Requests -> SUBSET Columns]
      /\ \A q \in Requests :
           /\ held[q] \subseteq held'[q]
           /\ held[q] \subseteq DOMAIN req'[q].patch => held'[q] \subseteq DOMAIN req'[q].patch
           /\ req'[q].target \in Users =>
                \A f \in DOMAIN req'[q].patch :
                  row'[req'[q].target][f] = req'[q].patch[f] => f \in held'[q]
  BY <1>1, <1>3, <1>4, RememberFacts DEF ProfileTyped
<1>7. ProfileTyped'
  BY <1>1, <1>3, <1>4, <1>6 DEF ProfileTyped
<1>8. StageOK(r)' /\ HeldOK(r)'
  <2>1. ~ ReadTarget(r)'
    BY <1>3 DEF ReadTarget
  <2> QED  BY <1>3, <1>4, <1>5, <1>6, <2>1 DEF StageOK, HeldOK
<1>9. ASSUME NEW q \in Requests, q # r
      PROVE  StageOK(q)' /\ HeldOK(q)'
  <2>1. req'[q] = req[q] /\ StageOK(q) /\ HeldOK(q)
    BY <1>3, <1>9 DEF ProfileInv
  <2> QED  BY <1>4, <1>6, <2>1 DEF StageOK, HeldOK, ReadTarget
<1> QED  BY <1>7, <1>8, <1>9 DEF ProfileInv

\* An update: whatever others asked for and find now is remembered too.
LEMMA UpdateKeeps ==
  ASSUME ProfileInv, NEW r \in Requests, UpdateSaveUser(r)
  PROVE  ProfileInv'
<1>1. ProfileTyped /\ "over" \in RequestStages /\ "updated" \in Answers
  BY DEF ProfileInv, RequestStages, Answers
<1>2. /\ req' \in [Requests -> RequestRows]
      /\ \A q \in Requests \ {r} : req'[q] = req[q]
      /\ req'[r].at = "over" /\ req'[r].patch = req[r].patch
  BY <1>1, GoesFacts DEF UpdateSaveUser, Told
<1>3. /\ answer' \in [Requests -> Answers] /\ users' = users
      /\ \A q \in Requests \ {r} : answer'[q] = answer[q]
  BY <1>1 DEF UpdateSaveUser, Told, ProfileTyped
<1>4. row' \in [Users -> Rows]
  <2>1. /\ req[r].patch \in Patches /\ Changed(r) \subseteq DOMAIN req[r].patch
        /\ req[r].target \in Users
    BY <1>1 DEF ProfileTyped, RequestRows, Changed, UpdateSaveUser, RowThere
  <2>2. Updated(r) \in Rows
    BY <1>1, <2>1, PatchType DEF Updated, ProfileTyped, Rows
  <2> QED  BY <1>1, <2>2 DEF UpdateSaveUser, ProfileTyped
<1>5. /\ held' \in [Requests -> SUBSET Columns]
      /\ \A q \in Requests :
           /\ held[q] \subseteq held'[q]
           /\ held[q] \subseteq DOMAIN req'[q].patch => held'[q] \subseteq DOMAIN req'[q].patch
           /\ req'[q].target \in Users =>
                \A f \in DOMAIN req'[q].patch :
                  row'[req'[q].target][f] = req'[q].patch[f] => f \in held'[q]
  BY <1>1, <1>2, <1>4, RememberFacts DEF ProfileTyped, UpdateSaveUser
<1>6. ProfileTyped'
  BY <1>1, <1>2, <1>3, <1>4, <1>5 DEF ProfileTyped
<1>7. StageOK(r)' /\ HeldOK(r)'
  <2>1. HeldOK(r)
    BY DEF ProfileInv
  <2> QED  BY <1>2, <1>5, <2>1 DEF StageOK, HeldOK, ReadTarget
<1>8. ASSUME NEW q \in Requests, q # r
      PROVE  StageOK(q)' /\ HeldOK(q)'
  <2>1. req'[q] = req[q] /\ answer'[q] = answer[q] /\ StageOK(q) /\ HeldOK(q)
    BY <1>2, <1>3, <1>8 DEF ProfileInv
  <2> QED  BY <1>5, <2>1 DEF StageOK, HeldOK, ReadTarget
<1> QED  BY <1>6, <1>7, <1>8 DEF ProfileInv

\* Other handlers write columns that nobody asks for here.
LEMMA ElsewhereKeeps ==
  ASSUME ProfileInv, NEW u \in Users, NEW f \in OtherColumns, NEW v \in Values,
         WriteElsewhere(u, f, v)
  PROVE  /\ ProfileInv'
         /\ row'[u] \in Rows /\ row' = [row EXCEPT ![u] = row'[u]]
         /\ \A g \in Columns : row'[u][g] = row[u][g]
<1>1. /\ ProfileTyped /\ UNCHANGED <<users, req, answer, held>>
      /\ row' = [row EXCEPT ![u][f] = v]
  BY DEF ProfileInv, WriteElsewhere
<1>2. row[u] \in [Columns \union OtherColumns -> Values] /\ row \in [Users -> Rows]
  BY <1>1 DEF ProfileTyped, Rows
<1>3. row'[u] = [row[u] EXCEPT ![f] = v] /\ \A w \in Users \ {u} : row'[w] = row[w]
  BY <1>1, <1>2
<1>4. row'[u] \in Rows /\ \A g \in Columns : row'[u][g] = row[u][g]
  BY <1>2, <1>3, ColumnsAssumption DEF Rows
<1>5. row' \in [Users -> Rows] /\ row' = [row EXCEPT ![u] = row'[u]]
  BY <1>1, <1>2, <1>3, <1>4
<1>6. ASSUME NEW q \in Requests
      PROVE  StageOK(q)' /\ HeldOK(q)'
  <2>1. StageOK(q) /\ HeldOK(q) /\ req[q].patch \in Patches
    BY <1>1 DEF ProfileInv, ProfileTyped, RequestRows
  <2>2. DOMAIN req[q].patch \subseteq Columns
    BY <2>1, PatchType
  <2>3. \A w \in Users, g \in Columns : row'[w][g] = row[w][g]
    BY <1>3, <1>4
  <2> QED  BY <1>1, <2>1, <2>2, <2>3 DEF StageOK, HeldOK, ReadTarget
<1>7. ProfileTyped'
  BY <1>1, <1>5 DEF ProfileTyped
<1> QED  BY <1>4, <1>5, <1>6, <1>7 DEF ProfileInv

LEMMA ProfileInitInv == ProfileInit => ProfileInv
<1> SUFFICES ASSUME ProfileInit PROVE ProfileInv
  OBVIOUS
<1>1. NoRequest \in RequestRows
  BY NoPatchType DEF NoRequest, RequestRows, RequestStages
<1>2. ProfileTyped
  BY <1>1 DEF ProfileInit, ProfileTyped, Answers
<1>3. \A r \in Requests : StageOK(r) /\ HeldOK(r)
  BY NoPatchType DEF ProfileInit, NoRequest, StageOK, HeldOK, ReadTarget
<1> QED  BY <1>2, <1>3 DEF ProfileInv

LEMMA ProfileStepInv == ProfileInv /\ [ProfileNext]_profileVars => ProfileInv'
<1> SUFFICES ASSUME ProfileInv, [ProfileNext]_profileVars PROVE ProfileInv'
  OBVIOUS
<1>1. CASE UNCHANGED profileVars
  BY <1>1 DEF profileVars, ProfileInv, ProfileTyped, StageOK, HeldOK, ReadTarget
<1> QED
  BY <1>1, NoPatchType, ArriveKeeps, DecisionKeeps, UpdateKeeps, ElsewhereKeeps DEF ProfileNext

LEMMA ProfileInvariance == ProfileSpec => []ProfileInv
<1> QED  BY ProfileInitInv, ProfileStepInv, PTL DEF ProfileSpec

-----------------------------------------------------------------------------
(* Profile: the promise of Records                                         *)

AskedNow == [r \in Requests |-> [actor |-> req[r].actor, target |-> req[r].target,
                                 patch |-> req[r].patch]]
ToldNow == [r \in Requests |-> IF answer[r] = "failed" THEN "refused" ELSE answer[r]]

\* An answer is what its request is told.
LEMMA AnswerTold ==
  ASSUME ProfileInv, NEW r \in Requests, req[r].at # "over", NEW a \in Answers, Told(r, a)
  PROVE  /\ ToldNow[r] = "nothing"
         /\ ToldNow' = [ToldNow EXCEPT ![r] = IF a = "failed" THEN "refused" ELSE a]
         /\ AskedNow' = AskedNow
<1>1. ProfileTyped /\ StageOK(r) /\ "over" \in RequestStages
  BY DEF ProfileInv, RequestStages
<1>2. answer[r] = "nothing"
  BY <1>1 DEF StageOK
<1>3. answer' = [answer EXCEPT ![r] = a] /\ answer \in [Requests -> Answers]
  BY <1>1 DEF Told, ProfileTyped
<1>4. \A q \in Requests : /\ req'[q].actor = req[q].actor /\ req'[q].target = req[q].target
                          /\ req'[q].patch = req[q].patch
  <2>1. Goes(r, "over")
    BY DEF Told
  <2> QED  BY <1>1, <2>1, GoesFacts
<1> QED  BY <1>2, <1>3, <1>4 DEF ToldNow, AskedNow

\* A refusal or a failure.
LEMMA RefusalPromise ==
  ASSUME ProfileInv, NEW r \in Requests, req[r].at # "over",
         NEW a \in {"refused", "failed"}, Told(r, a), UNCHANGED <<users, row, held>>
  PROVE  Abstract!Next
<1>1. a \in Answers
  BY DEF Answers
<1>2. /\ ToldNow[r] = "nothing" /\ AskedNow' = AskedNow
      /\ ToldNow' = [ToldNow EXCEPT ![r] = "refused"]
  BY <1>1, AnswerTold
<1>3. Abstract!Refuse(r)
  BY <1>2 DEF Abstract!Refuse, ToldNow, AskedNow
<1> QED  BY <1>3 DEF Abstract!Next

\* A request that reads or decides is no step of Records.
LEMMA SilentPromise ==
  ASSUME ProfileInv, NEW r \in Requests, NEW step \in RequestStages,
         Goes(r, step) \/ \E u \in users : Reads(r, step, u),
         UNCHANGED <<users, row, answer, held>>
  PROVE  UNCHANGED Abstract!vars
<1>1. ProfileTyped /\ users \subseteq Users
  BY DEF ProfileInv, ProfileTyped
<1>2. \A q \in Requests : /\ req'[q].actor = req[q].actor /\ req'[q].target = req[q].target
                          /\ req'[q].patch = req[q].patch
  BY <1>1, GoesFacts, ReadsFacts
<1> QED  BY <1>2 DEF Abstract!vars

LEMMA ArrivePromise ==
  ASSUME ProfileInv, NEW r \in Requests, NEW step \in {"update", "delete"},
         NEW actor \in Users, NEW target \in Users \union {None}, NEW patch \in Patches,
         Arrive(r, step, actor, target, patch)
  PROVE  Abstract!Next
<1> DEFINE new == [at |-> step, actor |-> actor, target |-> target, patch |-> patch,
                   read |-> None]
<1>1. ProfileTyped /\ StageOK(r) /\ patch \in Abstract!Patches
  BY DEF ProfileInv, Patches, Abstract!Patches
<1>2. /\ req[r].at = "idle" /\ req' = [req EXCEPT ![r] = new]
      /\ UNCHANGED <<users, row, answer>>
  BY DEF Arrive, Is
<1>3. AskedNow[r].patch = req[r].patch /\ ToldNow[r] = "nothing" /\ DOMAIN req[r].patch = {}
  BY <1>1, <1>2 DEF StageOK, AskedNow, ToldNow
<1>4. /\ req'[r].actor = actor /\ req'[r].target = target /\ req'[r].patch = patch
      /\ \A q \in Requests \ {r} : req'[q] = req[q]
  BY <1>1, <1>2 DEF ProfileTyped
<1>5. /\ AskedNow' = [AskedNow EXCEPT ![r] = [actor |-> actor, target |-> target,
                                             patch |-> patch]]
      /\ ToldNow' = ToldNow
  BY <1>2, <1>4 DEF AskedNow, ToldNow
<1>6. Abstract!Remember
  BY DEF Arrive, Remember, Holding, Abstract!Remember, Abstract!Holding
<1>7. Abstract!Ask(r)
  BY <1>1, <1>2, <1>3, <1>5, <1>6 DEF Abstract!Ask, AskedNow, ToldNow
<1> QED  BY <1>7 DEF Abstract!Next

\* Whoever is told "unchanged" asked for what the row held when it was read.
LEMMA UnchangedPromise ==
  ASSUME ProfileInv, NEW r \in Requests, Unchanged(r)
  PROVE  Abstract!Next
<1>1. StageOK(r) /\ HeldOK(r) /\ req[r].at = "read" /\ Told(r, "unchanged")
  BY DEF ProfileInv, Unchanged, Is
<1>2. held[r] = DOMAIN req[r].patch
  BY <1>1 DEF Unchanged, Changed, HeldOK, ReadTarget
<1>3. /\ ToldNow[r] = "nothing" /\ AskedNow' = AskedNow
      /\ ToldNow' = [ToldNow EXCEPT ![r] = "unchanged"]
  BY <1>1, AnswerTold DEF Answers
<1>4. Abstract!MayTouch(AskedNow[r].actor, AskedNow[r].target)
  BY <1>1 DEF StageOK, AskedNow, Abstract!MayTouch
<1>5. AskedNow[r].patch = req[r].patch
  BY DEF AskedNow
<1>6. Abstract!Unchanged(r)
  BY <1>2, <1>3, <1>4, <1>5 DEF Abstract!Unchanged, Unchanged, AskedNow, ToldNow
<1> QED  BY <1>6 DEF Abstract!Next

\* The promised update, with the functions of the refinement kept whole.
LEMMA UpdateIs ==
  ASSUME NEW r \in Requests, AskedNow' = AskedNow, Abstract!Remember, users' = users,
         ToldNow[r] = "nothing", ToldNow' = [ToldNow EXCEPT ![r] = "updated"],
         AskedNow[r].target \in users,
         Abstract!MayTouch(AskedNow[r].actor, AskedNow[r].target),
         \E fs \in SUBSET DOMAIN AskedNow[r].patch :
           row' = [row EXCEPT ![AskedNow[r].target] =
                     [f \in DOMAIN row[AskedNow[r].target] |->
                        IF f \in fs THEN AskedNow[r].patch[f] ELSE row[AskedNow[r].target][f]]],
         held'[r] = DOMAIN AskedNow[r].patch
  PROVE  Abstract!Update(r)
<1> QED  BY DEF Abstract!Update, AskedNow, ToldNow

\* The columns that differ from what was read are written, the others were
\* as they were asked to be.
LEMMA UpdatePromise ==
  ASSUME ProfileInv, NEW r \in Requests, UpdateSaveUser(r)
  PROVE  Abstract!Next
<1>1. /\ ProfileTyped /\ StageOK(r) /\ HeldOK(r) /\ req[r].at = "read" /\ Told(r, "updated")
      /\ users' = users
  BY DEF ProfileInv, UpdateSaveUser, Is
<1>2. /\ ToldNow[r] = "nothing" /\ AskedNow' = AskedNow
      /\ ToldNow' = [ToldNow EXCEPT ![r] = "updated"]
  BY <1>1, AnswerTold DEF Answers
<1> DEFINE u == req[r].target
           fs == Changed(r)
<1>3. /\ u \in users /\ u \in Users /\ fs \in SUBSET DOMAIN req[r].patch
      /\ row \in [Users -> Rows] /\ DOMAIN row[u] = Columns \union OtherColumns
      /\ DOMAIN req[r].patch \subseteq Columns
  <2>1. req[r].patch \in Patches
    BY <1>1 DEF ProfileTyped, RequestRows
  <2> QED  BY <1>1, <2>1, PatchType DEF UpdateSaveUser, RowThere, ProfileTyped, Changed, Rows
<1>4. row' = [row EXCEPT ![u] = [f \in DOMAIN row[u] |-> IF f \in fs THEN req[r].patch[f]
                                                                    ELSE row[u][f]]]
  BY <1>3 DEF UpdateSaveUser, Updated
<1>5. Abstract!Remember
  BY DEF UpdateSaveUser, Remember, Holding, Abstract!Remember, Abstract!Holding
<1>6. held'[r] = DOMAIN req[r].patch
  <2>1. req'[r].patch = req[r].patch /\ req'[r].target = u /\ req' \in [Requests -> RequestRows]
    BY <1>1, GoesFacts DEF Told, RequestStages
  <2>2. \A f \in fs : row'[u][f] = req[r].patch[f]
    BY <1>3, <1>4
  <2>3. \A f \in DOMAIN req[r].patch : f \notin fs => f \in held[r]
    BY <1>1 DEF Changed, HeldOK, ReadTarget
  <2>4. held'[r] = held[r] \union Holding(r)
    BY DEF UpdateSaveUser, Remember
  <2>5. \A f \in fs : f \in Holding(r)
    BY <1>3, <2>1, <2>2 DEF Holding
  <2>6. held[r] \subseteq DOMAIN req[r].patch /\ Holding(r) \subseteq DOMAIN req[r].patch
    BY <1>1, <2>1 DEF HeldOK, Holding
  <2> QED  BY <2>3, <2>4, <2>5, <2>6
<1>7. Abstract!MayTouch(AskedNow[r].actor, AskedNow[r].target)
  BY <1>1 DEF StageOK, AskedNow, Abstract!MayTouch
<1>8. AskedNow[r].patch = req[r].patch /\ AskedNow[r].target = u
  BY DEF AskedNow
<1> HIDE DEF u, fs
<1>9. Abstract!Update(r)
  <2>1. fs \in SUBSET DOMAIN AskedNow[r].patch
    BY <1>3, <1>8
  <2>2. row' = [row EXCEPT ![AskedNow[r].target] =
                  [f \in DOMAIN row[AskedNow[r].target] |->
                     IF f \in fs THEN AskedNow[r].patch[f] ELSE row[AskedNow[r].target][f]]]
    BY <1>4, <1>8
  <2>3. held'[r] = DOMAIN AskedNow[r].patch /\ AskedNow[r].target \in users
    BY <1>3, <1>6, <1>8
  <2> QED
    BY <1>1, <1>2, <1>5, <1>7, <2>1, <2>2, <2>3, UpdateIs
<1> QED  BY <1>9 DEF Abstract!Next

LEMMA DeletePromise ==
  ASSUME ProfileInv, NEW r \in Requests, DeleteUser(r)
  PROVE  Abstract!Next
<1>1. StageOK(r) /\ req[r].at = "found" /\ Told(r, "deleted")
  BY DEF ProfileInv, DeleteUser, Is
<1>2. /\ ToldNow[r] = "nothing" /\ AskedNow' = AskedNow
      /\ ToldNow' = [ToldNow EXCEPT ![r] = "deleted"]
  BY <1>1, AnswerTold DEF Answers
<1>3. /\ AskedNow[r].actor \in Admins /\ AskedNow[r].target \in users
      /\ users' = users \ {AskedNow[r].target} /\ UNCHANGED <<row, held>>
  BY <1>1 DEF StageOK, AskedNow, DeleteUser, RowThere
<1>4. Abstract!Delete(r)
  BY <1>2, <1>3 DEF Abstract!Delete, AskedNow, ToldNow
<1> QED  BY <1>4 DEF Abstract!Next

LEMMA ElsewherePromise ==
  ASSUME ProfileInv, NEW u \in Users, NEW f \in OtherColumns, NEW v \in Values,
         WriteElsewhere(u, f, v)
  PROVE  Abstract!Next
<1>1. /\ row'[u] \in Rows /\ row' = [row EXCEPT ![u] = row'[u]]
      /\ \A g \in Columns : row'[u][g] = row[u][g]
  BY ElsewhereKeeps
<1>2. UNCHANGED <<users, req, answer, held>>
  BY DEF WriteElsewhere
<1>3. Abstract!Elsewhere(u)
  BY <1>1, <1>2 DEF Abstract!Elsewhere, Abstract!Rows, Rows
<1> QED  BY <1>3 DEF Abstract!Next

LEMMA StepRecords ==
  ASSUME ProfileInv, [ProfileNext]_profileVars
  PROVE  [Abstract!Next]_(Abstract!vars)
<1>1. {"admitted", "doomed", "read", "found"} \subseteq RequestStages
  BY DEF RequestStages
<1>2. ASSUME NEW r \in Requests, req[r].at # "over", Refuse(r) \/ Fails(r)
      PROVE  Abstract!Next
  BY <1>2, RefusalPromise DEF Refuse, Fails
<1>3. ASSUME NEW r \in Requests,
             \/ AdmitUser(r) \/ AdmitSuperAdmin(r) \/ EmptyBody(r) \/ WrongId(r)
             \/ FindForSuperAdmin(r) \/ CheckOwn(r) \/ FindForDelete(r) \/ Fails(r)
      PROVE  [Abstract!Next]_(Abstract!vars)
  <2>1. CASE EmptyBody(r) \/ WrongId(r) \/ Fails(r)
    BY <1>2, <2>1 DEF EmptyBody, WrongId, Fails, Is
  <2>2. CASE AdmitUser(r)
    BY <1>1, <1>2, <2>2, SilentPromise DEF AdmitUser, Is
  <2>3. CASE AdmitSuperAdmin(r)
    BY <1>1, <1>2, <2>3, SilentPromise DEF AdmitSuperAdmin, Is
  <2>4. CASE FindForSuperAdmin(r)
    BY <1>1, <1>2, <2>4, SilentPromise DEF FindForSuperAdmin, Is
  <2>5. CASE CheckOwn(r)
    BY <1>1, <1>2, <2>5, SilentPromise DEF CheckOwn, Is
  <2>6. CASE FindForDelete(r)
    BY <1>1, <1>2, <2>6, SilentPromise DEF FindForDelete, Is
  <2> QED  BY <1>3, <2>1, <2>2, <2>3, <2>4, <2>5, <2>6
<1>4. CASE UNCHANGED profileVars
  BY <1>4 DEF profileVars, Abstract!vars
<1> QED
  BY <1>3, <1>4, NoPatchType, ArrivePromise, UnchangedPromise, UpdatePromise, DeletePromise,
     ElsewherePromise DEF ProfileNext

\* Profile implements Records: although the handlers decide by a row read
\* earlier, no update undoes what others wrote, nobody is told of a value
\* that was never there, and only those who may touch a row do.
THEOREM RecordsArePromised == ProfileSpec => Promise
<1>1. ASSUME ProfileInit
      PROVE  Abstract!Init
  <2>1. [r \in Requests |-> IF answer[r] = "failed" THEN "refused" ELSE answer[r]]
        = [r \in Requests |-> "nothing"]
    BY <1>1 DEF ProfileInit
  <2>2. ASSUME NEW r \in Requests
        PROVE  DOMAIN [s \in Requests |-> [actor |-> req[s].actor, target |-> req[s].target,
                                           patch |-> req[s].patch]][r].patch = {}
    BY <1>1, NoPatchType DEF ProfileInit, NoRequest
  <2> QED  BY <1>1, <2>1, <2>2 DEF ProfileInit, Rows, Abstract!Init, Abstract!Rows
<1>2. ProfileInv /\ [ProfileNext]_profileVars => [Abstract!Next]_(Abstract!vars)
  BY StepRecords
<1> QED  BY <1>1, <1>2, ProfileInvariance, PTL DEF ProfileSpec, Promise, Abstract!Spec

\* An update admitted before its user was deleted fails: nobody comes back,
\* and the row of a deleted user does not change.
THEOREM DeletedStayDeleted == ProfileSpec => GoneStaysGone
<1>1. ProfileInv /\ [ProfileNext]_profileVars =>
        [\A u \in Users : u \notin users => u \notin users' /\ row'[u] = row[u]]_profileVars
  <2> SUFFICES ASSUME ProfileInv, ProfileNext, NEW u \in Users, u \notin users
               PROVE  u \notin users' /\ row'[u] = row[u]
    OBVIOUS
  <2>1. ProfileTyped
    BY DEF ProfileInv
  <2>2. ASSUME NEW r \in Requests, UpdateSaveUser(r)
        PROVE  u \notin users' /\ row'[u] = row[u]
    BY <2>1, <2>2 DEF UpdateSaveUser, RowThere, ProfileTyped
  <2>3. ASSUME NEW w \in Users, NEW f \in OtherColumns, NEW v \in Values, WriteElsewhere(w, f, v)
        PROVE  u \notin users' /\ row'[u] = row[u]
    BY <2>1, <2>3 DEF WriteElsewhere, ProfileTyped
  <2>4. CASE UNCHANGED row /\ users' \in SUBSET users
    BY <2>4
  <2> QED
    BY <2>2, <2>3, <2>4 DEF ProfileNext, Arrive, AdmitUser, AdmitSuperAdmin, EmptyBody, WrongId,
       FindForSuperAdmin, CheckOwn, Unchanged, FindForDelete, DeleteUser, Fails, Refuse
<1> QED  BY <1>1, ProfileInvariance, PTL DEF ProfileSpec, GoneStaysGone

\* Every variable of Profile keeps its type.
THEOREM ProfileTypes == ProfileSpec => []ProfileTypeOK
<1>1. ProfileInv => ProfileTypeOK
  BY DEF ProfileInv, ProfileTyped, HeldOK, RequestRows, ProfileTypeOK
<1> QED  BY <1>1, ProfileInvariance, PTL
=============================================================================
