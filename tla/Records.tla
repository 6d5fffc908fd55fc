------------------------------- MODULE Records ------------------------------
(***************************************************************************)
(* What the handlers of /users/:id promise about the rows of the users.  A *)
(* row changes in the columns somebody asked for, to the values they asked *)
(* for, on the request of its user or of a super administrator; any other  *)
(* column belongs to other handlers.  A request that is told "updated" or  *)
(* "unchanged" has been true: each value it asked for stood in the row at  *)
(* some moment while the request was under way.  A user goes on the        *)
(* request of a super administrator and does not come back.                *)
(***************************************************************************)
CONSTANTS Requests, Users, Admins, Columns, OtherColumns, Values, None

Rows == [Columns \union OtherColumns -> Values]
Patches == UNION {[fs -> Values] : fs \in SUBSET Columns}

VARIABLES users,    \* the accounts there are
          row,      \* their rows
          asked,    \* who asked what: actor, target and patch of each request
          held,     \* the asked columns that held the asked value meanwhile
          told      \* the answers

vars == <<users, row, asked, held, told>>

Holding(r) ==
  {f \in DOMAIN asked'[r].patch :
     asked'[r].target \in Users /\ row'[asked'[r].target][f] = asked'[r].patch[f]}

Remember == held' = [r \in Requests |-> held[r] \union Holding(r)]

Init ==
  /\ users = Users
  /\ row \in [Users -> Rows]
  /\ told = [r \in Requests |-> "nothing"]
  /\ held = [r \in Requests |-> {}]
  /\ \A r \in Requests : DOMAIN asked[r].patch = {}

MayTouch(actor, target) == actor = target \/ actor \in Admins

Ask(r) ==
  /\ DOMAIN asked[r].patch = {} /\ told[r] = "nothing"
  /\ \E actor \in Users, target \in Users \union {None}, patch \in Patches :
       asked' = [asked EXCEPT ![r] = [actor |-> actor, target |-> target, patch |-> patch]]
  /\ UNCHANGED <<users, row, told>>
  /\ Remember

\* The request's columns, or some of them, are written; then it is answered.
Update(r) ==
  LET u == asked[r].target IN
  /\ told[r] = "nothing"
  /\ MayTouch(asked[r].actor, u)
  /\ u \in users
  /\ \E fs \in SUBSET DOMAIN asked[r].patch :
       row' = [row EXCEPT ![u] = [f \in DOMAIN @ |-> IF f \in fs THEN asked[r].patch[f] ELSE @[f]]]
  /\ told' = [told EXCEPT ![r] = "updated"]
  /\ UNCHANGED <<users, asked>>
  /\ Remember
  /\ held'[r] = DOMAIN asked[r].patch

Unchanged(r) ==
  /\ told[r] = "nothing"
  /\ MayTouch(asked[r].actor, asked[r].target)
  /\ held[r] = DOMAIN asked[r].patch
  /\ told' = [told EXCEPT ![r] = "unchanged"]
  /\ UNCHANGED <<users, row, asked, held>>

Refuse(r) ==
  /\ told[r] = "nothing"
  /\ told' = [told EXCEPT ![r] = "refused"]
  /\ UNCHANGED <<users, row, asked, held>>

Delete(r) ==
  /\ told[r] = "nothing"
  /\ asked[r].actor \in Admins
  /\ asked[r].target \in users
  /\ users' = users \ {asked[r].target}
  /\ told' = [told EXCEPT ![r] = "deleted"]
  /\ UNCHANGED <<row, asked, held>>

Elsewhere(u) ==
  /\ \E new \in Rows :
       /\ \A f \in Columns : new[f] = row[u][f]
       /\ row' = [row EXCEPT ![u] = new]
  /\ UNCHANGED <<users, asked, held, told>>

Next ==
  \/ \E r \in Requests : Ask(r) \/ Update(r) \/ Unchanged(r) \/ Refuse(r) \/ Delete(r)
  \/ \E u \in Users : Elsewhere(u)

Spec == Init /\ [][Next]_vars
=============================================================================
