------------------------------- MODULE Profile ------------------------------
(***************************************************************************)
(* The rows of the users behind the access token: PATCH and DELETE of      *)
(* /users/:id, with the guards in front of them (JwtAccessStrategy,        *)
(* JwtSuperAdminAccessStrategy) and UsersService.updateUser and delete     *)
(* behind.                                                                 *)
(*                                                                         *)
(* A request reads the row of its own user in the guard; a super           *)
(* administrator's request reads the row it is about in a second           *)
(* statement.  The handler then compares the body with the row it has      *)
(* read, however old, and writes the columns that differ in one statement  *)
(* without a transaction.  In between anybody else may write.              *)
(*                                                                         *)
(* Both strategies set ignoreExpiration, and nothing puts a token of the   *)
(* class ACCESS on the blacklist that JwtAccessStrategy looks it up in: an *)
(* access token is accepted as long as its user exists, so tokens have no  *)
(* state here.  No code of the program changes a role.  A body consists of *)
(* the columns UpdateUserDto declares; the date of birth never passes its  *)
(* validation, a JSON body having no dates.                                *)
(***************************************************************************)
CONSTANTS Requests,     \* each at most once
          Users,
          Admins,       \* those of the role superAdmin
          Columns,      \* username, phoneNumber, gender
          OtherColumns, \* the columns other handlers write, status and the like
          Values,
          None

ASSUME NoneAssumption == None \notin Users
ASSUME AdminsAssumption == Admins \subseteq Users
ASSUME ColumnsAssumption == Columns \intersect OtherColumns = {}

VARIABLES users,    \* the accounts there are
          row,      \* their rows; the last one of a user who is gone
          req,      \* the requests
          answer,   \* what they were told
          held      \* for checking: the asked columns that held the asked value

profileVars == <<users, row, req, answer, held>>

Rows == [Columns \union OtherColumns -> Values]
Patches == UNION {[fs -> Values] : fs \in SUBSET Columns}
NoPatch == [f \in {} |-> None]
RequestStages == {"idle", "update", "delete", "admitted", "doomed", "read", "found", "over"}
Answers == {"nothing", "updated", "unchanged", "deleted", "refused", "failed"}
NoRequest == [at |-> "idle", actor |-> None, target |-> None, patch |-> NoPatch, read |-> None]

ProfileTypeOK ==
  /\ users \in SUBSET Users
  /\ row \in [Users -> Rows]
  /\ \A r \in Requests : /\ req[r].at \in RequestStages
                         /\ req[r].patch \in Patches \union {NoPatch}
                         /\ req[r].read \in Rows \union {None}
                         /\ held[r] \in SUBSET DOMAIN req[r].patch
  /\ answer \in [Requests -> Answers]

ProfileInit ==
  /\ users = Users
  /\ row \in [Users -> Rows]
  /\ req = [r \in Requests |-> NoRequest]
  /\ answer = [r \in Requests |-> "nothing"]
  /\ held = [r \in Requests |-> {}]

-----------------------------------------------------------------------------
Is(r, stage) == req[r].at = stage

Goes(r, stage) == req' = [req EXCEPT ![r].at = stage]

Reads(r, stage, u) == req' = [req EXCEPT ![r].at = stage, ![r].read = row[u]]

Told(r, a) == /\ Goes(r, "over")
              /\ answer' = [answer EXCEPT ![r] = a]

\* The columns request r asked for which hold the value it asked for.
Holding(r) ==
  {f \in DOMAIN req'[r].patch :
     req'[r].target \in Users /\ row'[req'[r].target][f] = req'[r].patch[f]}

Remember == held' = [r \in Requests |-> held[r] \union Holding(r)]

\* A request with a token of actor; the target None is a text that is no id.
Arrive(r, stage, actor, target, patch) ==
  /\ Is(r, "idle")
  /\ req' = [req EXCEPT ![r] = [at |-> stage, actor |-> actor, target |-> target,
                                patch |-> patch, read |-> None]]
  /\ UNCHANGED <<users, row, answer>>
  /\ Remember

Refuse(r) ==
  /\ Told(r, "refused")
  /\ UNCHANGED <<users, row, held>>

-----------------------------------------------------------------------------
(* The guards                                                              *)

\* JwtAccessStrategy: the payload is valid, its user is there and read.
AdmitUser(r) ==
  /\ Is(r, "update")
  /\ \/ /\ req[r].actor \in users
        /\ Reads(r, "admitted", req[r].actor)
        /\ UNCHANGED <<users, row, answer, held>>
     \/ req[r].actor \notin users /\ Refuse(r)

\* JwtSuperAdminAccessStrategy: the role of the payload, then the user, then
\* the role of the user.
AdmitSuperAdmin(r) ==
  /\ Is(r, "delete")
  /\ \/ /\ req[r].actor \in Admins \intersect users
        /\ Goes(r, "doomed")
        /\ UNCHANGED <<users, row, answer, held>>
     \/ req[r].actor \notin Admins \intersect users /\ Refuse(r)

\* EmptyUpdateInterceptor, after the guard.
EmptyBody(r) ==
  /\ Is(r, "admitted")
  /\ DOMAIN req[r].patch = {}
  /\ Refuse(r)

-----------------------------------------------------------------------------
(* UsersService.updateUser                                                 *)

\* validateUserId, before anything else in update and delete: 400.
WrongId(r) ==
  /\ \/ Is(r, "admitted") /\ DOMAIN req[r].patch # {}
     \/ Is(r, "doomed")
  /\ req[r].target = None
  /\ Refuse(r)

\* updateAsSuperAdmin reads the row of the user the request is about.
FindForSuperAdmin(r) ==
  /\ Is(r, "admitted")
  /\ DOMAIN req[r].patch # {}
  /\ req[r].actor \in Admins
  /\ req[r].target # None
  /\ \/ /\ req[r].target \in users
        /\ Reads(r, "read", req[r].target)
        /\ UNCHANGED <<users, row, answer, held>>
     \/ req[r].target \notin users /\ Refuse(r)

\* checkAndUpdateUserIfAuthorized goes on with the row the guard has read.
CheckOwn(r) ==
  /\ Is(r, "admitted")
  /\ DOMAIN req[r].patch # {}
  /\ req[r].actor \notin Admins
  /\ req[r].target # None
  /\ \/ /\ req[r].actor = req[r].target
        /\ Goes(r, "read")
        /\ UNCHANGED <<users, row, answer, held>>
     \/ req[r].actor # req[r].target /\ Refuse(r)

\* hasDataChanged
Changed(r) == {f \in DOMAIN req[r].patch : req[r].read[f] # req[r].patch[f]}

\* updateIfChanged
Unchanged(r) ==
  /\ Is(r, "read")
  /\ Changed(r) = {}
  /\ Told(r, "unchanged")
  /\ UNCHANGED <<users, row, held>>

\* Mutant: the row is written back as it was read, with the changes.
Updated_WholeRow(r) ==
  [f \in Columns \union OtherColumns |->
     IF f \in Changed(r) THEN req[r].patch[f] ELSE req[r].read[f]]

\* The row after updateSaveUser.
Updated(r) ==
  [f \in Columns \union OtherColumns |->
     IF f \in Changed(r) THEN req[r].patch[f] ELSE row[req[r].target][f]]

\* Mutant: an upsert.
RowThere_NotNeeded(r) == req[r].target \in Users

\* Without the row, update and delete fail (P2025).
RowThere(r) == req[r].target \in users

UpdateSaveUser(r) ==
  /\ Is(r, "read")
  /\ Changed(r) # {}
  /\ RowThere(r)
  /\ row' = [row EXCEPT ![req[r].target] = Updated(r)]
  /\ Told(r, "updated")
  /\ Remember
  /\ UNCHANGED users

-----------------------------------------------------------------------------
(* UsersService.delete                                                     *)

FindForDelete(r) ==
  /\ Is(r, "doomed")
  /\ req[r].target # None
  /\ \/ /\ req[r].target \in users
        /\ Goes(r, "found")
        /\ UNCHANGED <<users, row, answer, held>>
     \/ req[r].target \notin users /\ Refuse(r)

DeleteUser(r) ==
  /\ Is(r, "found")
  /\ RowThere(r)
  /\ users' = users \ {req[r].target}
  /\ Told(r, "deleted")
  /\ UNCHANGED <<row, held>>

\* update or delete does not find the row, or any statement fails: handleError
\* makes it a 500.
Fails(r) ==
  /\ req[r].at \notin {"idle", "over"}
  /\ Told(r, "failed")
  /\ UNCHANGED <<users, row, held>>

-----------------------------------------------------------------------------
\* updateUserStatus and the like: one column of one row, by other handlers.
WriteElsewhere(u, f, v) ==
  /\ u \in users
  /\ row[u][f] # v
  /\ row' = [row EXCEPT ![u][f] = v]
  /\ UNCHANGED <<users, req, answer, held>>

ProfileNext ==
  \/ \E r \in Requests :
       \/ \E actor \in Users, target \in Users \union {None} :
            \/ \E patch \in Patches : Arrive(r, "update", actor, target, patch)
            \/ Arrive(r, "delete", actor, target, NoPatch)
       \/ AdmitUser(r) \/ AdmitSuperAdmin(r) \/ EmptyBody(r) \/ WrongId(r)
       \/ FindForSuperAdmin(r) \/ CheckOwn(r) \/ Unchanged(r) \/ UpdateSaveUser(r)
       \/ FindForDelete(r) \/ DeleteUser(r)
       \/ Fails(r)
  \/ \E u \in Users, f \in OtherColumns, v \in Values : WriteElsewhere(u, f, v)

ProfileSpec == ProfileInit /\ [][ProfileNext]_profileVars

-----------------------------------------------------------------------------
(* Properties                                                              *)

Abstract == INSTANCE Records WITH
  asked <- [r \in Requests |-> [actor |-> req[r].actor, target |-> req[r].target,
                                patch |-> req[r].patch]],
  told <- [r \in Requests |-> IF answer[r] = "failed" THEN "refused" ELSE answer[r]]

\* The handlers keep the promise of Records although they decide by a row
\* that was read before the writes of others: no update undoes a column it
\* was not asked for, nobody is told of a value that was never there, and
\* only its user or a super administrator changes or deletes a row.
Promise == Abstract!Spec

\* Whoever has been told that a user is deleted will not see that user's row
\* change again: an update admitted before the deletion fails.
GoneStaysGone ==
  [][\A u \in Users : u \notin users => u \notin users' /\ row'[u] = row[u]]_profileVars
=============================================================================
