------------------------------- MODULE Resets -------------------------------
(***************************************************************************)
(* Resets by a secret in a letter: ResetPasswordLoginService (a token for  *)
(* a forgotten password), ResetUserEmailService and                        *)
(* ResetUserPasswordService (a code for a new address or password in the   *)
(* settings).                                                              *)
(*                                                                         *)
(* Each keeps one row per user (userId is unique).  create reads the row   *)
(* before its transaction; the transaction writes the row and adds the     *)
(* letter, so the row stays locked from the write to the commit.  A        *)
(* request stands for the secret it draws: 32 random bytes for a token,    *)
(* and of a code only which request drew it matters here.                  *)
(*                                                                         *)
(* What the code never reaches is not here.  The date of the last change   *)
(* (lastResetPasword, lastRestEmail) is written only by a confirmation;    *)
(* validateLastReset and validateLastResetPassword dereference it before   *)
(* any confirmation can happen, so a second code and every confirmation    *)
(* by code end in a TypeError.  A second token for a forgotten password is *)
(* drawn and then refused with a 500: SeveUpdateResetPasswordDto nests the *)
(* dates of the attempts, and class-validator 0.14 refuses an object it    *)
(* has no rules for.  So no row ever gets a second secret.  update of the  *)
(* reset at login passes its two hashes to resetPasswordByUser in the      *)
(* other order and finds no row.                                           *)
(* The controllers of the two code resets carry no guard, so GetUser finds *)
(* no user: their handlers are modelled as the services offer them.        *)
(***************************************************************************)
EXTENDS Naturals

CONSTANTS Ids,      \* requests, each at most once
          Users,
          NoRow,    \* no row; no user; no request
          Limit     \* passwordResetLimit

ASSUME NoRowAssumption == NoRow \notin Ids /\ NoRow \notin Users
ASSUME LimitAssumption == Limit \in Nat \ {0}

Codes == {"email", "password"}
Kinds == {"login"} \union Codes

VARIABLES users,      \* the accounts there are
          stored,     \* the secret in the row of a user, of each kind, or NoRow
          requested,  \* ForgotPassword.youResert
          attempts,   \* how many of its timeCreatetoken are still counted
          lock,       \* the request whose open transaction has written the row
          stage,      \* where a request is
          kind,       \* what it resets
          target,     \* whose row it is about
          token,      \* the token that verify and update were given
          past,       \* for checking: the secrets ever stored
          mailed      \* for checking: the requests whose letter was added

tables == <<users, stored, requested, attempts>>
history == <<past, mailed>>
requests == <<stage, kind, target, token>>
vars == <<tables, lock, requests, history>>

Stages == {"idle", "new", "written", "mailed", "found",
           "done", "refused", "failed", "unanswered"}
InTx  == {"written", "mailed"}
Ended == {"done", "refused", "failed", "unanswered"}

Holders == {r \in Ids : stage[r] \in InTx}

TypeOK ==
  /\ users \in SUBSET Users
  /\ stored \in [Kinds -> [Users -> Ids \union {NoRow}]]
  /\ requested \in [Users -> BOOLEAN]
  /\ attempts \in [Users -> 0..1]
  /\ lock \in [Kinds -> [Users -> Holders \union {NoRow}]]
  /\ stage \in [Ids -> Stages]
  /\ kind \in [Ids -> Kinds]
  /\ target \in [Ids -> Users \union {NoRow}]
  /\ token \in [Ids -> Ids \union {NoRow}]
  /\ past \in [Kinds -> [Users -> SUBSET Ids]]
  /\ mailed \in SUBSET Ids

Init ==
  /\ users = Users
  /\ stored = [k \in Kinds |-> [u \in Users |-> NoRow]]
  /\ requested = [u \in Users |-> FALSE]
  /\ attempts = [u \in Users |-> 0]
  /\ lock = [k \in Kinds |-> [u \in Users |-> NoRow]]
  /\ stage = [r \in Ids |-> "idle"]
  /\ kind = [r \in Ids |-> "login"]
  /\ target = [r \in Ids |-> NoRow]
  /\ token = [r \in Ids |-> NoRow]
  /\ past = [k \in Kinds |-> [u \in Users |-> {}]]
  /\ mailed = {}

-----------------------------------------------------------------------------
Goes(r, s) == stage' = [stage EXCEPT ![r] = s]

\* A request arrives about row k of user u and is at stage s after its reads.
Arrives(r, k, u, s) ==
  /\ stage[r] = "idle"
  /\ Goes(r, s)
  /\ kind' = [kind EXCEPT ![r] = k]
  /\ target' = [target EXCEPT ![r] = u]
  /\ UNCHANGED <<tables, lock, history>>

-----------------------------------------------------------------------------
(* ResetPasswordLoginService.create                                        *)

\* Nobody has the address: the answer is the same as for everybody else.
AskUnknown(r, u) ==
  /\ u \notin users
  /\ Arrives(r, "login", u, "done")
  /\ UNCHANGED token

\* No row yet: a token is drawn, and the row will be created with one attempt.
AskFirst(r, u) ==
  /\ u \in users
  /\ stored["login"][u] = NoRow
  /\ Arrives(r, "login", u, "new")
  /\ UNCHANGED token

\* checkPasswordResetLimit
MayAskAgain(u) == attempts[u] < Limit

\* There is a row: too many attempts are a 429, and otherwise
\* validateUpdateResetPasswordModel ends in a 500 on the dates it is given.
AskAgain(r, u) ==
  /\ u \in users
  /\ stored["login"][u] # NoRow
  /\ Arrives(r, "login", u, IF MayAskAgain(u) THEN "failed" ELSE "refused")
  /\ UNCHANGED token

-----------------------------------------------------------------------------
(* ResetUserEmailService.create and ResetUserPasswordService.create        *)

\* validateUserId, the first check of the four handlers: the id in the path is
\* another's.
AskForAnother(r, k, u) ==
  /\ u \in users
  /\ Arrives(r, k, u, "refused")
  /\ UNCHANGED token

\* Somebody has the new address.
AskEmailTaken(r, u) ==
  /\ u \in users
  /\ Arrives(r, "email", u, "refused")
  /\ UNCHANGED token

\* A row that has to be there is not, or it has no date: the first check of
\* the row, the age of the last reset, then ends in a TypeError.
NeedsRow(k, u) == IF stored[k][u] = NoRow THEN "refused" ELSE "failed"

\* No address is given, which asks for a new code.
AskEmailAgain(r, u) ==
  /\ u \in users
  /\ Arrives(r, "email", u, NeedsRow("email", u))
  /\ UNCHANGED token

AskEmailFirst(r, u) ==
  /\ u \in users
  /\ stored["email"][u] = NoRow
  /\ Arrives(r, "email", u, "new")
  /\ UNCHANGED token

\* handleExistingResetRequest begins with validateLastReset.
AskEmailSecond(r, u) ==
  /\ u \in users
  /\ stored["email"][u] # NoRow
  /\ Arrives(r, "email", u, "failed")
  /\ UNCHANGED token

\* A second code ends in validateLastReset.
CodeStage(u) == IF stored["password"][u] = NoRow THEN "new" ELSE "failed"

AskPasswordCode(r, u) ==
  /\ u \in users
  /\ Arrives(r, "password", u, CodeStage(u))
  /\ UNCHANGED token

\* The two updates look for the row by the id in the path.
ConfirmEmail(r, u) ==
  /\ u \in users
  /\ Arrives(r, "email", u, NeedsRow("email", u))
  /\ UNCHANGED token

\* validatePasswordResetProcedure, then validateLastResetPassword.
PasswordRow(u) == NeedsRow("password", u)

ConfirmPassword(r, u) ==
  /\ u \in users
  /\ Arrives(r, "password", u, PasswordRow(u))
  /\ UNCHANGED token

-----------------------------------------------------------------------------
(* The transactions of the three create                                    *)

\* Another transaction has written the row.
Locked(k, u) == lock[k][u] # NoRow

Lock(r) == lock' = [lock EXCEPT ![kind[r]][target[r]] = r]

\* Mutant: the end of the transaction leaves the row locked.
Unlock_Not(r) == UNCHANGED lock

Unlock(r) ==
  lock' = [k \in Kinds |-> [u \in Users |-> IF lock[k][u] = r THEN NoRow ELSE lock[k][u]]]

\* The unique userId: there is a row by now.
Taken(k, u) == stored[k][u] # NoRow

\* The row is inserted, unless the user has gone or the row has come.
Insert(r) ==
  /\ stage[r] = "new"
  /\ ~Locked(kind[r], target[r])
  /\ IF target[r] \in users /\ ~Taken(kind[r], target[r])
     THEN Goes(r, "written") /\ Lock(r)
     ELSE Goes(r, "failed") /\ UNCHANGED lock
  /\ UNCHANGED <<tables, kind, target, token, history>>

\* Mutant: the letter is not waited for; another writes the row meanwhile.
AddLetter_Unlocked(r) ==
  /\ stage[r] = "written"
  /\ Goes(r, "mailed")
  /\ Unlock(r)
  /\ mailed' = mailed \union {r}

AddLetter(r) ==
  /\ stage[r] = "written"
  /\ Goes(r, "mailed")
  /\ mailed' = mailed \union {r}
  /\ UNCHANGED lock

Mail(r) ==
  /\ AddLetter(r)
  /\ UNCHANGED <<tables, kind, target, token, past>>

\* Mutant: the transaction does not wait for the letter.
LetterAdded_NotAwaited(r) == stage[r] \in InTx

LetterAdded(r) == stage[r] = "mailed"

Commit(r) ==
  /\ LetterAdded(r)
  /\ Goes(r, "done")
  /\ Unlock(r)
  /\ stored' = [stored EXCEPT ![kind[r]][target[r]] = r]
  /\ past' = [past EXCEPT ![kind[r]][target[r]] = @ \union {r}]
  /\ attempts' = IF kind[r] = "login"
                 THEN [attempts EXCEPT ![target[r]] = 1]
                 ELSE attempts
  /\ UNCHANGED <<users, requested, kind, target, token, mailed>>

\* A query, the queue or the commit fails; what was written is rolled back,
\* the letter is not.
Fail(r) ==
  /\ stage[r] \in {"new", "written", "mailed", "found"}
  /\ Goes(r, "failed")
  /\ Unlock(r)
  /\ UNCHANGED <<tables, kind, target, token, history>>

-----------------------------------------------------------------------------
(* verifyResetToken and update of the reset at login                       *)

\* The row of u has the token t.
HasToken(u, t) == stored["login"][u] = t

\* verifyUserExists, and the like of verifyResetToken: no row has the token.
NotFound(r) == Arrives(r, "login", NoRow, "refused")

\* The row with this token is looked for.
FindToken(r, t) ==
  /\ \/ \E u \in Users : HasToken(u, t) /\ Arrives(r, "login", u, "found")
     \/ (\A u \in Users : ~HasToken(u, t)) /\ NotFound(r)
  /\ token' = [token EXCEPT ![r] = t]

\* updateResetPasswordToken: by the id of the row that was found.
RowFound(r) == stored["login"][target[r]] # NoRow

\* youResert is set in the row that was found, whatever its token is now.  The
\* handler sets the status of the response and never ends it.
MarkRequested(r) ==
  /\ stage[r] = "found"
  /\ ~Locked("login", target[r])
  /\ IF RowFound(r)
     THEN Goes(r, "unanswered") /\ requested' = [requested EXCEPT ![target[r]] = TRUE]
     ELSE Goes(r, "failed") /\ UNCHANGED requested
  /\ UNCHANGED <<users, stored, attempts, lock, kind, target, token, history>>

\* The hash of the new password is looked for among the tokens: 404.
NewPassword(r, t) ==
  /\ NotFound(r)
  /\ token' = [token EXCEPT ![r] = t]

-----------------------------------------------------------------------------
(* What else happens to the rows                                           *)

\* UserService.delete: the rows go with the user; a transaction that has
\* written one of them is waited for.
DeleteUser(u) ==
  /\ u \in users
  /\ \A k \in Kinds : ~Locked(k, u)
  /\ users' = users \ {u}
  /\ stored' = [k \in Kinds |-> [stored[k] EXCEPT ![u] = NoRow]]
  /\ requested' = [requested EXCEPT ![u] = FALSE]
  /\ attempts' = [attempts EXCEPT ![u] = 0]
  /\ UNCHANGED <<lock, requests, history>>

\* lifetimeOfOnePassworResetAttempt has passed for the attempt.
Expire(u) ==
  /\ attempts[u] > 0
  /\ attempts' = [attempts EXCEPT ![u] = @ - 1]
  /\ UNCHANGED <<users, stored, requested, lock, requests, history>>

-----------------------------------------------------------------------------
Asks(r, u) ==
  \/ AskUnknown(r, u) \/ AskFirst(r, u) \/ AskAgain(r, u)
  \/ \E k \in Codes : AskForAnother(r, k, u)
  \/ AskEmailTaken(r, u) \/ AskEmailAgain(r, u)
  \/ AskEmailFirst(r, u) \/ AskEmailSecond(r, u) \/ AskPasswordCode(r, u)
  \/ ConfirmEmail(r, u) \/ ConfirmPassword(r, u)

Goes_on(r) ==
  \/ Insert(r) \/ Mail(r) \/ Commit(r) \/ Fail(r) \/ MarkRequested(r)

Next ==
  \/ \E r \in Ids, u \in Users : Asks(r, u)
  \/ \E r \in Ids, t \in Ids : FindToken(r, t) \/ NewPassword(r, t)
  \/ \E r \in Ids : Goes_on(r)
  \/ \E u \in Users : DeleteUser(u) \/ Expire(u)

Spec == Init /\ [][Next]_vars

-----------------------------------------------------------------------------
(* Properties                                                              *)

\* The letter of a request that was answered with success carries the secret
\* that is stored, for as long as its user exists: of requests that overlap
\* only one comes as far as that, and no later one takes its place.
LetterWorks ==
  \A r \in mailed :
    stage[r] = "done" /\ target[r] \in users => stored[kind[r]][target[r]] = r

\* What a reset promises is kept: a stored secret has been mailed, a user gets
\* one of each kind, and only a token that was stored for a user marks the
\* reset as theirs.
S == INSTANCE Secrets
Promise == S!Spec
=============================================================================
