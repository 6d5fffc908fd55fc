------------------------------- MODULE Session -------------------------------
(***************************************************************************)
(* Sessions of confirmed users: the end of LoginAuthService.signIn and of  *)
(* OAuthService.createOAuthUser, the refresh of the access token, logout,  *)
(* the guard of both (JwtRefreshStrategy), the deletion of users and       *)
(* BlackListService.clearBlackList, with User.status, the blacklist and    *)
(* the queue 'login'.                                                      *)
(*                                                                         *)
(* The refresh token of a session carries the name of the request that     *)
(* opened it.  Time is in half seconds: tokens count whole seconds, and    *)
(* clearBlackList rounds to the nearest one.                               *)
(***************************************************************************)
EXTENDS SessionLifecycle, Integers

CONSTANTS Users,            \* confirmed users
          NoUser,
          Lifetime,         \* JWT_REFRESH_TIME, in seconds
          PlainDtoPasses,   \* does class-validator pass an object literal?
          MaxTime           \* bound of the model: the clock

ASSUME NoUserAssumption == NoUser \notin Users
ASSUME LifetimeAssumption == Lifetime \in Nat
ASSUME PlainDtoAssumption == PlainDtoPasses \in BOOLEAN
ASSUME MaxTimeAssumption == MaxTime \in Nat

VARIABLES req,        \* the requests
          exp,        \* the exp claim of the token each of them opened
          users,      \* the User table
          status,     \* User.status
          blacklist,  \* the BlacklistedToken table, class REFRESH
          jobs,       \* requests with a job in the queue 'login'
          now

tableVars == <<users, status, blacklist, jobs>>
vars == <<sessionVars, req, exp, tableVars, now>>

Kinds    == {"none", "signIn", "oauth", "refresh", "logout"}
InFlight == {"checked", "signed", "queued", "verified", "found", "cleared"}
\* "invalid" is the 500 of validateByDto, "failed" any other.
Stages   == {"idle", "loggedIn", "done", "refused", "invalid", "failed"} \union InFlight
Requests == [kind : Kinds, at : Stages, user : Users \union {NoUser}]
Time     == 0..MaxTime

\* Mutant: milliseconds, or what stands for them here, instead of seconds.
Second_Millis(t) == t

\* NumericDate of jsonwebtoken: whole seconds, rounded down.
Second(t) == t \div 2

TypeOK ==
  /\ SessionTypeOK
  /\ req \in [Ids -> Requests]
  /\ exp \in [Ids -> 0..(MaxTime \div 2 + Lifetime)]
  /\ users \in SUBSET Users
  /\ status \in [Users -> {"online", "offline"}]
  /\ blacklist \in SUBSET Ids
  /\ jobs \in SUBSET Ids
  /\ now \in Time

\* New users are online by default.
Init ==
  /\ SessionInit
  /\ req = [r \in Ids |-> [kind |-> "none", at |-> "idle", user |-> NoUser]]
  /\ exp = [r \in Ids |-> 0]
  /\ users = Users
  /\ status = [u \in Users |-> "online"]
  /\ blacklist = {}
  /\ jobs = {}
  /\ now = 0

-----------------------------------------------------------------------------

Goes(r, stage) ==
  req' = [req EXCEPT ![r] = [kind |-> req[r].kind, at |-> stage, user |-> req[r].user]]

Starts(r, kind, stage, u) ==
  /\ req[r].at = "idle"
  /\ req' = [req EXCEPT ![r] = [kind |-> kind, at |-> stage, user |-> u]]

SessionsOf(u) == {s \in Ids : req[s].at = "loggedIn" /\ req[s].user = u}

\* jwt.verify at time t
Valid(s, t) == Second(t) < exp[s]

\* A token with this exp claim has more than half a second left: one with
\* less still passes jwt.verify, but its session counts as void, since
\* clearBlackList may already have taken its entry (see Round).
Lasts(e, t) == t + 1 < 2 * e

-----------------------------------------------------------------------------
(* signIn of a confirmed user with the right password, createOAuthUser     *)

Arrive(r, u, kind) ==
  /\ u \in users
  /\ Starts(r, kind, "checked", u)
  /\ UNCHANGED <<sessionVars, exp, tableVars, now>>

\* comparePasswordWithLastPassword finds the two copies of the password equal:
\* the sign-up writes both and no reset comes as far as changing one.  Then
\* generateAuthTokens; a token of a user deleted in the meantime is void.
Sign(r) ==
  /\ req[r].at = "checked"
  /\ exp' = [exp EXCEPT ![r] = Second(now) + Lifetime]
  /\ IF req[r].kind = "signIn"
     THEN Goes(r, "signed") /\ UNCHANGED sessionVars
     ELSE /\ Goes(r, "loggedIn")
          /\ Becomes(r, IF req[r].user \in users /\ Lasts(exp'[r], now) THEN "open" ELSE "void")
          /\ UNCHANGED ask
  /\ UNCHANGED <<tableVars, now>>

\* updateUserStatus locks the row of the user until the transaction ends.
Locked(u) == \E q \in Ids : req[q].at = "queued" /\ req[q].user = u

AddLoginToQueue(r) == jobs' = jobs \union {r}

UpdateStatus(r) ==
  /\ req[r].at = "signed"
  /\ req[r].user \in users
  /\ ~ Locked(req[r].user)
  /\ Goes(r, "queued")
  /\ AddLoginToQueue(r)
  /\ UNCHANGED <<sessionVars, exp, users, status, blacklist, now>>

CommitLogin(r) ==
  /\ req[r].at = "queued"
  /\ Goes(r, "loggedIn")
  /\ Becomes(r, IF Lasts(exp[r], now) THEN "open" ELSE "void")
  /\ status' = [status EXCEPT ![req[r].user] = "online"]
  /\ UNCHANGED <<ask, exp, users, blacklist, jobs, now>>

-----------------------------------------------------------------------------
(* JwtRefreshStrategy, in front of refreshToken (PUT) and logout (DELETE)  *)

Verify(r, s, kind) ==
  /\ req[s].at = "loggedIn"
  /\ Valid(s, now)
  /\ Starts(r, kind, "verified", req[s].user)
  /\ Comes(r, s)
  /\ UNCHANGED <<session, exp, tableVars, now>>

FindUser(r) ==
  /\ req[r].at = "verified"
  /\ IF req[r].user \in users
     THEN Goes(r, "found") /\ UNCHANGED ask
     ELSE Goes(r, "refused") /\ Replies(r, "refused")
  /\ UNCHANGED <<session, exp, tableVars, now>>

\* Mutant: the guard looks for an entry of class ACCESS.
InBlackList_OtherClass(s) == FALSE

\* checkBlackListResfreshToken
InBlackList(s) == s \in blacklist

FindInBlackList(r) ==
  /\ req[r].at = "found"
  /\ IF InBlackList(ask[r].session)
     THEN Goes(r, "refused") /\ Replies(r, "refused")
     ELSE Goes(r, "cleared") /\ UNCHANGED ask
  /\ UNCHANGED <<session, exp, tableVars, now>>

\* TokenAuthService.generateAccessToken
Refresh(r) ==
  /\ req[r].at = "cleared"
  /\ req[r].kind = "refresh"
  /\ Goes(r, "done")
  /\ Replies(r, "granted")
  /\ UNCHANGED <<session, exp, tableVars, now>>

\* Mutant: the status is updated in a transaction of its own, which fails.
StatusAfterLogout_Kept(u) == status

StatusAfterLogout(u) == [status EXCEPT ![u] = "offline"]

\* saveBlacklistedToken
ToBlackList(s) == blacklist' = blacklist \union {s}

\* The transaction of LogoutAuthService.logout
Logout(r) ==
  /\ req[r].at = "cleared"
  /\ req[r].kind = "logout"
  /\ PlainDtoPasses
  /\ req[r].user \in users
  /\ Goes(r, "done")
  /\ Replies(r, "granted")
  /\ Ends(ask[r].session)
  /\ ToBlackList(ask[r].session)
  /\ status' = StatusAfterLogout(req[r].user)
  /\ UNCHANGED <<exp, users, jobs, now>>

\* validateByDto comes before the database has a say.
LogoutFails(r) ==
  /\ req[r].at = "cleared"
  /\ req[r].kind = "logout"
  /\ ~ (PlainDtoPasses /\ req[r].user \in users)
  /\ Goes(r, IF PlainDtoPasses THEN "failed" ELSE "invalid")
  /\ Replies(r, "refused")
  /\ UNCHANGED <<session, exp, tableVars, now>>

-----------------------------------------------------------------------------

\* Any call of a request fails, its transaction is rolled back or the
\* process dies.  Sign-ins of deleted users always end here.
Fail(r) ==
  /\ req[r].at \in InFlight
  /\ Goes(r, "failed")
  /\ IF Asked(r) # NoId THEN Replies(r, "refused") ELSE UNCHANGED ask
  /\ UNCHANGED <<session, exp, tableVars, now>>

\* UserService.delete; the blacklist entries of the user cascade.
Delete(u) ==
  /\ u \in users
  /\ ~ Locked(u)
  /\ users' = users \ {u}
  /\ Voided(SessionsOf(u))
  /\ blacklist' = blacklist \ SessionsOf(u)
  /\ UNCHANGED <<req, exp, status, jobs, now>>

\* Math.round: the second half of a second counts as the next one.
Round(t) == (t + 1) \div 2

\* Mutant: an entry goes a second before its token.
Overdue_OffByOne(s) == exp[s] <= Round(now) + 1

Overdue(s) == exp[s] <= Round(now)

\* The task may start at any moment: timers are late.
ClearBlackList ==
  /\ blacklist' = {s \in blacklist : ~ Overdue(s)}
  /\ UNCHANGED <<sessionVars, req, exp, users, status, jobs, now>>

Tick ==
  /\ now < MaxTime
  /\ now' = now + 1
  /\ Voided({s \in Ids : ~ Lasts(exp[s], now + 1)})
  /\ UNCHANGED <<req, exp, tableVars>>

Step(r) ==
  \/ \E u \in Users, kind \in {"signIn", "oauth"} : Arrive(r, u, kind)
  \/ Sign(r) \/ UpdateStatus(r) \/ CommitLogin(r)
  \/ \E s \in Ids, kind \in {"refresh", "logout"} : Verify(r, s, kind)
  \/ FindUser(r) \/ FindInBlackList(r) \/ Refresh(r)
  \/ Logout(r) \/ LogoutFails(r)
  \/ Fail(r)

Next ==
  \/ \E r \in Ids : Step(r)
  \/ \E u \in Users : Delete(u)
  \/ ClearBlackList
  \/ Tick

Spec == Init /\ [][Next]_vars

-----------------------------------------------------------------------------
(* Properties                                                              *)

\* The promise of SessionLifecycle, kept although the guard looks at the
\* token, the user and the blacklist one after the other and the request
\* acts on that later.
Promise == SessionSpec

\* While the token of an ended session has more than half a second left, its
\* entry is on the blacklist, whenever the nightly clean-up starts: rounding
\* takes no entry earlier than that.
EndedIsBlacklisted == \A s \in Ids : session[s] = "ended" => s \in blacklist

\* A user who logged out of every session is not shown as online, however
\* sign-ins and logouts overlap.
OnlineHasSession ==
  \A u \in users :
    /\ status[u] = "online"
    /\ SessionsOf(u) # {}
    => \E s \in SessionsOf(u) : session[s] # "ended"

\* Every sign-in with a password is reported to its user: the job is in the
\* queue before the session opens, and no rollback leaves a session without.
LoginIsReported ==
  \A r \in Ids : req[r].kind = "signIn" /\ session[r] # "absent" => r \in jobs

=============================================================================
