---------------------------- MODULE Registration ----------------------------
(***************************************************************************)
(* Sign-up, sign-in of an unconfirmed account, the link of a confirmation  *)
(* mail, OAuth sign-in and the deletion of users: UserService.signUp,      *)
(* LoginAuthService.signIn, JwtConfirmationStrategy,                       *)
(* OAuthService.createOAuthUser and UserService.delete, with the tables    *)
(* User, EmailToken, ProviderModel and BlacklistedToken they share.        *)
(*                                                                         *)
(* No link confirms an account: JwtConfirmationStrategy turns down the     *)
(* payload of every confirmation token, and confirmEmail, which would      *)
(* activate the account, is never called.  An account is active because    *)
(* an OAuth provider vouches for its address.                              *)
(*                                                                         *)
(* Every HTTP request is one member of Ids, used once.  It reads outside   *)
(* of any transaction and later writes what it read, so requests           *)
(* interleave between the two.  A transaction takes effect at its commit;  *)
(* a unique index makes a second insert of a value wait for the end of the *)
(* transaction that inserted it first.  A request makes at most one user   *)
(* and one uuid: both carry its name.  An EmailToken row is made with its  *)
(* user, at most one for each, so that its id can be the user's.           *)
(***************************************************************************)
EXTENDS AccountLifecycle, Naturals, FiniteSets

CONSTANTS Identities,       \* accounts at OAuth providers (providerId)
          ProviderOf,       \* the provider of each
          EmailOf,          \* the address the provider vouches for
          NoId,             \* no user, no token, no row, no identity
          TokensLimit,      \* EMAIL_MODEL_TOKENS_LIMIT
          Expiration,       \* EMAIL_TOKEN_EXPIRATION_TIME, in ticks
          PlainDtoPasses,   \* does class-validator pass an object literal?
          MaxTime           \* bound of the model: the clock

ASSUME NoIdAssumption == NoId \notin Ids \union Identities
ASSUME EmailOfAssumption == EmailOf \in [Identities -> Emails]
ASSUME LimitAssumption == TokensLimit \in Nat \ {0}
ASSUME ExpirationAssumption == Expiration \in Nat
ASSUME PlainDtoAssumption == PlainDtoPasses \in BOOLEAN
ASSUME MaxTimeAssumption == MaxTime \in Nat

VARIABLES req,        \* the requests
          dates,      \* the emailResendAttempts each of them will write
          token,      \* EmailToken.token of each user, NoId without a row
          attempts,   \* EmailToken.emailResendAttempts
          links,      \* links in the confirmation mails sent so far
          providers,  \* the ProviderModel table
          blacklist,  \* the BlacklistedToken table, class CONFIRMATION
          now

resends == <<attempts, dates>>
tableVars == <<token, resends, links, providers, blacklist>>
vars == <<accountVars, req, tableVars, now>>

Kinds    == {"none", "signUp", "signIn", "confirm", "oauth"}
InFlight == {"checked", "inserted", "mailed", "linking", "unverified",
             "resending", "counted"}
\* "invalid" is the 500 of validateDto and validateByDto, "failed" any other.
Answered == {"created", "loggedIn", "resent", "activated",
             "refused", "failed", "invalid"}
Stages   == {"idle"} \union InFlight \union Answered
Time     == 0..MaxTime
\* A list of dates, of which a request adds one at most: the set of them.
Attempts == [by : Ids, at : Time]
Dates    == {d \in SUBSET Attempts : IsFiniteSet(d) /\ Cardinality(d) <= TokensLimit}
Links    == [user : Ids, token : Ids, sent : Time]
Entries  == [user : Ids, token : Ids]

\* target, model: the user a request found and its EmailToken.token.
Requests == [kind : Kinds, at : Stages, email : Emails \union {NoEmail},
             identity : Identities \union {NoId}, target : Ids \union {NoId},
             model : Ids \union {NoId}]

TypeOK ==
  /\ AccountTypeOK
  /\ req \in [Ids -> Requests]
  /\ dates \in [Ids -> Dates]
  /\ token \in [Ids -> Ids \union {NoId}]
  /\ attempts \in [Ids -> Dates]
  /\ links \in SUBSET Links
  /\ providers \in SUBSET [user : Ids, identity : Identities]
  /\ blacklist \in SUBSET Entries
  /\ now \in Time

Init ==
  /\ AccountInit
  /\ req = [r \in Ids |->
              [kind |-> "none", at |-> "idle", email |-> NoEmail, identity |-> NoId,
               target |-> NoId, model |-> NoId]]
  /\ dates = [r \in Ids |-> {}]
  /\ token = [u \in Ids |-> NoId]
  /\ attempts = [u \in Ids |-> {}]
  /\ links = {}
  /\ providers = {}
  /\ blacklist = {}
  /\ now = 0

-----------------------------------------------------------------------------
(* Helpers                                                                 *)

Goes(r, stage) == req' = [req EXCEPT ![r].at = stage]

Attempt(r) == [by |-> r, at |-> now]

\* A request that has found the user u (or nobody) reads its EmailToken too.
Request(k, stage, e, i, u) ==
  [kind |-> k, at |-> stage, email |-> e, identity |-> i, target |-> u,
   model |-> IF u = NoId THEN NoId ELSE token[u]]

Starts(r, request) ==
  /\ req[r].at = "idle"
  /\ req' = [req EXCEPT ![r] = request]

HasAddress(u, e) == Live(u) /\ address[u] = e

\* sendConfirmationEmail: a mail in the queue, with a link to the token.
SendLink(u, t) == links' = links \union {[user |-> u, token |-> t, sent |-> now]}

\* updateUserActiveAccount, and the EmailToken row goes.
Activate(u) ==
  /\ account' = [account EXCEPT ![u] = "active"]
  /\ token' = [token EXCEPT ![u] = NoId]
  /\ attempts' = [attempts EXCEPT ![u] = {}]
  /\ UNCHANGED dates

-----------------------------------------------------------------------------
(* UserService.signUp, and createOAuthUser for an address nobody has.      *)

\* checkAndfindByUserByEmail reads outside of the transaction.
SignUp(r, e) ==
  /\ Starts(r, Request("signUp", IF Taken(e) THEN "refused" ELSE "checked",
                       e, NoId, NoId))
  /\ UNCHANGED <<accountVars, tableVars, now>>

OAuthNewcomer(r, i) ==
  /\ ~ Taken(EmailOf[i])
  /\ Starts(r, Request("oauth", IF PlainDtoPasses THEN "checked" ELSE "invalid",
                       EmailOf[i], i, NoId))
  /\ UNCHANGED <<accountVars, tableVars, now>>

\* FacebookStrategy: the profile it asks for has no "sub", and String makes a
\* value of that all the same, one for every Facebook account.
FacebookId == "undefined"

\* GoogleStrategy: the "sub" of the profile.
OAuthId(i) == IF ProviderOf[i] = "FACEBOOK" THEN FacebookId ELSE i

\* Both sign in by OAuth with one id.
SameOAuthId(r, i) ==
  req[r].kind = "oauth" /\ OAuthId(req[r].identity) = OAuthId(i)

\* Requests with an uncommitted row.
Inserted == {q \in Ids : req[q].at \in {"inserted", "mailed"}}

\* An uncommitted row has the id.
IdLocked(r) ==
  \E q \in Inserted : req[q].kind = "oauth" /\ SameOAuthId(r, req[q].identity)

\* Mutant: a failed transaction is not rolled back and keeps its lock.
Locked_Forever(r) ==
  \E q \in Ids : /\ req[q].at \in {"inserted", "mailed", "failed"}
                 /\ req[q].email = req[r].email

\* An uncommitted row has the address, or the id.
Locked(r) == IdLocked(r) \/ \E q \in Inserted : req[q].email = req[r].email

\* Mutant: User.email without its unique index.
Collides_NoIndex(r) == FALSE

\* P2002: a committed row has the address, or the id.
Collides(r) ==
  \/ Taken(req[r].email)
  \/ \E p \in providers : SameOAuthId(r, p.identity)

\* saveRegularUser or createUserWithOAuthProvider.  The first attempt is
\* dated here.
Insert(r) ==
  /\ req[r].at = "checked"
  /\ ~ Collides(r)
  /\ ~ Locked(r)
  /\ Goes(r, "inserted")
  /\ dates' = [dates EXCEPT ![r] = {Attempt(r)}]
  /\ UNCHANGED <<accountVars, token, attempts, links, providers, blacklist, now>>

InsertFails(r) ==
  /\ req[r].at = "checked"
  /\ Collides(r)
  /\ Goes(r, "failed")
  /\ UNCHANGED <<accountVars, tableVars, now>>

\* The mail goes out before the commit; the one for OAuth has no link.
MailFirst(r) ==
  /\ req[r].at = "inserted"
  /\ Goes(r, "mailed")
  /\ IF req[r].kind = "signUp" THEN SendLink(r, r) ELSE UNCHANGED links
  /\ UNCHANGED <<accountVars, token, resends, providers, blacklist, now>>

CommitSignUp(r) ==
  /\ req[r].at = "mailed"
  /\ req[r].kind = "signUp"
  /\ Goes(r, "created")
  /\ account' = [account EXCEPT ![r] = "pending"]
  /\ address' = [address EXCEPT ![r] = req[r].email]
  /\ token' = [token EXCEPT ![r] = r]
  /\ attempts' = [attempts EXCEPT ![r] = dates[r]]
  /\ UNCHANGED <<dates, links, providers, blacklist, now>>

CommitOAuthUser(r) ==
  /\ req[r].at = "mailed"
  /\ req[r].kind = "oauth"
  /\ Goes(r, "created")
  /\ account' = [account EXCEPT ![r] = "active"]
  /\ address' = [address EXCEPT ![r] = req[r].email]
  /\ providers' = providers \union {[user |-> r, identity |-> req[r].identity]}
  /\ UNCHANGED <<token, resends, links, blacklist, now>>

-----------------------------------------------------------------------------
(* LoginAuthService.signIn.  The tokens that come of it are the subject of *)
(* Session.                                                                *)

\* authenticateUser
AfterPassword(u) == IF account[u] = "active" THEN "loggedIn" ELSE "unverified"

\* Nobody has the address: 404.
SignInUnknown(r, e) ==
  /\ ~ Taken(e)
  /\ Starts(r, Request("signIn", "refused", e, NoId, NoId))
  /\ UNCHANGED <<accountVars, tableVars, now>>

\* The user of an OAuth request has no password to compare with: a 500.
Verified(u, stage) == IF req[u].kind = "signUp" THEN stage ELSE "failed"

\* The wrong password, before anything about the account is looked at: 404.
SignInWrong(r, e) ==
  \E u \in Ids :
    /\ HasAddress(u, e)
    /\ Starts(r, Request("signIn", Verified(u, "refused"), e, NoId, u))
    /\ UNCHANGED <<accountVars, tableVars, now>>

SignIn(r, e) ==
  \E u \in Ids :
    /\ HasAddress(u, e)
    /\ Starts(r, Request("signIn", Verified(u, AfterPassword(u)), e, NoId, u))
    /\ UNCHANGED <<accountVars, tableVars, now>>

\* getActiveTokens
Active(date) == date + Expiration > now
ActiveDates(u) == {d \in attempts[u] : Active(d.at)}

\* Mutant: the limit itself is still let through.
LimitReached_OffByOne(u) == Cardinality(ActiveDates(u)) > TokensLimit

\* checkEmailModelTokensLimit
LimitReached(u) == Cardinality(ActiveDates(u)) >= TokensLimit

\* accountСonfirmationBySignIn reads the EmailToken row and makes the list of
\* attempts it will write.
ReadAttempts(r) ==
  LET u == req[r].target IN
  /\ req[r].at = "unverified"
  /\ token[u] # NoId
  /\ IF LimitReached(u)
     THEN Goes(r, "refused") /\ UNCHANGED dates
     ELSE /\ Goes(r, "resending")
          /\ dates' = [dates EXCEPT ![r] = ActiveDates(u) \union {Attempt(r)}]
  /\ UNCHANGED <<accountVars, token, attempts, links, providers, blacklist, now>>

\* handleEmailToken without a row: a link to a uuid that nobody stores.
SendUnstored(r) ==
  /\ req[r].at = "unverified"
  /\ token[req[r].target] = NoId
  /\ SendLink(req[r].target, r)
  /\ Goes(r, "resent")
  /\ UNCHANGED <<accountVars, token, resends, providers, blacklist, now>>

\* updateResendAttemptsAndCreateNewToken, called without its third argument:
\* Prisma leaves the token as it is.  P2025 when the row is gone.
WriteAttempts(r) ==
  LET u == req[r].target IN
  /\ req[r].at = "resending"
  /\ IF token[u] # NoId
     THEN /\ attempts' = [attempts EXCEPT ![u] = dates[r]]
          /\ Goes(r, "counted")
     ELSE /\ Goes(r, "failed")
          /\ UNCHANGED attempts
  /\ UNCHANGED <<accountVars, token, dates, links, providers, blacklist, now>>

\* The link carries the new uuid; the request then answers 403.
Resend(r) ==
  /\ req[r].at = "counted"
  /\ SendLink(req[r].target, r)
  /\ Goes(r, "resent")
  /\ UNCHANGED <<accountVars, token, resends, providers, blacklist, now>>

-----------------------------------------------------------------------------
(* JwtConfirmationStrategy                                                 *)

\* A link is refused for its first seconds (notBefore).  Later validatePayload
\* wants the iat that generateConfirmationToken leaves out (noTimestamp), and
\* it comes before any look at the user, its EmailToken or the blacklist.
Follow(r, l) ==
  /\ l \in links
  /\ \E stage \in {"invalid"} \union (IF l.sent = now THEN {"refused"} ELSE {}) :
       Starts(r, Request("confirm", stage, NoEmail, NoId, NoId))
  /\ UNCHANGED <<accountVars, tableVars, now>>

-----------------------------------------------------------------------------
(* OAuthService.createOAuthUser for an address that has an account         *)

\* getProviderValue; there is a strategy for each known provider only.
ProviderValue(i) == ProviderOf[i]

\* Provider rows of the same provider; find() takes the first.
SameProvider(u, i) ==
  {p \in providers : p.user = u /\ ProviderValue(p.identity) = ProviderValue(i)}

\* processExistingUser
OAuthKnown(r, i) ==
  \E u \in Ids : \E p \in SameProvider(u, i) :
    /\ HasAddress(u, EmailOf[i])
    /\ Starts(r, Request("oauth", IF OAuthId(p.identity) = OAuthId(i)
                         THEN "loggedIn" ELSE "refused",
                         EmailOf[i], i, u))
    /\ UNCHANGED <<accountVars, tableVars, now>>

\* createOAuthUserByNewProvideModel opens a transaction, with the EmailToken
\* that was read before it.
OAuthLink(r, i) ==
  \E u \in Ids :
    /\ HasAddress(u, EmailOf[i])
    /\ SameProvider(u, i) = {}
    /\ Starts(r, Request("oauth", IF PlainDtoPasses THEN "linking" ELSE "invalid",
                         EmailOf[i], i, u))
    /\ UNCHANGED <<accountVars, tableVars, now>>

\* Mutant: deleteMany, which does not mind that there is no row.
RowStillThere_Many(r) == Live(req[r].target)

\* The update and the delete by the id that was read find their rows.
RowStillThere(r) == Live(req[r].target) /\ token[req[r].target] # NoId

\* The rows the transaction writes: the user, the EmailToken if one was
\* read, and an identity that nobody has.
LinkPasses(r) ==
  /\ Live(req[r].target)
  /\ req[r].model # NoId => RowStillThere(r)
  /\ \A p \in providers : ~ SameOAuthId(r, p.identity)

\* Mutant: the EmailToken row survives the activation.
ActivateLinked_KeepToken(u, model) ==
  /\ account' = [account EXCEPT ![u] = "active"]
  /\ UNCHANGED <<token, resends>>

\* processEmailTokenForOAuthUserCreation
ActivateLinked(u, model) ==
  IF model # NoId
  THEN Activate(u)
  ELSE /\ account' = [account EXCEPT ![u] = "active"]
       /\ UNCHANGED <<token, resends>>

\* The token is put on the blacklist unless expiresIn is over.
CommitLink(r) ==
  LET u == req[r].target
      entry == [user |-> u, token |-> req[r].model] IN
  /\ req[r].at = "linking"
  /\ LinkPasses(r)
  /\ ~ IdLocked(r)
  /\ Goes(r, IF req[r].model # NoId THEN "activated" ELSE "loggedIn")
  /\ ActivateLinked(u, req[r].model)
  /\ providers' = providers \union {[user |-> u, identity |-> req[r].identity]}
  /\ blacklist' \in {blacklist} \union
                      (IF req[r].model # NoId THEN {blacklist \union {entry}} ELSE {})
  /\ UNCHANGED <<address, links, now>>

LinkFails(r) ==
  /\ req[r].at = "linking"
  /\ ~ LinkPasses(r)
  /\ Goes(r, "failed")
  /\ UNCHANGED <<accountVars, tableVars, now>>

-----------------------------------------------------------------------------

\* UserService.delete; the rows of the user in the other tables cascade.
Delete(u) ==
  /\ Live(u)
  /\ account' = [account EXCEPT ![u] = "closed"]
  /\ token' = [token EXCEPT ![u] = NoId]
  /\ attempts' = [attempts EXCEPT ![u] = {}]
  /\ providers' = {p \in providers : p.user # u}
  /\ blacklist' = {b \in blacklist : b.user # u}
  /\ UNCHANGED <<address, req, dates, links, now>>

\* BlackListService.clearBlackList: what a link put into expiresAt is the
\* length of an interval, as a point in time long over.
ClearBlackList ==
  /\ blacklist' = {}
  /\ UNCHANGED <<accountVars, req, token, resends, links, providers, now>>

Tick ==
  /\ now < MaxTime
  /\ now' = now + 1
  /\ UNCHANGED <<accountVars, req, tableVars>>

\* Mutant: a link writes its provider row outside of the transaction.
Undone_Partly(r) ==
  /\ providers' = IF req[r].at = "linking" /\ Live(req[r].target)
                  THEN providers \union {[user |-> req[r].target, identity |-> req[r].identity]}
                  ELSE providers
  /\ UNCHANGED <<accountVars, token, resends, links, blacklist>>

\* What an open transaction has written is rolled back.
Undone(r) == UNCHANGED <<accountVars, tableVars>>

\* Any call of the request fails, its transaction times out or the process
\* dies.
Fail(r) ==
  /\ req[r].at \in InFlight
  /\ Goes(r, "failed")
  /\ Undone(r)
  /\ UNCHANGED now

Arrive(r) ==
  \/ \E e \in Emails : SignUp(r, e) \/ SignInUnknown(r, e) \/ SignInWrong(r, e) \/ SignIn(r, e)
  \/ \E l \in links : Follow(r, l)
  \/ \E i \in Identities : OAuthNewcomer(r, i) \/ OAuthKnown(r, i) \/ OAuthLink(r, i)

Proceed(r) ==
  \/ Insert(r) \/ InsertFails(r) \/ MailFirst(r) \/ CommitSignUp(r) \/ CommitOAuthUser(r)
  \/ ReadAttempts(r) \/ SendUnstored(r) \/ WriteAttempts(r) \/ Resend(r)
  \/ CommitLink(r) \/ LinkFails(r)

Next ==
  \/ \E r \in Ids : Arrive(r) \/ Proceed(r) \/ Fail(r)
  \/ \E u \in Ids : Delete(u)
  \/ ClearBlackList
  \/ Tick

Spec == Init /\ [][Next]_vars

\* A request that has started is carried on by the event loop, which is also
\* what ends the transaction another request waits for.
FairSpec == Spec /\ \A r \in Ids : WF_vars(Proceed(r))

-----------------------------------------------------------------------------
(* Properties                                                              *)

\* The account promise of AccountLifecycle, kept although every request acts
\* on rows it read before others changed them.
Promise == AccountSpec

\* An account waits for confirmation exactly as long as it has an EmailToken
\* row: whichever of OAuth linking and deletion ends the wait takes the row
\* with it, and a pending account is never left without one, for which signIn
\* would mail links to a token that nobody stores.
PendingHasToken == \A u \in Ids : account[u] = "pending" <=> token[u] # NoId

\* Two OAuth sign-ins, by different providers, that both found the account
\* unconfirmed never both activate it: the loser's delete of the EmailToken
\* by id fails and takes its other writes along, the provider row included.
ActivatedOnce ==
  \A r, s \in Ids :
    /\ req[r].at = "activated" /\ req[s].at = "activated"
    /\ req[r].target = req[s].target
    => r = s

\* An account is active exactly if some provider vouches for it: no link that
\* failed half-way leaves its provider row with an unconfirmed account, which
\* the next sign-in by that provider would be let into (processExistingUser),
\* and none activates an account without its row.
ActiveHasProvider ==
  \A u \in Ids : account[u] = "active" <=> \E p \in providers : p.user = u

\* Whoever is signed in has, or had, an active account, even though the
\* request answered from a user read earlier.
LoggedInActive ==
  \A r \in Ids : req[r].at = "loggedIn" => account[req[r].target] \in {"active", "closed"}

\* Every request is answered: one that waits for another transaction to
\* give up an address does not wait forever.
RequestsEnd == \A r \in Ids : (req[r].at \in InFlight) ~> (req[r].at \in Answered)

\* The limit of letters within the expiration time that handleEmailResendLimit
\* enforces for an account.
ResendsWithinLimit ==
  \A u \in Ids : account[u] = "pending" =>
    Cardinality({l \in links : l.user = u /\ Active(l.sent)}) <= TokensLimit
=============================================================================
