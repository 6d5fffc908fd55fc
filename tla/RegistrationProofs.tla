------------------------ MODULE RegistrationProofs --------------------------
(***************************************************************************)
(* Proofs about Registration, for any number of requests, addresses and    *)
(* identities, whatever the limit, the clock and the validator.            *)
(*                                                                         *)
(* A request writes what it read some steps earlier.  IInv says what is    *)
(* still true of that by the time it writes: rows only ever move forward,  *)
(* and nobody takes an address that an open transaction holds.             *)
(*                                                                         *)
(* The type invariant needs more of the same kind: a request carries a     *)
(* value to a later step, so TypeInv types what is carried (CarriedInv),   *)
(* the rows, and the lists of attempts, whose length is bounded where a    *)
(* request reads one and not where it writes it back.                      *)
(***************************************************************************)
EXTENDS Registration, FiniteSetTheorems, TLAPS

\* The types the relations below need; RowsOK and DatesOK have the others.
Typed ==
  /\ AccountTypeOK
  /\ req \in [Ids -> Requests]
  /\ token \in [Ids -> Ids \union {NoId}]
  /\ \A l \in links : l.user \in Ids /\ l.token \in Ids

Inserting(q) == req[q].at \in {"inserted", "mailed"}
Settled(u)   == account[u] \in {"active", "closed"}

\* The stages at which a request has found a user.
Aimed == {"linking", "unverified", "resending", "counted", "resent", "activated",
          "loggedIn"}

RequestInv ==
  \A q \in Ids : /\ req[q].at \in Aimed => req[q].target \in Ids
                 /\ req[q].at \in {"checked", "inserted", "mailed", "created"} =>
                      req[q].kind \in {"signUp", "oauth"} /\ req[q].email \in Emails
                 /\ account[q] # "absent" => req[q].at = "created"

\* An open transaction that inserted a user holds the address alone.
LockInv ==
  /\ \A q \in Ids : Inserting(q) => ~ Taken(req[q].email)
  /\ \A q, s \in Ids : Inserting(q) /\ Inserting(s) /\ req[q].email = req[s].email => q = s

\* What a request saw settled is settled.
SeenInv ==
  \A q \in Ids : /\ req[q].at = "linking" /\ req[q].model = NoId => Settled(req[q].target)
                 /\ req[q].at = "activated" => Settled(req[q].target)

\* A provider row is of an account that was settled.
ProvidersInv == \A p \in providers : p.user \in Ids /\ Settled(p.user)

IInv ==
  /\ Typed
  /\ RequestInv
  /\ LockInv
  /\ SeenInv
  /\ ProvidersInv
  /\ PendingHasToken
  /\ ActivatedOnce
  /\ ActiveHasProvider
  /\ LoggedInActive

-----------------------------------------------------------------------------
(* Lemmas about the helpers                                                *)

\* Only the stage of one request changes.
LEMMA GoesLemma ==
  ASSUME req \in [Ids -> Requests], NEW r \in Ids, NEW stage \in Stages, Goes(r, stage)
  PROVE  /\ req' \in [Ids -> Requests]
         /\ \A q \in Ids : q # r => req'[q] = req[q]
         /\ req'[r].at = stage
         /\ req'[r].kind = req[r].kind
         /\ req'[r].email = req[r].email
         /\ req'[r].identity = req[r].identity
         /\ req'[r].target = req[r].target
         /\ req'[r].model = req[r].model
  BY DEF Goes, Requests

\* A request that begins, whoever it found: the others are left alone.
LEMMA StartsLemma ==
  ASSUME req \in [Ids -> Requests], token \in [Ids -> Ids \union {NoId}],
         NEW r \in Ids, NEW stage \in Stages, NEW k \in Kinds,
         NEW e \in Emails \union {NoEmail}, NEW i \in Identities \union {NoId},
         NEW u \in Ids \union {NoId},
         Starts(r, Request(k, stage, e, i, u))
  PROVE  /\ req' \in [Ids -> Requests]
         /\ \A q \in Ids : q # r => req'[q] = req[q]
         /\ req[r].at = "idle"
         /\ req'[r].at = stage
         /\ req'[r].kind = k
         /\ req'[r].email = e
  <1>1. Request(k, stage, e, i, u) \in Requests
    BY DEF Request, Requests
  <1>2. QED
    BY <1>1 DEF Starts, Request

\* A step of one request that leaves users and tokens alone, and neither
\* inserts nor commits.
LEMMA QuietStep ==
  ASSUME IInv, NEW r \in Ids,
         req' \in [Ids -> Requests],
         \A q \in Ids : q # r => req'[q] = req[q],
         UNCHANGED <<account, address, token, providers>>,
         \A l \in links' : l.user \in Ids /\ l.token \in Ids,
         req[r].at \notin {"created", "activated"},
         req'[r].at \notin {"inserted", "created", "activated"},
         req'[r].at \in Aimed => req'[r].target \in Ids,
         req'[r].at \in {"checked", "mailed"} =>
           req'[r].kind \in {"signUp", "oauth"} /\ req'[r].email \in Emails,
         req'[r].at = "mailed" => req[r].at = "inserted" /\ req'[r].email = req[r].email,
         req'[r].at = "linking" /\ req'[r].model = NoId => Settled(req'[r].target),
         req'[r].at = "loggedIn" => Settled(req'[r].target)
  PROVE  IInv'
  <1>1. Typed'
    BY DEF IInv, Typed, AccountTypeOK
  <1>2. account[r] = "absent"
    BY DEF IInv, RequestInv
  <1>3. RequestInv'
    BY <1>2 DEF IInv, RequestInv
  <1>4. LockInv'
    BY DEF IInv, LockInv, Inserting, Taken, Live
  <1>5. SeenInv'
    BY DEF IInv, SeenInv, Settled
  <1>6. PendingHasToken'
    BY DEF IInv, PendingHasToken
  <1>7. ActivatedOnce'
    BY DEF IInv, ActivatedOnce
  <1>8. ActiveHasProvider'
    BY <1>2 DEF IInv, ActiveHasProvider
  <1>9. LoggedInActive'
    BY DEF IInv, LoggedInActive, Settled
  <1>10. ProvidersInv'
    BY DEF IInv, ProvidersInv, Settled
  <1>11. QED
    BY <1>1, <1>3, <1>4, <1>5, <1>6, <1>7, <1>8, <1>9, <1>10 DEF IInv

-----------------------------------------------------------------------------
(* IInv is inductive                                                       *)

LEMMA InitInv == Init => IInv
  <1> SUFFICES ASSUME Init PROVE IInv
    OBVIOUS
  <1>1. Typed
    BY DEF Init, AccountInit, Typed, AccountTypeOK, AccountStates, Requests, Kinds, Stages
  <1>2. QED
    BY <1>1 DEF Init, AccountInit, IInv, RequestInv, LockInv, SeenInv, ProvidersInv, PendingHasToken,
                ActivatedOnce, ActiveHasProvider, LoggedInActive, Inserting, Aimed

LEMMA ArriveStep == ASSUME IInv, NEW r \in Ids, Arrive(r) PROVE IInv'
  <1>1. /\ req \in [Ids -> Requests] /\ token \in [Ids -> Ids \union {NoId}]
        /\ \A l \in links : l.user \in Ids /\ l.token \in Ids
        /\ \A u \in Ids : Live(u) /\ token[u] = NoId => Settled(u)
        /\ \A p \in providers : p.user \in Ids /\ Settled(p.user)
    BY NoIdAssumption DEF IInv, Typed, PendingHasToken, Live, Settled, ProvidersInv
  <1>2. ASSUME NEW stage \in {"refused", "failed", "invalid"}, NEW k \in Kinds,
               NEW e \in Emails \union {NoEmail}, NEW i \in Identities \union {NoId},
               NEW u \in Ids \union {NoId},
               Starts(r, Request(k, stage, e, i, u)),
               UNCHANGED <<accountVars, tableVars>>
        PROVE  IInv'
    <2>1. stage \in Stages
      BY DEF Stages, Answered
    <2>2. /\ req' \in [Ids -> Requests]
          /\ \A q \in Ids : q # r => req'[q] = req[q]
          /\ req[r].at = "idle"
          /\ req'[r].at = stage
      BY <1>1, <1>2, <2>1, StartsLemma
    <2>3. QED
      BY <1>1, <1>2, <2>2, QuietStep DEF Aimed, accountVars, tableVars
  <1>3. ASSUME NEW k \in {"signUp", "oauth"}, NEW e \in Emails,
               NEW i \in Identities \union {NoId},
               Starts(r, Request(k, "checked", e, i, NoId)),
               UNCHANGED <<accountVars, tableVars>>
        PROVE  IInv'
    <2>1. "checked" \in Stages /\ k \in Kinds
      BY DEF Stages, InFlight, Kinds
    <2>2. /\ req' \in [Ids -> Requests]
          /\ \A q \in Ids : q # r => req'[q] = req[q]
          /\ req[r].at = "idle"
          /\ req'[r].at = "checked"
          /\ req'[r].kind = k
          /\ req'[r].email = e
      BY <1>1, <1>3, <2>1, StartsLemma
    <2>3. QED
      BY <1>1, <1>3, <2>2, QuietStep DEF Aimed, accountVars, tableVars
  <1>4. ASSUME NEW stage \in {"unverified", "loggedIn", "linking"},
               NEW k \in Kinds, NEW e \in Emails \union {NoEmail},
               NEW i \in Identities \union {NoId}, NEW u \in Ids,
               Starts(r, Request(k, stage, e, i, u)),
               stage = "linking" /\ token[u] = NoId => Settled(u),
               stage = "loggedIn" => Settled(u),
               UNCHANGED <<accountVars, tableVars>>
        PROVE  IInv'
    <2>1. stage \in Stages
      BY DEF Stages, InFlight, Answered
    <2>2. /\ req' \in [Ids -> Requests]
          /\ \A q \in Ids : q # r => req'[q] = req[q]
          /\ req[r].at = "idle"
          /\ req'[r].at = stage
          /\ req'[r].target = u
          /\ req'[r].model = token[u]
      <3>1. Starts(r, Request(k, stage, e, i, u))
        BY <1>4
      <3>2. Request(k, stage, e, i, u) \in Requests
        BY <1>1, <2>1 DEF Request, Requests
      <3>3. u # NoId
        BY NoIdAssumption
      <3>4. QED
        BY <1>1, <3>1, <3>2, <3>3 DEF Starts, Request
    <2>3. /\ req[r].at \notin {"created", "activated"}
          /\ req'[r].at \notin {"inserted", "created", "activated", "checked", "mailed"}
          /\ req'[r].target \in Ids
          /\ req'[r].at = "linking" /\ req'[r].model = NoId => Settled(req'[r].target)
          /\ req'[r].at = "loggedIn" => Settled(req'[r].target)
      BY <1>4, <2>1, <2>2
    <2>4. /\ UNCHANGED <<account, address, token, providers>>
          /\ \A l \in links' : l.user \in Ids /\ l.token \in Ids
      BY <1>1, <1>4 DEF accountVars, tableVars
    <2>5. QED
      BY <1>1, <2>2, <2>3, <2>4, QuietStep
  <1> USE DEF Kinds
  <1>5. ASSUME NEW e \in Emails, SignUp(r, e) PROVE IInv'
    BY <1>2, <1>3, <1>5 DEF SignUp
  <1>6. ASSUME NEW e \in Emails,
               SignInUnknown(r, e) \/ SignInWrong(r, e) \/ SignIn(r, e)
        PROVE  IInv'
    <2>1. UNCHANGED <<accountVars, tableVars>>
      BY <1>6 DEF SignInUnknown, SignInWrong, SignIn
    <2>2. CASE SignInUnknown(r, e)
      BY <1>2, <2>1, <2>2 DEF SignInUnknown
    <2>3. CASE SignInWrong(r, e)
      BY <1>2, <2>1, <2>3 DEF SignInWrong, Verified
    <2>4. ASSUME NEW u \in Ids, HasAddress(u, e),
                 Starts(r, Request("signIn", Verified(u, AfterPassword(u)), e, NoId, u))
          PROVE  IInv'
      <3>1. CASE req[u].kind # "signUp"
        BY <1>2, <2>1, <2>4, <3>1 DEF Verified
      <3>2. CASE req[u].kind = "signUp" /\ account[u] = "active"
        BY <1>4, <2>1, <2>4, <3>2 DEF Verified, AfterPassword, Settled
      <3>3. CASE req[u].kind = "signUp" /\ account[u] # "active"
        BY <1>4, <2>1, <2>4, <3>3 DEF Verified, AfterPassword
      <3>4. QED
        BY <3>1, <3>2, <3>3
    <2>5. QED
      BY <1>6, <2>2, <2>3, <2>4 DEF SignIn
  <1>7. ASSUME NEW l \in links, Follow(r, l) PROVE IInv'
    BY <1>2, <1>7 DEF Follow
  <1>8. ASSUME NEW i \in Identities, OAuthNewcomer(r, i) PROVE IInv'
    <2>1. EmailOf[i] \in Emails
      BY EmailOfAssumption
    <2>2. QED
      BY <1>2, <1>3, <1>8, <2>1 DEF OAuthNewcomer
  <1>9. ASSUME NEW i \in Identities, OAuthKnown(r, i) PROVE IInv'
    <2>1. PICK u \in Ids : \E p \in SameProvider(u, i) :
            /\ Starts(r, Request("oauth", IF OAuthId(p.identity) = OAuthId(i)
                                 THEN "loggedIn" ELSE "refused",
                                 EmailOf[i], i, u))
            /\ UNCHANGED <<accountVars, tableVars, now>>
      BY <1>9 DEF OAuthKnown
    <2> PICK p \in SameProvider(u, i) :
            /\ Starts(r, Request("oauth", IF OAuthId(p.identity) = OAuthId(i)
                                 THEN "loggedIn" ELSE "refused",
                                 EmailOf[i], i, u))
            /\ UNCHANGED <<accountVars, tableVars, now>>
      BY <2>1
    <2>2. Settled(u) /\ EmailOf[i] \in Emails
      BY <1>1, EmailOfAssumption DEF SameProvider, ProviderValue
    <2>3. CASE OAuthId(p.identity) = OAuthId(i)
      BY <1>4, <2>2, <2>3
    <2>4. CASE OAuthId(p.identity) # OAuthId(i)
      BY <1>2, <2>2, <2>4
    <2>5. QED
      BY <2>3, <2>4
  <1>10. ASSUME NEW i \in Identities, OAuthLink(r, i) PROVE IInv'
    <2>1. PICK u \in Ids :
            /\ HasAddress(u, EmailOf[i])
            /\ Starts(r, Request("oauth", IF PlainDtoPasses THEN "linking" ELSE "invalid",
                                 EmailOf[i], i, u))
            /\ UNCHANGED <<accountVars, tableVars, now>>
      BY <1>10 DEF OAuthLink
    <2>2. token[u] = NoId => Settled(u)
      BY <1>1, <2>1 DEF HasAddress
    <2>3. EmailOf[i] \in Emails
      BY EmailOfAssumption
    <2>4. CASE PlainDtoPasses
      BY <1>4, <2>1, <2>2, <2>3, <2>4
    <2>5. CASE ~ PlainDtoPasses
      BY <1>2, <2>1, <2>3, <2>5
    <2>6. QED
      BY <2>4, <2>5
  <1>11. QED
    BY <1>5, <1>6, <1>7, <1>8, <1>9, <1>10 DEF Arrive

\* Between its start and its commit a request moves on alone.
LEMMA QuietProceedStep ==
  ASSUME IInv, NEW r \in Ids,
         \/ InsertFails(r) \/ MailFirst(r) \/ ReadAttempts(r) \/ SendUnstored(r)
         \/ WriteAttempts(r) \/ Resend(r) \/ LinkFails(r) \/ Fail(r)
  PROVE  IInv'
  <1>1. /\ req \in [Ids -> Requests] /\ token \in [Ids -> Ids \union {NoId}]
        /\ \A l \in links : l.user \in Ids /\ l.token \in Ids
        /\ req[r].at \in Aimed => req[r].target \in Ids
        /\ req[r].at = "inserted" =>
             req[r].kind \in {"signUp", "oauth"} /\ req[r].email \in Emails
    BY DEF IInv, Typed, RequestInv
  <1> DEFINE Frame == /\ UNCHANGED <<account, address, token, providers>>
                      /\ \A l \in links' : l.user \in Ids /\ l.token \in Ids
  <1>2. ASSUME NEW stage \in {"refused", "failed", "invalid"}, Goes(r, stage),
               req[r].at \notin {"created", "activated"}, Frame
        PROVE  IInv'
    <2>1. stage \in Stages
      BY DEF Stages, Answered
    <2>2. /\ req' \in [Ids -> Requests]
          /\ \A q \in Ids : q # r => req'[q] = req[q]
          /\ req'[r].at = stage
      BY <1>1, <1>2, <2>1, GoesLemma
    <2>3. QED
      BY <1>2, <2>2, QuietStep DEF Aimed
  <1>3. ASSUME NEW stage \in {"resending", "counted", "resent"},
               Goes(r, stage), req[r].at \in Aimed, req[r].at # "activated", Frame
        PROVE  IInv'
    <2>1. stage \in Stages
      BY DEF Stages, Answered, InFlight
    <2>2. /\ req' \in [Ids -> Requests]
          /\ \A q \in Ids : q # r => req'[q] = req[q]
          /\ req'[r].at = stage
          /\ req'[r].target = req[r].target
      BY <1>1, <1>3, <2>1, GoesLemma
    <2>3. req[r].at # "created" /\ req[r].target \in Ids
      BY <1>1, <1>3 DEF Aimed
    <2>4. QED
      BY <1>3, <2>2, <2>3, QuietStep
  <1>4. ASSUME NEW u \in Ids, NEW t \in Ids, SendLink(u, t)
        PROVE  \A l \in links' : l.user \in Ids /\ l.token \in Ids
    BY <1>1, <1>4 DEF SendLink
  <1> USE DEF accountVars, tableVars, resends
  <1>5. CASE InsertFails(r)
    BY <1>1, <1>2, <1>5 DEF InsertFails
  <1>6. CASE MailFirst(r)
    <2>1. /\ req[r].at = "inserted"
          /\ Goes(r, "mailed")
          /\ Frame
      BY <1>1, <1>4, <1>6 DEF MailFirst
    <2>2. "mailed" \in Stages
      BY DEF Stages, InFlight
    <2>3. /\ req' \in [Ids -> Requests]
          /\ \A q \in Ids : q # r => req'[q] = req[q]
          /\ req'[r].at = "mailed"
          /\ req'[r].kind = req[r].kind
          /\ req'[r].email = req[r].email
      BY <1>1, <2>1, <2>2, GoesLemma
    <2>4. QED
      BY <1>1, <2>1, <2>3, QuietStep DEF Aimed
  <1>7. CASE ReadAttempts(r)
    BY <1>1, <1>2, <1>3, <1>7 DEF ReadAttempts, Aimed
  <1>8. CASE SendUnstored(r)
    BY <1>1, <1>3, <1>4, <1>8 DEF SendUnstored, Aimed
  <1>9. CASE WriteAttempts(r)
    BY <1>1, <1>2, <1>3, <1>9 DEF WriteAttempts, Aimed
  <1>10. CASE Resend(r)
    BY <1>1, <1>3, <1>4, <1>10 DEF Resend, Aimed
  <1>11. CASE LinkFails(r)
    BY <1>1, <1>2, <1>11 DEF LinkFails
  <1>12. CASE Fail(r)
    BY <1>1, <1>2, <1>12 DEF Fail, Undone, InFlight
  <1>13. QED
    BY <1>5, <1>6, <1>7, <1>8, <1>9, <1>10, <1>11, <1>12

\* The insert takes the lock of a free address.
LEMMA InsertStep == ASSUME IInv, NEW r \in Ids, Insert(r) PROVE IInv'
  <1>1. req \in [Ids -> Requests] /\ "inserted" \in Stages
    BY DEF IInv, Typed, Stages, InFlight
  <1>2. Goes(r, "inserted") /\ req[r].at = "checked"
    BY DEF Insert
  <1>3. UNCHANGED <<account, address, token, links, providers>>
    BY DEF Insert, accountVars
  <1>4. /\ req' \in [Ids -> Requests]
        /\ \A q \in Ids : q # r => req'[q] = req[q]
        /\ req'[r].at = "inserted"
        /\ req'[r].kind = req[r].kind
        /\ req'[r].email = req[r].email
    BY <1>1, <1>2, GoesLemma
  <1>5. ~ Taken(req[r].email) /\ \A q \in Ids : Inserting(q) => req[q].email # req[r].email
    BY DEF Insert, Collides, Locked, Inserted, Inserting
  <1>6. Typed' /\ RequestInv'
    BY <1>2, <1>3, <1>4 DEF IInv, Typed, AccountTypeOK, RequestInv, Aimed
  <1>7. LockInv'
    BY <1>2, <1>3, <1>4, <1>5 DEF IInv, LockInv, Inserting, Taken, Live
  <1>8. SeenInv' /\ ProvidersInv' /\ PendingHasToken'
    BY <1>2, <1>3, <1>4 DEF IInv, SeenInv, ProvidersInv, PendingHasToken, Settled
  <1>9. ActivatedOnce' /\ ActiveHasProvider' /\ LoggedInActive'
    BY <1>2, <1>3, <1>4 DEF IInv, ActivatedOnce, ActiveHasProvider, LoggedInActive
  <1>10. QED
    BY <1>6, <1>7, <1>8, <1>9 DEF IInv

\* A commit that opens an account: the address was locked until now, and
\* nobody can have found the user before.
LEMMA OpenStep ==
  ASSUME IInv, NEW r \in Ids, CommitSignUp(r) \/ CommitOAuthUser(r)
  PROVE  /\ IInv'
         /\ \E s \in {"pending", "active"} : Opened(r, req[r].email, s)
         /\ req[r].email \in Emails
  <1>1. req \in [Ids -> Requests] /\ "created" \in Stages
    BY DEF IInv, Typed, Stages, Answered
  <1>2. Goes(r, "created") /\ req[r].at = "mailed" /\ req[r].kind \in {"signUp", "oauth"}
    BY DEF CommitSignUp, CommitOAuthUser
  <1>3. /\ req' \in [Ids -> Requests]
        /\ \A q \in Ids : q # r => req'[q] = req[q]
        /\ req'[r].at = "created"
        /\ req'[r].kind = req[r].kind
        /\ req'[r].email = req[r].email
    BY <1>1, <1>2, GoesLemma
  <1>4. /\ account[r] = "absent" /\ token[r] = NoId
        /\ req[r].email \in Emails /\ ~ Taken(req[r].email)
    BY <1>2, NoIdAssumption DEF IInv, RequestInv, PendingHasToken, LockInv, Inserting, Typed
  <1>5. PICK s \in {"pending", "active"} :
          /\ account' = [account EXCEPT ![r] = s]
          /\ address' = [address EXCEPT ![r] = req[r].email]
          /\ token' = IF s = "pending" THEN [token EXCEPT ![r] = r] ELSE token
          /\ links' = links
          /\ IF s = "pending"
             THEN providers' = providers
             ELSE providers' = providers \union {[user |-> r, identity |-> req[r].identity]}
    BY DEF CommitSignUp, CommitOAuthUser, resends
  <1>6. /\ \A u \in Ids : u # r => /\ account'[u] = account[u]
                                   /\ address'[u] = address[u]
                                   /\ token'[u] = token[u]
        /\ account'[r] = s /\ address'[r] = req[r].email
        /\ token'[r] = IF s = "pending" THEN r ELSE NoId
    BY <1>4, <1>5 DEF IInv, Typed, AccountTypeOK
  <1>7. Typed'
    BY <1>3, <1>4, <1>5 DEF IInv, Typed, AccountTypeOK, AccountStates
  <1>8. RequestInv'
    BY <1>2, <1>3, <1>6 DEF IInv, RequestInv, Aimed
  <1>9. LockInv'
    <2>1. \A e : (\E u \in Ids : Live(u)' /\ address'[u] = e) => Taken(e) \/ e = req[r].email
      BY <1>6 DEF Taken, Live
    <2>2. \A q \in Ids : Inserting(q)' => q # r /\ Inserting(q) /\ req'[q] = req[q]
      BY <1>3 DEF Inserting
    <2>3. \A q \in Ids : Inserting(q)' => req[q].email # req[r].email
      BY <1>2, <2>2 DEF IInv, LockInv, Inserting
    <2>4. \A q \in Ids : Inserting(q)' => ~ Taken(req[q].email)'
      BY <2>1, <2>2, <2>3 DEF IInv, LockInv, Taken
    <2>5. QED
      BY <2>2, <2>4 DEF IInv, LockInv
  <1>10. SeenInv' /\ ProvidersInv'
    BY <1>2, <1>3, <1>4, <1>5, <1>6 DEF IInv, SeenInv, ProvidersInv, Settled, RequestInv, Aimed
  <1>11. PendingHasToken' /\ ActivatedOnce'
    BY <1>2, <1>3, <1>6, NoIdAssumption DEF IInv, PendingHasToken, ActivatedOnce
  <1>12. ActiveHasProvider' /\ LoggedInActive'
    <2>1. \A p \in providers : p.user # r
      BY <1>4 DEF IInv, ProvidersInv, Settled
    <2>2. \A u \in Ids : (\E p \in providers' : p.user = u) <=>
                         (\E p \in providers : p.user = u) \/ (u = r /\ s = "active")
      <3>1. CASE s = "pending"
        BY <1>5, <3>1
      <3>2. CASE s = "active"
        <4> DEFINE row == [user |-> r, identity |-> req[r].identity]
        <4>1. row.user = r /\ providers' = providers \union {row}
          BY <1>5, <3>2
        <4> HIDE DEF row
        <4>2. QED
          BY <3>2, <4>1
      <3>3. QED
        BY <3>1, <3>2
    <2>3. ActiveHasProvider'
      BY <1>4, <1>6, <2>1, <2>2 DEF IInv, ActiveHasProvider
    <2>4. LoggedInActive'
      BY <1>2, <1>3, <1>4, <1>6 DEF IInv, LoggedInActive, RequestInv, Aimed
    <2>5. QED
      BY <2>3, <2>4
  <1>13. Opened(r, req[r].email, s)
    BY <1>4, <1>5 DEF Opened
  <1>14. QED
    BY <1>4, <1>7, <1>8, <1>9, <1>10, <1>11, <1>12, <1>13 DEF IInv

\* A commit that activates a pending account: it was pending until now, so
\* nobody else has activated it.
LEMMA ActivateStep ==
  ASSUME IInv, NEW r \in Ids, NEW u \in Ids, u = req[r].target,
         req[r].at = "linking", Goes(r, "activated"),
         Live(u), token[u] # NoId, Activate(u),
         UNCHANGED <<address, links>>,
         NEW vouched, vouched.user = u, providers' = providers \union {vouched}
  PROVE  IInv' /\ Activated(u)
  <1>1. req \in [Ids -> Requests] /\ "activated" \in Stages
    BY DEF IInv, Typed, Stages, Answered
  <1>2. /\ req' \in [Ids -> Requests]
        /\ \A q \in Ids : q # r => req'[q] = req[q]
        /\ req'[r].at = "activated"
        /\ req'[r].target = u
    BY <1>1, GoesLemma
  <1>3. account[u] = "pending"
    BY DEF IInv, PendingHasToken
  <1>4. /\ \A v \in Ids : v # u => account'[v] = account[v] /\ token'[v] = token[v]
        /\ account'[u] = "active" /\ token'[u] = NoId
    BY DEF Activate, IInv, Typed, AccountTypeOK
  <1>5. Typed'
    BY <1>2 DEF Activate, IInv, Typed, AccountTypeOK, AccountStates
  <1>6. \A v \in Ids : (Live(v)' <=> Live(v)) /\ (Settled(v) => Settled(v)')
    BY <1>3, <1>4 DEF Live, Settled
  <1>7. RequestInv'
    BY <1>2, <1>3, <1>4 DEF IInv, RequestInv, Aimed
  <1>8. LockInv'
    <2>1. \A e : Taken(e)' <=> Taken(e)
      BY <1>6 DEF Taken
    <2>2. \A q \in Ids : Inserting(q)' => Inserting(q) /\ req'[q] = req[q]
      BY <1>2 DEF Inserting
    <2>3. QED
      BY <2>1, <2>2 DEF IInv, LockInv
  <1>9. SeenInv' /\ ProvidersInv'
    <2>1. Settled(u)'
      BY <1>4 DEF Settled
    <2>2. \A q \in Ids : /\ req[q].at = "linking" => req[q].target \in Ids
                         /\ req[q].at = "activated" => req[q].target \in Ids
      BY DEF IInv, RequestInv, Aimed
    <2>3. QED
      BY <1>2, <1>6, <2>1, <2>2 DEF IInv, SeenInv, ProvidersInv
  <1>10. PendingHasToken'
    BY <1>4 DEF IInv, PendingHasToken
  <1>11. ActivatedOnce'
    <2>1. \A q \in Ids : req[q].at = "activated" => req[q].target # u
      BY <1>3 DEF IInv, SeenInv, Settled
    <2>2. QED
      BY <1>2, <2>1 DEF IInv, ActivatedOnce
  <1>12. ActiveHasProvider'
    BY <1>4 DEF IInv, ActiveHasProvider
  <1>13. LoggedInActive'
    <2>1. \A q \in Ids : req[q].at = "loggedIn" => req[q].target \in Ids
      BY DEF IInv, RequestInv, Aimed
    <2>2. QED
      BY <1>2, <1>4, <2>1 DEF IInv, LoggedInActive
  <1>14. Activated(u)
    BY <1>3 DEF Activated, Activate
  <1>15. QED
    BY <1>5, <1>7, <1>8, <1>9, <1>10, <1>11, <1>12, <1>13, <1>14 DEF IInv

\* CommitLink of a user without an EmailToken row: it was found active.
LEMMA LinkActiveStep ==
  ASSUME IInv, NEW r \in Ids, CommitLink(r), req[r].model = NoId
  PROVE  IInv' /\ UNCHANGED <<account, address>>
  <1>1. /\ req[r].at = "linking" /\ Goes(r, "loggedIn")
        /\ account' = [account EXCEPT ![req[r].target] = "active"]
        /\ UNCHANGED <<address, token, links>>
        /\ Live(req[r].target)
        /\ providers' = providers \union {[user |-> req[r].target,
                                           identity |-> req[r].identity]}
    BY DEF CommitLink, ActivateLinked, LinkPasses, resends
  <1>2. req \in [Ids -> Requests] /\ "loggedIn" \in Stages
    BY DEF IInv, Typed, Stages, Answered
  <1>3. /\ req' \in [Ids -> Requests]
        /\ \A q \in Ids : q # r => req'[q] = req[q]
        /\ req'[r].at = "loggedIn"
        /\ req'[r].target = req[r].target
    BY <1>1, <1>2, GoesLemma
  <1>4. req[r].target \in Ids /\ account[req[r].target] = "active"
    BY <1>1 DEF IInv, RequestInv, SeenInv, Settled, Live, Aimed
  <1>5. account' = account
    BY <1>1, <1>4 DEF IInv, Typed, AccountTypeOK
  <1>6. Typed' /\ RequestInv' /\ PendingHasToken'
    <2>1. Typed'
      BY <1>1, <1>3, <1>5 DEF IInv, Typed, AccountTypeOK
    <2>2. RequestInv'
      BY <1>1, <1>3, <1>4, <1>5 DEF IInv, RequestInv, Aimed
    <2>3. PendingHasToken'
      BY <1>1, <1>5 DEF IInv, PendingHasToken
    <2>4. QED
      BY <2>1, <2>2, <2>3
  <1>7. LockInv' /\ SeenInv'
    <2>1. LockInv'
      BY <1>1, <1>3, <1>5 DEF IInv, LockInv, Inserting, Taken, Live
    <2>2. SeenInv'
      BY <1>1, <1>3, <1>5 DEF IInv, SeenInv, Settled
    <2>3. QED
      BY <2>1, <2>2
  <1>8. ProvidersInv'
    <2>1. \A p \in providers' : p \in providers \/ p.user = req[r].target
      BY <1>1
    <2>2. QED
      BY <1>4, <1>5, <2>1 DEF IInv, ProvidersInv, Settled
  <1>9. ActivatedOnce' /\ ActiveHasProvider' /\ LoggedInActive'
    <2>1. account[r] = "absent"
      BY <1>1 DEF IInv, RequestInv
    <2>2. QED
      BY <1>1, <1>3, <1>4, <1>5, <2>1 DEF IInv, ActivatedOnce, ActiveHasProvider, LoggedInActive
  <1>10. QED
    BY <1>1, <1>5, <1>6, <1>7, <1>8, <1>9 DEF IInv

LEMMA DeleteStep == ASSUME IInv, NEW u \in Ids, Delete(u) PROVE IInv' /\ Closed(u)
  <1>1. /\ account' = [account EXCEPT ![u] = "closed"]
        /\ token' = [token EXCEPT ![u] = NoId]
        /\ providers' = {p \in providers : p.user # u} /\ Live(u)
        /\ UNCHANGED <<address, req, links>>
    BY DEF Delete
  <1>2. /\ \A v \in Ids : v # u => account'[v] = account[v] /\ token'[v] = token[v]
        /\ account'[u] = "closed" /\ token'[u] = NoId
    BY <1>1 DEF IInv, Typed, AccountTypeOK
  <1>3. Typed'
    BY <1>1 DEF IInv, Typed, AccountTypeOK, AccountStates
  <1>4. RequestInv'
    BY <1>1, <1>2 DEF IInv, RequestInv, Live
  <1>5. LockInv'
    <2>1. \A e : Taken(e)' => Taken(e)
      BY <1>1, <1>2 DEF Taken, Live
    <2>2. QED
      BY <1>1, <2>1 DEF IInv, LockInv, Inserting
  <1>6. \A v \in Ids : Settled(v) => Settled(v)'
    BY <1>2 DEF Settled
  <1>7. SeenInv' /\ ProvidersInv' /\ LoggedInActive'
    BY <1>1, <1>6 DEF IInv, RequestInv, SeenInv, ProvidersInv, LoggedInActive, Settled, Aimed
  <1>8. PendingHasToken' /\ ActivatedOnce' /\ ActiveHasProvider'
    BY <1>1, <1>2 DEF IInv, PendingHasToken, ActivatedOnce, ActiveHasProvider
  <1>9. Closed(u)
    BY <1>1 DEF Closed
  <1>10. QED
    BY <1>3, <1>4, <1>5, <1>7, <1>8, <1>9 DEF IInv

\* Every step preserves IInv and is a step, or a stutter, of AccountLifecycle.
LEMMA NextStep == IInv /\ [Next]_vars => IInv' /\ [AccountNext]_accountVars
  <1> SUFFICES ASSUME IInv, [Next]_vars PROVE IInv' /\ [AccountNext]_accountVars
    OBVIOUS
  <1>1. ASSUME NEW r \in Ids, Arrive(r) PROVE IInv' /\ UNCHANGED accountVars
    <2>1. UNCHANGED accountVars
      BY <1>1 DEF Arrive, SignUp, SignInUnknown, SignInWrong, SignIn, Follow,
                  OAuthNewcomer, OAuthKnown, OAuthLink
    <2>2. QED
      BY <1>1, <2>1, ArriveStep
  <1>2. ASSUME NEW r \in Ids, Insert(r) PROVE IInv' /\ UNCHANGED accountVars
    BY <1>2, InsertStep DEF Insert
  <1>3. ASSUME NEW r \in Ids,
               \/ InsertFails(r) \/ MailFirst(r) \/ ReadAttempts(r) \/ SendUnstored(r)
               \/ WriteAttempts(r) \/ Resend(r) \/ LinkFails(r) \/ Fail(r)
        PROVE  IInv' /\ UNCHANGED accountVars
    <2>1. UNCHANGED accountVars
      BY <1>3 DEF InsertFails, MailFirst, ReadAttempts, SendUnstored, WriteAttempts, Resend,
                  LinkFails, Fail, Undone
    <2>2. QED
      BY <1>3, <2>1, QuietProceedStep
  <1>4. ASSUME NEW r \in Ids, CommitSignUp(r) \/ CommitOAuthUser(r)
        PROVE  IInv' /\ AccountNext
    BY <1>4, OpenStep DEF AccountNext
  <1>5. ASSUME NEW r \in Ids, CommitLink(r) PROVE IInv' /\ [AccountNext]_accountVars
    <2>1. req[r].target \in Ids
      BY <1>5 DEF CommitLink, IInv, RequestInv, Aimed
    <2>2. CASE req[r].model = NoId
      BY <1>5, <2>2, LinkActiveStep DEF accountVars
    <2>3. CASE req[r].model # NoId
      <3> DEFINE row == [user |-> req[r].target, identity |-> req[r].identity]
      <3>1. row.user = req[r].target /\ providers' = providers \union {row}
        BY <1>5 DEF CommitLink
      <3> HIDE DEF row
      <3>2. IInv' /\ Activated(req[r].target)
        BY <1>5, <2>1, <2>3, <3>1, ActivateStep DEF CommitLink, LinkPasses, RowStillThere, ActivateLinked
      <3>3. QED
        BY <2>1, <3>2 DEF AccountNext
    <2>4. QED
      BY <2>2, <2>3
  <1>6. ASSUME NEW u \in Ids, Delete(u) PROVE IInv' /\ AccountNext
    BY <1>6, DeleteStep DEF AccountNext
  <1>7. CASE ClearBlackList \/ Tick \/ UNCHANGED vars
    <2>1. UNCHANGED <<accountVars, req, token, links, providers>>
      BY <1>7 DEF ClearBlackList, Tick, vars, tableVars
    <2>2. QED
      BY <2>1 DEF IInv, accountVars, Typed, AccountTypeOK, RequestInv, LockInv, SeenInv, ProvidersInv,
                  PendingHasToken, ActivatedOnce, ActiveHasProvider, LoggedInActive, Inserting,
                  Taken, Live, Settled
  <1>8. QED
    BY <1>1, <1>2, <1>3, <1>4, <1>5, <1>6, <1>7 DEF Next, Proceed

-----------------------------------------------------------------------------
(* Theorems                                                                *)

LEMMA Inductive == Spec => []IInv
  BY InitInv, NextStep, PTL DEF Spec

\* However sign-ups, OAuth links, deletions and failures
\* interleave, an account waits for confirmation exactly while it has a token.
THEOREM PendingAccountsHaveTokens == Spec => []PendingHasToken
  <1>1. IInv => PendingHasToken
    BY DEF IInv
  <1>2. QED
    BY <1>1, Inductive, PTL

\* Of any number of OAuth sign-ins that found an account unconfirmed, at most
\* one activates it.
THEOREM ActivatedAtMostOnce == Spec => []ActivatedOnce
  <1>1. IInv => ActivatedOnce
    BY DEF IInv
  <1>2. QED
    BY <1>1, Inductive, PTL

\* However sign-ups, links, deletions and failures interleave, an account is
\* active exactly while a row of ProviderModel is its user's.
THEOREM ActiveByProvider == Spec => []ActiveHasProvider
  <1>1. IInv => ActiveHasProvider
    BY DEF IInv
  <1>2. QED
    BY <1>1, Inductive, PTL

\* Only accounts that were active are signed in to.
THEOREM SignedInActive == Spec => []LoggedInActive
  <1>1. IInv => LoggedInActive
    BY DEF IInv
  <1>2. QED
    BY <1>1, Inductive, PTL

\* Registration implements AccountLifecycle: one account per address, active
\* once and for good.
THEOREM KeepsPromise == Spec => Promise
  <1>1. Init => AccountInit
    BY DEF Init
  <1>2. QED
    BY <1>1, Inductive, NextStep, PTL DEF Spec, Promise, AccountSpec
-----------------------------------------------------------------------------
(* Types                                                                   *)

\* What a request carries into a table.
CarriedInv ==
  \A q \in Ids : /\ req[q].kind = "oauth" => req[q].identity \in Identities
                 /\ req[q].at = "linking" => req[q].kind = "oauth"

RowsOK ==
  /\ links \in SUBSET Links
  /\ providers \in SUBSET [user : Ids, identity : Identities]
  /\ blacklist \in SUBSET Entries
  /\ now \in Time

DatesOK == dates \in [Ids -> Dates] /\ attempts \in [Ids -> Dates]

TypeInv == CarriedInv /\ RowsOK /\ DatesOK

LEMMA NoDates == {} \in Dates
  BY FS_EmptySet, LimitAssumption DEF Dates

\* The attempts that still count are no more than there were.
LEMMA ActiveDatesType ==
  ASSUME attempts \in [Ids -> Dates], NEW u \in Ids
  PROVE  ActiveDates(u) \in Dates
  <1>1. ActiveDates(u) \subseteq attempts[u] /\ attempts[u] \in Dates
    BY DEF ActiveDates
  <1>2. /\ IsFiniteSet(ActiveDates(u))
        /\ Cardinality(ActiveDates(u)) <= Cardinality(attempts[u])
    BY <1>1, FS_Subset DEF Dates
  <1>3. Cardinality(ActiveDates(u)) \in Nat /\ Cardinality(attempts[u]) \in Nat
    BY <1>1, <1>2, FS_CardinalityType DEF Dates
  <1>4. QED
    BY <1>1, <1>2, <1>3, LimitAssumption DEF Dates

\* Below the limit there is room for one more.
LEMMA AttemptFits ==
  ASSUME NEW d \in Dates, Cardinality(d) < TokensLimit, NEW r \in Ids, now \in Time
  PROVE  d \union {Attempt(r)} \in Dates
  <1>1. IsFiniteSet(d) /\ Cardinality(d) \in Nat /\ d \in SUBSET Attempts
    BY FS_CardinalityType DEF Dates
  <1>2. /\ IsFiniteSet(d \union {Attempt(r)})
        /\ Cardinality(d \union {Attempt(r)}) \in {Cardinality(d), Cardinality(d) + 1}
    BY <1>1, FS_AddElement
  <1>3. Attempt(r) \in Attempts
    BY DEF Attempt, Attempts
  <1>4. QED
    BY <1>1, <1>2, <1>3, LimitAssumption DEF Dates

LEMMA InitTypes == Init => TypeInv
  <1> SUFFICES ASSUME Init PROVE TypeInv
    OBVIOUS
  <1>1. CarriedInv
    BY DEF Init, CarriedInv
  <1>2. RowsOK
    BY MaxTimeAssumption DEF Init, RowsOK, Time
  <1>3. QED
    BY <1>1, <1>2, NoDates DEF Init, DatesOK, TypeInv

\* The lists of attempts: no step makes one longer than the limit, since the
\* one that extends a list has found it shorter.
LEMMA DatesStep ==
  ASSUME IInv, RowsOK, DatesOK, [Next]_vars
  PROVE  DatesOK'
  <1>1. CASE UNCHANGED resends
    BY <1>1 DEF DatesOK, resends
  <1>2. ASSUME NEW r \in Ids, Insert(r) PROVE DatesOK'
    <2>1. {Attempt(r)} \in Dates
      <3>1. Cardinality({}) < TokensLimit
        BY FS_EmptySet, LimitAssumption
      <3>2. {} \union {Attempt(r)} \in Dates
        BY <3>1, NoDates, AttemptFits DEF RowsOK
      <3>3. QED
        BY <3>2
    <2>2. QED
      BY <1>2, <2>1 DEF Insert, DatesOK
  <1>3. ASSUME NEW r \in Ids, ReadAttempts(r) PROVE DatesOK'
    <2>1. req[r].target \in Ids
      BY <1>3 DEF ReadAttempts, IInv, RequestInv, Aimed
    <2>2. CASE LimitReached(req[r].target)
      BY <1>3, <2>2 DEF ReadAttempts, DatesOK
    <2>3. CASE ~ LimitReached(req[r].target)
      <3>1. ActiveDates(req[r].target) \in Dates
        BY <2>1, ActiveDatesType DEF DatesOK
      <3>2. Cardinality(ActiveDates(req[r].target)) \in Nat
        BY <3>1, FS_CardinalityType DEF Dates
      <3>3. Cardinality(ActiveDates(req[r].target)) < TokensLimit
        BY <2>3, <3>2, LimitAssumption DEF LimitReached
      <3>4. ActiveDates(req[r].target) \union {Attempt(r)} \in Dates
        BY <3>1, <3>3, AttemptFits DEF RowsOK
      <3>5. QED
        BY <1>3, <2>3, <3>4 DEF ReadAttempts, DatesOK
    <2>4. QED
      BY <2>2, <2>3
  <1>4. ASSUME NEW r \in Ids, CommitSignUp(r) \/ WriteAttempts(r) PROVE DatesOK'
    BY <1>4 DEF CommitSignUp, WriteAttempts, DatesOK
  <1>5. ASSUME NEW u, Activate(u) PROVE DatesOK'
    BY <1>5, NoDates DEF Activate, DatesOK
  <1>6. ASSUME NEW u \in Ids, Delete(u) PROVE DatesOK'
    BY <1>6, NoDates DEF Delete, DatesOK
  <1>7. ASSUME NEW r \in Ids, CommitLink(r) PROVE DatesOK'
    BY <1>1, <1>5, <1>7 DEF CommitLink, ActivateLinked
  <1>8. ASSUME NEW r \in Ids, Arrive(r) PROVE UNCHANGED resends
    BY <1>8 DEF Arrive, SignUp, SignInUnknown, SignInWrong, SignIn, Follow, OAuthNewcomer,
                OAuthKnown, OAuthLink, tableVars
  <1>9. ASSUME NEW r \in Ids, ~ Insert(r), ~ ReadAttempts(r), ~ CommitSignUp(r),
               ~ WriteAttempts(r), ~ CommitLink(r), Proceed(r) \/ Fail(r)
        PROVE  UNCHANGED resends
    BY <1>9 DEF Proceed, InsertFails, MailFirst, CommitOAuthUser, SendUnstored, Resend,
                LinkFails, Fail, Undone, tableVars
  <1>10. CASE ClearBlackList \/ Tick \/ UNCHANGED vars
    BY <1>1, <1>10 DEF ClearBlackList, Tick, vars, tableVars
  <1>11. QED
    BY <1>1, <1>2, <1>3, <1>4, <1>6, <1>7, <1>8, <1>9, <1>10 DEF Next

\* The rows: they are made of what a request carries.
LEMMA RowsStep ==
  ASSUME IInv, CarriedInv, RowsOK, [Next]_vars
  PROVE  RowsOK'
  <1>1. /\ req \in [Ids -> Requests]
        /\ \A q \in Ids : req[q].at \in Aimed => req[q].target \in Ids
    BY DEF IInv, Typed, RequestInv
  <1>2. CASE UNCHANGED <<links, providers, blacklist, now>>
    BY <1>2 DEF RowsOK
  <1>3. ASSUME NEW u \in Ids, NEW t \in Ids, SendLink(u, t),
               UNCHANGED <<providers, blacklist, now>>
        PROVE  RowsOK'
    BY <1>3 DEF SendLink, RowsOK, Links
  <1>4. ASSUME NEW r \in Ids, MailFirst(r) \/ SendUnstored(r) \/ Resend(r)
        PROVE  RowsOK'
    BY <1>1, <1>2, <1>3, <1>4 DEF MailFirst, SendUnstored, Resend, Aimed
  <1>5. ASSUME NEW r \in Ids, CommitOAuthUser(r) PROVE RowsOK'
    BY <1>5 DEF CommitOAuthUser, CarriedInv, RowsOK
  <1>6. ASSUME NEW r \in Ids, CommitLink(r) PROVE RowsOK'
    <2>1. req[r].target \in Ids /\ req[r].identity \in Identities /\ req[r].model \in Ids \union {NoId}
      BY <1>1, <1>6 DEF CommitLink, CarriedInv, Aimed, Requests
    <2>2. \A b \in blacklist' : b \in Entries
      BY <1>6, <2>1 DEF CommitLink, RowsOK, Entries
    <2>3. QED
      BY <1>6, <2>1, <2>2 DEF CommitLink, RowsOK
  <1>7. ASSUME NEW u \in Ids, Delete(u) PROVE RowsOK'
    BY <1>7 DEF Delete, RowsOK
  <1>8. CASE ClearBlackList
    BY <1>8 DEF ClearBlackList, RowsOK
  <1>9. CASE Tick
    BY <1>9, MaxTimeAssumption DEF Tick, RowsOK, Time, tableVars
  <1>10. ASSUME NEW r \in Ids, Arrive(r) PROVE UNCHANGED <<links, providers, blacklist, now>>
    BY <1>10 DEF Arrive, SignUp, SignInUnknown, SignInWrong, SignIn, Follow, OAuthNewcomer,
                 OAuthKnown, OAuthLink, tableVars
  <1>11. ASSUME NEW r \in Ids, \/ Insert(r) \/ InsertFails(r) \/ CommitSignUp(r) \/ ReadAttempts(r)
                               \/ WriteAttempts(r) \/ LinkFails(r)
                               \/ Fail(r)
         PROVE  UNCHANGED <<links, providers, blacklist, now>>
    BY <1>11 DEF Insert, InsertFails, CommitSignUp, ReadAttempts, WriteAttempts,
                 LinkFails, Fail, Undone, tableVars
  <1>12. CASE UNCHANGED vars
    BY <1>2, <1>12 DEF vars, tableVars
  <1>13. QED
    BY <1>2, <1>4, <1>5, <1>6, <1>7, <1>8, <1>9, <1>10, <1>11, <1>12 DEF Next, Proceed

\* What a request carries it has from its start on.
LEMMA CarriedStep ==
  ASSUME IInv, CarriedInv, RowsOK, [Next]_vars
  PROVE  CarriedInv'
  <1>1. req \in [Ids -> Requests] /\ \A l \in links : l.user \in Ids /\ l.token \in Ids
    BY DEF IInv, Typed
  <1>2. ASSUME NEW r \in Ids, NEW stage \in Stages, Goes(r, stage),
               stage # "linking"
        PROVE  CarriedInv'
    BY <1>1, <1>2, GoesLemma DEF CarriedInv
  <1>3. ASSUME NEW r \in Ids, NEW request, Starts(r, request),
               request.kind = "oauth" => request.identity \in Identities,
               request.at = "linking" => request.kind = "oauth"
        PROVE  CarriedInv'
    <2>1. req' = [req EXCEPT ![r] = request]
      BY <1>3 DEF Starts
    <2>2. req'[r] = request /\ \A q \in Ids : q # r => req'[q] = req[q]
      BY <1>1, <2>1
    <2>3. QED
      BY <1>3, <2>2 DEF CarriedInv
  <1>4. ASSUME NEW r \in Ids, Arrive(r) PROVE CarriedInv'
    <2>1. ASSUME NEW e \in Emails, SignUp(r, e) PROVE CarriedInv'
      BY <1>3, <2>1 DEF SignUp, Request
    <2>2. ASSUME NEW e \in Emails, SignInUnknown(r, e) \/ SignInWrong(r, e) \/ SignIn(r, e)
          PROVE  CarriedInv'
      BY <1>3, <2>2 DEF SignInUnknown, SignInWrong, SignIn, Verified, AfterPassword, Request
    <2>3. ASSUME NEW l \in links, Follow(r, l) PROVE CarriedInv'
      BY <1>1, <1>3, <2>3 DEF Follow, Request
    <2>4. ASSUME NEW i \in Identities, OAuthNewcomer(r, i) \/ OAuthKnown(r, i) \/ OAuthLink(r, i)
          PROVE  CarriedInv'
      BY <1>3, <2>4 DEF OAuthNewcomer, OAuthKnown, OAuthLink, Request
    <2>5. QED
      BY <1>4, <2>1, <2>2, <2>3, <2>4 DEF Arrive
  <1>5. ASSUME NEW r \in Ids, Proceed(r) \/ Fail(r) PROVE CarriedInv'
    <2>1. PICK stage \in Stages : Goes(r, stage) /\ stage # "linking"
      BY <1>5 DEF Proceed, Insert, InsertFails, MailFirst, CommitSignUp, CommitOAuthUser,
                  ReadAttempts, SendUnstored, WriteAttempts, Resend,
                  CommitLink, LinkFails, Fail, Stages, InFlight, Answered
    <2>2. QED
      BY <1>2, <2>1
  <1>6. CASE (\E u \in Ids : Delete(u)) \/ ClearBlackList \/ Tick \/ UNCHANGED vars
    BY <1>6 DEF Delete, ClearBlackList, Tick, vars, CarriedInv
  <1>7. QED
    BY <1>4, <1>5, <1>6 DEF Next

\* Every variable keeps its type; no list of attempts outgrows the limit.
THEOREM TypeCorrect == Spec => []TypeOK
  <1>1. IInv /\ TypeInv /\ [Next]_vars => TypeInv'
    BY DatesStep, RowsStep, CarriedStep DEF TypeInv
  <1>2. IInv /\ TypeInv => TypeOK
    BY DEF IInv, Typed, TypeInv, RowsOK, DatesOK, TypeOK
  <1>3. QED
    BY InitTypes, <1>1, <1>2, Inductive, PTL DEF Spec
-----------------------------------------------------------------------------
(* What the promise comes to                                               *)

LEMMA AccountsUnique == AccountSpec => [](AccountTypeOK /\ OneAccountPerAddress)
  <1>1. AccountInit => AccountTypeOK /\ OneAccountPerAddress
    BY DEF AccountInit, AccountTypeOK, AccountStates, OneAccountPerAddress, Live
  <1>2. AccountTypeOK /\ OneAccountPerAddress /\ [AccountNext]_accountVars
          => AccountTypeOK' /\ OneAccountPerAddress'
    BY DEF AccountTypeOK, AccountStates, OneAccountPerAddress, Live, Taken, AccountNext,
           Opened, Activated, Closed, accountVars
  <1>3. QED
    BY <1>1, <1>2, PTL DEF AccountSpec

\* Two requests that both found an address free, by whatever handler, do not
\* both get it.
THEOREM AddressesAreUnique == Spec => []OneAccountPerAddress
  BY KeepsPromise, AccountsUnique, PTL DEF Promise

\* No handler that acts on a user read earlier undoes what came between.
THEOREM NothingUndone == Spec => NoWayBack
  <1>1. AccountTypeOK /\ [AccountNext]_accountVars =>
          [\A u \in Ids : /\ account[u] = "active" => account'[u] \in {"active", "closed"}
                          /\ account[u] = "closed" => account'[u] = "closed"
                          /\ account[u] # "absent" => address'[u] = address[u]]_accountVars
    BY DEF AccountTypeOK, AccountStates, Live, AccountNext, Opened, Activated, Closed,
           accountVars
  <1>2. QED
    BY <1>1, KeepsPromise, AccountsUnique, PTL DEF Promise, AccountSpec, NoWayBack
=============================================================================
