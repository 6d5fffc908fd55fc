---------------------------- MODULE SessionProofs ----------------------------
(***************************************************************************)
(* Proofs about Session, for any number of requests and users, any token   *)
(* lifetime and a clean-up that starts at any moment.                      *)
(*                                                                         *)
(* IInv follows a request through the guard: what the guard has seen of    *)
(* its session is still true, or the session is void, when it acts.        *)
(***************************************************************************)
EXTENDS Session, TLAPS

\* The clock is a number.
Typed ==
  /\ SessionTypeOK
  /\ req \in [Ids -> Requests]
  /\ exp \in [Ids -> Int]
  /\ users \in SUBSET Users
  /\ status \in [Users -> {"online", "offline"}]
  /\ blacklist \in SUBSET Ids
  /\ jobs \in SUBSET Ids
  /\ now \in Int

Asking == {"verified", "found", "cleared"}

\* A session is there from the commit of its request on; until it is void
\* more than half a second of its token is left and its user is there.
OpenInv ==
  \A s \in Ids :
    /\ session[s] # "absent" <=> req[s].at = "loggedIn"
    /\ req[s].at \in {"checked", "signed", "queued", "loggedIn"} =>
         req[s].user \in Users /\ req[s].kind \in {"signIn", "oauth"}
    /\ session[s] \in {"open", "ended"} => Lasts(exp[s], now) /\ req[s].user \in users
    /\ req[s].at = "queued" => req[s].user \in users

\* A request behind the guard asks about a session of its user.
AskInv ==
  \A r \in Ids :
    /\ req[r].at = "idle" => ask[r].session = NoId
    /\ req[r].at \in Asking =>
         /\ ask[r].session \in Ids
         /\ ask[r].answer = "none"
         /\ req[ask[r].session].at = "loggedIn"
         /\ req[ask[r].session].user = req[r].user

\* A job is there before its session.
JobInv == \A r \in Ids : req[r].at \in {"queued", "loggedIn"} /\ req[r].kind = "signIn" => r \in jobs

\* What came too late is stopped by the blacklist.
LateInv ==
  \A r \in Ids : /\ ask[r].late /\ req[r].at \in {"verified", "found"} =>
                      session[ask[r].session] \in {"ended", "void"}
                 /\ req[r].at = "cleared" => MayGrant(r)

Base == Typed /\ OpenInv /\ AskInv /\ JobInv /\ OnlineHasSession
IInv == Base /\ EndedIsBlacklisted /\ LateInv

-----------------------------------------------------------------------------
(* Lemmas about the helpers                                                *)

\* Rounding takes an entry half a second early at most.
LEMMA OverdueEnds ==
  ASSUME now \in Int, exp \in [Ids -> Int], NEW s \in Ids, Overdue(s)
  PROVE  ~ Lasts(exp[s], now)
  BY DEF Overdue, Lasts, Round

LEMMA GoesLemma ==
  ASSUME req \in [Ids -> Requests], NEW r \in Ids, NEW stage \in Stages, Goes(r, stage)
  PROVE  /\ req' \in [Ids -> Requests]
         /\ \A q \in Ids : q # r => req'[q] = req[q]
         /\ req'[r].at = stage
         /\ req'[r].kind = req[r].kind
         /\ req'[r].user = req[r].user
  BY DEF Goes, Requests

LEMMA StartsLemma ==
  ASSUME req \in [Ids -> Requests], NEW r \in Ids, NEW kind \in Kinds, NEW stage \in Stages,
         NEW u \in Users \union {NoUser}, Starts(r, kind, stage, u)
  PROVE  /\ req' \in [Ids -> Requests]
         /\ \A q \in Ids : q # r => req'[q] = req[q]
         /\ req[r].at = "idle"
         /\ req'[r].at = stage
         /\ req'[r].kind = kind
         /\ req'[r].user = u
  BY DEF Starts, Requests

\* An answer changes the request it is for.
LEMMA RepliesLemma ==
  ASSUME SessionTypeOK, NEW r \in Ids, NEW answer \in Answers, Replies(r, answer)
  PROVE  /\ ask' \in [Ids -> Asks]
         /\ \A q \in Ids : q # r => ask'[q] = ask[q]
         /\ ask'[r].session = ask[r].session
         /\ ask'[r].late = ask[r].late
  BY DEF SessionTypeOK, Replies, Asks

LEMMA ComesLemma ==
  ASSUME SessionTypeOK, NEW r \in Ids, NEW s \in Ids, Comes(r, s)
  PROVE  /\ ask' \in [Ids -> Asks]
         /\ \A q \in Ids : q # r => ask'[q] = ask[q]
         /\ ask'[r].session = s
         /\ ask'[r].late = (session[s] = "ended")
         /\ ask'[r].answer = "none"
  <1>1. [session |-> s, late |-> session[s] = "ended", answer |-> "none"] \in Asks
    BY DEF Asks, Answers
  <1>2. QED
    BY <1>1 DEF SessionTypeOK, Comes

-----------------------------------------------------------------------------
(* Base is inductive                                                       *)

LEMMA InitBase == Init => Base
  <1> SUFFICES ASSUME Init PROVE Base
    OBVIOUS
  <1>1. Typed
    BY MaxTimeAssumption DEF Init, SessionInit, Typed, SessionTypeOK, SessionStates, Asks, Answers,
      Requests, Kinds, Stages
  <1>2. QED
    BY <1>1 DEF Init, SessionInit, Base, OpenInv, AskInv, JobInv, OnlineHasSession, SessionsOf, Asking

\* A step of one request that neither opens nor ends a session.
LEMMA QuietStep ==
  ASSUME Base, NEW r \in Ids,
         req' \in [Ids -> Requests],
         \A q \in Ids : q # r => req'[q] = req[q],
         exp' \in [Ids -> Int],
         \A q \in Ids : q # r => exp'[q] = exp[q],
         ask' \in [Ids -> Asks],
         \A q \in Ids : q # r => ask'[q] = ask[q],
         UNCHANGED <<session, users, status, blacklist, now>>,
         jobs \subseteq jobs', jobs' \subseteq Ids,
         req[r].at # "loggedIn",
         req'[r].at \notin {"loggedIn", "idle"},
         req'[r].at \in {"checked", "signed", "queued"} =>
           req'[r].user \in Users /\ req'[r].kind \in {"signIn", "oauth"},
         req'[r].at = "queued" => req'[r].user \in users /\ r \in jobs',
         req'[r].at \in Asking =>
           /\ ask'[r].session \in Ids
           /\ ask'[r].answer = "none"
           /\ req[ask'[r].session].at = "loggedIn"
           /\ req[ask'[r].session].user = req'[r].user
  PROVE  Base'
  <1>1. Typed'
    BY DEF Base, Typed, SessionTypeOK
  <1>2. session[r] = "absent"
    BY DEF Base, OpenInv
  <1>3. OpenInv'
    BY <1>2 DEF Base, OpenInv, Lasts
  <1>4. AskInv'
    BY DEF Base, AskInv
  <1>5. JobInv'
    BY DEF Base, JobInv
  <1>6. \A u \in Users : SessionsOf(u)' = SessionsOf(u)
    BY DEF SessionsOf
  <1>7. OnlineHasSession'
    BY <1>6 DEF Base, Typed, OnlineHasSession
  <1>8. QED
    BY <1>1, <1>3, <1>4, <1>5, <1>7 DEF Base

\* A session opens.
LEMMA OpeningStep ==
  ASSUME Base, NEW r \in Ids, NEW state \in {"open", "void"},
         Becomes(r, state), UNCHANGED ask, Goes(r, "loggedIn"),
         req[r].at # "loggedIn", req[r].user \in Users, req[r].kind \in {"signIn", "oauth"},
         req[r].kind = "signIn" => r \in jobs,
         exp' \in [Ids -> Int],
         \A q \in Ids : q # r => exp'[q] = exp[q],
         state = "open" => Lasts(exp[r], now)' /\ req[r].user \in users,
         status' \in [Users -> {"online", "offline"}],
         \A u \in Users : u # req[r].user => status'[u] = status[u],
         UNCHANGED <<users, blacklist, jobs, now>>
  PROVE  Base'
  <1>1. /\ req' \in [Ids -> Requests]
        /\ \A q \in Ids : q # r => req'[q] = req[q]
        /\ req'[r].at = "loggedIn"
        /\ req'[r].kind = req[r].kind
        /\ req'[r].user = req[r].user
    BY GoesLemma DEF Base, Typed, Stages
  <1>2. /\ session' \in [Ids -> SessionStates]
        /\ session[r] = "absent"
        /\ session'[r] = state
        /\ \A q \in Ids : q # r => session'[q] = session[q]
        /\ ask' = ask
    BY DEF Base, Typed, SessionTypeOK, OpenInv, Becomes, SessionStates
  <1>3. Typed'
    BY <1>1, <1>2 DEF Base, Typed, SessionTypeOK
  <1>4. OpenInv'
    BY <1>1, <1>2 DEF Base, OpenInv, Lasts
  <1>5. AskInv'
    BY <1>1, <1>2 DEF Base, AskInv, Asking
  <1>6. JobInv'
    BY <1>1 DEF Base, JobInv
  <1>7. \A u \in Users : u # req[r].user => SessionsOf(u)' = SessionsOf(u)
    BY <1>1, <1>2 DEF SessionsOf, Base, OpenInv
  <1>8. \A u \in Users : r \notin SessionsOf(u)
    BY <1>2 DEF SessionsOf, Base, OpenInv
  <1>9. OnlineHasSession'
    <2> SUFFICES ASSUME NEW u \in users, status'[u] = "online", SessionsOf(u)' # {}
                 PROVE  \E s \in SessionsOf(u)' : session'[s] # "ended"
      BY DEF OnlineHasSession
    <2>1. CASE u = req[r].user
      BY <2>1, <1>1, <1>2 DEF SessionsOf
    <2>2. CASE u # req[r].user
      <3>1. u \in Users /\ SessionsOf(u)' = SessionsOf(u) /\ status[u] = "online"
        BY <2>2, <1>7 DEF Base, Typed
      <3>2. PICK s \in SessionsOf(u) : session[s] # "ended"
        BY <3>1 DEF Base, OnlineHasSession
      <3>3. s \in Ids /\ s # r
        BY <1>8, <3>1, <3>2 DEF SessionsOf
      <3>4. QED
        BY <1>2, <3>1, <3>2, <3>3
    <2>3. QED
      BY <2>1, <2>2
  <1>10. QED
    BY <1>3, <1>4, <1>5, <1>6, <1>9 DEF Base

\* Sessions become void, of users that go or of tokens that expire.
LEMMA VoidingStep ==
  ASSUME Base, NEW S \in SUBSET Ids, Voided(S),
         users' \subseteq users,
         blacklist' \subseteq blacklist,
         now' \in Int,
         \A s \in Ids : s \notin S /\ Lasts(exp[s], now) => Lasts(exp[s], now)',
         \A s \in Ids : s \notin S /\ req[s].at = "loggedIn" /\ req[s].user \in users =>
           req[s].user \in users',
         \A s \in Ids : req[s].at = "queued" /\ req[s].user \in users => req[s].user \in users',
         UNCHANGED <<req, exp, status, jobs>>
  PROVE  Base'
  <1>1. /\ session' \in [Ids -> SessionStates]
        /\ \A s \in Ids : session'[s] = IF s \in S /\ session[s] # "absent"
                                      THEN "void" ELSE session[s]
        /\ ask' = ask
    BY DEF Base, Typed, SessionTypeOK, Voided, SessionStates
  <1>2. Typed'
    BY <1>1 DEF Base, Typed, SessionTypeOK
  <1>3. OpenInv'
    BY <1>1 DEF Base, OpenInv
  <1>4. AskInv' /\ JobInv'
    BY <1>1 DEF Base, AskInv, JobInv
  <1>5. \A u : SessionsOf(u)' = SessionsOf(u)
    BY DEF SessionsOf
  <1>6. OnlineHasSession'
    BY <1>1, <1>5 DEF Base, OnlineHasSession, SessionsOf
  <1>7. QED
    BY <1>2, <1>3, <1>4, <1>6 DEF Base

LEMMA LogoutBase ==
  ASSUME Base, NEW r \in Ids, Logout(r)
  PROVE  Base'
  <1> DEFINE s == ask[r].session
  <1>1. /\ req' \in [Ids -> Requests]
        /\ \A q \in Ids : q # r => req'[q] = req[q]
        /\ req'[r].at = "done"
        /\ req'[r].user = req[r].user
    BY GoesLemma DEF Logout, ToBlackList, Base, Typed, Stages
  <1>2. /\ ask' \in [Ids -> Asks]
        /\ \A q \in Ids : q # r => ask'[q] = ask[q]
    BY RepliesLemma DEF Logout, ToBlackList, Base, Typed, Answers
  <1>3. s \in Ids /\ req[s].at = "loggedIn" /\ req[s].user = req[r].user /\ s # r
    BY DEF Logout, ToBlackList, Base, AskInv, Asking
  <1>4. /\ session' \in [Ids -> SessionStates]
        /\ \A q \in Ids : q # s => session'[q] = session[q]
        /\ session'[s] = IF session[s] = "void" THEN "void" ELSE "ended"
    BY <1>3 DEF Logout, ToBlackList, Ends, Becomes, Base, Typed, SessionTypeOK, SessionStates
  <1>5. req[r].user \in users /\ users \subseteq Users
    BY DEF Logout, ToBlackList, Base, Typed
  <1>6. Typed'
    BY <1>1, <1>2, <1>3, <1>4, <1>5 DEF Logout, ToBlackList, StatusAfterLogout, Base, Typed, SessionTypeOK
  <1>7. session[r] = "absent" /\ session[s] # "absent"
    BY <1>3 DEF Logout, ToBlackList, Base, OpenInv
  <1>8. OpenInv'
    <2>1. OpenInv /\ exp' = exp /\ users' = users /\ now' = now
      BY DEF Logout, ToBlackList, Base
    <2>2. \A q \in Ids : Lasts(exp[q], now)' <=> Lasts(exp[q], now)
      BY <2>1 DEF Lasts
    <2>3. session'[s] \in {"open", "ended"} => session[s] \in {"open", "ended"}
      BY <1>4, <1>7 DEF Base, Typed, SessionTypeOK, SessionStates
    <2>4. \A q \in Ids : session'[q] # "absent" <=> req'[q].at = "loggedIn"
      BY <1>1, <1>3, <1>4, <1>7, <2>1 DEF OpenInv
    <2>5. QED
      BY <1>1, <1>3, <1>4, <2>1, <2>2, <2>3, <2>4 DEF OpenInv
  <1>9. AskInv'
    BY <1>1, <1>2, <1>3 DEF Logout, ToBlackList, Base, AskInv, Asking
  <1>10. JobInv'
    BY <1>1 DEF Logout, ToBlackList, Base, JobInv
  <1>11. \A u : SessionsOf(u)' = SessionsOf(u)
    BY <1>1 DEF Logout, ToBlackList, SessionsOf
  <1>12. \A u \in Users : IF u = req[r].user THEN status'[u] = "offline" ELSE status'[u] = status[u]
    BY <1>5 DEF Logout, ToBlackList, StatusAfterLogout, Base, Typed
  <1>13. OnlineHasSession'
    <2> SUFFICES ASSUME NEW u \in users, status'[u] = "online", SessionsOf(u) # {}
                 PROVE  \E q \in SessionsOf(u) : session'[q] # "ended"
      BY <1>11 DEF OnlineHasSession, Logout
    <2>1. u # req[r].user /\ status[u] = "online"
      BY <1>5, <1>12
    <2>2. PICK q \in SessionsOf(u) : session[q] # "ended"
      BY <2>1 DEF Base, OnlineHasSession
    <2>3. q \in Ids /\ q # s
      BY <1>3, <2>1, <2>2 DEF SessionsOf
    <2>4. QED
      BY <1>4, <2>2, <2>3
  <1>14. QED
    BY <1>6, <1>8, <1>9, <1>10, <1>13 DEF Base

LEMMA StepBase ==
  ASSUME Base, NEW r \in Ids, Step(r)
  PROVE  Base'
  <1> USE DEF Asking
  <1>0. /\ SessionTypeOK /\ req \in [Ids -> Requests] /\ users \subseteq Users
        /\ exp \in [Ids -> Int] /\ now \in Int /\ jobs \subseteq Ids
    BY DEF Base, Typed
  <1>1. ASSUME NEW u \in Users, NEW kind \in {"signIn", "oauth"}, Arrive(r, u, kind)
        PROVE  Base'
    <2>1. Starts(r, kind, "checked", u)
      BY <1>1 DEF Arrive
    <2>2. /\ req' \in [Ids -> Requests]
          /\ \A q \in Ids : q # r => req'[q] = req[q]
          /\ req[r].at = "idle"
          /\ req'[r].at = "checked"
          /\ req'[r].kind = kind
          /\ req'[r].user = u
      BY <1>0, <2>1 DEF Starts, Requests, Stages, InFlight, Kinds
    <2>3. QED
      BY <1>0, <1>1, <2>2, QuietStep DEF Arrive, sessionVars, tableVars, SessionTypeOK
  <1>2. CASE Sign(r)
    <2>1. /\ exp' \in [Ids -> Int]
          /\ exp'[r] = Second(now) + Lifetime
          /\ \A q \in Ids : q # r => exp'[q] = exp[q]
      BY <1>0, <1>2, LifetimeAssumption DEF Sign, Second
    <2>2. req[r].user \in Users /\ req[r].kind \in {"signIn", "oauth"}
      BY <1>2 DEF Sign, Base, OpenInv
    <2>3. CASE req[r].kind = "signIn"
      <3>1. Goes(r, "signed") /\ UNCHANGED sessionVars
        BY <1>2, <2>3 DEF Sign
      <3>2. /\ req' \in [Ids -> Requests]
            /\ \A q \in Ids : q # r => req'[q] = req[q]
            /\ req'[r].at = "signed"
            /\ req'[r].kind = req[r].kind
            /\ req'[r].user = req[r].user
        BY <1>0, <3>1, GoesLemma DEF Stages, InFlight
      <3>3. QED
        BY <1>0, <1>2, <2>1, <2>2, <3>1, <3>2, QuietStep
        DEF Sign, sessionVars, tableVars, SessionTypeOK
    <2>4. CASE req[r].kind # "signIn"
      <3> DEFINE state == IF req[r].user \in users /\ Lasts(exp'[r], now) THEN "open" ELSE "void"
      <3>1. Goes(r, "loggedIn") /\ Becomes(r, state) /\ UNCHANGED ask
        BY <1>2, <2>4 DEF Sign
      <3>2. state = "open" => Lasts(exp[r], now)' /\ req[r].user \in users
        BY <1>0, <1>2, <2>1, LifetimeAssumption DEF Sign, Lasts
      <3>3. QED
        BY <1>0, <1>2, <2>1, <2>2, <2>4, <3>1, <3>2, OpeningStep DEF Sign, tableVars, Base, Typed
    <2>5. QED
      BY <2>3, <2>4
  <1>3. CASE UpdateStatus(r)
    <2>1. /\ req' \in [Ids -> Requests]
          /\ \A q \in Ids : q # r => req'[q] = req[q]
          /\ req'[r].at = "queued"
          /\ req'[r].kind = req[r].kind
          /\ req'[r].user = req[r].user
      BY <1>0, <1>3, GoesLemma DEF UpdateStatus, Stages, InFlight
    <2>2. req[r].user \in users /\ req[r].kind \in {"signIn", "oauth"}
      BY <1>3 DEF UpdateStatus, Base, OpenInv
    <2>3. jobs' = jobs \union {r}
      BY <1>3 DEF UpdateStatus, AddLoginToQueue
    <2>4. QED
      BY <1>0, <1>3, <2>1, <2>2, <2>3, QuietStep DEF UpdateStatus, sessionVars, SessionTypeOK
  <1>4. CASE CommitLogin(r)
    <2> DEFINE state == IF Lasts(exp[r], now) THEN "open" ELSE "void"
    <2>1. req[r].user \in users /\ req[r].kind \in {"signIn", "oauth"} /\ r \in Ids
      BY <1>4 DEF CommitLogin, Base, OpenInv
    <2>2. req[r].kind = "signIn" => r \in jobs
      BY <1>4 DEF CommitLogin, Base, JobInv
    <2>3. state = "open" => Lasts(exp[r], now)'
      BY <1>4 DEF CommitLogin, Lasts
    <2>4. /\ status' \in [Users -> {"online", "offline"}]
          /\ \A u \in Users : u # req[r].user => status'[u] = status[u]
      BY <1>4 DEF CommitLogin, Base, Typed
    <2>5. QED
      BY <1>0, <1>4, <2>1, <2>2, <2>3, <2>4, OpeningStep DEF CommitLogin
  <1>5. ASSUME NEW s \in Ids, NEW kind \in {"refresh", "logout"}, Verify(r, s, kind)
        PROVE  Base'
    <2>1. /\ ask' \in [Ids -> Asks]
          /\ \A q \in Ids : q # r => ask'[q] = ask[q]
          /\ ask'[r].session = s
          /\ ask'[r].answer = "none"
      BY <1>0, <1>5, ComesLemma DEF Verify
    <2>2. req[s].at = "loggedIn" /\ req[s].user \in Users
      BY <1>5 DEF Verify, Base, OpenInv
    <2>3. Starts(r, kind, "verified", req[s].user)
      BY <1>5 DEF Verify
    <2>4. /\ req' \in [Ids -> Requests]
          /\ \A q \in Ids : q # r => req'[q] = req[q]
          /\ req[r].at = "idle"
          /\ req'[r].at = "verified"
          /\ req'[r].user = req[s].user
      BY <1>0, <2>2, <2>3 DEF Starts, Requests, Stages, InFlight, Kinds
    <2>5. QED
      BY <1>0, <1>5, <2>1, <2>2, <2>4, QuietStep DEF Verify, tableVars, SessionTypeOK
  <1>6. ASSUME NEW stage \in {"found", "cleared"}, Goes(r, stage), UNCHANGED sessionVars,
               req[r].at \in Asking, UNCHANGED <<exp, tableVars, now>>
        PROVE  Base'
    <2>1. /\ req' \in [Ids -> Requests]
          /\ \A q \in Ids : q # r => req'[q] = req[q]
          /\ req'[r].at = stage
          /\ req'[r].user = req[r].user
      BY <1>0, <1>6, GoesLemma DEF Stages, InFlight
    <2>2. /\ ask[r].session \in Ids
          /\ ask[r].answer = "none"
          /\ req[ask[r].session].at = "loggedIn"
          /\ req[ask[r].session].user = req[r].user
      BY <1>6 DEF Base, AskInv
    <2>3. QED
      BY <1>0, <1>6, <2>1, <2>2, QuietStep DEF sessionVars, tableVars, SessionTypeOK
  <1>7. ASSUME NEW stage \in {"done", "refused", "invalid", "failed"}, Goes(r, stage),
               ask' = ask \/ \E answer \in Answers : Replies(r, answer),
               session' = session, req[r].at \in InFlight, UNCHANGED <<exp, tableVars, now>>
        PROVE  Base'
    <2>1. /\ req' \in [Ids -> Requests]
          /\ \A q \in Ids : q # r => req'[q] = req[q]
          /\ req'[r].at = stage
          /\ req'[r].user = req[r].user
      BY <1>0, <1>7, GoesLemma DEF Stages, InFlight
    <2>2. /\ ask' \in [Ids -> Asks]
          /\ \A q \in Ids : q # r => ask'[q] = ask[q]
      BY <1>0, <1>7, RepliesLemma DEF SessionTypeOK
    <2>3. QED
      BY <1>0, <1>7, <2>1, <2>2, QuietStep DEF tableVars, InFlight
  <1>8. CASE FindUser(r)
    BY <1>6, <1>7, <1>8 DEF FindUser, InFlight, Answers, sessionVars
  <1>9. CASE FindInBlackList(r)
    BY <1>6, <1>7, <1>9 DEF FindInBlackList, InFlight, Answers, sessionVars
  <1>10. CASE Refresh(r)
    BY <1>7, <1>10 DEF Refresh, InFlight, Answers
  <1>11. CASE Logout(r)
    BY <1>11, LogoutBase
  <1>12. CASE LogoutFails(r)
    BY <1>7, <1>12 DEF LogoutFails, InFlight, Answers
  <1>13. CASE Fail(r)
    BY <1>7, <1>13 DEF Fail, Answers, sessionVars
  <1>14. QED
    BY <1>1, <1>2, <1>3, <1>4, <1>5, <1>8, <1>9, <1>10, <1>11, <1>12, <1>13 DEF Step

\* UserService.delete and the clock make sessions void, clearBlackList
\* leaves them alone.
LEMMA NextBase == Base /\ [Next]_vars => Base'
  <1> SUFFICES ASSUME Base, [Next]_vars PROVE Base'
    OBVIOUS
  <1>0. /\ SessionTypeOK /\ req \in [Ids -> Requests] /\ users \subseteq Users
        /\ exp \in [Ids -> Int] /\ now \in Int
    BY DEF Base, Typed
  <1>1. ASSUME NEW r \in Ids, Step(r) PROVE Base'
    BY <1>1, StepBase
  <1>2. ASSUME NEW u \in Users, Delete(u) PROVE Base'
    <2>1. \A s \in Ids : Lasts(exp[s], now)' <=> Lasts(exp[s], now)
      BY <1>2 DEF Delete, Lasts
    <2>2. \A s \in Ids : req[s].at = "queued" => req[s].user # u
      BY <1>2 DEF Delete, Locked
    <2>3. QED
      BY <1>0, <1>2, <2>1, <2>2, VoidingStep DEF Delete, SessionsOf
  <1>3. CASE ClearBlackList
    <2>1. UNCHANGED <<session, ask, req, exp, users, status, jobs, now>> /\ blacklist' \subseteq blacklist
      BY <1>3 DEF ClearBlackList, sessionVars
    <2>2. QED
      BY <2>1 DEF Base, Typed, SessionTypeOK, OpenInv, Lasts, AskInv, JobInv, OnlineHasSession, SessionsOf
  <1>4. CASE Tick
    <2> DEFINE S == {s \in Ids : ~ Lasts(exp[s], now + 1)}
    <2>1. Voided(S) /\ now' = now + 1 /\ UNCHANGED <<req, exp, users, status, blacklist, jobs>>
      BY <1>4 DEF Tick, tableVars
    <2>2. \A s \in Ids : s \notin S => Lasts(exp[s], now)'
      BY <2>1 DEF Lasts
    <2>3. QED
      BY <1>0, <2>1, <2>2, VoidingStep
  <1>5. CASE UNCHANGED vars
    BY <1>5 DEF vars, sessionVars, tableVars, Base, Typed, SessionTypeOK, OpenInv, Lasts, AskInv, JobInv,
      OnlineHasSession, SessionsOf
  <1>6. QED
    BY <1>1, <1>2, <1>3, <1>4, <1>5 DEF Next

-----------------------------------------------------------------------------
(* The guard lets nothing pass that came too late                          *)

\* Of the other requests nothing changes but that more sessions are over.
LEMMA LateStep ==
  ASSUME Base, LateInv, NEW r \in Ids,
         \A q \in Ids : q # r => req'[q] = req[q] /\ ask'[q] = ask[q],
         \A s \in Ids : /\ session[s] \in {"ended", "void"} => session'[s] \in {"ended", "void"}
                        /\ session[s] = "void" => session'[s] = "void",
         ask'[r].late /\ req'[r].at \in {"verified", "found"} =>
           session'[ask'[r].session] \in {"ended", "void"},
         req'[r].at = "cleared" => MayGrant(r)'
  PROVE  LateInv'
  <1>1. \A q \in Ids : req[q].at \in Asking => ask[q].session \in Ids
    BY DEF Base, AskInv
  <1>2. QED
    BY <1>1 DEF LateInv, MayGrant, Asking

LEMMA StepLate ==
  ASSUME IInv, NEW r \in Ids, Step(r)
  PROVE  EndedIsBlacklisted' /\ LateInv'
  <1> USE DEF Asking
  <1>0. /\ SessionTypeOK /\ req \in [Ids -> Requests] /\ users \subseteq Users
        /\ Base /\ LateInv /\ EndedIsBlacklisted
    BY DEF IInv, Base, Typed
  <1>1. ASSUME UNCHANGED <<session, blacklist>>,
               \A q \in Ids : q # r => req'[q] = req[q] /\ ask'[q] = ask[q],
               ask'[r].late /\ req'[r].at \in {"verified", "found"} =>
                 session[ask'[r].session] \in {"ended", "void"},
               req'[r].at = "cleared" => MayGrant(r)'
        PROVE  EndedIsBlacklisted' /\ LateInv'
    <2>1. EndedIsBlacklisted'
      BY <1>0, <1>1 DEF EndedIsBlacklisted
    <2>2. LateInv'
      BY <1>0, <1>1, LateStep
    <2>3. QED
      BY <2>1, <2>2
  \* A request that goes on to a stage that is not behind the guard.
  <1>2. ASSUME NEW stage \in Stages \ Asking, Goes(r, stage),
               ask' = ask \/ \E answer \in Answers : Replies(r, answer),
               UNCHANGED <<session, blacklist>>
        PROVE  EndedIsBlacklisted' /\ LateInv'
    <2>1. /\ \A q \in Ids : q # r => req'[q] = req[q]
          /\ req'[r].at = stage
      BY <1>0, <1>2, GoesLemma
    <2>2. \A q \in Ids : q # r => ask'[q] = ask[q]
      BY <1>0, <1>2, RepliesLemma
    <2>3. QED
      BY <1>1, <1>2, <2>1, <2>2
  \* A request that opens a session.
  <1>3. ASSUME NEW state \in {"open", "void"}, Becomes(r, state), Goes(r, "loggedIn"),
               UNCHANGED <<ask, blacklist>>,
               session[r] = "absent"
        PROVE  EndedIsBlacklisted' /\ LateInv'
    <2>1. /\ \A q \in Ids : q # r => req'[q] = req[q]
          /\ req'[r].at = "loggedIn"
      BY <1>0, <1>3, GoesLemma DEF Stages
    <2>2. /\ session[r] = "absent" /\ session'[r] = state
          /\ \A q \in Ids : q # r => session'[q] = session[q]
          /\ ask' = ask
      BY <1>0, <1>3 DEF Becomes, SessionTypeOK
    <2>3. EndedIsBlacklisted'
      BY <1>0, <1>3, <2>2 DEF EndedIsBlacklisted
    <2>4. LateInv'
      BY <1>0, <2>1, <2>2, LateStep
    <2>5. QED
      BY <2>3, <2>4
  <1>4. ASSUME NEW u \in Users, NEW kind \in {"signIn", "oauth"}, Arrive(r, u, kind)
        PROVE  EndedIsBlacklisted' /\ LateInv'
    <2>1. /\ \A q \in Ids : q # r => req'[q] = req[q]
          /\ req'[r].at = "checked"
      BY <1>0, <1>4 DEF Arrive, Starts, Requests
    <2>2. QED
      BY <1>1, <1>4, <2>1 DEF Arrive, sessionVars, tableVars
  <1>5. CASE Sign(r)
    <2>1. CASE req[r].kind = "signIn"
      BY <1>2, <1>5, <2>1 DEF Sign, sessionVars, tableVars, Stages, InFlight
    <2>2. CASE req[r].kind # "signIn"
      <3> DEFINE state == IF req[r].user \in users /\ Lasts(exp'[r], now) THEN "open" ELSE "void"
      <3>1. Goes(r, "loggedIn") /\ Becomes(r, state) /\ UNCHANGED <<ask, blacklist>>
        BY <1>5, <2>2 DEF Sign, tableVars
      <3>2. session[r] = "absent"
        BY <1>0, <1>5 DEF Sign, Base, OpenInv
      <3>3. QED
        BY <1>3, <3>1, <3>2
    <2>3. QED
      BY <2>1, <2>2
  <1>6. CASE UpdateStatus(r)
    BY <1>2, <1>6 DEF UpdateStatus, sessionVars, Stages, InFlight
  <1>7. CASE CommitLogin(r)
    <2> DEFINE state == IF Lasts(exp[r], now) THEN "open" ELSE "void"
    <2>1. Goes(r, "loggedIn") /\ Becomes(r, state) /\ UNCHANGED <<ask, blacklist>>
      BY <1>7 DEF CommitLogin
    <2>2. session[r] = "absent"
      BY <1>0, <1>7 DEF CommitLogin, Base, OpenInv
    <2>3. QED
      BY <1>3, <2>1, <2>2
  <1>8. ASSUME NEW s \in Ids, NEW kind \in {"refresh", "logout"}, Verify(r, s, kind)
        PROVE  EndedIsBlacklisted' /\ LateInv'
    <2>1. /\ \A q \in Ids : q # r => ask'[q] = ask[q]
          /\ ask'[r].session = s
          /\ ask'[r].late = (session[s] = "ended")
      BY <1>0, <1>8, ComesLemma DEF Verify
    <2>2. /\ \A q \in Ids : q # r => req'[q] = req[q]
          /\ req'[r].at = "verified"
      BY <1>0, <1>8 DEF Verify, Starts, Requests
    <2>3. QED
      BY <1>1, <1>8, <2>1, <2>2 DEF Verify, tableVars, SessionTypeOK
  <1>9. ASSUME req[r].at = "verified", Goes(r, "found"), UNCHANGED <<session, ask, blacklist>>
        PROVE  EndedIsBlacklisted' /\ LateInv'
    <2>1. /\ \A q \in Ids : q # r => req'[q] = req[q]
          /\ req'[r].at = "found"
      BY <1>0, <1>9, GoesLemma DEF Stages, InFlight
    <2>2. ask[r].late => session[ask[r].session] \in {"ended", "void"}
      BY <1>0, <1>9 DEF LateInv
    <2>3. QED
      BY <1>1, <1>9, <2>1, <2>2
  <1>10. CASE FindUser(r)
    BY <1>2, <1>9, <1>10 DEF FindUser, Stages, InFlight, Answers, sessionVars, tableVars
  <1>11. ASSUME req[r].at = "found", ~ InBlackList(ask[r].session), Goes(r, "cleared"),
                UNCHANGED <<session, ask, blacklist>>
         PROVE  EndedIsBlacklisted' /\ LateInv'
    <2>1. /\ \A q \in Ids : q # r => req'[q] = req[q]
          /\ req'[r].at = "cleared"
      BY <1>0, <1>11, GoesLemma DEF Stages, InFlight
    <2>2. ask[r].session \in Ids
      BY <1>0, <1>11 DEF Base, AskInv
    <2>3. ask[r].late => session[ask[r].session] = "void"
      BY <1>0, <1>11, <2>2 DEF LateInv, EndedIsBlacklisted, InBlackList
    <2>4. QED
      BY <1>1, <1>11, <2>1, <2>3 DEF MayGrant
  <1>12. CASE FindInBlackList(r)
    BY <1>2, <1>11, <1>12 DEF FindInBlackList, Stages, InFlight, Answers, sessionVars, tableVars
  <1>13. CASE Refresh(r)
    BY <1>2, <1>13 DEF Refresh, Stages, Answers, tableVars
  <1>14. CASE Logout(r)
    <2> DEFINE s == ask[r].session
    <2>1. /\ \A q \in Ids : q # r => req'[q] = req[q]
          /\ req'[r].at = "done"
      BY <1>0, <1>14, GoesLemma DEF Logout, ToBlackList, Stages
    <2>2. \A q \in Ids : q # r => ask'[q] = ask[q]
      BY <1>0, <1>14, RepliesLemma DEF Logout, ToBlackList, Answers
    <2>3. s \in Ids
      BY <1>0, <1>14 DEF Logout, ToBlackList, Base, AskInv
    <2>4. /\ \A q \in Ids : q # s => session'[q] = session[q]
          /\ session'[s] = IF session[s] = "void" THEN "void" ELSE "ended"
          /\ blacklist' = blacklist \union {s}
      BY <1>0, <1>14, <2>3 DEF Logout, ToBlackList, Ends, Becomes, SessionTypeOK
    <2>5. EndedIsBlacklisted'
      BY <1>0, <2>4 DEF EndedIsBlacklisted
    <2>6. LateInv'
      BY <1>0, <2>1, <2>2, <2>3, <2>4, LateStep
    <2>7. QED
      BY <2>5, <2>6
  <1>15. CASE LogoutFails(r)
    BY <1>2, <1>15 DEF LogoutFails, Stages, Answers, tableVars
  <1>16. CASE Fail(r)
    BY <1>2, <1>16 DEF Fail, Stages, Answers, sessionVars, tableVars
  <1>17. QED
    BY <1>4, <1>5, <1>6, <1>7, <1>8, <1>10, <1>12, <1>13, <1>14, <1>15, <1>16 DEF Step

\* Of the entries, clearBlackList takes those of tokens that last no longer,
\* whose sessions are void.
LEMMA NextLate ==
  ASSUME IInv, [Next]_vars
  PROVE  EndedIsBlacklisted' /\ LateInv'
  <1>0. /\ SessionTypeOK /\ exp \in [Ids -> Int] /\ now \in Int
        /\ Base /\ OpenInv /\ AskInv /\ LateInv /\ EndedIsBlacklisted
    BY DEF IInv, Base, Typed
  <1>1. ASSUME NEW r \in Ids, Step(r) PROVE EndedIsBlacklisted' /\ LateInv'
    BY <1>1, StepLate
  <1>2. ASSUME NEW S \in SUBSET Ids, Voided(S), UNCHANGED req
        PROVE  LateInv'
    <2>1. \A s \in Ids : session'[s] = IF s \in S /\ session[s] # "absent"
                                      THEN "void" ELSE session[s]
      BY <1>2 DEF Voided
    <2>2. \A q \in Ids : req[q].at \in Asking => ask[q].session \in Ids
      BY <1>0 DEF AskInv
    <2>3. QED
      BY <1>0, <1>2, <2>1, <2>2 DEF LateInv, MayGrant, Asking, Voided
  <1>3. ASSUME NEW u \in Users, Delete(u) PROVE EndedIsBlacklisted' /\ LateInv'
    <2>1. SessionsOf(u) \in SUBSET Ids /\ Voided(SessionsOf(u)) /\ UNCHANGED req
      BY <1>3 DEF Delete, SessionsOf
    <2>2. EndedIsBlacklisted'
      BY <1>0, <1>3 DEF Delete, EndedIsBlacklisted, Voided, SessionsOf, OpenInv
    <2>3. QED
      BY <1>2, <2>1, <2>2
  <1>4. CASE ClearBlackList
    <2>1. UNCHANGED <<session, ask, req>>
      BY <1>4 DEF ClearBlackList, sessionVars
    <2>2. \A s \in Ids : session[s] = "ended" => ~ Overdue(s)
      BY <1>0, <2>1, OverdueEnds DEF OpenInv
    <2>3. EndedIsBlacklisted'
      BY <1>0, <1>4, <2>1, <2>2 DEF ClearBlackList, EndedIsBlacklisted
    <2>4. LateInv'
      BY <1>0, <2>1 DEF LateInv, MayGrant
    <2>5. QED
      BY <2>3, <2>4
  <1>5. CASE Tick
    <2> DEFINE S == {s \in Ids : ~ Lasts(exp[s], now + 1)}
    <2>1. S \in SUBSET Ids /\ Voided(S) /\ UNCHANGED <<req, blacklist>>
      BY <1>5 DEF Tick, tableVars
    <2>2. EndedIsBlacklisted'
      BY <1>0, <2>1 DEF EndedIsBlacklisted, Voided
    <2>3. QED
      BY <1>2, <2>1, <2>2
  <1>6. CASE UNCHANGED vars
    BY <1>0, <1>6 DEF vars, sessionVars, tableVars, EndedIsBlacklisted, LateInv, MayGrant
  <1>7. QED
    BY <1>1, <1>3, <1>4, <1>5, <1>6 DEF Next

-----------------------------------------------------------------------------
(* The theorems                                                            *)

LEMMA BaseAlways == Spec => []Base
  BY InitBase, NextBase, PTL DEF Spec

\* OnlineHasSession: a user who has logged out of everything is offline.
THEOREM OnlineUsersHaveSessions == Spec => []OnlineHasSession
  BY BaseAlways, PTL DEF Base

\* LoginIsReported: no session of a sign-in is without its job.
THEOREM SignInsAreReported == Spec => []LoginIsReported
  <1>1. Base => LoginIsReported
    BY DEF Base, OpenInv, JobInv, LoginIsReported
  <1>2. QED
    BY <1>1, BaseAlways, PTL

LEMMA InvAlways == Spec => []IInv
  <1>1. Init => IInv
    <2> SUFFICES ASSUME Init PROVE IInv
      OBVIOUS
    <2>1. EndedIsBlacklisted /\ LateInv
      BY DEF Init, SessionInit, EndedIsBlacklisted, LateInv, MayGrant
    <2>2. QED
      BY <2>1, InitBase DEF IInv
  <1>2. IInv /\ [Next]_vars => IInv'
    BY NextBase, NextLate DEF IInv
  <1>3. QED
    BY <1>1, <1>2, PTL DEF Spec

\* EndedIsBlacklisted: whenever the clean-up starts, an ended session stays on
\* the blacklist until half a second before its token expires.
THEOREM EndedStaysBlacklisted == Spec => []EndedIsBlacklisted
  <1>1. IInv => EndedIsBlacklisted
    BY DEF IInv
  <1>2. QED
    BY <1>1, InvAlways, PTL

\* Every step is one of SessionLifecycle's, or none.
LEMMA StepPromise ==
  ASSUME IInv, [Next]_vars
  PROVE  [SessionNext]_sessionVars
  <1>0. SessionTypeOK /\ OpenInv /\ AskInv /\ LateInv /\ users \subseteq Users
    BY DEF IInv, Base, Typed
  <1>1. ASSUME NEW r \in Ids, Step(r) PROVE [SessionNext]_sessionVars
    \* A request behind the guard is still to be answered.
    <2>1. req[r].at \in Asking => Asked(r) # NoId /\ ask[r].session \in Ids /\
                                 session[ask[r].session] # "absent"
      BY <1>0, NoIdAssumption DEF AskInv, OpenInv, Asked
    <2>2. ASSUME NEW state \in {"open", "void"}, session[r] = "absent", Becomes(r, state), UNCHANGED ask
          PROVE  SessionNext
      BY <2>2 DEF SessionNext, Opened
    <2>3. ASSUME UNCHANGED session, Replies(r, "refused"), Asked(r) # NoId
          PROVE  SessionNext
      BY <2>3 DEF SessionNext, Refused
    <2>4. ASSUME NEW u \in Users, NEW kind \in {"signIn", "oauth"}, Arrive(r, u, kind)
          PROVE  UNCHANGED sessionVars
      BY <2>4 DEF Arrive
    <2>5. CASE Sign(r)
      BY <1>0, <2>2, <2>5 DEF Sign, OpenInv
    <2>6. CASE UpdateStatus(r)
      BY <2>6 DEF UpdateStatus
    <2>7. CASE CommitLogin(r)
      BY <1>0, <2>2, <2>7 DEF CommitLogin, OpenInv
    <2>8. ASSUME NEW s \in Ids, NEW kind \in {"refresh", "logout"}, Verify(r, s, kind)
          PROVE  SessionNext
      BY <1>0, <2>8 DEF Verify, Starts, OpenInv, AskInv, Arrives, SessionNext
    <2>9. CASE FindUser(r)
      BY <2>1, <2>3, <2>9 DEF FindUser, Asking, sessionVars
    <2>10. CASE FindInBlackList(r)
      BY <2>1, <2>3, <2>10 DEF FindInBlackList, Asking, sessionVars
    <2>11. CASE Refresh(r)
      <3>1. MayGrant(r)
        BY <1>0, <2>11 DEF LateInv, Refresh
      <3>2. QED
        BY <2>1, <2>11, <3>1 DEF Refresh, Asking, Granted, SessionNext
    <2>12. CASE Logout(r)
      <3>1. MayGrant(r)
        BY <1>0, <2>12 DEF LateInv, Logout
      <3>2. QED
        BY <2>1, <2>12, <3>1 DEF Logout, ToBlackList, Asking, Granted, SessionNext
    <2>13. CASE LogoutFails(r)
      BY <2>1, <2>3, <2>13 DEF LogoutFails, Asking
    <2>14. CASE Fail(r)
      BY <2>3, <2>14 DEF Fail, sessionVars
    <2>15. QED
      BY <1>1, <2>4, <2>5, <2>6, <2>7, <2>8, <2>9, <2>10, <2>11, <2>12, <2>13, <2>14 DEF Step
  <1>2. ASSUME NEW u \in Users, Delete(u) PROVE SessionNext
    BY <1>2 DEF Delete, SessionsOf, SessionNext
  <1>3. CASE ClearBlackList
    BY <1>3 DEF ClearBlackList
  <1>4. CASE Tick
    BY <1>4 DEF Tick, SessionNext
  <1>5. CASE UNCHANGED vars
    BY <1>5 DEF vars
  <1>6. QED
    BY <1>1, <1>2, <1>3, <1>4, <1>5 DEF Next

\* Promise: a request that arrives after the logout from its session is
\* never granted, and no session opens twice.
THEOREM KeepsPromise == Spec => Promise
  <1>1. Init => SessionInit
    BY DEF Init
  <1>2. IInv /\ [Next]_vars => [SessionNext]_sessionVars
    BY StepPromise
  <1>3. QED
    BY <1>1, <1>2, InvAlways, PTL DEF Spec, Promise, SessionSpec
-----------------------------------------------------------------------------
(* Types                                                                   *)

\* The clock stays in its bound, and no token outlives it by more than the
\* lifetime.
TimeInv == now \in Time /\ exp \in [Ids -> 0..(MaxTime \div 2 + Lifetime)]

LEMMA InitTime == Init => TimeInv
  BY MaxTimeAssumption, LifetimeAssumption DEF Init, TimeInv, Time

LEMMA NextTime == TimeInv /\ [Next]_vars => TimeInv'
  <1> SUFFICES ASSUME TimeInv, [Next]_vars PROVE TimeInv'
    OBVIOUS
  <1>1. CASE UNCHANGED <<exp, now>>
    BY <1>1 DEF TimeInv
  <1>2. ASSUME NEW r \in Ids, Step(r) PROVE TimeInv'
    <2>1. CASE Sign(r)
      <3>1. Second(now) + Lifetime \in 0..(MaxTime \div 2 + Lifetime)
        BY MaxTimeAssumption, LifetimeAssumption DEF TimeInv, Time, Second
      <3>2. QED
        BY <2>1, <3>1 DEF Sign, TimeInv
    <2>2. CASE ~ Sign(r)
      BY <1>1, <1>2, <2>2 DEF Step, Arrive, UpdateStatus, CommitLogin, Verify, FindUser,
                              FindInBlackList, Refresh, Logout, LogoutFails, Fail
    <2>3. QED
      BY <2>1, <2>2
  <1>3. CASE Tick
    BY <1>3, MaxTimeAssumption DEF Tick, TimeInv, Time
  <1>4. CASE (\E u \in Users : Delete(u)) \/ ClearBlackList \/ UNCHANGED vars
    BY <1>1, <1>4 DEF Delete, ClearBlackList, vars
  <1>5. QED
    BY <1>2, <1>3, <1>4 DEF Next

\* Every variable keeps its type.
THEOREM TypeCorrect == Spec => []TypeOK
  <1>1. Base /\ TimeInv => TypeOK
    BY DEF Base, Typed, TimeInv, TypeOK
  <1>2. QED
    BY <1>1, BaseAlways, InitTime, NextTime, PTL DEF Spec
-----------------------------------------------------------------------------
(* What the promise comes to                                               *)

\* A request that is late has a session.
HasSession == \A r \in Ids : ask[r].late => ask[r].session \in Ids

LEMMA LateStays ==
  SessionSpec => [](SessionTypeOK /\ HasSession /\ LateIsNotGranted)
  <1>1. SessionInit => SessionTypeOK /\ HasSession /\ LateIsNotGranted
    BY DEF SessionInit, SessionTypeOK, SessionStates, Asks, Answers, HasSession, LateIsNotGranted
  <1>2. SessionTypeOK /\ HasSession /\ LateIsNotGranted /\ [SessionNext]_sessionVars
          => (SessionTypeOK /\ HasSession /\ LateIsNotGranted)'
    <2> SUFFICES ASSUME SessionTypeOK, HasSession, LateIsNotGranted, [SessionNext]_sessionVars
                 PROVE  (SessionTypeOK /\ HasSession /\ LateIsNotGranted)'
      OBVIOUS
    <2> USE DEF SessionTypeOK, SessionStates, Asks, Answers, HasSession, LateIsNotGranted
    <2>1. ASSUME NEW s \in Ids, NEW state \in {"open", "void"}, Opened(s, state)
          PROVE  (SessionTypeOK /\ HasSession /\ LateIsNotGranted)'
      BY <2>1 DEF Opened, Becomes
    <2>2. ASSUME NEW S \in SUBSET Ids, Voided(S)
          PROVE  (SessionTypeOK /\ HasSession /\ LateIsNotGranted)'
      BY <2>2 DEF Voided
    <2>3. ASSUME NEW r \in Ids, NEW s \in Ids, Arrives(r, s)
          PROVE  (SessionTypeOK /\ HasSession /\ LateIsNotGranted)'
      BY <2>3 DEF Arrives, Comes
    <2>4. ASSUME NEW r \in Ids, Granted(r)
          PROVE  (SessionTypeOK /\ HasSession /\ LateIsNotGranted)'
      <3>1. ask[r].session \in Ids /\ Replies(r, "granted") /\ MayGrant(r)
        BY <2>4 DEF Granted, Asked
      <3>2. /\ session' \in [Ids -> SessionStates]
            /\ \A s \in Ids : session[s] = "void" => session'[s] = "void"
        BY <2>4, <3>1 DEF Granted, Becomes, Ends
      <3>3. QED
        BY <3>1, <3>2 DEF Replies, MayGrant
    <2>5. ASSUME NEW r \in Ids, Refused(r)
          PROVE  (SessionTypeOK /\ HasSession /\ LateIsNotGranted)'
      BY <2>5 DEF Refused, Replies
    <2>6. CASE UNCHANGED sessionVars
      BY <2>6 DEF sessionVars
    <2>7. QED
      BY <2>1, <2>2, <2>3, <2>4, <2>5, <2>6 DEF SessionNext
  <1>3. QED
    BY <1>1, <1>2, PTL DEF SessionSpec

\* Refresh and logout with a token that was logged out of before are refused,
\* whichever of the guard's reads came before and after what.
THEOREM LateAreRefused == Spec => []LateIsNotGranted
  BY KeepsPromise, LateStays, PTL DEF Promise
=============================================================================
