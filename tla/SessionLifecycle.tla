-------------------------- MODULE SessionLifecycle --------------------------
(***************************************************************************)
(* What signing in and out promises about sessions.  A session is named by *)
(* the request that opened it.  It opens once and, once ended by a logout, *)
(* stays ended: no request that arrives after that is granted.  A session  *)
(* that is void, because its token has expired or is about to, or because  *)
(* its account is gone, promises nothing.                                  *)
(***************************************************************************)
CONSTANTS Ids,     \* requests, and the sessions they open
          NoId

ASSUME NoIdAssumption == NoId \notin Ids

VARIABLES session,  \* the state of each session
          ask       \* what each request asks of which session

sessionVars == <<session, ask>>

SessionStates == {"absent", "open", "ended", "void"}
Answers       == {"none", "granted", "refused"}
\* late: the session had ended when the request arrived.
Asks == [session : Ids \union {NoId}, late : BOOLEAN, answer : Answers]

SessionTypeOK ==
  /\ session \in [Ids -> SessionStates]
  /\ ask \in [Ids -> Asks]

SessionInit ==
  /\ session = [s \in Ids |-> "absent"]
  /\ ask = [r \in Ids |-> [session |-> NoId, late |-> FALSE, answer |-> "none"]]

\* The session of a request that is still to be answered, NoId without one.
Asked(r) == IF ask[r].answer = "none" THEN ask[r].session ELSE NoId

\* What the steps do; what allows them is said below.
Becomes(s, state) == session' = [session EXCEPT ![s] = state]

Comes(r, s) ==
  ask' = [ask EXCEPT ![r] = [session |-> s, late |-> session[s] = "ended", answer |-> "none"]]

Replies(r, answer) ==
  ask' = [ask EXCEPT ![r] = [session |-> ask[r].session, late |-> ask[r].late,
                             answer |-> answer]]

Ends(s) == Becomes(s, IF session[s] = "void" THEN "void" ELSE "ended")

Opened(s, state) ==
  /\ session[s] = "absent"
  /\ Becomes(s, state)
  /\ UNCHANGED ask

Voided(S) ==
  /\ session' = [s \in Ids |-> IF s \in S /\ session[s] # "absent"
                               THEN "void" ELSE session[s]]
  /\ UNCHANGED ask

Arrives(r, s) ==
  /\ ask[r].session = NoId
  /\ session[s] # "absent"
  /\ Comes(r, s)
  /\ UNCHANGED session

\* A request that is granted came in time, or its session is void.
MayGrant(r) == ask[r].late => session[ask[r].session] = "void"

\* A logout that is granted ends the session.
Granted(r) ==
  /\ Asked(r) # NoId
  /\ MayGrant(r)
  /\ Replies(r, "granted")
  /\ \/ UNCHANGED session
     \/ session[ask[r].session] # "absent" /\ Ends(ask[r].session)

Refused(r) ==
  /\ Asked(r) # NoId
  /\ Replies(r, "refused")
  /\ UNCHANGED session

SessionNext ==
  \/ \E s \in Ids, state \in {"open", "void"} : Opened(s, state)
  \/ \E S \in SUBSET Ids : Voided(S)
  \/ \E r, s \in Ids : Arrives(r, s)
  \/ \E r \in Ids : Granted(r) \/ Refused(r)

SessionSpec == SessionInit /\ [][SessionNext]_sessionVars
-----------------------------------------------------------------------------
(* What it comes to                                                        *)

\* Whoever comes with the token of a session that was logged out of gets
\* nothing, unless the session is void.
LateIsNotGranted ==
  \A r \in Ids : ask[r].late /\ ask[r].answer = "granted" => session[ask[r].session] = "void"
=============================================================================
