------------------------------- MODULE Secrets ------------------------------
(***************************************************************************)
(* What a reset promises: the secret that is stored for a user has been    *)
(* mailed to that user; a user gets one of each kind; only a secret that   *)
(* was stored for a user marks that user's reset as requested by them.     *)
(***************************************************************************)
CONSTANTS Users, Ids, NoRow

Codes == {"email", "password"}
Kinds == {"login"} \union Codes

VARIABLES stored,     \* the secret of a user, of each kind, or NoRow
          past,       \* all that were ever stored for them
          mailed,     \* the secrets some letter carries
          requested   \* ForgotPassword.youResert

vars == <<stored, past, mailed, requested>>

Init ==
  /\ stored = [k \in Kinds |-> [u \in Users |-> NoRow]]
  /\ past = [k \in Kinds |-> [u \in Users |-> {}]]
  /\ mailed = {}
  /\ requested = [u \in Users |-> FALSE]

Mail(s) ==
  /\ mailed' = mailed \union {s}
  /\ UNCHANGED <<stored, past, requested>>

Issue(k, u, s) ==
  /\ s \in mailed
  /\ past[k][u] = {}
  /\ \A j \in Kinds, v \in Users : s \notin past[j][v]
  /\ stored' = [stored EXCEPT ![k][u] = s]
  /\ past' = [past EXCEPT ![k][u] = @ \union {s}]
  /\ UNCHANGED <<mailed, requested>>

Request(u, s) ==
  /\ s \in past["login"][u]
  /\ stored["login"][u] # NoRow
  /\ requested' = [requested EXCEPT ![u] = TRUE]
  /\ UNCHANGED <<stored, past, mailed>>

\* The rows of a user go with the user.
Forget(u) ==
  /\ stored' = [k \in Kinds |-> [stored[k] EXCEPT ![u] = NoRow]]
  /\ requested' = [requested EXCEPT ![u] = FALSE]
  /\ UNCHANGED <<past, mailed>>

Next ==
  \/ \E s \in Ids : Mail(s)
  \/ \E k \in Kinds, u \in Users, s \in Ids : Issue(k, u, s)
  \/ \E u \in Users, s \in Ids : Request(u, s)
  \/ \E u \in Users : Forget(u)

Spec == Init /\ [][Next]_vars
-----------------------------------------------------------------------------
(* What it comes to                                                        *)

\* What is stored for a user has been mailed and was never stored for another
\* user or another kind of reset.
SecretsAreOwn ==
  \A k \in Kinds, u \in Users :
    stored[k][u] # NoRow =>
      /\ stored[k][u] \in mailed \intersect past[k][u]
      /\ \A j \in Kinds, v \in Users : stored[k][u] \in past[j][v] => j = k /\ v = u
=============================================================================
