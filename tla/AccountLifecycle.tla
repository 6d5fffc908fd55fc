-------------------------- MODULE AccountLifecycle --------------------------
(***************************************************************************)
(* What registration promises about accounts.  At any moment an e-mail     *)
(* address has at most one account.  An account starts pending, or active  *)
(* when an OAuth provider vouches for the address; a pending account       *)
(* becomes active once and no account ever goes back; a closed account     *)
(* stays closed.                                                           *)
(***************************************************************************)
CONSTANTS Ids,              \* account ids
          Emails,
          NoEmail

ASSUME NoEmailAssumption == NoEmail \notin Emails

VARIABLES account,  \* committed state of each account
          address   \* its e-mail address

accountVars == <<account, address>>

AccountStates == {"absent", "pending", "active", "closed"}

Live(u) == account[u] \in {"pending", "active"}

\* Some account has the address (the index User.email).
Taken(e) == \E u \in Ids : Live(u) /\ address[u] = e

AccountTypeOK ==
  /\ account \in [Ids -> AccountStates]
  /\ address \in [Ids -> Emails \union {NoEmail}]

AccountInit ==
  /\ account = [u \in Ids |-> "absent"]
  /\ address = [u \in Ids |-> NoEmail]

\* A row appears in the User table, with the given state.
Opened(u, e, state) ==
  /\ account[u] = "absent"
  /\ ~ Taken(e)
  /\ account' = [account EXCEPT ![u] = state]
  /\ address' = [address EXCEPT ![u] = e]

Activated(u) ==
  /\ account[u] = "pending"
  /\ account' = [account EXCEPT ![u] = "active"]
  /\ UNCHANGED address

Closed(u) ==
  /\ Live(u)
  /\ account' = [account EXCEPT ![u] = "closed"]
  /\ UNCHANGED address

AccountNext ==
  \E u \in Ids : \/ \E e \in Emails, s \in {"pending", "active"} : Opened(u, e, s)
                 \/ Activated(u)
                 \/ Closed(u)

AccountSpec == AccountInit /\ [][AccountNext]_accountVars
-----------------------------------------------------------------------------
(* What it comes to                                                        *)

\* However many requests race for an address (signUp, OAuth), one account has
\* it.
OneAccountPerAddress ==
  \A u, v \in Ids : Live(u) /\ Live(v) /\ address[u] = address[v] => u = v

\* Nothing undoes an activation or a deletion, and no account changes hands.
NoWayBack ==
  [][\A u \in Ids : /\ account[u] = "active" => account'[u] \in {"active", "closed"}
                    /\ account[u] = "closed" => account'[u] = "closed"
                    /\ account[u] # "absent" => address'[u] = address[u]]_accountVars
=============================================================================
