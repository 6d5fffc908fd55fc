---------------------------- MODULE ResetsProofs ----------------------------
(***************************************************************************)
(* Resets keeps its types, every letter of a request that was answered     *)
(* with success works, and what is stored, mailed and requested follows    *)
(* Secrets.  The inductive invariant ties the lock of a row to the one     *)
(* request that is between its write and its commit, and says that a row   *)
(* written once is not written again.                                      *)
(***************************************************************************)
EXTENDS Resets, TLAPS

USE DEF InTx, Holders

\* What a request at each stage knows about its row.
RequestInv(r) ==
  /\ stage[r] \in {"new", "written", "mailed", "found"} => target[r] \in Users
  /\ stage[r] \in InTx =>
       /\ target[r] \in users
       /\ lock[kind[r]][target[r]] = r
       /\ past[kind[r]][target[r]] = {}
  /\ stage[r] \in {"idle", "new", "written", "found"} => r \notin mailed
  /\ stage[r] = "mailed" => r \in mailed
  /\ stage[r] = "done" /\ r \in mailed =>
       target[r] \in Users /\ r \in past[kind[r]][target[r]]
  /\ stage[r] = "found" => token[r] \in past["login"][target[r]]

\* Who holds a row, whose secret it had, and whether it still has it.
RowInv(k, u) ==
  /\ \A r \in Ids : lock[k][u] = r => stage[r] \in InTx /\ kind[r] = k /\ target[r] = u
  /\ \A r \in past[k][u] :
       stage[r] = "done" /\ kind[r] = k /\ target[r] = u /\ r \in mailed
  /\ stored[k][u] # NoRow => u \in users
  /\ u \in users => \A r \in past[k][u] : stored[k][u] = r
  /\ stored[k][u] # NoRow => stored[k][u] \in past[k][u]

IInv ==
  /\ TypeOK
  /\ \A r \in Ids : RequestInv(r)
  /\ \A k \in Kinds, u \in Users : RowInv(k, u)

-----------------------------------------------------------------------------
LEMMA InitInv == Init => IInv
  BY NoRowAssumption, LimitAssumption
  DEF Init, IInv, TypeOK, RequestInv, RowInv, Stages, Kinds, Codes

\* A request that arrives holds nothing and has no letter yet; only what it
\* found out about its row has to be shown.
LEMMA ArrivesInv ==
  ASSUME IInv, NEW r \in Ids, NEW k \in Kinds, NEW u \in Users \union {NoRow},
         NEW s \in {"new", "found", "done", "refused", "failed"},
         Arrives(r, k, u, s),
         s \in {"new", "found"} => u \in Users,
         token' \in [Ids -> Ids \union {NoRow}],
         \A q \in Ids \ {r} : token'[q] = token[q],
         s = "found" => token'[r] \in past["login"][u]
  PROVE  IInv'
<1> USE NoRowAssumption, LimitAssumption
<1>1. TypeOK'
  BY DEF IInv, TypeOK, Arrives, Goes, Stages, tables, history
<1>2. \A q \in Ids : RequestInv(q)'
  BY DEF IInv, TypeOK, RequestInv, RowInv, Arrives, Goes, Stages, tables, history, Kinds
<1>3. \A j \in Kinds, v \in Users : RowInv(j, v)'
  BY DEF IInv, TypeOK, RequestInv, RowInv, Arrives, Goes, Stages, tables, history
<1> QED  BY <1>1, <1>2, <1>3 DEF IInv

LEMMA AsksInv ==
  ASSUME IInv, NEW r \in Ids, NEW u \in Users, Asks(r, u)
  PROVE  IInv'
<1> USE NoRowAssumption, LimitAssumption
<1>0. /\ token \in [Ids -> Ids \union {NoRow}]
      /\ "login" \in Kinds /\ "email" \in Kinds /\ "password" \in Kinds
      /\ Codes \subseteq Kinds
  BY DEF IInv, TypeOK, Kinds, Codes
<1>1. CASE AskUnknown(r, u)
  BY <1>0, <1>1, ArrivesInv DEF AskUnknown
<1>2. CASE AskFirst(r, u)
  BY <1>0, <1>2, ArrivesInv DEF AskFirst
<1>3. CASE AskAgain(r, u)
  BY <1>0, <1>3, ArrivesInv DEF AskAgain
<1>4. CASE AskEmailTaken(r, u) \/ AskEmailAgain(r, u)
  BY <1>0, <1>4, ArrivesInv DEF AskEmailTaken, AskEmailAgain, NeedsRow
<1>5. CASE AskEmailFirst(r, u) \/ AskEmailSecond(r, u)
  BY <1>0, <1>5, ArrivesInv DEF AskEmailFirst, AskEmailSecond
<1>6. CASE AskPasswordCode(r, u)
  BY <1>0, <1>6, ArrivesInv DEF AskPasswordCode, CodeStage
<1>7. ASSUME NEW k \in Codes, AskForAnother(r, k, u)  PROVE IInv'
  BY <1>0, <1>7, ArrivesInv DEF AskForAnother
<1>8. CASE ConfirmEmail(r, u) \/ ConfirmPassword(r, u)
  BY <1>0, <1>8, ArrivesInv DEF ConfirmEmail, ConfirmPassword, PasswordRow, NeedsRow
<1> QED  BY <1>1, <1>2, <1>3, <1>4, <1>5, <1>6, <1>7, <1>8 DEF Asks

LEMMA TokensInv ==
  ASSUME IInv, NEW r \in Ids, NEW t \in Ids, FindToken(r, t) \/ NewPassword(r, t)
  PROVE  IInv'
<1>0. /\ token' \in [Ids -> Ids \union {NoRow}]
      /\ \A q \in Ids \ {r} : token'[q] = token[q]
      /\ token'[r] = t
      /\ "login" \in Kinds
  BY DEF IInv, TypeOK, FindToken, NewPassword, Kinds
<1>1. ASSUME NEW u \in Users, stored["login"][u] = t, Arrives(r, "login", u, "found")
      PROVE  IInv'
  <2>1. t \in past["login"][u]
    BY <1>0, <1>1, NoRowAssumption DEF IInv, RowInv
  <2> QED  BY <1>0, <1>1, <2>1, ArrivesInv
<1>2. CASE Arrives(r, "login", NoRow, "refused")
  BY <1>0, <1>2, ArrivesInv
<1> QED  BY <1>1, <1>2 DEF FindToken, NewPassword, HasToken, NotFound

\* The write of a row, which takes its lock.
LEMMA WriteInv ==
  ASSUME IInv, NEW r \in Ids, Insert(r)
  PROVE  IInv'
<1> USE NoRowAssumption
<1>0. /\ target[r] \in Users /\ kind[r] \in Kinds
      /\ stage[r] = "new"
      /\ lock[kind[r]][target[r]] = NoRow
  BY DEF IInv, RequestInv, TypeOK, Insert, Locked
<1>1. /\ UNCHANGED <<tables, kind, target, token, history>>
      /\ \/ Goes(r, "failed") /\ UNCHANGED lock
         \/ /\ Goes(r, "written") /\ Lock(r)
            /\ target[r] \in users
            /\ stored[kind[r]][target[r]] = NoRow
  BY DEF Insert, Taken
<1>2. CASE Goes(r, "failed") /\ UNCHANGED lock
  <2> USE <1>0, <1>1, <1>2 DEF Goes, tables, history
  <2>1. TypeOK'
    BY DEF IInv, TypeOK, Stages
  <2>2. \A q \in Ids : RequestInv(q)'
    BY DEF IInv, TypeOK, RequestInv
  <2>3. \A k \in Kinds, u \in Users : RowInv(k, u)'
    BY DEF IInv, TypeOK, RowInv
  <2> QED  BY <2>1, <2>2, <2>3 DEF IInv
<1>3. CASE /\ Goes(r, "written") /\ Lock(r)
           /\ target[r] \in users
           /\ stored[kind[r]][target[r]] = NoRow
  <2> USE <1>0, <1>1, <1>3 DEF Goes, tables, history
  <2>1. TypeOK'
    <3>1. stage' \in [Ids -> Stages] /\ stage'[r] = "written"
      BY DEF IInv, TypeOK, Stages
    <3>2. lock' \in [Kinds -> [Users -> Holders' \union {NoRow}]]
      <4>1. \A k \in Kinds, u \in Users :
              lock[k][u] \in Holders' \union {NoRow}
        BY DEF IInv, TypeOK, Holders
      <4>2. r \in Holders'
        BY <3>1 DEF Holders
      <4> QED  BY <4>1, <4>2 DEF IInv, TypeOK, Lock
    <3> QED  BY <3>1, <3>2 DEF IInv, TypeOK
  <2>2. \A k \in Kinds, u \in Users :
          lock'[k][u] = IF k = kind[r] /\ u = target[r] THEN r ELSE lock[k][u]
    BY DEF IInv, TypeOK, Lock
  <2>3. past[kind[r]][target[r]] = {}
    <3>1. RowInv(kind[r], target[r]) /\ past[kind[r]][target[r]] \subseteq Ids
      BY DEF IInv, TypeOK
    <3> QED  BY <3>1 DEF RowInv
  <2>4. \A q \in Ids : RequestInv(q)'
    BY <2>2, <2>3 DEF IInv, TypeOK, RequestInv
  <2>5. ASSUME NEW k \in Kinds, NEW u \in Users  PROVE RowInv(k, u)'
    <3>1. /\ \A q \in Ids : stage'[q] = IF q = r THEN "written" ELSE stage[q]
          /\ past[k][u] \subseteq Ids
          /\ stored[k][u] \in Ids \union {NoRow}
      BY DEF IInv, TypeOK
    <3>2. RowInv(k, u)
      BY DEF IInv
    <3> QED  BY <2>2, <3>1, <3>2 DEF RowInv
  <2> QED  BY <2>1, <2>4, <2>5 DEF IInv
<1> QED  BY <1>1, <1>2, <1>3

\* The letter is added while its request holds the row.
LEMMA MailInv ==
  ASSUME IInv, NEW r \in Ids, Mail(r)
  PROVE  IInv'
<1> USE NoRowAssumption DEF Mail, AddLetter, Goes, tables
<1>0. target[r] \in Users /\ kind[r] \in Kinds
  BY DEF IInv, RequestInv, TypeOK
<1>1. TypeOK'
  BY DEF IInv, TypeOK, Stages
<1>2. \A q \in Ids : RequestInv(q)'
  BY <1>0 DEF IInv, TypeOK, RequestInv, RowInv
<1>3. \A k \in Kinds, u \in Users : RowInv(k, u)'
  BY <1>0 DEF IInv, TypeOK, RequestInv, RowInv
<1> QED  BY <1>1, <1>2, <1>3 DEF IInv

\* The commit of r: nobody else had the row.
LEMMA CommitInv ==
  ASSUME IInv, NEW r \in Ids, Commit(r)
  PROVE  IInv'
<1> USE NoRowAssumption, LimitAssumption DEF Commit, LetterAdded, Goes, Unlock
<1>0. /\ target[r] \in users /\ target[r] \in Users /\ kind[r] \in Kinds
      /\ lock[kind[r]][target[r]] = r
      /\ \A q \in Ids \ {r} : stage[q] \in InTx =>
           kind[q] # kind[r] \/ target[q] # target[r]
  BY DEF IInv, RequestInv, TypeOK
<1>1. TypeOK'
  BY <1>0 DEF IInv, TypeOK, Stages
<1>2. ASSUME NEW k \in Kinds, NEW u \in Users
      PROVE  /\ past'[k][u] = IF k = kind[r] /\ u = target[r]
                              THEN past[k][u] \union {r} ELSE past[k][u]
             /\ stored'[k][u] = IF k = kind[r] /\ u = target[r]
                                THEN r ELSE stored[k][u]
             /\ lock'[k][u] = IF lock[k][u] = r THEN NoRow ELSE lock[k][u]
  BY <1>0 DEF IInv, TypeOK
<1>3. \A q \in Ids : stage'[q] = IF q = r THEN "done" ELSE stage[q]
  BY DEF IInv, TypeOK
<1>4. \A q \in Ids : RequestInv(q)'
  BY <1>0, <1>2, <1>3 DEF IInv, TypeOK, RequestInv, RowInv, Kinds
<1>5. \A k \in Kinds, u \in Users : RowInv(k, u)'
  BY <1>0, <1>2, <1>3 DEF IInv, TypeOK, RequestInv, RowInv
<1> QED  BY <1>1, <1>4, <1>5 DEF IInv

LEMMA FailInv ==
  ASSUME IInv, NEW r \in Ids, Fail(r)
  PROVE  IInv'
<1> USE NoRowAssumption DEF Fail, Goes, Unlock, tables, history
<1>1. TypeOK'
  BY DEF IInv, TypeOK, Stages
<1>2. \A k \in Kinds, u \in Users :
        lock'[k][u] = IF lock[k][u] = r THEN NoRow ELSE lock[k][u]
  BY DEF IInv, TypeOK
<1>3. \A q \in Ids : RequestInv(q)'
  BY <1>2 DEF IInv, TypeOK, RequestInv, RowInv
<1>4. \A k \in Kinds, u \in Users : RowInv(k, u)'
  BY <1>2 DEF IInv, TypeOK, RequestInv, RowInv
<1> QED  BY <1>1, <1>3, <1>4 DEF IInv

LEMMA MarkInv ==
  ASSUME IInv, NEW r \in Ids, MarkRequested(r)
  PROVE  IInv'
<1> USE NoRowAssumption DEF MarkRequested, Goes, history
<1>0. target[r] \in Users
  BY DEF IInv, RequestInv
<1>1. TypeOK'
  BY <1>0 DEF IInv, TypeOK, Stages
<1>2. \A q \in Ids : RequestInv(q)'
  BY DEF IInv, TypeOK, RequestInv, RowInv
<1>3. ASSUME NEW k \in Kinds, NEW u \in Users  PROVE RowInv(k, u)'
  <2>1. /\ stage[r] = "found"
        /\ \A q \in Ids \ {r} : stage'[q] = stage[q]
        /\ past[k][u] \subseteq Ids
    BY DEF IInv, TypeOK
  <2>2. UNCHANGED <<users, stored, lock, kind, target, past, mailed>>
    OBVIOUS
  <2>3. RowInv(k, u)
    BY DEF IInv
  <2> HIDE DEF MarkRequested
  <2> QED  BY <2>1, <2>2, <2>3 DEF RowInv
<1> QED  BY <1>1, <1>2, <1>3 DEF IInv

\* The rows of a user go when no transaction has them.
LEMMA OutsideInv ==
  ASSUME IInv, NEW u \in Users, DeleteUser(u) \/ Expire(u)
  PROVE  IInv'
<1> USE NoRowAssumption, LimitAssumption
    DEF DeleteUser, Expire, Locked, requests, history
<1>1. TypeOK'
  <2>1. CASE DeleteUser(u)
    BY <2>1 DEF IInv, TypeOK
  <2>2. CASE Expire(u)
    <3>1. attempts' \in [Users -> 0..1]
      BY <2>2 DEF IInv, TypeOK
    <3> QED  BY <2>2, <3>1 DEF IInv, TypeOK, tables
  <2> QED  BY <2>1, <2>2
<1>2. \A q \in Ids : RequestInv(q)'
  BY DEF IInv, TypeOK, RequestInv, RowInv
<1>3. ASSUME NEW k \in Kinds, NEW v \in Users  PROVE RowInv(k, v)'
  <2>1. /\ UNCHANGED <<lock, stage, kind, target, past, mailed>>
        /\ users' \subseteq users
        /\ stored'[k][v] = IF DeleteUser(u) /\ v = u THEN NoRow ELSE stored[k][v]
        /\ DeleteUser(u) => users' = users \ {u}
        /\ ~ DeleteUser(u) => users' = users
    BY DEF IInv, TypeOK
  <2>2. RowInv(k, v)
    BY DEF IInv
  <2> HIDE DEF DeleteUser, Expire
  <2> QED  BY <2>1, <2>2 DEF RowInv
<1> QED  BY <1>1, <1>2, <1>3 DEF IInv

LEMMA StepInv == IInv /\ [Next]_vars => IInv'
<1> SUFFICES ASSUME IInv, [Next]_vars  PROVE IInv'
  OBVIOUS
<1>1. ASSUME NEW r \in Ids, Goes_on(r)  PROVE IInv'
  BY <1>1, WriteInv, MailInv, CommitInv, FailInv, MarkInv DEF Goes_on
<1>2. CASE UNCHANGED vars
  BY <1>2 DEF IInv, TypeOK, RequestInv, RowInv, vars, tables, requests, history
<1> QED  BY <1>1, <1>2, AsksInv, TokensInv, OutsideInv DEF Next

\* The inductive invariant holds in every state.
THEOREM Invariance == Spec => []IInv
  BY InitInv, StepInv, PTL DEF Spec

\* Every variable keeps its type; no lock outlives its transaction.
THEOREM TypeCorrect == Spec => []TypeOK
  BY Invariance, PTL DEF IInv

\* The letter of a request that was answered with success is the one that
\* works: nothing overwrites its secret.
THEOREM LettersWork == Spec => []LetterWorks
<1>1. IInv => LetterWorks
  <2> SUFFICES ASSUME IInv, NEW r \in mailed, stage[r] = "done", target[r] \in users
               PROVE  stored[kind[r]][target[r]] = r
    BY DEF LetterWorks
  <2>1. r \in Ids /\ kind[r] \in Kinds
    BY DEF IInv, TypeOK
  <2>2. target[r] \in Users /\ r \in past[kind[r]][target[r]]
    BY <2>1 DEF IInv, RequestInv
  <2> QED  BY <2>1, <2>2 DEF IInv, RowInv
<1> QED  BY <1>1, Invariance, PTL

-----------------------------------------------------------------------------
LEMMA SecretsInit == Init => S!Init
  BY DEF Init, S!Init, Kinds, Codes, S!Kinds, S!Codes

LEMMA SecretsStep == IInv /\ [Next]_vars => [S!Next]_(S!vars)
<1> SUFFICES ASSUME IInv, [Next]_vars  PROVE [S!Next]_(S!vars)
  OBVIOUS
<1> USE NoRowAssumption DEF S!vars, tables, history
<1>0. Kinds = S!Kinds /\ Codes = S!Codes
  BY DEF Kinds, Codes, S!Kinds, S!Codes
<1>1. ASSUME NEW r \in Ids, NEW k \in Kinds, NEW u \in Users \union {NoRow},
             NEW s \in Stages, Arrives(r, k, u, s)
      PROVE  UNCHANGED S!vars
  BY <1>1 DEF Arrives
<1>2. ASSUME NEW r \in Ids, NEW u \in Users, Asks(r, u)  PROVE UNCHANGED S!vars
  BY <1>2 DEF Asks, AskUnknown, AskFirst, AskAgain, AskForAnother, AskEmailTaken, AskEmailAgain,
              AskEmailFirst, AskEmailSecond, AskPasswordCode, ConfirmEmail,
              ConfirmPassword, Arrives
<1>3. ASSUME NEW r \in Ids, NEW t \in Ids, FindToken(r, t) \/ NewPassword(r, t)
      PROVE  UNCHANGED S!vars
  BY <1>3 DEF FindToken, NewPassword, HasToken, NotFound, Arrives
<1>4. ASSUME NEW r \in Ids, Insert(r) \/ Fail(r)
      PROVE  UNCHANGED S!vars
  BY <1>4 DEF Insert, Fail
<1>5. ASSUME NEW r \in Ids, Mail(r)  PROVE S!Mail(r)
  BY <1>5 DEF Mail, AddLetter, S!Mail
<1>6. ASSUME NEW r \in Ids, Commit(r)  PROVE S!Issue(kind[r], target[r], r)
  <2>1. r \in mailed /\ past[kind[r]][target[r]] = {}
    BY <1>6 DEF Commit, LetterAdded, InTx, IInv, RequestInv
  <2>2. kind[r] \in Kinds
    BY DEF IInv, TypeOK
  <2>3. \A j \in Kinds, v \in Users : r \notin past[j][v]
    BY <1>6 DEF Commit, LetterAdded, IInv, RowInv
  <2> QED  BY <1>0, <1>6, <2>1, <2>2, <2>3 DEF Commit, S!Issue
<1>7. ASSUME NEW r \in Ids, MarkRequested(r)
      PROVE  S!Request(target[r], token[r]) \/ UNCHANGED S!vars
  BY <1>7 DEF MarkRequested, RowFound, IInv, RequestInv, S!Request
<1>8. ASSUME NEW u \in Users, DeleteUser(u)  PROVE S!Forget(u)
  BY <1>0, <1>8 DEF DeleteUser, S!Forget
<1>9. ASSUME NEW u \in Users, Expire(u)  PROVE UNCHANGED S!vars
  BY <1>9 DEF Expire
<1>10. CASE UNCHANGED vars
  BY <1>10 DEF vars
<1>11. ASSUME NEW r \in Ids, stage[r] \in {"mailed", "found"}
       PROVE  /\ kind[r] \in S!Kinds /\ target[r] \in Users
              /\ stage[r] = "found" => token[r] \in Ids
  BY <1>0, <1>11 DEF IInv, TypeOK, RequestInv, RowInv, Kinds
<1>12. ASSUME NEW r \in Ids, Goes_on(r)  PROVE [S!Next]_(S!vars)
  <2>1. CASE Commit(r)
    BY <1>6, <1>11, <2>1 DEF Commit, LetterAdded, S!Next
  <2>2. CASE MarkRequested(r)
    BY <1>7, <1>11, <2>2 DEF MarkRequested, S!Next
  <2>3. CASE Mail(r)
    BY <1>5, <2>3 DEF S!Next
  <2> QED  BY <1>4, <1>12, <2>1, <2>2, <2>3 DEF Goes_on
<1> QED
  BY <1>2, <1>3, <1>8, <1>9, <1>10, <1>12 DEF Next, S!Next

\* A reset keeps the promise of Secrets, for every number of requests, users
\* and attempts.
THEOREM KeepsPromise == Spec => Promise
  BY SecretsInit, SecretsStep, Invariance, PTL DEF Spec, Promise, S!Spec
-----------------------------------------------------------------------------
(* What the promise comes to                                               *)

\* A token or code belongs to the one user and the one kind of reset it was
\* mailed for, however the requests of all users overlap.
THEOREM TokensAreOwn == Spec => []S!SecretsAreOwn
<1>1. IInv => S!SecretsAreOwn
  BY DEF IInv, TypeOK, RowInv, S!SecretsAreOwn, S!Kinds, S!Codes, Kinds, Codes
<1> QED  BY <1>1, Invariance, PTL
=============================================================================
