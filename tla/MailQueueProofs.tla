-------------------------- MODULE MailQueueProofs ---------------------------
(***************************************************************************)
(* MailQueue keeps its types and implements Delivery for its two queues.   *)
(* The inductive invariant counts: a job has acted at most once more often *)
(* than it has met faults, and while it waits, or before its run has       *)
(* acted, not even that.                                                   *)
(***************************************************************************)
EXTENDS MailQueue, TLAPS

Typed ==
  /\ state \in [Jobs -> States]
  /\ step \in [Jobs -> Steps]
  /\ tries \in [Jobs -> 0..Attempts]
  /\ stalls \in [Jobs -> 0..MaxStalls + 1]
  /\ acts \in [Jobs -> Nat]
  /\ unknown \in SUBSET Logins
  /\ from \in [Letters -> Logins \union {Nobody}]
  /\ crashes \in 0..MaxCrashes

\* A run belongs to an active job, and a job that is not over has faults to
\* spare.
RunInv(j) ==
  /\ step[j] = "idle" <=> state[j] # "active"
  /\ state[j] # "failed" => tries[j] < Attempts /\ stalls[j] <= MaxStalls
  /\ state[j] = "failed" => tries[j] = Attempts \/ stalls[j] = MaxStalls + 1
  /\ tries[j] = Attempts => stalls[j] <= MaxStalls

\* What a job has done is paid for by its faults.
ActsInv(j) ==
  /\ acts[j] <= Faults(j) + 1
  /\ state[j] \in {"none", "waiting", "delayed", "failed"} => acts[j] <= Faults(j)
  /\ step[j] = "begun" => acts[j] <= Faults(j)
  /\ step[j] = "acted" => acts[j] > 0
  /\ state[j] = "completed" => acts[j] > 0

IInv == Typed /\ \A j \in Jobs : RunInv(j) /\ ActsInv(j)

-----------------------------------------------------------------------------
LEMMA InitInv == Init => IInv
  BY AttemptsAssumption, StallsAssumption, CrashesAssumption
  DEF Init, IInv, Typed, RunInv, ActsInv, Faults, States, Steps

\* The steps of Bull that change one job.
LEMMA BullInv ==
  ASSUME IInv, NEW j \in Jobs,
         Take(j) \/ Complete(j) \/ Throw(j) \/ Retry(j) \/ CheckStalled(j)
  PROVE  IInv'
<1> USE AttemptsAssumption, StallsAssumption
    DEF IInv, Typed, RunInv, ActsInv, Faults, States, Steps
<1>1. CASE Take(j)  BY <1>1 DEF Take
<1>2. CASE Complete(j)  BY <1>2 DEF Complete
<1>3. CASE Throw(j)  BY <1>3 DEF Throw, AfterThrow
<1>4. CASE Retry(j)  BY <1>4 DEF Retry
<1>5. CASE CheckStalled(j)  BY <1>5 DEF CheckStalled
<1> QED  BY <1>1, <1>2, <1>3, <1>4, <1>5

\* Adding a job, and a crash.
LEMMA OutsideInv ==
  ASSUME IInv,
         \/ \E l \in Logins : AddLogin(l)
         \/ \E m \in Letters : AddLetter(m)
         \/ Crash
  PROVE  IInv'
<1> USE AttemptsAssumption, StallsAssumption, CrashesAssumption
    DEF IInv, Typed, RunInv, ActsInv, Faults, States, Steps
<1>1. CASE \E l \in Logins : AddLogin(l)  BY <1>1 DEF AddLogin, Jobs
<1>2. CASE \E m \in Letters : AddLetter(m)  BY <1>2 DEF AddLetter, Jobs
<1>3. CASE Crash  BY <1>3 DEF Crash
<1> QED  BY <1>1, <1>2, <1>3

\* The handlers at work.
LEMMA ActInv ==
  ASSUME IInv,
         \/ \E m \in Letters : Send(m)
         \/ \E l \in Logins, m \in Letters : Notify(l, m)
  PROVE  IInv'
<1> USE AttemptsAssumption, StallsAssumption
    DEF IInv, Typed, RunInv, ActsInv, Faults, States, Steps, Acts
<1>1. CASE \E m \in Letters : Send(m)  BY <1>1 DEF Send, Jobs
<1>2. ASSUME NEW l \in Logins, NEW m \in Letters, Notify(l, m)  PROVE IInv'
  <2>1. l \in Jobs /\ m \in Jobs /\ l # m
    BY JobsAssumption DEF Jobs
  <2> QED  BY <1>2, <2>1 DEF Notify
<1> QED  BY <1>1, <1>2

LEMMA StepInv == IInv /\ [Next]_vars => IInv'
<1> SUFFICES ASSUME IInv, [Next]_vars  PROVE IInv'
  OBVIOUS
<1>1. CASE Next
  BY <1>1, BullInv, OutsideInv, ActInv DEF Next, LoginRun, LetterRun, Jobs
<1>2. CASE UNCHANGED vars
  BY <1>2 DEF vars, IInv, Typed, RunInv, ActsInv, Faults
<1> QED  BY <1>1, <1>2

THEOREM Invariance == Spec => []IInv
  BY InitInv, StepInv, PTL DEF Spec

\* Every variable keeps its type; among other things no job acts more often
\* than the attempts and the deaths of workers that its queue allows.
THEOREM TypeCorrect == Spec => []TypeOK
<1>1. IInv => TypeOK
  <2> SUFFICES ASSUME IInv  PROVE TypeOK
    OBVIOUS
  <2>1. ASSUME NEW j \in Jobs  PROVE acts[j] \in 0..Attempts + MaxStalls
    BY AttemptsAssumption, StallsAssumption
    DEF IInv, Typed, RunInv, ActsInv, Faults, States
  <2> QED  BY <2>1 DEF IInv, Typed, RunInv, TypeOK
<1> QED  BY <1>1, Invariance, PTL

-----------------------------------------------------------------------------
(* Refinement                                                              *)

LEMMA MailInit == Init => Mail!Init
  BY DEF Init, Mail!Init, Abstract, Faults, Jobs

LEMMA NoticeInit == Init => Notice!Init
  BY DEF Init, Notice!Init, Abstract, Faults, Jobs

\* The steps of a letter are steps of Delivery, those of sign-ins add
\* letters or leave them alone.
LEMMA MailStep == IInv /\ [Next]_vars => [Mail!Next]_(Mail!vars)
<1> SUFFICES ASSUME IInv, [Next]_vars  PROVE [Mail!Next]_(Mail!vars)
  OBVIOUS
<1> USE JobsAssumption, AttemptsAssumption, StallsAssumption
    DEF Jobs, IInv, Typed, RunInv, ActsInv, Faults, States, Steps, Abstract,
        Mail!vars, Patience
<1>1. CASE \E l \in Logins : AddLogin(l)
  BY <1>1 DEF AddLogin
<1>2. ASSUME NEW m \in Letters, AddLetter(m)  PROVE Mail!Add(m)
  BY <1>2 DEF AddLetter, Mail!Add
<1>3. ASSUME NEW j \in Jobs, Take(j) \/ Retry(j)  PROVE UNCHANGED Mail!vars
  BY <1>3 DEF Take, Retry
<1>4. ASSUME NEW l \in Logins, Complete(l) \/ Throw(l) \/ CheckStalled(l)
      PROVE  UNCHANGED Mail!vars
  BY <1>4 DEF Complete, Throw, CheckStalled
<1>5. ASSUME NEW m \in Letters, Complete(m)  PROVE Mail!Settle(m)
  BY <1>5 DEF Complete, Mail!Settle
<1>6. ASSUME NEW m \in Letters, Throw(m)  PROVE Mail!Fault(m)
  <2>1. Abstract(state[m]) = "pending"
    BY <1>6 DEF Throw
  <2>2. [i \in Letters |-> Faults(i)]' = [[i \in Letters |-> Faults(i)] EXCEPT ![m] = @ + 1]
    <3>1. \A i \in Letters : tries[i] \in Nat /\ stalls[i] \in Nat
      OBVIOUS
    <3>2. \A i \in Letters : tries'[i] + stalls'[i] =
            IF i = m THEN tries[i] + stalls[i] + 1 ELSE tries[i] + stalls[i]
      BY <1>6, <3>1 DEF Throw
    <3> QED  BY <3>2
  <2>3. state'[m] = "failed" => [i \in Letters |-> Faults(i)]'[m] >= Patience
    BY <1>6 DEF Throw, AfterThrow
  <2>4. \/ [i \in Letters |-> Abstract(state[i])]' = [i \in Letters |-> Abstract(state[i])]
        \/ /\ state'[m] = "failed"
           /\ [i \in Letters |-> Abstract(state[i])]'
                = [[i \in Letters |-> Abstract(state[i])] EXCEPT ![m] = "lost"]
    BY <1>6 DEF Throw, AfterThrow
  <2>5. [i \in Letters |-> acts[i]]' = [i \in Letters |-> acts[i]]
    BY <1>6 DEF Throw
  <2> HIDE DEF Faults, Patience, Abstract, IInv, Typed, RunInv, ActsInv
  <2> QED  BY <2>1, <2>2, <2>3, <2>4, <2>5 DEF Mail!Fault
<1>7. ASSUME NEW m \in Letters, CheckStalled(m)  PROVE Mail!Fault(m)
  <2>1. Abstract(state[m]) = "pending"
    BY <1>7 DEF CheckStalled
  <2>2. [i \in Letters |-> Faults(i)]' = [[i \in Letters |-> Faults(i)] EXCEPT ![m] = @ + 1]
    <3>1. \A i \in Letters : tries[i] \in Nat /\ stalls[i] \in Nat
      OBVIOUS
    <3>2. \A i \in Letters : tries'[i] + stalls'[i] =
            IF i = m THEN tries[i] + stalls[i] + 1 ELSE tries[i] + stalls[i]
      BY <1>7, <3>1 DEF CheckStalled
    <3> QED  BY <3>2
  <2>3. state'[m] = "failed" => [i \in Letters |-> Faults(i)]'[m] >= Patience
    BY <1>7 DEF CheckStalled
  <2>4. \/ [i \in Letters |-> Abstract(state[i])]' = [i \in Letters |-> Abstract(state[i])]
        \/ /\ state'[m] = "failed"
           /\ [i \in Letters |-> Abstract(state[i])]'
                = [[i \in Letters |-> Abstract(state[i])] EXCEPT ![m] = "lost"]
    BY <1>7 DEF CheckStalled
  <2>5. [i \in Letters |-> acts[i]]' = [i \in Letters |-> acts[i]]
    BY <1>7 DEF CheckStalled
  <2> HIDE DEF Faults, Patience, Abstract, IInv, Typed, RunInv, ActsInv
  <2> QED  BY <2>1, <2>2, <2>3, <2>4, <2>5 DEF Mail!Fault
<1>8. ASSUME NEW m \in Letters, Send(m)  PROVE Mail!Act(m)
  BY <1>8 DEF Send, Acts, Mail!Act
<1>9. ASSUME NEW l \in Logins, NEW m \in Letters, Notify(l, m)  PROVE Mail!Add(m)
  BY <1>9 DEF Notify, Acts, Mail!Add
<1>10. CASE Crash
  BY <1>10 DEF Crash
<1>11. CASE UNCHANGED vars
  BY <1>11 DEF vars
<1> QED
  BY <1>1, <1>2, <1>3, <1>4, <1>5, <1>6, <1>7, <1>8, <1>9, <1>10, <1>11
  DEF Next, LoginRun, LetterRun, Mail!Next

\* The same for sign-ins, whose work is to add a letter.
LEMMA NoticeStep == IInv /\ [Next]_vars => [Notice!Next]_(Notice!vars)
<1> SUFFICES ASSUME IInv, [Next]_vars  PROVE [Notice!Next]_(Notice!vars)
  OBVIOUS
<1> USE JobsAssumption, AttemptsAssumption, StallsAssumption
    DEF Jobs, IInv, Typed, RunInv, ActsInv, Faults, States, Steps, Abstract,
        Notice!vars, Patience
<1>1. ASSUME NEW l \in Logins, AddLogin(l)  PROVE Notice!Add(l)
  BY <1>1 DEF AddLogin, Notice!Add
<1>2. CASE \E m \in Letters : AddLetter(m)
  BY <1>2 DEF AddLetter
<1>3. ASSUME NEW j \in Jobs, Take(j) \/ Retry(j)  PROVE UNCHANGED Notice!vars
  BY <1>3 DEF Take, Retry
<1>4. ASSUME NEW m \in Letters, Complete(m) \/ Throw(m) \/ CheckStalled(m) \/ Send(m)
      PROVE  UNCHANGED Notice!vars
  BY <1>4 DEF Complete, Throw, CheckStalled, Send, Acts
<1>5. ASSUME NEW l \in Logins, Complete(l)  PROVE Notice!Settle(l)
  BY <1>5 DEF Complete, Notice!Settle
<1>6. ASSUME NEW l \in Logins, Throw(l)  PROVE Notice!Fault(l)
  <2>1. Abstract(state[l]) = "pending"
    BY <1>6 DEF Throw
  <2>2. [i \in Logins |-> Faults(i)]' = [[i \in Logins |-> Faults(i)] EXCEPT ![l] = @ + 1]
    <3>1. \A i \in Logins : tries[i] \in Nat /\ stalls[i] \in Nat
      OBVIOUS
    <3>2. \A i \in Logins : tries'[i] + stalls'[i] =
            IF i = l THEN tries[i] + stalls[i] + 1 ELSE tries[i] + stalls[i]
      BY <1>6, <3>1 DEF Throw
    <3> QED  BY <3>2
  <2>3. state'[l] = "failed" => [i \in Logins |-> Faults(i)]'[l] >= Patience
    BY <1>6 DEF Throw, AfterThrow
  <2>4. \/ [i \in Logins |-> Abstract(state[i])]' = [i \in Logins |-> Abstract(state[i])]
        \/ /\ state'[l] = "failed"
           /\ [i \in Logins |-> Abstract(state[i])]'
                = [[i \in Logins |-> Abstract(state[i])] EXCEPT ![l] = "lost"]
    BY <1>6 DEF Throw, AfterThrow
  <2>5. [i \in Logins |-> acts[i]]' = [i \in Logins |-> acts[i]]
    BY <1>6 DEF Throw
  <2> HIDE DEF Faults, Patience, Abstract, IInv, Typed, RunInv, ActsInv
  <2> QED  BY <2>1, <2>2, <2>3, <2>4, <2>5 DEF Notice!Fault
<1>7. ASSUME NEW l \in Logins, CheckStalled(l)  PROVE Notice!Fault(l)
  <2>1. Abstract(state[l]) = "pending"
    BY <1>7 DEF CheckStalled
  <2>2. [i \in Logins |-> Faults(i)]' = [[i \in Logins |-> Faults(i)] EXCEPT ![l] = @ + 1]
    <3>1. \A i \in Logins : tries[i] \in Nat /\ stalls[i] \in Nat
      OBVIOUS
    <3>2. \A i \in Logins : tries'[i] + stalls'[i] =
            IF i = l THEN tries[i] + stalls[i] + 1 ELSE tries[i] + stalls[i]
      BY <1>7, <3>1 DEF CheckStalled
    <3> QED  BY <3>2
  <2>3. state'[l] = "failed" => [i \in Logins |-> Faults(i)]'[l] >= Patience
    BY <1>7 DEF CheckStalled
  <2>4. \/ [i \in Logins |-> Abstract(state[i])]' = [i \in Logins |-> Abstract(state[i])]
        \/ /\ state'[l] = "failed"
           /\ [i \in Logins |-> Abstract(state[i])]'
                = [[i \in Logins |-> Abstract(state[i])] EXCEPT ![l] = "lost"]
    BY <1>7 DEF CheckStalled
  <2>5. [i \in Logins |-> acts[i]]' = [i \in Logins |-> acts[i]]
    BY <1>7 DEF CheckStalled
  <2> HIDE DEF Faults, Patience, Abstract, IInv, Typed, RunInv, ActsInv
  <2> QED  BY <2>1, <2>2, <2>3, <2>4, <2>5 DEF Notice!Fault
<1>8. ASSUME NEW l \in Logins, NEW m \in Letters, Notify(l, m)  PROVE Notice!Act(l)
  BY <1>8 DEF Notify, Acts, Notice!Act
<1>9. CASE Crash
  BY <1>9 DEF Crash
<1>10. CASE UNCHANGED vars
  BY <1>10 DEF vars
<1> QED
  BY <1>1, <1>2, <1>3, <1>4, <1>5, <1>6, <1>7, <1>8, <1>9, <1>10
  DEF Next, LoginRun, LetterRun, Notice!Next

\* Both queues keep the promise of Delivery: work is repeated only after a
\* fault, completed only when done, given up only after Patience faults.
THEOREM KeepsPromise == Spec => Promise
<1>1. Spec => Mail!Spec
  BY MailInit, MailStep, Invariance, PTL DEF Spec, Mail!Spec
<1>2. Spec => Notice!Spec
  BY NoticeInit, NoticeStep, Invariance, PTL DEF Spec, Notice!Spec
<1> QED  BY <1>1, <1>2 DEF Promise
-----------------------------------------------------------------------------
(* What the promise comes to                                               *)

\* For both queues and whatever their attempts and stalled limit.
THEOREM BothQueuesPay == Spec => [](Mail!WorkIsPaid /\ Notice!WorkIsPaid)
<1>1. ASSUME IInv, NEW j \in Jobs
      PROVE  /\ acts[j] <= Faults(j) + 1
             /\ Abstract(state[j]) = "done" => acts[j] > 0
             /\ Abstract(state[j]) = "lost" => Faults(j) >= Patience
  BY <1>1, AttemptsAssumption, StallsAssumption
  DEF IInv, Typed, RunInv, ActsInv, Faults, Patience, Abstract, States
<1>2. IInv => Mail!WorkIsPaid /\ Notice!WorkIsPaid
  BY <1>1 DEF Jobs, Mail!WorkIsPaid, Notice!WorkIsPaid
<1> QED  BY <1>2, Invariance, PTL
=============================================================================
