------------------------ MODULE AdModerationProofs --------------------------
(***************************************************************************)
(* Proofs about AdModeration, for any number of advertisements and words,  *)
(* any lower-casing function and any number of crashes.                    *)
(*                                                                         *)
(* None of the safety properties is inductive: each speaks of rows and     *)
(* mails, and what keeps it true is where the request, the job and the     *)
(* worker are.  IInv says how these hang together.                         *)
(***************************************************************************)
EXTENDS AdModeration, TLAPS

\* A row is visible exactly when its request has committed; the job is there
\* from the moment it was added, and never for a text not submitted.
RequestInv ==
  \A a \in Ads : /\ row[a] # "absent" <=> req[a] = "done"
                 /\ req[a] \in {"enqueued", "done"} => job[a] # "none"
                 /\ req[a] \in {"idle", "inserted"} => job[a] = "none"
                 /\ req[a] # "idle" => lists[a] # {}
                 /\ job[a] # "none" => lists[a] # {}

\* The list in force is one of those a submitted advertisement may be judged by.
ListsInv == \A a \in Ads : lists[a] # {} => banned \in lists[a]

\* The one worker holds an active job, and judges it by a list read since the
\* submission; past the mail, the row was found and the text hit that list.
WorkerInv ==
  /\ running = NoAd <=> phase = "idle"
  /\ running # NoAd => job[running] = "active"
  /\ phase \in {"judging", "mailed"} => seen \in lists[running]
  /\ phase = "mailed" => /\ row[running] # "absent"
                         /\ mails[running] > 0
                         /\ Hit(text[running], seen)

\* Is the handler still to decide, or to mail, in its current run of a's job?
BeforeMail(a) == running = a /\ phase \in {"reading", "judging"}
InRun(a)      == running = a /\ phase \in {"reading", "judging", "mailed"}

\* One mail per delivery: as long as this delivery has not mailed, there is
\* one mail less.
MailsInv ==
  \A a \in Ads : /\ mails[a] <= stalls[a] + 1
                 /\ job[a] \in {"none", "waiting"} => mails[a] <= stalls[a]
                 /\ BeforeMail(a) => mails[a] <= stalls[a]

\* A run that is behind us, finished or cut off by a crash, left a verdict or
\* a fault.
RunIsOver(a) == Over(a) \/ (job[a] = "active" /\ ~ InRun(a))
OutcomeInv   == \A a \in Ads : RunIsOver(a) => row[a] \in Verdicts \/ faults[a] # {}

\* A verdict reached on the first delivery leaves no run to overturn it.
FirstVerdictInv ==
  \A a \in Ads : row[a] \in Verdicts /\ stalls[a] = 0 => RunIsOver(a)

IInv ==
  /\ TypeOK
  /\ RequestInv
  /\ ListsInv
  /\ WorkerInv
  /\ MailsInv
  /\ RejectedIsMailed
  /\ GhostJobIsMute
  /\ OutcomeInv
  /\ FirstVerdictInv

-----------------------------------------------------------------------------

LEMMA InitInv == Init => IInv
  BY NoAdAssumption, StallsAssumption, CrashesAssumption
  DEF Init, LifeInit, IInv, TypeOK, LifeTypeOK, Statuses, Verdicts, ReqStates,
      JobStates, Phases, Faults, RequestInv, ListsInv, WorkerInv, MailsInv,
      BeforeMail, RejectedIsMailed, GhostJobIsMute, OutcomeInv, RunIsOver,
      InRun, Over, FirstVerdictInv

\* The types survive every step.
LEMMA TypeStep == TypeOK /\ [Next]_vars => TypeOK'
  <1> SUFFICES ASSUME TypeOK, [Next]_vars PROVE TypeOK'
    OBVIOUS
  <1> USE NoAdAssumption, StallsAssumption, CrashesAssumption, NullWordAssumption
      DEF TypeOK, LifeTypeOK, Statuses, Verdicts, ReqStates, JobStates, Phases, Faults
  <1>1. ASSUME NEW a \in Ads, Insert(a) PROVE TypeOK'
    BY <1>1 DEF Insert, Submitted, AdText
  <1>2. ASSUME NEW a \in Ads, Enqueue(a) PROVE TypeOK'
    BY <1>2 DEF Enqueue, AddToQueue, lifeVars
  <1>3. ASSUME NEW a \in Ads, Commit(a) PROVE TypeOK'
    BY <1>3 DEF Commit
  <1>4. ASSUME NEW a \in Ads, Rollback(a) PROVE TypeOK'
    BY <1>4 DEF Rollback, lifeVars
  <1>5. ASSUME NEW a \in Ads, StartJob(a) PROVE TypeOK'
    BY <1>5 DEF StartJob, lifeVars
  <1>6. ASSUME NEW a \in Ads, GiveBack(a) PROVE TypeOK'
    BY <1>6 DEF GiveBack, MayGiveBack, lifeVars
  <1>7. ASSUME NEW a \in Ads, GiveUp(a) PROVE TypeOK'
    BY <1>7 DEF GiveUp, lifeVars
  <1>8. CASE ReadBannedWords
    BY <1>8 DEF ReadBannedWords, lifeVars
  <1>9. CASE Approve
    BY <1>9 DEF Approve, WriteStatus, RowFound
  <1>10. CASE RejectAndMail
    <2>1. mails' = [mails EXCEPT ![running] = @ + 1]
      BY <1>10 DEF RejectAndMail, SendStatus
    <2>2. mails' = [a \in Ads |-> IF a = running THEN mails[a] + 1 ELSE mails[a]]
      BY <2>1
    <2>3. \A a \in Ads : mails[a] \in Nat /\ mails[a] + 1 \in Nat
      OBVIOUS
    <2>4. mails' \in [Ads -> Nat]
      BY <2>2, <2>3
    <2>5. QED
      BY <1>10, <2>4 DEF RejectAndMail, lifeVars
  <1>11. CASE CommitRejection
    BY <1>11 DEF CommitRejection, WriteStatus
  <1>12. CASE RowMissing
    BY <1>12 DEF RowMissing, Swallow, lifeVars, RowFound
  <1>13. CASE HandlerError
    BY <1>13 DEF HandlerError, Swallow, lifeVars
  <1>14. CASE FinishJob
    BY <1>14 DEF FinishJob, Outcome, lifeVars
  <1>15. CASE Crash
    BY <1>15 DEF Crash, lifeVars
  <1>16. ASSUME NEW w \in Words, CreateBannedWord(w) PROVE TypeOK'
    BY <1>16 DEF CreateBannedWord, ListChanged, modVars
  <1>17. ASSUME NEW w \in Words, RemoveBannedWord(w) PROVE TypeOK'
    BY <1>17 DEF RemoveBannedWord, ListChanged, modVars
  <1>18. ASSUME NEW w \in Words, NEW v \in Words, UpdateBannedWord(w, v) PROVE TypeOK'
    BY <1>18 DEF UpdateBannedWord, ListChanged, modVars
  <1>19. CASE UNCHANGED vars
    BY <1>19 DEF vars, lifeVars, modVars
  <1>20. QED
    BY <1>1, <1>2, <1>3, <1>4, <1>5, <1>6, <1>7, <1>8, <1>9, <1>10, <1>11, <1>12, <1>13, <1>14, <1>15, <1>16, <1>17, <1>18, <1>19 DEF Next, Handler

\* The rest of IInv survives every step.
LEMMA StateStep == IInv /\ TypeOK' /\ [Next]_vars => IInv'
  <1> SUFFICES ASSUME IInv, TypeOK', [Next]_vars PROVE IInv'
    OBVIOUS
  <1> USE NoAdAssumption, StallsAssumption
      DEF IInv, TypeOK, LifeTypeOK, Statuses, Verdicts, ReqStates, JobStates,
          Phases, Faults, lifeVars, modVars
  <1> USE DEF RequestInv, ListsInv, WorkerInv, MailsInv, BeforeMail,
          RejectedIsMailed, GhostJobIsMute, OutcomeInv, RunIsOver, InRun, Over,
          FirstVerdictInv
  <1>1. ASSUME NEW x \in Ads, Insert(x) PROVE IInv'
    \* A new text is not the one in the worker's hands: that one has lists.
    <2>1. PICK t \in SUBSET Words : Submitted(x, t)
      BY <1>1, NullWordAssumption DEF Insert, AdText
    <2>2. running # x
      BY <2>1 DEF Submitted
    <2>3. \A a \in Ads : a # x => text'[a] = text[a] /\ lists'[a] = lists[a]
      BY <2>1 DEF Submitted
    <2>4. lists'[x] = {banned} /\ UNCHANGED <<row, banned>>
      BY <2>1 DEF Submitted
    <2>5. WorkerInv'
      BY <1>1, <2>2, <2>3, <2>4 DEF Insert, Hit
    <2>6. RequestInv'
      <3>1. req[x] = "idle" /\ req' = [req EXCEPT ![x] = "inserted"] /\ job' = job
        BY <1>1 DEF Insert
      <3>2. \A a \in Ads : lists[a] # {} => lists'[a] # {}
        BY <2>3, <2>4
      <3>3. lists'[x] # {}
        BY <2>4
      <3>4. row' = row
        BY <2>4
      <3>5. ASSUME NEW a \in Ads
            PROVE  /\ row'[a] # "absent" <=> req'[a] = "done"
                   /\ req'[a] \in {"enqueued", "done"} => job'[a] # "none"
                   /\ req'[a] \in {"idle", "inserted"} => job'[a] = "none"
                   /\ req'[a] # "idle" => lists'[a] # {}
                   /\ job'[a] # "none" => lists'[a] # {}
        BY <3>1, <3>2, <3>3, <3>4
      <3>6. QED
        BY <3>5
    <2>7. ListsInv'
      <3> SUFFICES ASSUME NEW a \in Ads, lists'[a] # {} PROVE banned' \in lists'[a]
        OBVIOUS
      <3>1. CASE a = x
        BY <2>4, <3>1
      <3>2. CASE a # x
        BY <2>3, <2>4, <3>2
      <3>3. QED
        BY <3>1, <3>2
    <2>8. QED
      BY <1>1, <2>4, <2>5, <2>6, <2>7 DEF Insert
  <1>2. ASSUME NEW x \in Ads, Enqueue(x) PROVE IInv'
    \* The row is not visible yet, so nothing was mailed for it.
    <2>1. row[x] = "absent" /\ mails[x] = 0 /\ lists[x] # {} /\ running # x
      BY <1>2 DEF Enqueue
    <2>2. RequestInv' /\ ListsInv' /\ WorkerInv'
      BY <1>2, <2>1 DEF Enqueue, AddToQueue
    <2>3. MailsInv' /\ RejectedIsMailed' /\ GhostJobIsMute'
      BY <1>2, <2>1 DEF Enqueue, AddToQueue
    <2>4. OutcomeInv' /\ FirstVerdictInv'
      BY <1>2, <2>1 DEF Enqueue, AddToQueue
    <2>5. QED
      BY <2>2, <2>3, <2>4
  <1>3. ASSUME NEW x \in Ads, Commit(x) PROVE IInv'
    BY <1>3 DEF Commit
  <1>4. ASSUME NEW x \in Ads, Rollback(x) PROVE IInv'
    BY <1>4 DEF Rollback
  <1>5. ASSUME NEW x \in Ads, StartJob(x) PROVE IInv'
    BY <1>5 DEF StartJob
  <1>6. ASSUME NEW x \in Ads, GiveBack(x) PROVE IInv'
    BY <1>6 DEF GiveBack, MayGiveBack
  <1>7. ASSUME NEW x \in Ads, GiveUp(x) PROVE IInv'
    BY <1>7 DEF GiveUp
  <1>8. CASE ReadBannedWords
    BY <1>8 DEF ReadBannedWords
  <1>9. CASE Approve
    BY <1>9 DEF Approve, WriteStatus, RowFound
  <1>10. CASE RejectAndMail
    BY <1>10 DEF RejectAndMail, SendStatus, RowFound, IsWordBanned
  <1>11. CASE CommitRejection
    BY <1>11 DEF CommitRejection, WriteStatus
  <1>12. CASE RowMissing
    BY <1>12 DEF RowMissing, Swallow
  <1>13. CASE HandlerError
    <2>1. /\ running \in Ads /\ phase \in {"reading", "judging", "mailed"}
          /\ phase' = "finished"
          /\ faults' = [faults EXCEPT ![running] = faults[running] \union {"error"}]
          /\ UNCHANGED <<lifeVars, req, job, stalls, mails, running, seen, crashes>>
      BY <1>13 DEF HandlerError, Swallow
    <2>2. TypeOK' /\ RequestInv' /\ ListsInv' /\ WorkerInv'
      BY <2>1
    <2>3. MailsInv' /\ RejectedIsMailed' /\ GhostJobIsMute'
      BY <2>1
    <2>4. OutcomeInv' /\ FirstVerdictInv'
      BY <2>1
    <2>5. QED
      BY <2>2, <2>3, <2>4
  <1>14. CASE FinishJob
    BY <1>14 DEF FinishJob, Outcome
  <1>15. CASE Crash
    BY <1>15 DEF Crash
  <1>16. ASSUME NEW w \in Words, CreateBannedWord(w) PROVE IInv'
    BY <1>16 DEF CreateBannedWord, ListChanged
  <1>17. ASSUME NEW w \in Words, RemoveBannedWord(w) PROVE IInv'
    BY <1>17 DEF RemoveBannedWord, ListChanged
  <1>18. ASSUME NEW w \in Words, NEW v \in Words, UpdateBannedWord(w, v) PROVE IInv'
    BY <1>18 DEF UpdateBannedWord, ListChanged
  <1>19. CASE UNCHANGED vars
    BY <1>19 DEF vars, Hit
  <1>20. QED
    BY <1>1, <1>2, <1>3, <1>4, <1>5, <1>6, <1>7, <1>8, <1>9, <1>10, <1>11, <1>12, <1>13, <1>14, <1>15, <1>16, <1>17, <1>18, <1>19 DEF Next, Handler

THEOREM SpecInv == Spec => []IInv
  <1>1. IInv /\ [Next]_vars => IInv'
    BY TypeStep, StateStep DEF IInv
  <1>2. QED
    BY InitInv, <1>1, PTL DEF Spec

-----------------------------------------------------------------------------

\* Every reachable state is well-typed.
THEOREM TypeCorrect == Spec => []TypeOK
  BY SpecInv, PTL DEF IInv

\* A visible row has its moderation job, whatever crashes and rollbacks there
\* were, because the job is added before the commit.
THEOREM EveryRowHasItsJob == Spec => []VisibleRowHasJob
  <1>1. IInv => VisibleRowHasJob
    BY DEF IInv, RequestInv, VisibleRowHasJob
  <1>2. QED
    BY SpecInv, <1>1, PTL

\* An owner whose advertisement is rejected has been mailed, nobody is mailed
\* for a row that was rolled back, and nobody more than once per delivery.
THEOREM Mails == Spec => []OwnersAreMailed
  <1>1. IInv => OwnersAreMailed
    BY DEF IInv, MailsInv, MailsBounded, OwnersAreMailed
  <1>2. QED
    BY SpecInv, <1>1, PTL

\* The handler leaves an advertisement undecided only after a fault.
THEOREM UndecidedOnlyByFault == Spec => []UndecidedHasFault
  <1>1. IInv => UndecidedHasFault
    BY DEF IInv, OutcomeInv, RunIsOver, UndecidedHasFault, Verdicts
  <1>2. QED
    BY SpecInv, <1>1, PTL

\* Only a redelivered job overturns a verdict.
THEOREM VerdictsAreFinal == Spec => VerdictIsFinal
  <1>1. ASSUME IInv, [Next]_vars
        PROVE  [\A a \in Ads : VerdictOverturned(a) => stalls[a] > 0]_vars
    <2> SUFFICES ASSUME Next, NEW a \in Ads, VerdictOverturned(a), stalls[a] = 0
                 PROVE  FALSE
      BY <1>1, StallsAssumption DEF IInv, TypeOK
    <2>1. RunIsOver(a)
      BY <1>1 DEF IInv, FirstVerdictInv, VerdictOverturned
    <2>2. ~ InRun(a)
      BY <1>1, <2>1, NoAdAssumption DEF RunIsOver, Over, InRun, IInv, WorkerInv
    <2>3. row[a] # "absent" /\ req[a] = "done" /\ row'[a] # row[a]
      BY <1>1 DEF IInv, RequestInv, VerdictOverturned, Verdicts
    <2>4. row \in [Ads -> Statuses] /\ running \in Ads \union {NoAd}
      BY <1>1 DEF IInv, TypeOK, LifeTypeOK
    <2>5. QED
      BY <2>2, <2>3, <2>4
      DEF Next, Handler, InRun, Insert, Submitted, Enqueue, Commit, Rollback,
          StartJob, GiveBack, GiveUp, ReadBannedWords, Approve, RejectAndMail,
          CommitRejection, WriteStatus, RowMissing, HandlerError, FinishJob,
          Crash, CreateBannedWord, RemoveBannedWord, UpdateBannedWord,
          ListChanged, lifeVars
  <1>2. QED
    BY SpecInv, <1>1, PTL DEF Spec, VerdictIsFinal

-----------------------------------------------------------------------------

\* Each step of AdModeration is a step of AdLifecycle, or leaves the rows, the
\* texts and the banned words alone.
LEMMA LifeStep == IInv /\ [Next]_vars => [LifeNext]_lifeVars
  <1> SUFFICES ASSUME IInv, [Next]_vars PROVE [LifeNext]_lifeVars
    OBVIOUS
  <1>1. ASSUME NEW a \in Ads, Insert(a) PROVE LifeNext
    BY <1>1, NullWordAssumption DEF Insert, AdText, LifeNext
  <1>2. ASSUME NEW a \in Ads, Commit(a) PROVE Published(a)
    BY <1>2 DEF Commit, Published, IInv, RequestInv, TypeOK, LifeTypeOK, Statuses,
                Verdicts
  <1>3. ASSUME Approve PROVE running \in Ads /\ Judged(running)
    <2>1. running \in Ads /\ row[running] # "absent" /\ seen \in lists[running]
      BY <1>3 DEF Approve, RowFound, IInv, WorkerInv, TypeOK
    <2>2. VerdictOf(text[running], seen) = "active"
      BY <1>3 DEF Approve, IsWordBanned, VerdictOf
    <2>3. QED
      BY <1>3, <2>1, <2>2 DEF Approve, WriteStatus, Judged
  <1>4. ASSUME CommitRejection PROVE running \in Ads /\ Judged(running)
    <2>1. running \in Ads /\ row[running] # "absent" /\ seen \in lists[running]
      BY <1>4 DEF CommitRejection, IInv, WorkerInv, TypeOK
    <2>2. VerdictOf(text[running], seen) = "moderationRejected"
      BY <1>4 DEF CommitRejection, IInv, WorkerInv, VerdictOf
    <2>3. QED
      BY <1>4, <2>1, <2>2 DEF CommitRejection, WriteStatus, Judged
  <1>5. ASSUME NEW w \in Words, NEW v \in Words,
               CreateBannedWord(w) \/ RemoveBannedWord(w) \/ UpdateBannedWord(w, v)
        PROVE  LifeNext
    <2>1. banned \in SUBSET Words
      BY DEF IInv, TypeOK, LifeTypeOK
    <2>2. QED
      BY <1>5, <2>1 DEF CreateBannedWord, RemoveBannedWord, UpdateBannedWord, LifeNext
  <1>6. QED
    BY <1>1, <1>2, <1>3, <1>4, <1>5
    DEF Next, Handler, LifeNext, vars, Enqueue, Rollback, StartJob, GiveBack,
        GiveUp, ReadBannedWords, RejectAndMail, RowMissing, HandlerError,
        FinishJob, Crash

\* AdModeration keeps the promise: a verdict is the judgement of the submitted
\* text by a banned list that was in force after the submission.
THEOREM KeepsPromise == Spec => Promise
  <1>1. Init => LifeInit
    BY DEF Init
  <1>2. QED
    BY <1>1, LifeStep, SpecInv, PTL DEF Spec, Promise, LifeSpec
-----------------------------------------------------------------------------
(* What the promise comes to                                               *)

LEMMA JustStays == LifeSpec => [](LifeTypeOK /\ VerdictsAreJust)
  <1>1. LifeInit => LifeTypeOK /\ VerdictsAreJust
    BY DEF LifeInit, LifeTypeOK, Statuses, Verdicts, VerdictsAreJust
  <1>2. LifeTypeOK /\ VerdictsAreJust /\ [LifeNext]_lifeVars => (LifeTypeOK /\ VerdictsAreJust)'
    BY DEF LifeTypeOK, Statuses, Verdicts, VerdictsAreJust, LifeNext, lifeVars, Submitted,
           Published, Judged, ListChanged, VerdictOf
  <1>3. QED
    BY <1>1, <1>2, PTL DEF LifeSpec

\* No redelivery, crash or change of the list leaves a verdict that no list
\* since the submission supports.
THEOREM JudgedRight == Spec => []VerdictsAreJust
  BY KeepsPromise, JustStays, PTL DEF Promise
=============================================================================
