---------------------------- MODULE AdModeration ----------------------------
(***************************************************************************)
(* Moderation of advertisements: AdvertisementService.create, the Bull     *)
(* queue 'advertisement', ModerationProcessor.checkText and the BannedWord *)
(* table it reads.                                                         *)
(*                                                                         *)
(* A create request inserts the row and adds the moderation job inside one *)
(* Prisma transaction, so the job is in Redis before the row is visible,   *)
(* and stays there when the transaction rolls back.  One worker (a         *)
(* @Process without a concurrency option) runs the handler; the handler    *)
(* catches whatever it meets, so a run always completes the job and the    *)
(* job's "attempts: 3" is never used.  The process may crash: transactions *)
(* in flight roll back, Redis keeps its jobs, and Bull gives a job found   *)
(* active without a live worker back to the queue, MaxStalls times.        *)
(*                                                                         *)
(* update, remove and findOne of AdvertisementService never change a row:  *)
(* checkAdvertisement throws whenever the row was found.                   *)
(* One advertisement id stands for one create request and its one job.     *)
(***************************************************************************)
EXTENDS AdLifecycle, Naturals

CONSTANTS NoAd,             \* the worker is idle
          NullWord,         \* "null": a missing description, concatenated
          MaxStalls,        \* Bull's maxStalledCount, 1 by default
          MaxCrashes        \* bound of the model: crashes of the process

ASSUME NoAdAssumption == NoAd \notin Ads
ASSUME NullWordAssumption == NullWord \in Words
ASSUME StallsAssumption == MaxStalls \in Nat
ASSUME CrashesAssumption == MaxCrashes \in Nat

VARIABLES req,      \* the create request of each advertisement
          job,      \* its job in the queue 'advertisement'
          stalls,   \* how often the job was given back after a crash
          mails,    \* rejection mails added to the queue 'mail' for it
          running,  \* the advertisement whose job the worker runs, or NoAd
          phase,    \* where the handler is
          seen,     \* the banned words the running handler has read
          faults,   \* why a run of the handler ended without a verdict
          crashes

modVars == <<req, job, stalls, mails, running, phase, seen, faults, crashes>>
vars == <<lifeVars, modVars>>

ReqStates == {"idle", "inserted", "enqueued", "done", "failed"}
JobStates == {"none", "waiting", "active", "completed", "failed"}
Phases    == {"idle", "reading", "judging", "mailed", "finished"}
Faults    == {"unseenRow", "error", "crash"}
Over(a)   == job[a] \in {"completed", "failed"}

TypeOK ==
  /\ LifeTypeOK
  /\ req \in [Ads -> ReqStates]
  /\ job \in [Ads -> JobStates]
  /\ stalls \in [Ads -> 0..MaxStalls]
  /\ mails \in [Ads -> Nat]
  /\ running \in Ads \union {NoAd}
  /\ phase \in Phases
  /\ seen \in SUBSET Words
  /\ faults \in [Ads -> SUBSET Faults]
  /\ crashes \in 0..MaxCrashes

Init ==
  /\ LifeInit
  /\ req = [a \in Ads |-> "idle"]
  /\ job = [a \in Ads |-> "none"]
  /\ stalls = [a \in Ads |-> 0]
  /\ mails = [a \in Ads |-> 0]
  /\ running = NoAd
  /\ phase = "idle"
  /\ seen = {}
  /\ faults = [a \in Ads |-> {}]
  /\ crashes = 0

-----------------------------------------------------------------------------
(* AdvertisementService.create                                             *)

\* The text that will be split into words: title + ' ' + description, where
\* a description that was not given reads "null".
AdText(title, description, given) ==
  title \union (IF given THEN description ELSE {NullWord})

\* The checks pass, the transaction opens and inserts the row: not visible
\* to anyone yet.  The moderation job will carry this text.
Insert(a) ==
  /\ req[a] = "idle"
  /\ req' = [req EXCEPT ![a] = "inserted"]
  /\ \E title, description \in SUBSET Words, given \in BOOLEAN :
       Submitted(a, AdText(title, description, given))
  /\ UNCHANGED <<job, stalls, mails, running, phase, seen, faults, crashes>>

\* Mutant: the queue's refusal of the job goes unnoticed.
AddToQueue_Skipped(a) ==
  /\ req' = [req EXCEPT ![a] = "enqueued"]
  /\ UNCHANGED job

AddToQueue(a) ==
  /\ req' = [req EXCEPT ![a] = "enqueued"]
  /\ job' = [job EXCEPT ![a] = "waiting"]

Enqueue(a) ==
  /\ req[a] = "inserted"
  /\ AddToQueue(a)
  /\ UNCHANGED <<lifeVars, stalls, mails, running, phase, seen, faults, crashes>>

Commit(a) ==
  /\ req[a] = "enqueued"
  /\ req' = [req EXCEPT ![a] = "done"]
  /\ row' = [row EXCEPT ![a] = "onModeration"]
  /\ UNCHANGED <<text, banned, lists>>
  /\ UNCHANGED <<job, stalls, mails, running, phase, seen, faults, crashes>>

\* The queue refuses the job, the transaction times out or the commit
\* fails: the row is rolled back, a job already added is not.
Rollback(a) ==
  /\ req[a] \in {"inserted", "enqueued"}
  /\ req' = [req EXCEPT ![a] = "failed"]
  /\ UNCHANGED <<lifeVars, job, stalls, mails, running, phase, seen, faults, crashes>>

-----------------------------------------------------------------------------
(* The queue and ModerationProcessor.checkText                             *)

StartJob(a) ==
  /\ running = NoAd
  /\ job[a] = "waiting"
  /\ job' = [job EXCEPT ![a] = "active"]
  /\ running' = a
  /\ phase' = "reading"
  /\ UNCHANGED <<lifeVars, req, stalls, mails, seen, faults, crashes>>

\* getBannedWords
ReadBannedWords ==
  /\ phase = "reading"
  /\ phase' = "judging"
  /\ seen' = banned
  /\ UNCHANGED <<lifeVars, req, job, stalls, mails, running, faults, crashes>>

\* Mutant: the words of the text are looked up as they were typed.
IsWordBanned_TextCase(a) == \E w \in text[a] \intersect LongWords :
                              \E b \in seen : Lower[b] = w

IsWordBanned(a) == Hit(text[a], seen)

\* Mutant: a rejection that never tells the owner.
SendStatus_Forgotten(a) == mails' = mails

SendStatus(a) == mails' = [mails EXCEPT ![a] = @ + 1]

\* updateAdvertisementStatus finds the row: another transaction's insert is
\* visible only once committed.
RowFound(a) == row[a] # "absent"

\* Mutant: the approving transaction is not awaited, and lost.
WriteStatus_Lost(a, status) ==
  row' = IF status = "active" THEN row ELSE [row EXCEPT ![a] = status]

WriteStatus(a, status) == row' = [row EXCEPT ![a] = status]

\* processAdvertisementIfApproved: one update in a transaction of its own.
Approve ==
  /\ phase = "judging"
  /\ ~ IsWordBanned(running)
  /\ RowFound(running)
  /\ WriteStatus(running, "active")
  /\ phase' = "finished"
  /\ UNCHANGED <<text, banned, lists>>
  /\ UNCHANGED <<req, job, stalls, mails, running, seen, faults, crashes>>

\* rejectAdvertisement: the update is followed by the mail, and the commit
\* comes after both.
RejectAndMail ==
  /\ phase = "judging"
  /\ IsWordBanned(running)
  /\ RowFound(running)
  /\ SendStatus(running)
  /\ phase' = "mailed"
  /\ UNCHANGED <<lifeVars, req, job, stalls, running, seen, faults, crashes>>

CommitRejection ==
  /\ phase = "mailed"
  /\ WriteStatus(running, "moderationRejected")
  /\ phase' = "finished"
  /\ UNCHANGED <<text, banned, lists>>
  /\ UNCHANGED <<req, job, stalls, mails, running, seen, faults, crashes>>

\* The catch block logs, and the handler returns as if it had succeeded.
Swallow(a, fault) ==
  /\ phase' = "finished"
  /\ faults' = [faults EXCEPT ![a] = @ \union {fault}]

\* The update of either transaction finds no row (P2025): caught, logged.
RowMissing ==
  /\ phase = "judging"
  /\ ~ RowFound(running)
  /\ Swallow(running, "unseenRow")
  /\ UNCHANGED <<lifeVars, req, job, stalls, mails, running, seen, crashes>>

\* Any call of the handler fails (database, mail queue, transaction timeout):
\* its transaction rolls back and the catch block swallows the error.
HandlerError ==
  /\ phase \in {"reading", "judging", "mailed"}
  /\ Swallow(running, "error")
  /\ UNCHANGED <<lifeVars, req, job, stalls, mails, running, seen, crashes>>

\* Mutant: the handler throws after its transaction has committed, and Bull
\* tries the job again.
Outcome_Retried == "waiting"

\* The handler has returned without an error, whatever happened in it.
Outcome == "completed"

FinishJob ==
  /\ phase = "finished"
  /\ job' = [job EXCEPT ![running] = Outcome]
  /\ running' = NoAd
  /\ phase' = "idle"
  /\ seen' = {}
  /\ UNCHANGED <<lifeVars, req, stalls, mails, faults, crashes>>

\* The process dies and is started again.
Crash ==
  /\ crashes < MaxCrashes
  /\ crashes' = crashes + 1
  /\ req' = [a \in Ads |->
               IF req[a] \in {"inserted", "enqueued"} THEN "failed" ELSE req[a]]
  /\ faults' = [a \in Ads |->
                  IF a = running THEN faults[a] \union {"crash"} ELSE faults[a]]
  /\ running' = NoAd
  /\ phase' = "idle"
  /\ seen' = {}
  /\ UNCHANGED <<lifeVars, job, stalls, mails>>

MayGiveBack(a) == stalls[a] < MaxStalls

\* Bull's stalled check: a job that is active while no worker holds it goes
\* back to the queue, or fails once it has done so MaxStalls times.
GiveBack(a) ==
  /\ job[a] = "active"
  /\ running # a
  /\ MayGiveBack(a)
  /\ job' = [job EXCEPT ![a] = "waiting"]
  /\ stalls' = [stalls EXCEPT ![a] = @ + 1]
  /\ UNCHANGED <<lifeVars, req, mails, running, phase, seen, faults, crashes>>

GiveUp(a) ==
  /\ job[a] = "active"
  /\ running # a
  /\ ~ MayGiveBack(a)
  /\ job' = [job EXCEPT ![a] = "failed"]
  /\ UNCHANGED <<lifeVars, req, stalls, mails, running, phase, seen, faults, crashes>>

-----------------------------------------------------------------------------
(* BannedWordService.  The look-up before the write adds nothing to the    *)
(* unique index on word: either way a duplicate is refused.                *)

CreateBannedWord(w) ==
  /\ w \notin banned
  /\ ListChanged(banned \union {w})
  /\ UNCHANGED modVars

\* The new word may differ from the old one in case only.
UpdateBannedWord(w, v) ==
  /\ w \in banned
  /\ v \notin banned
  /\ ListChanged((banned \ {w}) \union {v})
  /\ UNCHANGED modVars

RemoveBannedWord(w) ==
  /\ w \in banned
  /\ ListChanged(banned \ {w})
  /\ UNCHANGED modVars

-----------------------------------------------------------------------------

Handler == \/ ReadBannedWords \/ Approve \/ RejectAndMail \/ CommitRejection
           \/ RowMissing \/ HandlerError \/ FinishJob

Next ==
  \/ \E a \in Ads : \/ Insert(a) \/ Enqueue(a) \/ Commit(a) \/ Rollback(a)
                    \/ StartJob(a) \/ GiveBack(a) \/ GiveUp(a)
  \/ Handler
  \/ Crash
  \/ \E w \in Words : \/ CreateBannedWord(w) \/ RemoveBannedWord(w)
                      \/ \E v \in Words : UpdateBannedWord(w, v)

Spec == Init /\ [][Next]_vars

\* The transaction of a request ends (Prisma gives it five seconds), the
\* worker takes jobs and finishes them, the stalled check runs on a timer.
\* Nobody has to submit anything or to touch the banned words.
FairSpec ==
  /\ Spec
  /\ \A a \in Ads : /\ WF_vars(Commit(a) \/ Rollback(a))
                    /\ WF_vars(GiveBack(a) \/ GiveUp(a))
  /\ WF_vars(\E a \in Ads : StartJob(a))
  /\ WF_vars(Handler)

-----------------------------------------------------------------------------
(* Properties                                                              *)

\* The banned-word promise of AdLifecycle: a verdict is the judgement of the
\* submitted text by a list that was current after the submission, although
\* the handler works on a list it read earlier and on a redelivered job.
Promise == LifeSpec

\* The job is added before the commit, so a row that anybody can see always
\* has its job: no crash between the two leaves an advertisement behind
\* that nothing will ever moderate.
VisibleRowHasJob == \A a \in Ads : row[a] # "absent" => job[a] # "none"

\* sendAdModerationStatus runs inside the rejecting transaction: whoever
\* sees a rejected row, the mail is already in the queue.
RejectedIsMailed ==
  \A a \in Ads : row[a] = "moderationRejected" => mails[a] > 0

\* A job whose request was rolled back is still in the queue and still run,
\* but it cannot mail anyone: updateAdvertisementStatus fails first.
GhostJobIsMute == \A a \in Ads : row[a] = "absent" => mails[a] = 0

\* The owner is mailed at most once per delivery of the job: once, and once
\* more for every time Bull gave the job back.
MailsBounded == \A a \in Ads : mails[a] <= stalls[a] + 1

\* The mails follow the verdicts, in all three ways.
OwnersAreMailed == RejectedIsMailed /\ GhostJobIsMute /\ MailsBounded

\* The handler gives up silently, but never for nothing: a job that is over
\* while its row still waits for moderation met a crash, an error, or ran
\* before the commit of the request that queued it.
UndecidedHasFault ==
  \A a \in Ads : Over(a) /\ row[a] = "onModeration" => faults[a] # {}

\* A verdict is final unless Bull redelivers the job: nothing but a second
\* run of the handler overturns it.
VerdictOverturned(a) == row[a] \in Verdicts /\ row'[a] # row[a]

VerdictIsFinal ==
  [][\A a \in Ads : VerdictOverturned(a) => stalls[a] > 0]_vars

\* Every job leaves the queue: the worker is never blocked for good, neither
\* by a job of a rolled-back request nor by the one it died with.
JobsEnd == \A a \in Ads : (job[a] = "waiting") ~> Over(a)
=============================================================================
