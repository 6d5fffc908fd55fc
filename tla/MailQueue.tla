----------------------------- MODULE MailQueue ------------------------------
(***************************************************************************)
(* The queues 'login' and 'mail' and their workers: LoginProcessor adds a  *)
(* letter to the mail queue for a sign-in, MailProcessor hands a letter to *)
(* SMTP.  Both handlers rethrow what they catch, so Bull runs a failed job *)
(* again after its backoff, Attempts runs in all; both queues are set up   *)
(* with the same attempts and backoff.  A @Process without a concurrency   *)
(* option is one worker per queue.                                         *)
(*                                                                         *)
(* SMTP and Redis may refuse, or take what they are given and fail to say  *)
(* so.  The process may crash: the jobs it was running stay active in      *)
(* Redis, and Bull gives a job found active without a live worker back to  *)
(* the queue, MaxStalls times.                                             *)
(*                                                                         *)
(* sendGenericLoginInfo translates its subject with I18nContext.current(), *)
(* which is undefined outside a request: a sign-in about which nothing is  *)
(* known fails in every run of its job.                                    *)
(***************************************************************************)
EXTENDS Naturals, FiniteSets

CONSTANTS Logins,       \* jobs of the queue 'login', one for each sign-in
          Letters,      \* jobs of the queue 'mail'
          Nobody,       \* a letter no sign-in caused
          Attempts,     \* mailQueueMaxAttempts, 3 in settings/config
          MaxStalls,    \* Bull's maxStalledCount, 1 by default
          MaxCrashes    \* bound of the model: crashes of the process

ASSUME JobsAssumption == Logins \cap Letters = {}
ASSUME NobodyAssumption == Nobody \notin Logins
ASSUME AttemptsAssumption == Attempts \in Nat \ {0}
ASSUME StallsAssumption == MaxStalls \in Nat
ASSUME CrashesAssumption == MaxCrashes \in Nat

VARIABLES state,    \* of each job in its queue
          step,     \* of the run of an active job
          tries,    \* attemptsMade: its runs that failed
          stalls,   \* stalledCounter: its runs that died with the process
          acts,     \* mails SMTP took, or letters added, in its runs
          unknown,  \* the sign-ins of which neither place nor browser is known
          from,     \* the sign-in that a letter reports, or Nobody
          crashes

vars == <<state, step, tries, stalls, acts, unknown, from, crashes>>

Jobs == Logins \union Letters
States == {"none", "waiting", "active", "delayed", "completed", "failed"}
Steps == {"idle", "begun", "acted", "orphaned"}
Over(j) == state[j] \in {"completed", "failed"}

TypeOK ==
  /\ state \in [Jobs -> States]
  /\ step \in [Jobs -> Steps]
  /\ tries \in [Jobs -> 0..Attempts]
  /\ stalls \in [Jobs -> 0..MaxStalls + 1]
  /\ acts \in [Jobs -> 0..Attempts + MaxStalls]
  /\ unknown \in SUBSET Logins
  /\ from \in [Letters -> Logins \union {Nobody}]
  /\ crashes \in 0..MaxCrashes
  /\ \A j \in Jobs : step[j] = "idle" <=> state[j] # "active"

Init ==
  /\ state = [j \in Jobs |-> "none"]
  /\ step = [j \in Jobs |-> "idle"]
  /\ tries = [j \in Jobs |-> 0]
  /\ stalls = [j \in Jobs |-> 0]
  /\ acts = [j \in Jobs |-> 0]
  /\ unknown = {}
  /\ from = [m \in Letters |-> Nobody]
  /\ crashes = 0

-----------------------------------------------------------------------------
(* Adding jobs                                                             *)

\* A sign-in adds its job.  The address and the browser it came with say
\* something about it or nothing.
AddLogin(l) ==
  /\ state[l] = "none"
  /\ state' = [state EXCEPT ![l] = "waiting"]
  /\ unknown' \in {unknown, unknown \union {l}}
  /\ UNCHANGED <<step, tries, stalls, acts, from, crashes>>

\* Any other method of MailerService renders a letter and adds it; which
\* one it is, and what the letter says, makes no difference to the queue.
AddLetter(m) ==
  /\ state[m] = "none"
  /\ state' = [state EXCEPT ![m] = "waiting"]
  /\ UNCHANGED <<step, tries, stalls, acts, unknown, from, crashes>>

-----------------------------------------------------------------------------
(* Bull: a run of a handler, its end, its repetition                       *)

Queue(j) == IF j \in Logins THEN Logins ELSE Letters

\* The worker of the queue has a run of another job in hand.
Busy(j) == \E i \in Queue(j) : step[i] \in {"begun", "acted"}

Take(j) ==
  /\ state[j] = "waiting"
  /\ ~Busy(j)
  /\ state' = [state EXCEPT ![j] = "active"]
  /\ step' = [step EXCEPT ![j] = "begun"]
  /\ UNCHANGED <<tries, stalls, acts, unknown, from, crashes>>

Complete(j) ==
  /\ step[j] = "acted"
  /\ state' = [state EXCEPT ![j] = "completed"]
  /\ step' = [step EXCEPT ![j] = "idle"]
  /\ UNCHANGED <<tries, stalls, acts, unknown, from, crashes>>

\* Mutant: the handler logs the error and returns.
AfterThrow_Swallowed(j) == "completed"

AfterThrow(j) == IF tries'[j] < Attempts THEN "delayed" ELSE "failed"

\* Mutant: failed runs are not counted.
Throw_Uncounted(j) ==
  /\ step[j] \in {"begun", "acted"}
  /\ state' = [state EXCEPT ![j] = "delayed"]
  /\ step' = [step EXCEPT ![j] = "idle"]
  /\ UNCHANGED <<tries, stalls, acts, unknown, from, crashes>>

\* The handler throws: nothing was taken, or what was taken was not
\* acknowledged.
Throw(j) ==
  /\ step[j] \in {"begun", "acted"}
  /\ tries' = [tries EXCEPT ![j] = @ + 1]
  /\ state' = [state EXCEPT ![j] = AfterThrow(j)]
  /\ step' = [step EXCEPT ![j] = "idle"]
  /\ UNCHANGED <<stalls, acts, unknown, from, crashes>>

\* The backoff is over.
Retry(j) ==
  /\ state[j] = "delayed"
  /\ state' = [state EXCEPT ![j] = "waiting"]
  /\ UNCHANGED <<step, tries, stalls, acts, unknown, from, crashes>>

Crash ==
  /\ crashes < MaxCrashes
  /\ crashes' = crashes + 1
  /\ step' = [j \in Jobs |-> IF state[j] = "active" THEN "orphaned" ELSE step[j]]
  /\ UNCHANGED <<state, tries, stalls, acts, unknown, from>>

\* The stalled check of the restarted process.
CheckStalled(j) ==
  /\ step[j] = "orphaned"
  /\ stalls' = [stalls EXCEPT ![j] = @ + 1]
  /\ state' = [state EXCEPT ![j] =
                 IF stalls'[j] <= MaxStalls THEN "waiting" ELSE "failed"]
  /\ step' = [step EXCEPT ![j] = "idle"]
  /\ UNCHANGED <<tries, acts, unknown, from, crashes>>

-----------------------------------------------------------------------------
(* The handlers                                                            *)

Acts(j) ==
  /\ step[j] = "begun"
  /\ step' = [step EXCEPT ![j] = "acted"]
  /\ acts' = [acts EXCEPT ![j] = @ + 1]
  /\ UNCHANGED <<tries, stalls, unknown, crashes>>

\* MailProcessor.sendMail: SMTP takes the mail.
Send(m) ==
  /\ Acts(m)
  /\ UNCHANGED <<state, from>>

\* Place or browser is known, so the detailed letter is written; the
\* generic one throws.
Known(l) == l \notin unknown

\* Mutant: the handler does not wait for the queue, which refuses.
Notify_NotAwaited(l, m) ==
  /\ Known(l)
  /\ Acts(l)
  /\ state[m] = "none"
  /\ UNCHANGED <<state, from>>

\* LoginProcessor.sendMail adds a letter to the mail queue.
Notify(l, m) ==
  /\ Known(l)
  /\ Acts(l)
  /\ state[m] = "none"
  /\ state' = [state EXCEPT ![m] = "waiting"]
  /\ from' = [from EXCEPT ![m] = l]

-----------------------------------------------------------------------------
LoginRun(l) == Complete(l) \/ Throw(l) \/ \E m \in Letters : Notify(l, m)

LetterRun(m) == Complete(m) \/ Throw(m) \/ Send(m)

Next ==
  \/ \E l \in Logins : AddLogin(l) \/ LoginRun(l)
  \/ \E m \in Letters : AddLetter(m) \/ LetterRun(m)
  \/ \E j \in Jobs : Take(j) \/ Retry(j) \/ CheckStalled(j)
  \/ Crash

Spec == Init /\ [][Next]_vars

\* Nobody has to sign in or write a letter.  Bull hands out what waits,
\* promotes what is delayed and looks for stalled jobs by its timers; a run
\* ends because SMTP and Redis answer or time out.
FairSpec ==
  /\ Spec
  /\ \A j \in Jobs : WF_vars(Take(j)) /\ WF_vars(Retry(j)) /\ WF_vars(CheckStalled(j))
  /\ \A l \in Logins : WF_vars(LoginRun(l))
  /\ \A m \in Letters : WF_vars(LetterRun(m))

-----------------------------------------------------------------------------
(* Properties                                                              *)

Abstract(s) ==
  CASE s = "none" -> "none"
    [] s \in {"waiting", "active", "delayed"} -> "pending"
    [] s = "completed" -> "done"
    [] s = "failed" -> "lost"

Faults(j) == tries[j] + stalls[j]
Patience == IF MaxStalls < Attempts THEN MaxStalls + 1 ELSE Attempts

Mail == INSTANCE Delivery WITH
  Jobs <- Letters,
  state <- [m \in Letters |-> Abstract(state[m])],
  faults <- [m \in Letters |-> Faults(m)],
  acts <- [m \in Letters |-> acts[m]]

Notice == INSTANCE Delivery WITH
  Jobs <- Logins,
  state <- [l \in Logins |-> Abstract(state[l])],
  faults <- [l \in Logins |-> Faults(l)],
  acts <- [l \in Logins |-> acts[l]]

\* A letter counts as sent only after SMTP has taken it, SMTP gets it once
\* more only after a run of its own failed or died, and it is given up only
\* after as many such faults as the queue is set up to bear; the same holds
\* for the letters that the job of a sign-in adds.
Promise == Mail!Spec /\ Notice!Spec

\* Whatever fails, every job that was added is completed or given up.
JobsEnd == \A j \in Jobs : state[j] = "waiting" ~> Over(j)

\* A sign-in that is known by place or browser is followed by a mail, unless
\* its job, or every letter it has added, was given up after the faults that
\* takes.
LoginIsMailed ==
  \A l \in Logins :
    state[l] = "waiting" ~>
      \/ \E m \in Letters : from[m] = l /\ acts[m] > 0
      \/ state[l] = "failed"
      \/ /\ \E m \in Letters : from[m] = l
         /\ \A m \in Letters : from[m] = l => state[m] = "failed"
=============================================================================
