----------------------------- MODULE EmailQueue -----------------------------
(* The e-mail queue: a job waits in Redis, a worker of the process takes it, *)
(* the processor asks SendGrid to send it and the queue files the result.    *)
(* The queue itself is Bull and outside of the repository; what it does with *)
(* the options the module registers is written from those options.  A job is *)
(* enqueued by nobody in the repository: it is here an input.                *)
(*                                                                           *)
(* SendGrid may accept a mail and the answer may still be an error, or never *)
(* come: no timeout is set for the client, so a call without an answer waits *)
(* for ever and keeps its job and one of the workers.  A lost lock is        *)
(* modelled by Restart only: a process that lives renews its locks.          *)
EXTENDS Naturals, FiniteSets

CONSTANTS Mails,           \* e-mails somebody wants sent
          Attempts,        \* defaultJobOptions.attempts
          MaxStalledCount, \* settings.maxStalledCount
          MaxRestarts      \* bound on the restarts of the process

ASSUME LimitsAssumption == /\ Attempts \in Nat \ {0}
                           /\ MaxStalledCount \in Nat
                           /\ MaxRestarts \in Nat

VARIABLES job,      \* per mail, its job in the queue
          call,     \* per mail, the call of sendOnboardingEmail, past the queue
          sending,  \* how far sgMail.send has come with it
          mailed,   \* the copies of it that SendGrid has accepted
          restarts

emailVars == <<job, call, sending, mailed, restarts>>

Names == {"html", "text", "other"}
Filings == {"none", "success", "error"}
States == {"none", "waiting", "active", "stalled", "delayed", "completed", "failed"}
Records == [name : Names, state : States, attemptsMade : Nat, stalledCount : Nat,
            returnvalue : Filings]

EmailTypeOK ==
  /\ job \in [Mails -> Records]
  /\ call \in [Mails -> {"none", "asked", "true", "false", "lost"}]
  /\ sending \in [Mails -> {"no", "asked", "accepted"}]
  /\ mailed \in [Mails -> Nat]
  /\ restarts \in 0 .. MaxRestarts

EmailInit ==
  /\ job = [m \in Mails |-> [name |-> "other", state |-> "none", attemptsMade |-> 0,
                             stalledCount |-> 0, returnvalue |-> "none"]]
  /\ call = [m \in Mails |-> "none"]
  /\ sending = [m \in Mails |-> "no"]
  /\ mailed = [m \in Mails |-> 0]
  /\ restarts = 0

(* @Process(SEND_HTML_EMAIL) and @Process(SEND_TEXT_EMAIL): each brings one  *)
(* worker, and a worker takes jobs of any name.                              *)
Processors == {"html", "text"}
Workers == Cardinality(Processors)

(* MUTANT: the attempts of a job are not bounded.                            *)
MoveToFailedAgain(r) == [r EXCEPT !.state = "delayed"]

(* The queue files a job whose processor threw: again, after the backoff, as *)
(* long as it has attempts left.                                             *)
MoveToFailed(r) ==
  [r EXCEPT !.attemptsMade = @ + 1,
            !.state = IF r.attemptsMade + 1 < Attempts THEN "delayed" ELSE "failed"]

(* A worker died with the job.                                               *)
MoveStalled(r) ==
  [r EXCEPT !.stalledCount = @ + 1,
            !.state = IF r.stalledCount + 1 > MaxStalledCount THEN "failed" ELSE "waiting"]

(* MUTANT: the processor throws what SendGrid refused, and the queue retries.*)
ProcessedOrThrown(r, result) ==
  IF result = "error" THEN MoveToFailed(r)
  ELSE [r EXCEPT !.state = "completed", !.returnvalue = result]

(* processHtmlEmail, processTextEmail: neither a refusal, which is a result  *)
(* like any other, nor an exception, which is caught, fails the job.  Only   *)
(* job.data is taken apart before the try; a job without data would fail as  *)
(* one of another name does (see Reject).                                    *)
Processed(r, result) == [r EXCEPT !.state = "completed", !.returnvalue = result]

(* MUTANT: the error is logged and the result is a success.                  *)
ResultOfIgnored(ok) == "success"

(* sendTextEmail, sendHtmlEmail; handleEmailError makes a result of any error.*)
ResultOf(ok) == IF ok THEN "success" ELSE "error"

-----------------------------------------------------------------------------
Move(m, to) == job' = [job EXCEPT ![m].state = to]
Ask(m) == sending' = [sending EXCEPT ![m] = "asked"]
Unused(m) == job[m].state = "none" /\ call[m] = "none"

Enqueue(m, name) == /\ Unused(m)
                    /\ job' = [job EXCEPT ![m].name = name, ![m].state = "waiting"]
                    /\ UNCHANGED <<call, sending, mailed, restarts>>

(* The processor of the job's name, if it has one, calls SendgridService.    *)
Take(m) ==
  /\ job[m].state = "waiting" /\ Move(m, "active")
  /\ Cardinality({i \in Mails : job[i].state = "active"}) < Workers
  /\ IF job[m].name \in Processors THEN Ask(m) ELSE UNCHANGED sending
  /\ UNCHANGED <<call, mailed, restarts>>

(* No processor is registered under the job's name.  What would happen to a  *)
(* job whose data is null, too, if anybody enqueued one.                     *)
Reject(m) == /\ job[m].state = "active" /\ job[m].name \notin Processors
             /\ job' = [job EXCEPT ![m] = MoveToFailed(@)]
             /\ UNCHANGED <<call, sending, mailed, restarts>>

(* sendOnboardingEmail calls sendTextEmail, past the queue.                  *)
sendOnboardingEmail(m) == /\ Unused(m)
                          /\ call' = [call EXCEPT ![m] = "asked"] /\ Ask(m)
                          /\ UNCHANGED <<job, mailed, restarts>>

(* SendGrid accepts the mail; its answer is still on the way.                *)
Accept(m) == /\ sending[m] = "asked"
             /\ sending' = [sending EXCEPT ![m] = "accepted"]
             /\ mailed' = [mailed EXCEPT ![m] = @ + 1]
             /\ UNCHANGED <<job, call, restarts>>

(* sgMail.send resolves or rejects, and who awaits it goes on with a result. *)
Resolve(m) ==
  /\ sending[m] # "no"
  /\ \E ok \in BOOLEAN :
       LET result == ResultOf(ok)
       IN  /\ ok => sending[m] = "accepted"
           /\ \/ /\ call[m] = "asked"
                 /\ call' = [call EXCEPT ![m] = IF result = "success" THEN "true" ELSE "false"]
                 /\ UNCHANGED job
              \/ /\ call[m] # "asked"
                 /\ job' = [job EXCEPT ![m] = Processed(@, result)]
                 /\ UNCHANGED call
  /\ sending' = [sending EXCEPT ![m] = "no"]
  /\ UNCHANGED <<mailed, restarts>>

(* The backoff of a failed attempt is over.                                  *)
Promote(m) == /\ job[m].state = "delayed" /\ Move(m, "waiting")
              /\ UNCHANGED <<call, sending, mailed, restarts>>

(* The lock of a job whose worker died has expired.                          *)
CheckStalled(m) == /\ job[m].state = "stalled"
                   /\ job' = [job EXCEPT ![m] = MoveStalled(@)]
                   /\ UNCHANGED <<call, sending, mailed, restarts>>

(* The process dies and starts again: what it awaited is lost, Redis is not. *)
(* Nothing in the repository restarts it, so that it comes back is assumed.  *)
EmailRestart ==
  /\ restarts < MaxRestarts
  /\ restarts' = restarts + 1
  /\ job' = [m \in Mails |-> IF job[m].state = "active" THEN [job[m] EXCEPT !.state = "stalled"]
                             ELSE job[m]]
  /\ call' = [m \in Mails |-> IF call[m] = "asked" THEN "lost" ELSE call[m]]
  /\ sending' = [m \in Mails |-> "no"]
  /\ UNCHANGED mailed

EmailStep ==
  \E m \in Mails : \/ \E name \in Names : Enqueue(m, name)
                   \/ sendOnboardingEmail(m) \/ Accept(m) \/ Resolve(m)
                   \/ Take(m) \/ Reject(m) \/ Promote(m) \/ CheckStalled(m)

(* The queue serves every job that waits and files every one that failed or  *)
(* stalled.  That SendGrid answers is nothing the code sees to.              *)
EmailFairness == \A m \in Mails : WF_emailVars(Take(m) \/ Reject(m) \/ Promote(m) \/ CheckStalled(m))

-----------------------------------------------------------------------------
(* Every call of SendGrid comes to an end, if only with the process.         *)
SendsAreAnswered == \A m \in Mails : sending[m] # "no" ~> sending[m] = "no"

(* As long as no call of SendGrid hangs, a job that was enqueued is          *)
(* completed or failed in the end, however its workers die: a name without a *)
(* processor runs out of attempts, a job that keeps stalling out of stalls.  *)
EachJobEnds ==
  SendsAreAnswered =>
    \A m \in Mails : job[m].state = "waiting" ~> job[m].state \in {"completed", "failed"}

(* Only a restart in the middle of a job sends its mail twice: attempts: 3   *)
(* never does, since the processor never fails a job it has taken, not even  *)
(* one that SendGrid refused.                                                *)
CopiesTakeAStall ==
  \A m \in Mails : job[m].name \in Processors =>
    mailed[m] <= 1 + job[m].stalledCount /\ job[m].attemptsMade = 0

(* What is reported as sent was accepted: the result filed with a completed  *)
(* job, and the answer of sendOnboardingEmail.                               *)
SuccessIsDelivered ==
  \A m \in Mails : job[m].returnvalue = "success" \/ call[m] = "true" => mailed[m] > 0
=============================================================================
