-------------------------- MODULE GracefulShutdown --------------------------
(***************************************************************************)
(* ZBClient.close() with its workers and their commands: the client marks  *)
(* itself closing, closes every worker, waits for all of them to drain,    *)
(* then closes its own channel (src/zb/ZBClient.ts).  Of the workers, what *)
(* close() depends on: the counter, drainOne() and the closing of each     *)
(* (src/lib/ZBWorkerBase.ts); JobWorker has the rest of them.  Every job   *)
(* ends with a command of CommandRetry, the module this one extends.       *)
(***************************************************************************)
EXTENDS CommandRetry

CONSTANTS
    Jobs,      \* the jobs; a job names the command its handler, or its throw, sends
    Workers,   \* the workers createWorker() may make
    NoWorker,  \* the owner of a job nobody activated
    Endings    \* what the handlers do, each once

\* The commands with which handleJob fails a job whose job.fail() was refused.
\* Bound: as many such refusals can pass a handler by; those left it catches.
Refails == Commands \ Jobs

ASSUME WorkersAssumption ==
    /\ IsFiniteSet(Commands) /\ NoWorker \notin Workers
    /\ Jobs \subseteq Commands
    /\ Endings \subseteq {"complete", "fail", "forward", "throw"}
    /\ "fail" \in Endings => Refails # {}

VARIABLES
    worker,      \* "absent", "open", "draining", "emptied" or "closed"
    activeJobs,  \* the counter of each worker
    owner,       \* the worker that activated a job
    job          \* where each job is

workerVars == <<worker, activeJobs>>
jobVars == <<owner, job>>
shutdownVars == <<retryVars, workerVars, jobVars>>

\* "refused": job.fail() was, and the handler is about to hear of it.
JobState == {"available", "working", "completing", "failing", "done", "thrown",
             "refused", "refailed"}
WorkerState == {"absent", "open", "draining", "emptied", "closed"}

\* The jobs a worker's handlers work on or wait for.
Undone == {"working", "completing", "failing"}
HeldBy(w) == {j \in Jobs : owner[j] = w /\ job[j] \in Undone}

ShutdownInit ==
    /\ RetryInit
    /\ worker = [w \in Workers |-> "absent"]
    /\ activeJobs = [w \in Workers |-> 0]
    /\ owner = [j \in Jobs |-> NoWorker]
    /\ job = [j \in Jobs |-> "available"]

-----------------------------------------------------------------------------
(* Workers. *)

\* Mutant of CreateWorker: also while the client closes.
CreateWorkerWhileClosing(w) ==
    /\ worker[w] = "absent"
    /\ worker' = [worker EXCEPT ![w] = "open"]
    /\ UNCHANGED <<retryVars, activeJobs, jobVars>>

CreateWorker(w) ==
    /\ worker[w] = "absent" /\ ~closing
    /\ worker' = [worker EXCEPT ![w] = "open"]
    /\ UNCHANGED <<retryVars, activeJobs, jobVars>>

\* Mutant of Activate: a closing worker takes on jobs.
ActivateWhileClosing(w, j) ==
    /\ worker[w] \in WorkerState \ {"absent"} /\ job[j] = "available"
    /\ owner' = [owner EXCEPT ![j] = w]
    /\ job' = [job EXCEPT ![j] = "working"]
    /\ activeJobs' = [activeJobs EXCEPT ![w] = @ + 1]
    /\ UNCHANGED <<retryVars, worker>>

Activate(w, j) ==
    /\ worker[w] = "open" /\ job[j] = "available"
    /\ owner' = [owner EXCEPT ![j] = w]
    /\ job' = [job EXCEPT ![j] = "working"]
    /\ activeJobs' = [activeJobs EXCEPT ![w] = @ + 1]
    /\ UNCHANGED <<retryVars, worker>>

\* The Empty event comes when the counter of a closing worker is exactly 0.
drainOne(w) ==
    /\ activeJobs' = [activeJobs EXCEPT ![w] = @ - 1]
    /\ worker' = [worker EXCEPT ![w] =
                    IF @ = "draining" /\ activeJobs[w] = 1 THEN "emptied" ELSE @]

\* What close() makes of a worker: it waits for that event, or not at all.
Closing(w) == IF worker[w] # "open" THEN worker[w]
              ELSE IF activeJobs[w] <= 0 THEN "emptied" ELSE "draining"

CloseWorker(w) ==
    /\ worker[w] = "open"
    /\ worker' = [worker EXCEPT ![w] = Closing(w)]
    /\ UNCHANGED <<retryVars, activeJobs, jobVars>>

\* The worker's own channel is closed.
WorkerResolves(w) ==
    /\ worker[w] = "emptied"
    /\ worker' = [worker EXCEPT ![w] = "closed"]
    /\ UNCHANGED <<retryVars, activeJobs, jobVars>>

-----------------------------------------------------------------------------
(* Jobs. *)

Ends(j, state) ==
    /\ job' = [job EXCEPT ![j] = state]
    /\ drainOne(owner[j])
    /\ UNCHANGED owner

\* job.complete(), job.error(), or the awaited cancel of a worker with
\* failProcessOnException: the job is held until the command settles.
CompleteJob(j) ==
    /\ job[j] = "working" /\ "complete" \in Endings
    /\ Issue(j)
    /\ job' = [job EXCEPT ![j] = "completing"]
    /\ UNCHANGED <<workerVars, owner>>

FailJob(j) ==
    /\ job[j] = "working" /\ "fail" \in Endings
    /\ Issue(j)
    /\ job' = [job EXCEPT ![j] = "failing"]
    /\ UNCHANGED <<workerVars, owner>>

\* Mutant of Drained: the job is drained when its command is sent.
DrainedAtOnce(j) ==
    /\ job[j] \in {"completing", "failing"}
    /\ Ends(j, "done")
    /\ UNCHANGED retryVars

\* Whatever the answer; but only job.fail() passes a rejection on.
Drained(j) ==
    /\ job[j] \in {"completing", "failing"} /\ status[j] \in Settled
    /\ Ends(j, IF job[j] = "failing" /\ status[j] = "rejected" THEN "refused" ELSE "done")
    /\ UNCHANGED retryVars

ForwardJob(j) ==
    /\ job[j] = "working" /\ "forward" \in Endings
    /\ Ends(j, "done")
    /\ UNCHANGED retryVars

\* handleJob fails the job of a handler that threw, and does not wait.
ThrowInHandler(j) ==
    /\ job[j] = "working" /\ "throw" \in Endings
    /\ Issue(j)
    /\ Ends(j, "thrown")

\* A handler may catch the rejection of job.fail().
CatchRefusal(j) ==
    /\ job[j] = "refused"
    /\ job' = [job EXCEPT ![j] = "done"]
    /\ UNCHANGED <<retryVars, workerVars, owner>>

\* If not, it is an exception like any other: the job is drained again.
FailAgain(j) ==
    /\ job[j] = "refused"
    /\ \E c \in Refails : Issue(c)
    /\ Ends(j, "refailed")

CommandStep(c) ==
    /\ RetryFires(c) \/ Reply(c)
    /\ UNCHANGED <<workerVars, jobVars>>

-----------------------------------------------------------------------------
(* The client. *)

CloseClient ==
    /\ StartClosing
    /\ worker' = [w \in Workers |-> Closing(w)]
    /\ UNCHANGED <<activeJobs, jobVars>>

\* Mutant of ClientResolves: the first worker that closed is enough.
ClientResolvesEarly ==
    /\ \E w \in Workers : worker[w] \in {"absent", "closed"}
    /\ CloseChannel
    /\ UNCHANGED <<workerVars, jobVars>>

ClientResolves ==
    /\ \A w \in Workers : worker[w] \in {"absent", "closed"}
    /\ CloseChannel
    /\ UNCHANGED <<workerVars, jobVars>>

WorkerStep(w) ==
    CreateWorker(w) \/ CloseWorker(w) \/ WorkerResolves(w) \/ \E j \in Jobs : Activate(w, j)
HandlerStep(j) == CompleteJob(j) \/ FailJob(j) \/ ForwardJob(j) \/ ThrowInHandler(j)
AfterRefusal(j) == CatchRefusal(j) \/ FailAgain(j)

ShutdownNext ==
    \/ \E w \in Workers : WorkerStep(w)
    \/ \E j \in Jobs : HandlerStep(j) \/ Drained(j) \/ AfterRefusal(j)
    \/ \E c \in Commands : CommandStep(c)
    \/ CloseClient \/ ClientResolves

ShutdownSpec == ShutdownInit /\ [][ShutdownNext]_shutdownVars

\* Handlers end, commands get answers, timers fire, promises resolve.
ShutdownFairness ==
    /\ \A j \in Jobs : /\ WF_shutdownVars(HandlerStep(j))
                       /\ WF_shutdownVars(Drained(j))
    /\ \A c \in Commands :
          /\ WF_shutdownVars(RetryFires(c) /\ UNCHANGED <<workerVars, jobVars>>)
          /\ WF_shutdownVars(Reply(c) /\ UNCHANGED <<workerVars, jobVars>>)
    /\ \A w \in Workers : WF_shutdownVars(WorkerResolves(w))
    /\ WF_shutdownVars(ClientResolves)

FairShutdownSpec == ShutdownSpec /\ ShutdownFairness

-----------------------------------------------------------------------------
\* The type of every variable.
ShutdownTypeOK ==
    /\ RetryTypeOK
    /\ worker \in [Workers -> WorkerState]
    /\ activeJobs \in [Workers -> Int]
    /\ owner \in [Jobs -> Workers \cup {NoWorker}]
    /\ job \in [Jobs -> JobState]

\* The counter of a worker is wrong once one job.fail() of it was refused and
\* the handler did not catch that: the job was drained twice.
Miscounted(w) == \E j \in Jobs : owner[j] = w /\ job[j] = "refailed"

\* When the promise of ZBClient.close() resolves, no handler of any worker is
\* running or waiting for a command, but for the workers that miscounted
\* (ZBClient.ts close, ZBWorkerBase.ts close, drainOne, failJob).
NoJobLeft ==
    channelClosed => \A j \in Jobs : job[j] \in Undone => Miscounted(owner[j])

\* Of the jobs' commands, one is still on its way by then only if its handler
\* threw, for handleJob does not wait for that one (ZBWorker.ts:81), or if its
\* worker miscounted, whatever the order in which workers, commands, retries
\* and close() went (ZBClient.ts close, ZBWorkerBase.ts close).
AwaitedSettled ==
    channelClosed => \A j \in Jobs :
        status[j] \in Unsettled => job[j] = "thrown" \/ Miscounted(owner[j])

\* A handler that was told its job action is acknowledged had it sent to the
\* gateway, also when the job was drained by close().
Acknowledged(j) == job[j] = "done" /\ status[j] = "resolved"
AcknowledgedMeansSent == \A j \in Jobs : Acknowledged(j) => attempts[j] > 0

\* That much is true of a client without retries, whose operations look at
\* the channel and not at closing (ZBClient.ts executeOperation), but again
\* not of a worker that miscounted: its client may close the channel early.
SentWithoutRetry ==
    ~retry => \A j \in Jobs :
        Acknowledged(j) => attempts[j] > 0 \/ Miscounted(owner[j])

\* close() comes to its end once handlers end, each with one action or a
\* throw, whatever becomes of their commands on the wire.  Not with a gateway
\* that answers CANCELLED with a 503 inside (StatusDropped), nor with handlers
\* that leak their job: see JobWorkerCancel (ZBClient.ts close).
ClientCloses == closing ~> channelClosed
=============================================================================
