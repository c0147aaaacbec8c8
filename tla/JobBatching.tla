----------------------------- MODULE JobBatching -----------------------------
(***************************************************************************)
(* A batch worker: jobs wait in the queue of a JobBatcher until there are  *)
(* enough of them or the oldest has waited long enough, then one handler   *)
(* gets them all (src/lib/JobBatcher.ts, src/lib/Queue.ts,                 *)
(* src/zb/ZBBatchWorker.ts).  Polling, the counter and close() are those   *)
(* of ZBWorkerBase, reduced to what the queue can see of them: JobWorker   *)
(* has their detail.  Time is counted in ticks; a due timer fires before   *)
(* the next tick.                                                          *)
(***************************************************************************)
EXTENDS Integers, FiniteSets, Sequences, Functions

CONSTANTS
    Jobs,
    MaxJobs,         \* maxJobsToActivate
    JobBatchMinSize, \* the option of that name
    MaxTime,         \* jobBatchMaxTime, in ticks
    HandlerThrows    \* a handler may throw or reject before it acted on a job

ASSUME BatchAssumption ==
    /\ IsFiniteSet(Jobs)
    /\ MaxJobs \in Nat \ {0}
    /\ JobBatchMinSize \in Nat
    /\ MaxTime \in Nat \ {0}
    /\ HandlerThrows \in BOOLEAN

VARIABLES
    batchedJobs,  \* the queue
    timer,        \* batchExecutionTimerHandle: ticks left, or Off
    activeJobs,   \* the counter of ZBWorkerBase
    request,      \* jobs the open stream may still deliver, or Off
    phase,        \* "open", "closing", "emptied" (no job left), "closed"
    job,          \* "available", "queued", "working", "abandoned", "done"
    arrived,      \* history: the jobs in the order they arrived
    handed,       \* history: the jobs in the order a handler got them
    waited        \* history: ticks the oldest queued job has waited

queueVars == <<batchedJobs, timer, handed, waited>>
batchVars == <<queueVars, activeJobs, request, phase, job, arrived>>

Off == -1
jobBatchMinSize == IF JobBatchMinSize < MaxJobs THEN JobBatchMinSize ELSE MaxJobs
Held == {j \in Jobs : job[j] \in {"queued", "working", "abandoned"}}

BatchInit ==
    /\ batchedJobs = <<>> /\ timer = Off
    /\ activeJobs = 0 /\ request = Off /\ phase = "open"
    /\ job = [j \in Jobs |-> "available"]
    /\ arrived = <<>> /\ handed = <<>> /\ waited = 0

-----------------------------------------------------------------------------
(* The batcher. *)

execute(queue) ==
    /\ timer' = Off
    /\ batchedJobs' = <<>>
    /\ handed' = handed \o queue
    /\ waited' = 0
    /\ job' = [j \in Jobs |-> IF j \in Range(queue) THEN "working" ELSE job[j]]

\* Mutants of enqueue: every response restarts the timer; new jobs in front.
Enqueued(queue, jobs, ticks) ==
    /\ timer' = ticks
    /\ batchedJobs' = queue
    /\ job' = [j \in Jobs |-> IF j \in Range(jobs) THEN "queued" ELSE job[j]]
    /\ UNCHANGED <<handed, waited>>
enqueueRestarting(jobs) == Enqueued(batchedJobs \o jobs, jobs, MaxTime)
enqueueInFront(jobs) ==
    Enqueued(jobs \o batchedJobs, jobs, IF timer = Off THEN MaxTime ELSE timer)

enqueue(jobs) ==
    /\ timer' = IF timer = Off THEN MaxTime ELSE timer
    /\ batchedJobs' = batchedJobs \o jobs
    /\ job' = [j \in Jobs |-> IF j \in Range(jobs) THEN "queued" ELSE job[j]]
    /\ UNCHANGED <<handed, waited>>

batch(jobs) ==
    IF Len(batchedJobs \o jobs) >= jobBatchMinSize
    THEN execute(batchedJobs \o jobs)
    ELSE enqueue(jobs)

\* Mutant of TimerFires: a closing worker executes no batch.
TimerFiresOpen ==
    /\ timer = 0 /\ phase = "open"
    /\ execute(batchedJobs)
    /\ UNCHANGED <<activeJobs, request, phase, arrived>>

TimerFires ==
    /\ timer = 0
    /\ execute(batchedJobs)
    /\ UNCHANGED <<activeJobs, request, phase, arrived>>

-----------------------------------------------------------------------------
(* The worker around it. *)

Poll ==
    /\ request = Off /\ phase = "open"
    /\ 10 * activeJobs <= 3 * MaxJobs
    /\ request' = MaxJobs - activeJobs
    /\ UNCHANGED <<queueVars, activeJobs, phase, job, arrived>>

StreamEnds ==
    /\ request # Off
    /\ request' = Off
    /\ UNCHANGED <<queueVars, activeJobs, phase, job, arrived>>

\* handleJobResponse; a gateway sends no response without jobs, and those
\* that arrive after close() are dropped.
Deliver(jobs) ==
    /\ phase = "open" /\ request # Off
    /\ Len(jobs) \in 1..request
    /\ \A j \in Range(jobs) : job[j] = "available"
    /\ request' = request - Len(jobs)
    /\ activeJobs' = activeJobs + Len(jobs)
    /\ arrived' = arrived \o jobs
    /\ batch(jobs)
    /\ UNCHANGED phase

\* Mutant of Settle: the counter is compared before it is decremented.
SettleLate(j) ==
    /\ job[j] = "working"
    /\ job' = [job EXCEPT ![j] = "done"]
    /\ activeJobs' = activeJobs - 1
    /\ phase' = IF phase = "closing" /\ activeJobs = 0 THEN "emptied" ELSE phase
    /\ UNCHANGED <<queueVars, request, arrived>>

\* The command of a job the handler acted on was answered: drainOne().
Settle(j) ==
    /\ job[j] = "working"
    /\ job' = [job EXCEPT ![j] = "done"]
    /\ activeJobs' = activeJobs - 1
    /\ phase' = IF phase = "closing" /\ activeJobs = 1 THEN "emptied" ELSE phase
    /\ UNCHANGED <<queueVars, request, arrived>>

\* The handler threw first: execute() logs that, and drains nothing.
Abandon(j) ==
    /\ HandlerThrows
    /\ job[j] = "working"
    /\ job' = [job EXCEPT ![j] = "abandoned"]
    /\ UNCHANGED <<queueVars, activeJobs, request, phase, arrived>>

\* Mutant of Close: the active jobs are not waited for.
CloseAtOnce ==
    /\ phase = "open"
    /\ phase' = "emptied"
    /\ UNCHANGED <<queueVars, activeJobs, request, job, arrived>>

Close ==
    /\ phase = "open"
    /\ phase' = IF activeJobs <= 0 THEN "emptied" ELSE "closing"
    /\ UNCHANGED <<queueVars, activeJobs, request, job, arrived>>

ChannelCloses ==
    /\ phase = "emptied"
    /\ phase' = "closed"
    /\ UNCHANGED <<queueVars, activeJobs, request, job, arrived>>

Tick ==
    /\ timer # 0
    /\ timer' = IF timer = Off THEN Off ELSE timer - 1
    /\ waited' = IF batchedJobs = <<>> THEN 0 ELSE waited + 1
    /\ UNCHANGED <<batchedJobs, handed, activeJobs, request, phase, job, arrived>>

Responses == UNION {Injection(1..n, Jobs) : n \in 1..Cardinality(Jobs)}

BatchNext ==
    \/ TimerFires \/ Tick
    \/ Poll \/ StreamEnds \/ Close \/ ChannelCloses
    \/ \E jobs \in Responses : Deliver(jobs)
    \/ \E j \in Jobs : Settle(j) \/ Abandon(j)

BatchSpec == BatchInit /\ [][BatchNext]_batchVars

\* Time passes, timers fire, handlers act and commands are answered.
FairBatchSpec ==
    /\ BatchSpec
    /\ WF_batchVars(Tick) /\ WF_batchVars(TimerFires) /\ WF_batchVars(ChannelCloses)
    /\ \A j \in Jobs : WF_batchVars(Settle(j) \/ Abandon(j))

-----------------------------------------------------------------------------
\* The type of every variable.
BatchTypeOK ==
    /\ batchedJobs \in Seq(Jobs) /\ arrived \in Seq(Jobs) /\ handed \in Seq(Jobs)
    /\ timer \in {Off} \cup 0..MaxTime
    /\ activeJobs \in 0..MaxJobs
    /\ request \in {Off} \cup 0..MaxJobs
    /\ phase \in {"open", "closing", "emptied", "closed"}
    /\ job \in [Jobs -> {"available", "queued", "working", "abandoned", "done"}]
    /\ waited \in 0..MaxTime

\* No job is lost, doubled or overtaken between its arrival and the handler,
\* whether the size or the timer of the batch sends it there
\* (CHANGELOG.md:362 names such a loss).
HandedOnceInOrder == arrived = handed \o batchedJobs

\* While jobs wait, one timer runs, and it was started for the oldest: no job
\* waits longer than jobBatchMaxTime, and no batch that left by its size
\* leaves a timer behind that cuts the next one short (JobBatcher.ts batch,
\* execute).
TimerMeasuresOldest ==
    batchedJobs # <<>> => timer # Off /\ waited + timer = MaxTime

\* Every job of the queue gets to the handler, also when the worker asks for
\* no more jobs or is closing.
QueueEmpties == batchedJobs # <<>> ~> batchedJobs = <<>>

\* close() resolves, the queue worked off first, unless a batch handler left
\* a job undone by throwing (JobBatcher.ts execute).
CloseDrainsQueue ==
    phase = "closing" ~> phase = "closed" \/ \E j \in Jobs : job[j] = "abandoned"

\* A batch worker implements the contract of a worker too.
Contract == INSTANCE WorkerContract WITH
    Tasks <- Jobs, held <- Held,
    phase <- IF phase = "emptied" THEN "closing" ELSE phase
ImplementsContract == Contract!ContractSpec
=============================================================================
