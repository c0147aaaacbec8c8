----------------------- MODULE GracefulShutdownProofs -----------------------
(***************************************************************************)
(* Theorems about GracefulShutdown for any workers, jobs and options: what *)
(* is left of their work when the promise of ZBClient.close() resolves.    *)
(* The counters decide that, so the invariant says when they can be        *)
(* trusted: of a worker none of whose jobs was drained twice.              *)
(***************************************************************************)
EXTENDS GracefulShutdown, CommandRetryProofs, FiniteSetTheorems

\* What a step may be: of a worker, of a job, of a command, of the client.
OfJob(j) == HandlerStep(j) \/ Drained(j) \/ AfterRefusal(j)

\* The steps on which the commands of CommandRetry move are steps of it.
LEMMA ShutdownStepIsRetryStep ==
    [ShutdownNext]_shutdownVars => [RetryNext]_retryVars
<1>. SUFFICES ASSUME [ShutdownNext]_shutdownVars PROVE [RetryNext]_retryVars
  OBVIOUS
<1>1. ASSUME NEW w \in Workers, WorkerStep(w) PROVE UNCHANGED retryVars
  BY <1>1 DEF WorkerStep, CreateWorker, CloseWorker, WorkerResolves, Activate
<1>2. ASSUME NEW j \in Jobs, HandlerStep(j) PROVE [RetryNext]_retryVars
  <2>1. j \in Commands  BY WorkersAssumption
  <2>. QED
    BY <1>2, <2>1 DEF HandlerStep, CompleteJob, FailJob, ForwardJob, ThrowInHandler, RetryNext
<1>3. ASSUME NEW j \in Jobs, Drained(j) \/ AfterRefusal(j) PROVE [RetryNext]_retryVars
  BY <1>3 DEF Drained, AfterRefusal, CatchRefusal, FailAgain, Refails, RetryNext
<1>4. ASSUME NEW c \in Commands, CommandStep(c) PROVE RetryNext
  BY <1>4 DEF CommandStep, RetryNext
<1>5. CASE CloseClient \/ ClientResolves
  BY <1>5 DEF CloseClient, ClientResolves, RetryNext
<1>6. CASE UNCHANGED shutdownVars
  BY <1>6 DEF shutdownVars
<1>. QED  BY <1>1, <1>2, <1>3, <1>4, <1>5, <1>6 DEF ShutdownNext

\* The commands of the jobs are commands of CommandRetry.
THEOREM ShutdownRefinesRetry == ShutdownSpec => RetrySpec
<1>1. ShutdownInit => RetryInit  BY DEF ShutdownInit
<1>. QED  BY <1>1, ShutdownStepIsRetryStep, PTL DEF ShutdownSpec, RetrySpec

-----------------------------------------------------------------------------
(* Type correctness. *)

LEMMA ShutdownTypeInit == ShutdownInit => ShutdownTypeOK
  BY RetryTypeInit DEF ShutdownInit, ShutdownTypeOK, WorkerState, JobState

\* drainOne keeps the types of what it changes.
LEMMA DrainType ==
    ASSUME ShutdownTypeOK, NEW w, drainOne(w)
    PROVE  /\ worker' \in [Workers -> WorkerState] /\ activeJobs' \in [Workers -> Int]
           /\ \A v \in Workers : v # w => activeJobs'[v] = activeJobs[v] /\ worker'[v] = worker[v]
           /\ w \in Workers =>
                 /\ activeJobs'[w] = activeJobs[w] - 1
                 /\ worker'[w] = IF worker[w] = "draining" /\ activeJobs[w] = 1
                                 THEN "emptied" ELSE worker[w]
<1>1. activeJobs' = [activeJobs EXCEPT ![w] = activeJobs[w] - 1]  BY DEF drainOne
<1>2. worker' = [worker EXCEPT ![w] = IF worker[w] = "draining" /\ activeJobs[w] = 1
                                      THEN "emptied" ELSE worker[w]]
  BY DEF drainOne
<1>3. worker \in [Workers -> WorkerState] /\ activeJobs \in [Workers -> Int]
  BY DEF ShutdownTypeOK
<1>4. w \in Workers => activeJobs[w] - 1 \in Int  BY <1>3
<1>5. activeJobs' \in [Workers -> Int]
  <2>1. CASE w \in Workers  BY <1>1, <1>3, <1>4, <2>1
  <2>2. CASE w \notin Workers
    <3>1. activeJobs' = activeJobs  BY <1>1, <1>3, <2>2
    <3>. QED  BY <1>3, <3>1
  <2>. QED  BY <2>1, <2>2
<1>. QED  BY <1>1, <1>2, <1>3, <1>5 DEF WorkerState

LEMMA ShutdownTypeJob ==
    ASSUME ShutdownTypeOK, NEW j \in Jobs, OfJob(j)
    PROVE  /\ job' \in [Jobs -> JobState] /\ owner' = owner
           /\ worker' \in [Workers -> WorkerState] /\ activeJobs' \in [Workers -> Int]
<1>. USE DEF ShutdownTypeOK
<1>1. CASE Drained(j) \/ ForwardJob(j) \/ ThrowInHandler(j) \/ FailAgain(j)
  <2>1. /\ drainOne(owner[j]) /\ owner' = owner
        /\ \E st \in JobState : job' = [job EXCEPT ![j] = st]
    BY <1>1 DEF Drained, ForwardJob, ThrowInHandler, FailAgain, Ends, JobState
  <2>. QED  BY <2>1, DrainType
<1>2. CASE CompleteJob(j) \/ FailJob(j) \/ CatchRefusal(j)
  BY <1>2 DEF CompleteJob, FailJob, CatchRefusal, workerVars, JobState
<1>. QED  BY <1>1, <1>2 DEF OfJob, HandlerStep, AfterRefusal

LEMMA ShutdownTypeStep ==
    ShutdownTypeOK /\ [ShutdownNext]_shutdownVars => ShutdownTypeOK'
<1>. SUFFICES ASSUME ShutdownTypeOK, [ShutdownNext]_shutdownVars PROVE ShutdownTypeOK'
  OBVIOUS
<1>0. RetryTypeOK'
  BY ShutdownStepIsRetryStep, RetryTypeStep DEF ShutdownTypeOK
<1>. USE <1>0 DEF ShutdownTypeOK
<1>1. ASSUME NEW w \in Workers, CreateWorker(w) \/ CloseWorker(w) \/ WorkerResolves(w)
      PROVE  ShutdownTypeOK'
  BY <1>1 DEF CreateWorker, CloseWorker, WorkerResolves, Closing, jobVars, WorkerState
<1>2. ASSUME NEW w \in Workers, NEW j \in Jobs, Activate(w, j) PROVE ShutdownTypeOK'
  <2>1. activeJobs' = [activeJobs EXCEPT ![w] = activeJobs[w] + 1]
    BY <1>2 DEF Activate
  <2>. QED  BY <1>2, <2>1 DEF Activate, JobState
<1>3. ASSUME NEW j \in Jobs, OfJob(j) PROVE ShutdownTypeOK'
  BY <1>3, ShutdownTypeJob
<1>4. CASE CloseClient
  BY <1>4 DEF CloseClient, Closing, jobVars, WorkerState
<1>5. CASE ClientResolves \/ UNCHANGED shutdownVars \/ \E c \in Commands : CommandStep(c)
  BY <1>5 DEF ClientResolves, CommandStep, workerVars, jobVars, shutdownVars
<1>. QED  BY <1>1, <1>2, <1>3, <1>4, <1>5 DEF ShutdownNext, WorkerStep, OfJob

\* Every variable keeps its type.
THEOREM ShutdownTypeCorrect == ShutdownSpec => []ShutdownTypeOK
<1>. QED  BY ShutdownTypeInit, ShutdownTypeStep, PTL DEF ShutdownSpec

-----------------------------------------------------------------------------
(* What is left when close() resolves. *)

\* A worker that drained no job twice counts the jobs it holds, and does not
\* close as long as there are any.
Idle == {"absent", "emptied", "closed"}
Trusted(w) ==
    /\ activeJobs[w] = Cardinality(HeldBy(w))
    /\ worker[w] \in Idle => HeldBy(w) = {}

\* Where the command of a job may be, given where the job is; and who has
\* closed by the time the channel is.
ShutdownInv ==
    /\ ShutdownTypeOK
    /\ \A j \in Jobs :
          /\ job[j] # "available" => owner[j] \in Workers
          /\ job[j] \in {"available", "working"} => status[j] = "idle"
          /\ job[j] \in {"done", "refused", "refailed"} => status[j] \notin Unsettled
    /\ \A w \in Workers : Miscounted(w) \/ Trusted(w)
    /\ channelClosed => closing /\ \A w \in Workers : worker[w] \in {"absent", "closed"}

LEMMA HeldFinite ==
    ASSUME NEW w PROVE IsFiniteSet(HeldBy(w)) /\ Cardinality(HeldBy(w)) \in Nat
  BY FS_Subset, FS_CardinalityType, WorkersAssumption DEF HeldBy

LEMMA ShutdownInvInit == ShutdownInit => ShutdownInv
<1>. SUFFICES ASSUME ShutdownInit PROVE ShutdownInv
  OBVIOUS
<1>1. ASSUME NEW w \in Workers PROVE Trusted(w)
  <2>1. HeldBy(w) = {}  BY DEF ShutdownInit, HeldBy, Undone
  <2>. QED  BY <2>1, FS_EmptySet DEF ShutdownInit, Trusted
<1>2. \A j \in Jobs : status[j] = "idle" /\ job[j] = "available"
  BY WorkersAssumption DEF ShutdownInit, RetryInit
<1>. QED
  BY <1>1, <1>2, ShutdownTypeInit DEF ShutdownInit, RetryInit, ShutdownInv

\* A worker whose jobs and counter do not change, and that does not close.
LEMMA SameCount ==
    ASSUME NEW w \in Workers, Miscounted(w) \/ Trusted(w),
           HeldBy(w)' = HeldBy(w), Miscounted(w) => Miscounted(w)',
           activeJobs'[w] = activeJobs[w], worker'[w] \in Idle => worker[w] \in Idle
    PROVE  (Miscounted(w) \/ Trusted(w))'
  BY DEF Trusted

\* A worker that has nothing left to wait for may close.
LEMMA CloseTrusted ==
    ASSUME ShutdownInv, NEW w \in Workers, HeldBy(w)' = HeldBy(w),
           Miscounted(w) => Miscounted(w)', activeJobs'[w] = activeJobs[w],
           worker'[w] = Closing(w)
    PROVE  (Miscounted(w) \/ Trusted(w))'
<1>1. CASE Miscounted(w)  BY <1>1
<1>2. CASE ~Miscounted(w)
  <2>1. Trusted(w) /\ activeJobs[w] \in Int
    BY <1>2 DEF ShutdownInv, ShutdownTypeOK
  <2>2. worker'[w] \in Idle => HeldBy(w) = {}
    <3>1. CASE worker[w] = "open" /\ activeJobs[w] <= 0
      <4>1. Cardinality(HeldBy(w)) = 0  BY <2>1, <3>1, HeldFinite DEF Trusted
      <4>. QED  BY <4>1, HeldFinite, FS_EmptySet
    <3>2. CASE ~(worker[w] = "open" /\ activeJobs[w] <= 0)
      BY <2>1, <3>2 DEF Closing, Trusted, Idle
    <3>. QED  BY <3>1, <3>2
  <2>. QED  BY <2>1, <2>2 DEF Trusted
<1>. QED  BY <1>1, <1>2

LEMMA ShutdownInvWorker ==
    ASSUME ShutdownInv, ShutdownTypeOK', NEW w \in Workers,
           CreateWorker(w) \/ CloseWorker(w) \/ WorkerResolves(w)
    PROVE  ShutdownInv'
<1>1. UNCHANGED <<job, owner, activeJobs, status, channelClosed, closing>>
  BY DEF CreateWorker, CloseWorker, WorkerResolves, retryVars, clientVars, jobVars
<1>2. \A v \in Workers : HeldBy(v)' = HeldBy(v) /\ Miscounted(v)' = Miscounted(v)
  BY <1>1 DEF HeldBy, Miscounted
<1>3. \A v \in Workers : v # w => worker'[v] = worker[v]
  BY DEF CreateWorker, CloseWorker, WorkerResolves, ShutdownInv, ShutdownTypeOK
<1>4. /\ CreateWorker(w) => worker'[w] = "open" /\ ~closing
      /\ CloseWorker(w) => worker'[w] = Closing(w) /\ worker[w] = "open"
      /\ WorkerResolves(w) => worker'[w] = "closed" /\ worker[w] = "emptied"
  BY DEF CreateWorker, CloseWorker, WorkerResolves, ShutdownInv, ShutdownTypeOK
<1>5. ASSUME NEW v \in Workers PROVE (Miscounted(v) \/ Trusted(v))'
  <2>0. Miscounted(v) \/ Trusted(v)  BY DEF ShutdownInv
  <2>1. CASE v = w /\ CloseWorker(w)
    BY <1>1, <1>2, <1>4, <2>1, CloseTrusted
  <2>2. CASE ~(v = w /\ CloseWorker(w))
    <3>1. worker'[v] \in Idle => worker[v] \in Idle
      BY <1>3, <1>4, <2>2 DEF Idle
    <3>. QED  BY <1>1, <1>2, <2>0, <3>1, SameCount
  <2>. QED  BY <2>1, <2>2
<1>6. channelClosed => \A v \in Workers : worker'[v] \in {"absent", "closed"}
  BY <1>3, <1>4 DEF ShutdownInv
<1>. QED  BY <1>1, <1>5, <1>6 DEF ShutdownInv

LEMMA ShutdownInvActivate ==
    ASSUME ShutdownInv, ShutdownTypeOK', NEW w \in Workers, NEW j \in Jobs, Activate(w, j)
    PROVE  ShutdownInv'
<1>1. UNCHANGED <<worker, status, channelClosed, closing>>
  BY DEF Activate, retryVars, clientVars
<1>2. /\ \A i \in Jobs : i # j => job'[i] = job[i] /\ owner'[i] = owner[i]
      /\ job'[j] = "working" /\ owner'[j] = w /\ worker[w] = "open" /\ job[j] = "available"
      /\ \A v \in Workers : v # w => activeJobs'[v] = activeJobs[v]
      /\ activeJobs'[w] = activeJobs[w] + 1
  BY DEF Activate, ShutdownInv, ShutdownTypeOK
<1>3. \A v \in Workers : Miscounted(v) => Miscounted(v)'
  BY <1>2 DEF Miscounted
<1>4. ASSUME NEW v \in Workers PROVE (Miscounted(v) \/ Trusted(v))'
  <2>0. Miscounted(v) \/ Trusted(v)  BY DEF ShutdownInv
  <2>1. CASE v # w
    <3>1. HeldBy(v)' = HeldBy(v)  BY <1>2, <2>1 DEF HeldBy, Undone
    <3>. QED  BY <1>1, <1>2, <1>3, <2>0, <2>1, <3>1, SameCount
  <2>2. CASE v = w /\ Trusted(w)
    <3>1. HeldBy(w)' = HeldBy(w) \cup {j} /\ j \notin HeldBy(w)
      BY <1>2 DEF HeldBy, Undone
    <3>2. Cardinality(HeldBy(w)') = Cardinality(HeldBy(w)) + 1
      BY <3>1, HeldFinite, FS_AddElement
    <3>. QED  BY <1>1, <1>2, <2>2, <3>2 DEF Trusted, Idle
  <2>. QED  BY <1>3, <2>0, <2>1, <2>2
<1>. QED  BY <1>1, <1>2, <1>4 DEF ShutdownInv

\* What a step of a job does to the commands.
LEMMA JobCommands ==
    ASSUME ShutdownTypeOK, NEW j \in Jobs, OfJob(j)
    PROVE  /\ UNCHANGED <<closing, channelClosed, retry>>
           /\ \A i \in Jobs : i # j => status'[i] = status[i] /\ attempts'[i] = attempts[i]
           /\ Issue(j) \/ (status'[j] = status[j] /\ attempts'[j] = attempts[j])
           /\ HandlerStep(j) /\ ~ForwardJob(j) => Issue(j)
           /\ ~HandlerStep(j) \/ ForwardJob(j) =>
                 status'[j] = status[j] /\ attempts'[j] = attempts[j]
<1>0. RetryTypeOK /\ j \in Commands /\ Jobs \subseteq Commands
  BY WorkersAssumption DEF ShutdownTypeOK
<1>1. CASE HandlerStep(j) /\ ~ForwardJob(j)
  <2>1. Issue(j)
    BY <1>1 DEF HandlerStep, CompleteJob, FailJob, ThrowInHandler
  <2>2. \A d \in Commands : d # j => status'[d] = status[d] /\ attempts'[d] = attempts[d]
    BY <1>0, <2>1, OneCommand, CountType DEF Issue, Attempt, RetryTypeOK
  <2>. QED  BY <1>0, <1>1, <2>1, <2>2 DEF Issue, clientVars, options
<1>2. CASE FailAgain(j)
  <2>1. PICK c \in Refails : Issue(c)  BY <1>2 DEF FailAgain
  <2>2. c \in Commands /\ c \notin Jobs  BY DEF Refails
  <2>3. \A d \in Commands : d # c => status'[d] = status[d] /\ attempts'[d] = attempts[d]
    BY <1>0, <2>1, <2>2, OneCommand, CountType DEF Issue, Attempt, RetryTypeOK
  <2>4. ~HandlerStep(j)
    BY <1>2 DEF FailAgain, HandlerStep, CompleteJob, FailJob, ThrowInHandler, ForwardJob
  <2>. QED  BY <1>0, <2>1, <2>2, <2>3, <2>4 DEF Issue, clientVars, options
<1>3. CASE Drained(j) \/ CatchRefusal(j) \/ ForwardJob(j)
  <2>1. UNCHANGED retryVars  BY <1>3 DEF Drained, CatchRefusal, ForwardJob
  <2>2. ForwardJob(j) \/ ~HandlerStep(j)
    BY <1>3 DEF Drained, CatchRefusal, HandlerStep, CompleteJob, FailJob, ThrowInHandler
  <2>. QED  BY <2>1, <2>2 DEF retryVars, clientVars, options, counters
<1>. QED  BY <1>1, <1>2, <1>3 DEF OfJob, AfterRefusal

\* What it does to the jobs and their counters: a job leaves its worker's
\* hands with one drain, and only FailAgain drains one that has left.
LEMMA JobCounted ==
    ASSUME ShutdownInv, ShutdownTypeOK', NEW j \in Jobs, OfJob(j)
    PROVE  \A v \in Workers : /\ (Miscounted(v) \/ Trusted(v))'
                              /\ Miscounted(v) => Miscounted(v)'
<1>0. drainOne(owner[j]) =>
         /\ \A v \in Workers : v # owner[j] =>
               activeJobs'[v] = activeJobs[v] /\ worker'[v] = worker[v]
         /\ owner[j] \in Workers =>
               /\ activeJobs'[owner[j]] = activeJobs[owner[j]] - 1
               /\ worker'[owner[j]] = IF worker[owner[j]] = "draining" /\ activeJobs[owner[j]] = 1
                                      THEN "emptied" ELSE worker[owner[j]]
  BY DrainType DEF ShutdownInv
<1>1. owner' = owner  BY ShutdownTypeJob DEF ShutdownInv
<1>. USE DEF ShutdownInv, ShutdownTypeOK, Undone
<1>2. \A i \in Jobs : i # j => job'[i] = job[i]
  BY DEF OfJob, HandlerStep, AfterRefusal, CompleteJob, FailJob, ForwardJob, ThrowInHandler,
     Drained, CatchRefusal, FailAgain, Ends
<1>3. job[j] # "refailed" /\ job[j] # "available"
  BY DEF OfJob, HandlerStep, AfterRefusal, CompleteJob, FailJob, ForwardJob, ThrowInHandler,
     Drained, CatchRefusal, FailAgain
<1>4. owner[j] \in Workers  BY <1>3
<1>5. ASSUME NEW v \in Workers PROVE Miscounted(v) => Miscounted(v)'
  BY <1>1, <1>2, <1>3 DEF Miscounted
<1>6. CASE CompleteJob(j) \/ FailJob(j) \/ CatchRefusal(j)
  <2>1. UNCHANGED <<worker, activeJobs>> /\ (job'[j] \in Undone <=> job[j] \in Undone)
    BY <1>6 DEF CompleteJob, FailJob, CatchRefusal, workerVars
  <2>2. \A v \in Workers : HeldBy(v)' = HeldBy(v)  BY <1>1, <1>2, <2>1 DEF HeldBy
  <2>. QED  BY <1>5, <2>1, <2>2, SameCount
<1>7. CASE FailAgain(j)
  <2>1. /\ drainOne(owner[j]) /\ job[j] \notin Undone
        /\ job'[j] = "refailed"
    BY <1>7 DEF FailAgain, Ends
  <2>2. \A v \in Workers : v = owner[j] => Miscounted(v)'  BY <1>1, <2>1 DEF Miscounted
  <2>3. \A v \in Workers : HeldBy(v)' = HeldBy(v)  BY <1>1, <1>2, <2>1 DEF HeldBy
  <2>4. \A v \in Workers : v # owner[j] => worker'[v] = worker[v] /\ activeJobs'[v] = activeJobs[v]
    BY <1>0, <2>1
  <2>5. ASSUME NEW v \in Workers, v # owner[j] PROVE (Miscounted(v) \/ Trusted(v))'
    BY <1>5, <2>3, <2>4, <2>5, SameCount
  <2>6. ASSUME NEW v \in Workers PROVE (Miscounted(v) \/ Trusted(v))'
    BY <2>2, <2>5
  <2>. QED  BY <1>5, <2>6
<1>8. CASE Drained(j) \/ ForwardJob(j) \/ ThrowInHandler(j)
  <2>1. /\ drainOne(owner[j]) /\ job[j] \in Undone
        /\ job'[j] \notin Undone
    BY <1>8 DEF Drained, ForwardJob, ThrowInHandler, Ends
  <2>2. /\ \A v \in Workers : v # owner[j] => HeldBy(v)' = HeldBy(v)
        /\ \A v \in Workers : v = owner[j] => HeldBy(v)' = HeldBy(v) \ {j} /\ j \in HeldBy(v)
    BY <1>1, <1>2, <2>1 DEF HeldBy
  <2>3. ASSUME NEW v \in Workers, v # owner[j] PROVE (Miscounted(v) \/ Trusted(v))'
    <3>1. worker'[v] = worker[v] /\ activeJobs'[v] = activeJobs[v]
      BY <1>0, <2>1, <2>3
    <3>2. HeldBy(v)' = HeldBy(v)  BY <2>2, <2>3
    <3>. QED  BY <1>5, <3>1, <3>2, SameCount
  <2>4. ASSUME NEW w \in Workers, w = owner[j] PROVE (Miscounted(w) \/ Trusted(w))'
    <3>1. CASE Miscounted(w)  BY <1>5, <3>1
    <3>2. CASE Trusted(w)
      <4>1. /\ activeJobs'[w] = activeJobs[w] - 1
            /\ worker'[w] = IF worker[w] = "draining" /\ activeJobs[w] = 1
                            THEN "emptied" ELSE worker[w]
        BY <1>0, <2>1, <2>4
      <4>2. HeldBy(w)' = HeldBy(w) \ {j} /\ j \in HeldBy(w)  BY <2>2, <2>4
      <4>3. Cardinality(HeldBy(w) \ {j}) = Cardinality(HeldBy(w)) - 1 /\ IsFiniteSet(HeldBy(w) \ {j})
        BY <4>2, HeldFinite, FS_RemoveElement
      <4>4. worker[w] \notin Idle  BY <3>2, <4>2 DEF Trusted
      <4>5. worker'[w] \in Idle => HeldBy(w) \ {j} = {}
        <5>. SUFFICES ASSUME worker'[w] \in Idle PROVE HeldBy(w) \ {j} = {}
          OBVIOUS
        <5>1. activeJobs[w] = 1  BY <4>1, <4>4
        <5>2. Cardinality(HeldBy(w) \ {j}) = 0  BY <3>2, <4>3, <5>1 DEF Trusted
        <5>. QED  BY <4>3, <5>2, FS_EmptySet
      <4>6. Trusted(w)'
        BY <1>1, <3>2, <4>1, <4>2, <4>3, <4>5 DEF Trusted
      <4>. QED  BY <4>6
    <3>0. Miscounted(w) \/ Trusted(w)  OBVIOUS
    <3>. QED  BY <3>0, <3>1, <3>2
  <2>5. ASSUME NEW v \in Workers PROVE (Miscounted(v) \/ Trusted(v))'
    BY <2>3, <2>4
  <2>. QED  BY <1>5, <2>5
<1>. QED  BY <1>6, <1>7, <1>8 DEF OfJob, HandlerStep, AfterRefusal

LEMMA ShutdownInvJob ==
    ASSUME ShutdownInv, ShutdownTypeOK', NEW j \in Jobs, OfJob(j)
    PROVE  ShutdownInv'
<1>0. ShutdownTypeOK  BY DEF ShutdownInv
<1>1. /\ UNCHANGED <<closing, channelClosed>> /\ owner' = owner
      /\ \A i \in Jobs : i # j => status'[i] = status[i]
  BY <1>0, JobCommands, ShutdownTypeJob
<1>2. \A i \in Jobs : i # j => job'[i] = job[i]
  BY <1>0 DEF OfJob, HandlerStep, AfterRefusal, CompleteJob, FailJob, ForwardJob,
     ThrowInHandler, Drained, CatchRefusal, FailAgain, Ends, ShutdownTypeOK
<1>3. /\ job[j] # "available" /\ job'[j] \notin {"available", "working"}
      /\ job'[j] \in {"done", "refused", "refailed"} => status'[j] \notin Unsettled
  <2>. USE <1>0 DEF ShutdownInv, ShutdownTypeOK, Unsettled, Settled
  <2>1. CASE CompleteJob(j) \/ FailJob(j) \/ ThrowInHandler(j)
    BY <2>1 DEF CompleteJob, FailJob, ThrowInHandler, Ends
  <2>2. CASE Drained(j) \/ ForwardJob(j) \/ CatchRefusal(j)
    BY <2>2 DEF Drained, ForwardJob, CatchRefusal, Ends, retryVars
  <2>3. CASE FailAgain(j)
    <3>1. job[j] = "refused" /\ job'[j] = "refailed"  BY <2>3 DEF FailAgain, Ends
    <3>2. ~HandlerStep(j)
      BY <3>1 DEF HandlerStep, CompleteJob, FailJob, ThrowInHandler, ForwardJob
    <3>. QED  BY <3>1, <3>2, JobCommands
  <2>. QED  BY <2>1, <2>2, <2>3 DEF OfJob, HandlerStep, AfterRefusal
<1>4. \A v \in Workers : (Miscounted(v) \/ Trusted(v))'  BY JobCounted
<1>5. channelClosed => \A v \in Workers : worker'[v] \in {"absent", "closed"}
  <2>1. ASSUME NEW w \in Workers, drainOne(w), NEW v \in Workers, worker[v] \in {"absent", "closed"}
        PROVE  worker'[v] = worker[v]
    BY <1>0, <2>1, DrainType
  <2>2. UNCHANGED worker \/ (drainOne(owner[j]) /\ owner[j] \in Workers)
    BY <1>3 DEF OfJob, HandlerStep, AfterRefusal, CompleteJob, FailJob, ForwardJob,
       ThrowInHandler, Drained, CatchRefusal, FailAgain, Ends, workerVars, ShutdownInv
  <2>. QED  BY <2>1, <2>2 DEF ShutdownInv
<1>. QED  BY <1>1, <1>2, <1>3, <1>4, <1>5 DEF ShutdownInv

LEMMA ShutdownInvCommand ==
    ASSUME ShutdownInv, ShutdownTypeOK', NEW c \in Commands, CommandStep(c)
    PROVE  ShutdownInv'
<1>1. /\ UNCHANGED <<worker, activeJobs, owner, job, closing, channelClosed>>
      /\ status[c] \in Unsettled
  BY DEF CommandStep, workerVars, jobVars, RetryFires, Reply, Accepted, Refused,
     NetworkError, Backpressure, Dropped, clientVars, Unsettled
<1>2. \A d \in Commands : d # c => status'[d] = status[d]
  BY OneCommand DEF CommandStep, ShutdownInv, ShutdownTypeOK
<1>3. \A w \in Workers : (Miscounted(w) \/ Trusted(w))' <=> (Miscounted(w) \/ Trusted(w))
  BY <1>1 DEF Miscounted, Trusted, HeldBy
<1>4. Jobs \subseteq Commands  BY WorkersAssumption
<1>5. c \in Jobs => job[c] \notin {"available", "working", "done", "refused", "refailed"}
  BY <1>1 DEF ShutdownInv, Unsettled
<1>. QED  BY <1>1, <1>2, <1>3, <1>4, <1>5 DEF ShutdownInv

LEMMA ShutdownInvStep == ShutdownInv /\ [ShutdownNext]_shutdownVars => ShutdownInv'
<1>. SUFFICES ASSUME ShutdownInv, [ShutdownNext]_shutdownVars PROVE ShutdownInv'
  OBVIOUS
<1>0. ShutdownTypeOK'  BY ShutdownTypeStep DEF ShutdownInv
<1>1. CASE CloseClient
  <2>1. /\ UNCHANGED <<job, owner, activeJobs, status, channelClosed>> /\ closing'
        /\ \A w \in Workers : worker'[w] = Closing(w)
    BY <1>1 DEF CloseClient, StartClosing, jobVars
  <2>2. ~channelClosed  BY <1>1 DEF CloseClient, StartClosing, ShutdownInv
  <2>3. \A w \in Workers : HeldBy(w)' = HeldBy(w) /\ Miscounted(w)' = Miscounted(w)
    BY <2>1 DEF HeldBy, Miscounted
  <2>4. \A w \in Workers : (Miscounted(w) \/ Trusted(w))'
    BY <2>1, <2>3, CloseTrusted
  <2>. QED  BY <1>0, <2>1, <2>2, <2>4 DEF ShutdownInv
<1>2. CASE ClientResolves
  <2>1. UNCHANGED <<job, owner, worker, activeJobs, status, closing>> /\ closing
    BY <1>2 DEF ClientResolves, CloseChannel, workerVars, jobVars
  <2>2. \A w \in Workers : worker[w] \in {"absent", "closed"}
    BY <1>2 DEF ClientResolves
  <2>3. \A w \in Workers : (Miscounted(w) \/ Trusted(w))' <=> (Miscounted(w) \/ Trusted(w))
    BY <2>1 DEF HeldBy, Miscounted, Trusted
  <2>. QED  BY <1>0, <2>1, <2>2, <2>3 DEF ShutdownInv
<1>3. CASE UNCHANGED shutdownVars
  BY <1>0, <1>3 DEF shutdownVars, workerVars, jobVars, retryVars, clientVars, ShutdownInv,
     Trusted, Miscounted, HeldBy
<1>. QED
  BY <1>0, <1>1, <1>2, <1>3, ShutdownInvWorker, ShutdownInvActivate, ShutdownInvJob,
     ShutdownInvCommand
  DEF ShutdownNext, WorkerStep, OfJob

\* When close() resolves, no handler is running or waiting for a command, but
\* for the workers of which a refused job.fail() was drained twice.
THEOREM NoJobIsLeft == ShutdownSpec => []NoJobLeft
<1>1. ShutdownInv => NoJobLeft
  <2>. SUFFICES ASSUME ShutdownInv, channelClosed, NEW j \in Jobs, job[j] \in Undone
                PROVE  Miscounted(owner[j])
    BY DEF NoJobLeft
  <2>1. owner[j] \in Workers  BY DEF ShutdownInv, Undone
  <2>2. j \in HeldBy(owner[j])  BY DEF HeldBy
  <2>. QED  BY <2>1, <2>2 DEF ShutdownInv, Trusted, Idle
<1>. QED  BY <1>1, ShutdownInvInit, ShutdownInvStep, PTL DEF ShutdownSpec

\* By then every command a handler waits for has settled, with the same
\* exception: only those sent for a handler that threw may be under way.
THEOREM AwaitedAreSettled == ShutdownSpec => []AwaitedSettled
<1>1. ShutdownInv => AwaitedSettled
  <2>. SUFFICES ASSUME ShutdownInv, channelClosed, NEW j \in Jobs, status[j] \in Unsettled,
                       ~Miscounted(owner[j])
                PROVE  job[j] = "thrown"
    BY DEF AwaitedSettled
  <2>1. job[j] \notin {"available", "working", "done", "refused", "refailed"}
    BY DEF ShutdownInv, Unsettled
  <2>2. job[j] \in JobState  BY DEF ShutdownInv, ShutdownTypeOK
  <2>3. ASSUME job[j] \in Undone PROVE FALSE
    <3>1. owner[j] \in Workers  BY <2>3 DEF ShutdownInv, Undone
    <3>2. j \in HeldBy(owner[j])  BY <2>3 DEF HeldBy
    <3>. QED  BY <3>1, <3>2 DEF ShutdownInv, Trusted, Idle
  <2>. QED  BY <2>1, <2>2, <2>3 DEF JobState, Undone
<1>. QED  BY <1>1, ShutdownInvInit, ShutdownInvStep, PTL DEF ShutdownSpec

-----------------------------------------------------------------------------
(* Acknowledged means sent, without retries. *)

SentInv ==
    /\ ShutdownInv /\ Cap > 0
    /\ ~retry => \A j \in Jobs :
          /\ status[j] # "waiting"
          /\ status[j] # "idle" => attempts[j] > 0 \/ Miscounted(owner[j])

LEMMA SentInit == ShutdownInit => SentInv
<1>. SUFFICES ASSUME ShutdownInit PROVE SentInv
  OBVIOUS
<1>1. Cap > 0
  <2>1. PICK n \in MaxRetriesOptions : TRUE  BY DEF ShutdownInit, RetryInit
  <2>. QED  BY <2>1, RetryAssumption
<1>2. \A j \in Jobs : status[j] = "idle"
  BY WorkersAssumption DEF ShutdownInit, RetryInit
<1>. QED  BY <1>1, <1>2, ShutdownInvInit DEF SentInv

\* A job that is being worked on holds the channel open, so that its command
\* is sent.
LEMMA SentIssue ==
    ASSUME SentInv, NEW j \in Jobs, Issue(j), job[j] = "working", ~retry,
           ~Miscounted(owner[j])
    PROVE  status'[j] = "inflight" /\ attempts'[j] > 0
<1>0. RetryTypeOK /\ j \in Commands
  BY WorkersAssumption DEF SentInv, ShutdownInv, ShutdownTypeOK
<1>1. ~channelClosed
  <2>1. owner[j] \in Workers /\ j \in HeldBy(owner[j])
    BY DEF SentInv, ShutdownInv, HeldBy, Undone
  <2>. QED  BY <2>1 DEF SentInv, ShutdownInv, Trusted, Idle
<1>2. status' = [status EXCEPT ![j] = "inflight"] /\ attempts' = Count(attempts, j)
  BY <1>1 DEF Issue, Attempt, Set
<1>. QED  BY <1>0, <1>2, CountType, RetryAssumption DEF RetryTypeOK, SentInv

\* Without retries a command that is issued does not wait.
LEMMA IssuedNotWaiting ==
    ASSUME RetryTypeOK, NEW c \in Commands, Issue(c), ~retry
    PROVE  status'[c] # "waiting"
  BY DEF Issue, Attempt, Set, Settled, RetryTypeOK

LEMMA SentJob ==
    ASSUME SentInv, ShutdownInv', NEW j \in Jobs, OfJob(j)
    PROVE  SentInv'
<1>0. ShutdownInv /\ ShutdownTypeOK /\ ShutdownTypeOK' /\ RetryTypeOK /\ j \in Commands
  BY WorkersAssumption DEF SentInv, ShutdownInv, ShutdownTypeOK
<1>1. /\ retry' = retry /\ owner' = owner
      /\ \A i \in Jobs : i # j => status'[i] = status[i] /\ attempts'[i] = attempts[i]
      /\ Issue(j) \/ (status'[j] = status[j] /\ attempts'[j] = attempts[j])
      /\ HandlerStep(j) /\ ~ForwardJob(j) => Issue(j)
      /\ ~HandlerStep(j) \/ ForwardJob(j) =>
            status'[j] = status[j] /\ attempts'[j] = attempts[j]
  BY <1>0, JobCommands, ShutdownTypeJob
<1>2. \A v \in Workers : Miscounted(v) => Miscounted(v)'
  BY <1>0, JobCounted
<1>3. \A i \in Jobs : job[i] # "available" => owner[i] \in Workers
  BY <1>0 DEF ShutdownInv
<1>4. \A i \in Jobs : status[i] # "idle" /\ Miscounted(owner[i]) => Miscounted(owner[i])'
  <2>. SUFFICES ASSUME NEW i \in Jobs, status[i] # "idle", Miscounted(owner[i])
                PROVE  Miscounted(owner[i])'
    OBVIOUS
  <2>1. owner[i] \in Workers  BY <1>0, <1>3 DEF ShutdownInv
  <2>2. PICK v \in Workers : v = owner[i]  BY <2>1
  <2>3. Miscounted(v)'  BY <1>2, <2>2
  <2>. QED  BY <1>1, <2>2, <2>3
<1>5. CASE HandlerStep(j) /\ ~ForwardJob(j)
  <2>1. Issue(j)  BY <1>1, <1>5
  <2>2. job[j] = "working"
    BY <1>5 DEF HandlerStep, CompleteJob, FailJob, ThrowInHandler
  <2>3. ASSUME ~retry
        PROVE  status'[j] # "waiting" /\ (attempts'[j] > 0 \/ Miscounted(owner[j])')
    <3>1. status'[j] # "waiting"  BY <1>0, <2>1, <2>3, IssuedNotWaiting
    <3>2. ASSUME Miscounted(owner[j]) PROVE Miscounted(owner[j])'
      <4>1. PICK v \in Workers : v = owner[j]  BY <1>3, <2>2
      <4>2. Miscounted(v)'  BY <1>2, <3>2, <4>1
      <4>. QED  BY <1>1, <4>1, <4>2
    <3>. QED  BY <2>1, <2>2, <2>3, <3>1, <3>2, SentIssue
  <2>. QED  BY <1>1, <1>4, <2>3 DEF SentInv
<1>6. CASE ~HandlerStep(j) \/ ForwardJob(j)
  <2>1. \A i \in Jobs : status'[i] = status[i] /\ attempts'[i] = attempts[i]
    BY <1>1, <1>6
  <2>. QED  BY <1>1, <1>4, <2>1 DEF SentInv
<1>. QED  BY <1>5, <1>6

LEMMA SentCommand ==
    ASSUME SentInv, ShutdownInv', NEW c \in Commands, CommandStep(c)
    PROVE  SentInv'
<1>0. RetryTypeOK /\ UNCHANGED <<job, owner>> /\ Jobs \subseteq Commands
  BY WorkersAssumption
  DEF SentInv, ShutdownInv, ShutdownTypeOK, CommandStep, workerVars, jobVars
<1>1. retry' = retry
  BY DEF CommandStep, RetryFires, Reply, Accepted, Refused, NetworkError, Backpressure,
     Dropped, clientVars, options
<1>2. \A v : Miscounted(v)' = Miscounted(v)  BY <1>0 DEF Miscounted
<1>3. CASE retry  BY <1>1, <1>3 DEF SentInv
<1>4. CASE ~retry /\ Reply(c)
  <2>1. attempts' = attempts /\ status[c] = "inflight"
    BY <1>4 DEF Reply, Accepted, Refused, NetworkError, Backpressure, Dropped, counters
  <2>2. status'[c] # "waiting"
    BY <1>0, <1>4 DEF Reply, Accepted, Refused, NetworkError, Backpressure, Dropped, Again,
       Set, RetryTypeOK
  <2>3. \A d \in Commands : d # c => status'[d] = status[d]
    BY <1>0, <1>4, OneCommand
  <2>. QED  BY <1>0, <1>1, <1>2, <2>1, <2>2, <2>3 DEF SentInv
<1>5. CASE ~retry /\ RetryFires(c)
  <2>1. status[c] = "waiting"  BY <1>5 DEF RetryFires
  <2>2. c \notin Jobs  BY <1>5, <2>1 DEF SentInv
  <2>3. \A d \in Commands : d # c => status'[d] = status[d] /\ attempts'[d] = attempts[d]
    BY <1>0, <1>5, OneCommand, CountType DEF RetryFires, Attempt, RetryTypeOK
  <2>. QED  BY <1>0, <1>1, <1>2, <2>2, <2>3 DEF SentInv
<1>. QED  BY <1>3, <1>4, <1>5 DEF CommandStep

LEMMA SentStep == SentInv /\ [ShutdownNext]_shutdownVars => SentInv'
<1>. SUFFICES ASSUME SentInv, [ShutdownNext]_shutdownVars PROVE SentInv'
  OBVIOUS
<1>0. ShutdownInv'  BY ShutdownInvStep DEF SentInv
<1>1. ASSUME UNCHANGED <<status, attempts, retry>>,
             \A j \in Jobs : status[j] # "idle" /\ Miscounted(owner[j]) => Miscounted(owner[j])'
      PROVE  SentInv'
  BY <1>0, <1>1 DEF SentInv
<1>2. ASSUME NEW w \in Workers, NEW j \in Jobs, Activate(w, j) PROVE SentInv'
  <2>1. UNCHANGED <<status, attempts, retry>> /\ job[j] = "available"
    BY <1>2 DEF Activate, retryVars, counters, clientVars, options
  <2>2. \A i \in Jobs : i # j => job'[i] = job[i] /\ owner'[i] = owner[i]
    BY <1>2 DEF Activate, SentInv, ShutdownInv, ShutdownTypeOK
  <2>3. status[j] = "idle"  BY <2>1 DEF SentInv, ShutdownInv
  <2>4. \A i \in Jobs : status[i] # "idle" /\ Miscounted(owner[i]) => Miscounted(owner[i])'
    BY <2>1, <2>2, <2>3 DEF Miscounted
  <2>. QED  BY <1>1, <2>1, <2>4
<1>3. ASSUME \/ \E w \in Workers : CreateWorker(w) \/ CloseWorker(w) \/ WorkerResolves(w)
             \/ CloseClient \/ ClientResolves \/ UNCHANGED shutdownVars
      PROVE  SentInv'
  <2>1. UNCHANGED <<status, attempts, retry, job, owner>>
    BY <1>3 DEF CreateWorker, CloseWorker, WorkerResolves, CloseClient, StartClosing,
       ClientResolves, CloseChannel, shutdownVars, retryVars, counters, clientVars, options,
       jobVars
  <2>2. \A j \in Jobs : Miscounted(owner[j])' = Miscounted(owner[j])
    BY <2>1 DEF Miscounted
  <2>. QED  BY <1>1, <2>1, <2>2
<1>. QED
  BY <1>0, <1>2, <1>3, SentJob, SentCommand DEF ShutdownNext, WorkerStep, OfJob

\* A client without retries acknowledges no command it did not send, but to
\* handlers of a worker that miscounted.
THEOREM WithoutRetryIsSent == ShutdownSpec => []SentWithoutRetry
<1>1. SentInv => SentWithoutRetry
  BY DEF SentInv, SentWithoutRetry, Acknowledged
<1>. QED  BY <1>1, SentInit, SentStep, PTL DEF ShutdownSpec
=============================================================================
