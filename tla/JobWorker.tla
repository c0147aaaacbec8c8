------------------------------ MODULE JobWorker ------------------------------
(***************************************************************************)
(* One job worker: the polling loop, the ActivateJobs streams, the         *)
(* capacity counter, the job handlers and close()                          *)
(* (src/lib/ZBWorkerBase.ts, src/zb/ZBWorker.ts).                          *)
(*                                                                         *)
(* Every action is one turn of the Node.js event loop (or one microtask    *)
(* after an await): between two actions anything else may run.  The        *)
(* gateway, the gRPC library and the code of the handlers are external;    *)
(* the constants say which of their behaviours a configuration allows.     *)
(***************************************************************************)
EXTENDS Integers, FiniteSets

CONSTANTS
    Tasks,           \* activations of a job: one task per job handed over
    Streams,         \* slots for ActivateJobs calls, reused when free
    NoStream,        \* the value undefined of jobStream
    MaxJobs,         \* maxJobsToActivate
    HandlerActions,  \* what the handlers' code does with a job
    Rejections,      \* commands the gateway may reject
    FailProcessOnException, \* the worker option of that name
    LateServer,      \* the gateway may answer after the client-side timeout
    Overloads,       \* it may answer RESOURCE_EXHAUSTED or INTERNAL
    MalformedJobs,   \* a response may hold variables that are not JSON
    MaxBackoffs,     \* bound: backoff timers pending at a time
    MaxUnderflow     \* bound: how far misuse may push activeJobs below zero

\* The commands of a job; of each kind at most one is in flight per job.
Commands == {"complete", "fail", "error", "cancelWorkflow"}

\* What a handler may do, and its misuse: acting or throwing after it has
\* acted, and leaving a job without having acted.
Actions == Commands \cup {"forward", "throw", "again", "throwLate", "ignore"}

ASSUME TasksAssumption == IsFiniteSet(Tasks)
ASSUME StreamsAssumption == IsFiniteSet(Streams) /\ NoStream \notin Streams
ASSUME MaxJobsAssumption == MaxJobs \in Nat \ {0}
ASSUME ActionsAssumption ==
    /\ HandlerActions \subseteq Actions
    /\ Rejections \subseteq {"fail", "cancelWorkflow"}
ASSUME FlagsAssumption ==
    /\ FailProcessOnException \in BOOLEAN
    /\ LateServer \in BOOLEAN
    /\ Overloads \in BOOLEAN
    /\ MalformedJobs \in BOOLEAN
ASSUME BoundsAssumption == MaxBackoffs \in Nat \ {0} /\ MaxUnderflow \in Nat

VARIABLES
    activeJobs,    \* the counter the worker decides with
    tasks,         \* how far the handler of each activation has got
    inFlight,      \* the commands of each that have not been answered
    drained,       \* the activations for which drainOne() has run
    closePromise,  \* "none" until close() is called
    pollMutex,     \* a poll is between activateJobs() and its stream
    amount,        \* the jobs that poll asked for
    jobStream,     \* the stream the worker believes is open
    streams,       \* what each ActivateJobs call is on the wire
    budget,        \* the jobs a stream may still deliver
    backoffs       \* pending setTimeout(handleStreamEnd) after an overload

capacityVars == <<activeJobs, closePromise>>
taskVars == <<tasks, inFlight, drained>>
streamVars == <<jobStream, streams, budget, backoffs>>
pollVars == <<pollMutex, amount>>
vars == <<capacityVars, taskVars, streamVars, pollVars>>

(***************************************************************************)
(* "running": the handler has not acted.  "acted": it has, and may await   *)
(* the answer or not.  "rejected": a command it awaits was refused.        *)
(* "cancelling": it threw, and the worker cancels the process.  "returned": *)
(* it does nothing more with the job.  "leaked": returned with nothing in  *)
(* flight and not drained, so that nothing will ever drain it.             *)
(***************************************************************************)
TaskState == {"idle", "running", "acted", "rejected", "cancelling", "returned", "leaked"}

\* "dead": the call has a stream but nothing will come on it.  "timedout":
\* 'end' was emitted by the client-side timeout, the call itself goes on.
StreamState == {"free", "live", "dead", "timedout"}

\* "idle" and "emptied" await the channel's close: called with no active
\* job, or after the Empty event that "draining" waits for.
CloseState == {"none", "idle", "draining", "emptied", "resolved"}

\* Counted: delivered and not drained.  Somebody works on the jobs Held.
Counted == {t \in Tasks : tasks[t] # "idle" /\ t \notin drained}
Leaked == {t \in Counted : tasks[t] = "leaked"}
Held == Counted \ Leaked

closing == closePromise # "none"
channelClosed == closePromise \in {"idle", "emptied", "resolved"}
AtCapacity == 10 * activeJobs > 3 * MaxJobs
Serving == {s \in Streams : streams[s] \in {"live", "timedout"}}

Init ==
    /\ activeJobs = 0
    /\ tasks = [t \in Tasks |-> "idle"]
    /\ inFlight = [t \in Tasks |-> {}]
    /\ drained = {}
    /\ closePromise = "none"
    /\ pollMutex = FALSE
    /\ amount = 0
    /\ jobStream = NoStream
    /\ streams = [s \in Streams |-> "free"]
    /\ budget = [s \in Streams |-> 0]
    /\ backoffs = 0

-----------------------------------------------------------------------------
\* Mutants of PollStart: polling over an open stream; no capacity arithmetic.
PollStartOverStream ==
    /\ ~pollMutex /\ ~closing /\ ~AtCapacity
    /\ pollMutex' = TRUE /\ amount' = MaxJobs - activeJobs
    /\ UNCHANGED <<capacityVars, taskVars, streamVars>>
PollStartUnchecked ==
    /\ ~pollMutex /\ jobStream = NoStream /\ ~closing
    /\ pollMutex' = TRUE /\ amount' = MaxJobs
    /\ UNCHANGED <<capacityVars, taskVars, streamVars>>

\* Polling.  activateJobs() computes the amount before it awaits the token
\* and the call.
PollStart ==
    /\ ~pollMutex /\ jobStream = NoStream
    /\ ~closing
    /\ ~AtCapacity
    /\ pollMutex' = TRUE
    /\ amount' = MaxJobs - activeJobs
    /\ UNCHANGED <<capacityVars, taskVars, streamVars>>

PollOpen(s, kind) ==
    /\ pollMutex /\ ~channelClosed
    /\ streams[s] = "free"
    /\ streams' = [streams EXCEPT ![s] = kind]
    /\ budget' = [budget EXCEPT ![s] = amount]
    /\ jobStream' = s
    /\ pollMutex' = FALSE
    /\ amount' = 0
    /\ UNCHANGED <<capacityVars, taskVars, backoffs>>

\* No token, or the call threw (as it does once the channel is closed).
PollFail ==
    /\ pollMutex
    /\ pollMutex' = FALSE
    /\ amount' = 0
    /\ UNCHANGED <<capacityVars, taskVars, streamVars>>

\* Mutant of Deliver: the check of this.closing is missing.
DeliverWhileClosing(s, ts, state) ==
    /\ s \in Serving
    /\ ts # {} /\ Cardinality(ts) <= budget[s]
    /\ \A t \in ts : tasks[t] = "idle"
    /\ budget' = [budget EXCEPT ![s] = @ - Cardinality(ts)]
    /\ activeJobs' = activeJobs + Cardinality(ts)
    /\ tasks' = [t \in Tasks |-> IF t \in ts THEN state ELSE tasks[t]]
    /\ drained' = drained \ ts
    /\ UNCHANGED <<closePromise, inFlight, jobStream, streams, backoffs, pollVars>>

\* handleJobResponse: the counter moves before the payload is parsed.
Deliver(s, ts, state) ==
    /\ s \in Serving
    /\ ts # {} /\ Cardinality(ts) <= budget[s]
    /\ \A t \in ts : tasks[t] = "idle"
    /\ budget' = [budget EXCEPT ![s] = @ - Cardinality(ts)]
    /\ IF closing
       THEN UNCHANGED <<activeJobs, tasks, drained>>
       ELSE /\ activeJobs' = activeJobs + Cardinality(ts)
            /\ tasks' = [t \in Tasks |-> IF t \in ts THEN state ELSE tasks[t]]
            /\ drained' = drained \ ts
    /\ UNCHANGED <<closePromise, inFlight, jobStream, streams, backoffs, pollVars>>

StreamData(s, ts) == Deliver(s, ts, "running")
StreamDataMalformed(s, ts) == MalformedJobs /\ Deliver(s, ts, "leaked")

\* The listeners take no account of which stream they were attached to.
handleStreamEnd == jobStream' = NoStream

StreamEnd(s) ==
    /\ s \in Serving
    /\ handleStreamEnd
    /\ streams' = [streams EXCEPT ![s] = "free"]
    /\ budget' = [budget EXCEPT ![s] = 0]
    /\ UNCHANGED <<capacityVars, taskVars, backoffs, pollVars>>

\* Mutant of StreamTimeout: the client-side timeout keeps the stream.
StreamTimeoutKeeping(s) ==
    /\ streams[s] = "dead" \/ (streams[s] = "live" /\ LateServer)
    /\ streams' = [streams EXCEPT ![s] = IF @ = "dead" THEN "free" ELSE "timedout"]
    /\ budget' = [budget EXCEPT ![s] = IF streams[s] = "dead" THEN 0 ELSE @]
    /\ UNCHANGED <<capacityVars, taskVars, jobStream, backoffs, pollVars>>

StreamTimeout(s) ==
    /\ streams[s] = "dead" \/ (streams[s] = "live" /\ LateServer)
    /\ handleStreamEnd
    /\ streams' = [streams EXCEPT ![s] =
                     IF @ = "dead" THEN "free" ELSE "timedout"]
    /\ budget' = [budget EXCEPT ![s] = IF streams[s] = "dead" THEN 0 ELSE @]
    /\ UNCHANGED <<capacityVars, taskVars, backoffs, pollVars>>

\* Mutant of StreamError: no listener for a stream that ends with an error.
StreamErrorUnheard(s, overload) ==
    /\ s \in Serving
    /\ streams' = [streams EXCEPT ![s] = "free"]
    /\ budget' = [budget EXCEPT ![s] = 0]
    /\ ~overload
    /\ UNCHANGED <<capacityVars, taskVars, jobStream, backoffs, pollVars>>

\* 'error', and in the same turn the 'end' that grpc-js emits after it: an
\* overload starts its timer, but the stream ends like any other.
StreamError(s, overload) ==
    /\ s \in Serving
    /\ overload => Overloads /\ backoffs < MaxBackoffs
    /\ backoffs' = IF overload THEN backoffs + 1 ELSE backoffs
    /\ handleStreamEnd
    /\ streams' = [streams EXCEPT ![s] = "free"]
    /\ budget' = [budget EXCEPT ![s] = 0]
    /\ UNCHANGED <<capacityVars, taskVars, pollVars>>

\* The interceptor drops a CANCELLED status that holds a 503: no 'end' and no
\* 'error' will come from the call.
StreamSilenced(s) ==
    /\ s \in Serving
    /\ streams' = [streams EXCEPT ![s] = IF @ = "live" THEN "dead" ELSE "free"]
    /\ budget' = [budget EXCEPT ![s] = 0]
    /\ UNCHANGED <<capacityVars, taskVars, jobStream, backoffs, pollVars>>

BackoffFires ==
    /\ backoffs > 0
    /\ backoffs' = backoffs - 1
    /\ handleStreamEnd
    /\ UNCHANGED <<capacityVars, taskVars, streams, budget, pollVars>>

-----------------------------------------------------------------------------
\* Mutant of drainOne: the counter is compared before it is decremented.
drainOneLate ==
    /\ activeJobs > -MaxUnderflow
    /\ activeJobs' = activeJobs - 1
    /\ closePromise' = IF closePromise = "draining" /\ activeJobs = 0
                       THEN "emptied" ELSE closePromise

\* drainOne() runs the close continuation only when the counter is exactly 0.
drainOne ==
    /\ activeJobs > -MaxUnderflow
    /\ activeJobs' = activeJobs - 1
    /\ closePromise' = IF closePromise = "draining" /\ activeJobs = 1
                       THEN "emptied" ELSE closePromise

\* A job the handler has returned from is over once nothing of it is in
\* flight: its slot is free, or leaked if no drain ever came.
Move(t, state, commands, done) ==
    LET over == state = "returned" /\ commands = {} IN
    /\ tasks' = [tasks EXCEPT ![t] = IF ~over THEN state
                                     ELSE IF t \in done THEN "idle" ELSE "leaked"]
    /\ inFlight' = [inFlight EXCEPT ![t] = commands]
    /\ drained' = IF over THEN done \ {t} ELSE done
    /\ UNCHANGED <<streamVars, pollVars>>

Quietly(t, state, commands) ==
    Move(t, state, commands, drained) /\ UNCHANGED capacityVars
Draining(t, state, commands) ==
    Move(t, state, commands, drained \cup {t}) /\ drainOne

\* A second action warns and then does its work like the first; after
\* cancelWorkflow() there is not even a warning.
MayAct(t, action) ==
    /\ action \in HandlerActions
    /\ \/ tasks[t] = "running"
       \/ tasks[t] \in {"acted", "rejected"} /\ "again" \in HandlerActions

Send(t, command) ==
    /\ MayAct(t, command) /\ command \notin inFlight[t]
    /\ Quietly(t, "acted", inFlight[t] \cup {command})

Forward(t) == MayAct(t, "forward") /\ Draining(t, "acted", inFlight[t])

Return(t) ==
    /\ \/ tasks[t] \in {"acted", "rejected"}
       \/ tasks[t] = "running" /\ "ignore" \in HandlerActions
    /\ Quietly(t, "returned", inFlight[t])

\* The catch of handleJob.  Its failJob is not awaited, its cancel is.
Throw(t) ==
    /\ \/ tasks[t] = "running" /\ "throw" \in HandlerActions
       \/ tasks[t] = "acted" /\ "throwLate" \in HandlerActions
       \/ tasks[t] = "rejected"
    /\ IF FailProcessOnException
       THEN Quietly(t, "cancelling", inFlight[t])
       ELSE Draining(t, "returned", inFlight[t])

\* Mutant of CommandSettles: no finally, an answer that is an error drains
\* nothing.
CommandSettlesUndrained(t, command) ==
    /\ command \in inFlight[t] \ {"cancelWorkflow"}
    /\ \/ Draining(t, tasks[t], inFlight[t] \ {command})
       \/ Quietly(t, tasks[t], inFlight[t] \ {command})

\* completeJob and errorJob drain whatever the answer is, failJob too.
CommandSettles(t, command) ==
    /\ command \in inFlight[t] \ {"cancelWorkflow"}
    /\ Draining(t, tasks[t], inFlight[t] \ {command})

\* What a handler that is still there learns from a rejection.
Refused(t) == IF tasks[t] = "acted" THEN "rejected" ELSE tasks[t]

\* Only failJob lets a rejection through to the handler, after its drain.
FailRejected(t) ==
    /\ "fail" \in inFlight[t] \cap Rejections
    /\ Draining(t, Refused(t), inFlight[t] \ {"fail"})

\* job.cancelWorkflow() drains nothing, whatever the answer.
CancelAccepted(t) ==
    /\ "cancelWorkflow" \in inFlight[t]
    /\ Quietly(t, tasks[t], inFlight[t] \ {"cancelWorkflow"})

CancelRejected(t) ==
    /\ "cancelWorkflow" \in inFlight[t] \cap Rejections
    /\ Quietly(t, Refused(t), inFlight[t] \ {"cancelWorkflow"})

CancelSettles(t) == tasks[t] = "cancelling" /\ Draining(t, "returned", inFlight[t])

-----------------------------------------------------------------------------
\* Mutant of Close: the active jobs are not waited for.
CloseAtOnce ==
    /\ ~closing
    /\ closePromise' = "idle"
    /\ UNCHANGED <<activeJobs, taskVars, streamVars, pollVars>>

Close ==
    /\ ~closing
    /\ closePromise' = IF activeJobs <= 0 THEN "idle" ELSE "draining"
    /\ UNCHANGED <<activeJobs, taskVars, streamVars, pollVars>>

\* The middleware's close() closes the channel and does not wait for it.
\* Only the worker that was idle at close() cancels its stream.
ChannelCloses ==
    /\ closePromise \in {"idle", "emptied"}
    /\ closePromise' = "resolved"
    /\ IF closePromise = "idle" /\ jobStream # NoStream
       THEN /\ streams' = [streams EXCEPT ![jobStream] = "free"]
            /\ budget' = [budget EXCEPT ![jobStream] = 0]
            /\ jobStream' = NoStream
       ELSE UNCHANGED <<streams, budget, jobStream>>
    /\ UNCHANGED <<activeJobs, taskVars, backoffs, pollVars>>

-----------------------------------------------------------------------------
Act(t) == Forward(t) \/ Throw(t) \/ Return(t) \/ \E c \in Commands : Send(t, c)
Answer(t) == FailRejected(t) \/ CancelAccepted(t) \/ CancelRejected(t)
             \/ CancelSettles(t) \/ \E c \in Commands : CommandSettles(t, c)
PollAnswer == PollFail \/ \E s \in Streams, k \in {"live", "dead"} : PollOpen(s, k)
StreamCloses(s) == StreamEnd(s) \/ StreamSilenced(s) \/ \E o \in BOOLEAN : StreamError(s, o)

Next ==
    \/ PollStart \/ PollAnswer
    \/ \E s \in Streams :
          \/ \E ts \in SUBSET Tasks : StreamData(s, ts) \/ StreamDataMalformed(s, ts)
          \/ StreamCloses(s) \/ StreamTimeout(s)
    \/ BackoffFires
    \/ \E t \in Tasks : Act(t) \/ Answer(t)
    \/ Close \/ ChannelCloses

Spec == Init /\ [][Next]_vars

\* setInterval fires, timers fire, the gateway answers or the transport gives
\* the call up, every handler goes on and returns, channels close.  That a
\* poll gets past the call for its token is an assumption: that call has no
\* timeout of its own.
Fairness ==
    /\ WF_vars(PollStart) /\ WF_vars(PollAnswer) /\ WF_vars(BackoffFires)
    /\ \A s \in Streams : WF_vars(StreamCloses(s)) /\ WF_vars(StreamTimeout(s))
    /\ \A t \in Tasks : WF_vars(Act(t)) /\ WF_vars(Return(t)) /\ WF_vars(Answer(t))
    /\ WF_vars(ChannelCloses)

FairSpec == Spec /\ Fairness

-----------------------------------------------------------------------------
\* The type of every variable; the counter may go below zero by misuse.
TypeOK ==
    /\ activeJobs \in Int
    /\ tasks \in [Tasks -> TaskState]
    /\ inFlight \in [Tasks -> SUBSET Commands]
    /\ drained \in SUBSET Tasks
    /\ closePromise \in CloseState
    /\ pollMutex \in BOOLEAN
    /\ amount \in Nat
    /\ jobStream \in Streams \cup {NoStream}
    /\ streams \in [Streams -> StreamState]
    /\ budget \in [Streams -> Nat]
    /\ backoffs \in 0..MaxBackoffs

\* Every job gets to a handler that acts on it or throws, and lets go of it
\* in no other way.
NothingLeaks ==
    /\ HandlerActions \cap {"cancelWorkflow", "ignore"} = {}
    /\ ~MalformedJobs

\* Handlers that act on each job once, and no rejected job.fail().
Disciplined ==
    /\ NothingLeaks
    /\ HandlerActions \cap {"again", "throwLate"} = {}
    /\ "fail" \notin Rejections

\* A gateway that is never overloaded and never answers too late.
CleanWire == ~LateServer /\ ~Overloads

\* drainOne() runs exactly once per job: the counter that decides polling
\* and closing is the number of jobs handlers and commands really hold
\* (ZBWorkerBase.ts drainOne, completeJob, failJob, errorJob, ZBWorker.ts
\* handleJob), whatever the order of answers, returns and exceptions.
CapacityAccounted == activeJobs = Cardinality(Held)

\* The promise of close() is resolved, and the channel closed, only when no
\* job is being worked on: no completion is cut off by the worker's own
\* shutdown (ZBWorkerBase.ts close).
DrainedBeforeResolved == channelClosed => Held = {}

\* The jobs worked on at a time never exceed maxJobsToActivate, although the
\* amount of a request is fixed before the call that carries it
\* (ZBWorkerBase.ts activateJobs).  Not so on a wire that is not clean.
ConcurrencyBounded == Cardinality(Held) <= MaxJobs

\* What the counter holds too much is jobs that leaked, by a payload that
\* does not parse, by job.cancelWorkflow() or by a handler that never acts;
\* everything else drains at least once, however handlers act again, throw
\* late or have commands refused.  The capacity of a leaked job is lost, and
\* close() waits for it for ever (ZBWorkerBase.ts drainOne,
\* handleJobResponse, ZBWorker.ts handleJob).
OvercountIsLeaked == activeJobs <= Cardinality(Counted)

\* A close() that is waiting has a job to wait for, held or leaked: no drain,
\* however often repeated or out of turn, jumps over the zero at which the
\* Empty event is emitted (ZBWorkerBase.ts close, drainOne).
CloseWaitsForJobs == closePromise = "draining" => Counted # {}

\* What is left of the counter when nothing is asked of handlers, gateway and
\* library: it is too high only by what leaked, and close() notices when it
\* gets to zero.
CounterSound == OvercountIsLeaked /\ CloseWaitsForJobs

\* Where nothing leaks, nothing makes the worker count more than it holds and
\* stop asking for work it has the capacity for, although it may drain jobs
\* twice (ZBWorkerBase.ts drainOne, poll).
NeverOvercounted == activeJobs <= Cardinality(Held)

\* At most one ActivateJobs call is under way, counting the one whose stream
\* is not there yet (ZBWorkerBase.ts poll: pollMutex and jobStream).  Not so
\* on a wire that is not clean.
OneRequestOutstanding ==
    /\ \A s, r \in Serving : s = r
    /\ pollMutex => Serving = {}

\* The stream the worker believes is open is a call under way: no reference
\* to a call that has ended keeps poll() from starting for ever, however
\* timeouts, errors, late answers and backoff timers of several calls are
\* mixed (ZBWorkerBase.ts poll, handleStreamEnd).
NoStaleStream ==
    jobStream # NoStream => streams[jobStream] \notin {"free", "timedout"}

\* From close() on no job reaches a handler, even one that the stream still
\* delivers (ZBWorkerBase.ts handleJobResponse).
NoWorkAfterClose ==
    [][closing => \A t \in Tasks : tasks[t] = "idle" => tasks'[t] = "idle"]_vars

\* After an overloaded gateway answered, no request goes out before the
\* backoff timer fired: what the 'error' listener is there for ("Backoff on",
\* ZBWorkerBase.ts:503).  The 'end' that follows the error breaks it.
BackoffHonoured == [][pollMutex' /\ ~pollMutex => backoffs = 0]_vars

\* close() resolves ("returns a Promise that resolves when all active jobs
\* have either finished or timed out", README.md:1370), if handlers return and
\* commands are answered (ZBWorkerBase.ts close, drainOne).
CloseResolves == closing ~> closePromise = "resolved"

\* An open worker asks for jobs again and again: no dead stream, error or lost
\* event blocks the polling loop for ever (ZBWorkerBase.ts poll,
\* GrpcClient.ts:306), if the call for the token ends.
PollingGoesOn == []<>(closing \/ pollMutex)

\* The worker implements its contract.
Contract == INSTANCE WorkerContract WITH
    held <- Held,
    phase <- IF ~closing THEN "open"
             ELSE IF closePromise = "resolved" THEN "closed" ELSE "closing"
ImplementsContract == Contract!ContractSpec
=============================================================================
