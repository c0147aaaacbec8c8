# Verification of the Zeebe Node.js client

TLA+ specifications of `zeebe-client-node-js`, the TLC configurations that
check them on small instances, and proofs for TLAPS. Source paths are relative to the
repository; the tables of `PROJECT.json` lead from every definition to its
lines, from every hazard to the properties that cover it, and from every
property to a mutant of the code that breaks it.

    tlc -config JobWorkerClean.cfg MCJobWorker.tla      # check one run
    tlapm JobWorkerProofs.tla                           # check the proofs of a module

## 1. The system

A Node.js process holds one or more `ZBClient`s. A client sends commands to a
Zeebe gateway over gRPC and creates workers; a worker polls the gateway for
jobs of one type, hands them to the application's handler, and sends a command
for each outcome. Everything runs on one event loop: what makes it hard is not
threads but what may happen between a call and its callback, between an
`await` and the line after it, and between two timers.

| component | state | operations | talks to |
|---|---|---|---|
| Job worker (`ZBWorkerBase.ts`, `ZBWorker.ts`) | `activeJobs`, `pollMutex`, `jobStream`, `closePromise`, backoff count | `poll`, `activateJobs`, `handleJobResponse`, `handleJob`, the job actions, `drainOne`, `close` | gRPC streams (`data`, `end`, `error`), the handlers, the client's command methods |
| Commands and retry (`ZBClient.ts`, `GrpcClient.ts`) | `closing`, `retry`, `maxRetries`, one promise per command, the request each closure holds on to | the command methods, `executeOperation`, `retryOnFailure`, `<method>Sync`, the status interceptor | gateway, timers of `promise-retry`, the application's request objects |
| Client shutdown (`ZBClient.ts`) | `workers`, `closing`, the channel | `createWorker`, `close` | every worker's `close` |
| Connection status (`GrpcClient.ts`, `GrpcMiddleware.ts`, `ConnectionFactory.ts`, listeners of client and worker) | `readyTimer`, `failTimer`, `blocking`, `state`, `connected`, `readied` | `setReady`, `setNotReady`, the two middleware listeners, the end of the initial window | every call's outcome; `onReady`, `onConnectionError` of the application |
| OAuth tokens (`OAuthProvider.ts`) | `tokenCache`, `expiryTimer`, `inflightTokenRequest`, `currentBackoffTime`, the token file | `getToken`, `fromFileCache`, `toFileCache`, `startExpiryTimer`, `stopExpiryTimer` | the token endpoint, the file, other providers through the file |
| Batch worker (`JobBatcher.ts`, `Queue.ts`, `ZBBatchWorker.ts`) | the queue, `batchExecutionTimerHandle` | `batch`, `execute`, the worker's operations | the batch handler |
| Manual activation (`ZBClient.activateJobs`) | a promise over one stream | `activateJobs` | gRPC stream |
| Stateful logging (`StatefulLogInterceptor.ts`, `ZBLogger.ts`) | messages held back, `blocking`, `state`, a window timer of its own | `logError`, `logInfo`, `ready`, `connectionError`, `emptyLogs`, `emptyErrors` | the middleware's events, the console |
| Configuration (`ConfigurationHydrator.ts`) | none | precedence of argument, options, environment, defaults | constructors |
| Deployment and payload conversion (`ZBClient.ts`, `stringifyVariables.ts`) | none of their own | file or buffer to request, `JSON.stringify` and `parse` | the command methods |
| BPMN parser, event emitter, types, helpers, command line | none | | files |

What is hard, component by component, and what being correct means:

* **Worker.** The free capacity is computed before the token and the call are
  awaited; streams end, fail, time out on the client's side or go silent; each
  job must be counted down exactly once on every path (answer, rejection,
  exception, cancel, forward); `close()` waits for an `Empty` event that is emitted
  only when the counter passes exactly through zero; `handleStreamEnd()` does not
  ask which stream ended. Correct: the counter is the number of jobs held,
  `maxJobsToActivate` is kept, one request at a time, an overloaded gateway is
  left alone for a while, no job handed out after `close()`, `close()` resolves,
  and not too early; polling never stops. Not all of this is true of the code:
  section 3 says which part holds when, and shows the rest violated.
* **Commands.** Retries make calls that may already have been executed;
  `maxRetries: 0` means endless; a closing client answers by itself. Correct:
  duplicates only where an answer was lost, bounded calls, every command
  settles, a resolved promise means the gateway did it. The request object
  belongs to the application and a retry looks at it again: every attempt must
  send the variables converted once, and those of the call.
* **Shutdown.** Three promises (command, worker, client) nest. Correct:
  `close()` resolves, and then nothing an application waited for is lost.
* **Connection status.** Five sources, two timers, one window and two flags
  decide what the application hears. Correct: changes are reported once, after
  the tolerance, never swallowed.
* **OAuth.** One request is shared by all callers, timers evict tokens they
  were not started for, clients overwrite each other's file. Correct: nobody
  gets an expired token, a failing endpoint is not hammered, requests are sent.
* **Batches.** Size and timer race to hand over the same queue. Correct: each
  job once, in order, in time.
* **Manual activation.** A promise over a stream that may bring many responses, one
  or none. Correct: after a rejection no job is left activated and given to nobody.
* **Logging.** Messages wait for a window to end, two sources may end it.
  Correct: none is printed twice, out of order, or lost but by design.
* **Configuration.** Parts are spread over one another, and an `undefined` in a
  later one wins too. Correct: tokens are asked for the gateway the client
  connects to, and travel over TLS.

`PROJECT.json` lists the hazards line by line.

## 2. The modules

| module | models | composes |
|---|---|---|
| `WorkerContract` | abstract: a worker holds jobs, accepts none once it closes, resolves when it holds none | |
| `JobWorker` (+ `MCJobWorker`) | the worker in detail | implements `WorkerContract` (`ImplementsContract`) |
| `CommandRetry` | commands of a client and their retries | |
| `ClientRequests` | the requests those commands send | extends `CommandRetry` |
| `ManualActivation` | `activateJobs()` of a client | extends `CommandRetry` |
| `Configuration` | what a client is configured to connect to | |
| `ZBClient` (+ `MCZBClient`) | one client as a whole | extends `ClientRequests`, `ManualActivation`, `Configuration` |
| `GracefulShutdown` (+ MC) | client, workers and their jobs' commands | extends `CommandRetry` |
| `ConnectionStatus` | from call outcomes to the application's callbacks | |
| `StatefulLog` (+ `MCConnectionStatus`) | what is printed meanwhile | extends `ConnectionStatus`, and implements it |
| `OAuthTokens` (+ MC) | the token provider | |
| `JobBatching` (+ MC) | the batch worker | implements `WorkerContract` |
| `JobWorkerProofs`, `CommandRetryProofs`, `ZBClientProofs`, `GracefulShutdownProofs`, `ConnectionStatusProofs`, `StatefulLogProofs`, `OAuthTokensProofs`, `JobBatchingProofs` | theorems about the module of that name; `ZBClientProofs` also about the three modules that one extends | |

`JobWorker` and `JobBatching` are shown to implement the contract, by TLC and by
proof. `GracefulShutdown` does not use it: a worker whose counter is wrong does
not keep it, so the workers there have the counter, `drainOne()` and the
decision of `close()` of the code. A
module that extends another one behaves as it, for its variables
(`RequestsRefineRetry`, `ClientRefinesRequests`, `ShutdownRefinesRetry`,
`LogRefinesStatus`), so that
what is proved about the lower module holds in the upper one.

**JobWorker.** An action is one turn of the event loop. `PollStart` is `poll()`
up to the first `await` in `activateJobs()`; `PollOpen` and `PollFail` are what
comes after it. `Deliver` is `handleJobResponse()`, with the counter raised
before the payload is parsed: a payload that does not parse leaves its jobs
"leaked". `StreamEnd`, `StreamError`, `StreamTimeout`, `StreamSilenced` and
`BackoffFires` are the listeners and timers of a stream; all but the silenced one
run `handleStreamEnd`, which does not look at which stream it is about.
`StreamError` is two events of one turn: grpc-js pushes the end of a stream
whose status is an error before it emits `error`, so `end` follows. That `end` also resets
`backPressureRetryCount`, so the backoff never grows beyond its first second.

A job is where its handler is (`tasks`), the commands it has in flight
(`inFlight`) and whether it was drained (`drained`). `Send` is `job.complete()`,
`job.fail()`, `job.error()` or `job.cancelWorkflow()`; a handler may go on
without awaiting the answer, act again ("again") while it is out or after it,
throw late or return without acting. `CommandSettles`, `FailRejected`,
`CancelAccepted`, `CancelRejected` are the answers, `Throw` and `CancelSettles` the catch of
`handleJob()`; each names exactly which of them call `drainOne`. `Counted`
are the jobs the counter should hold until a drain, `Leaked` those among them
that nobody will ever drain, since the handler is through and nothing is in flight,
and `Held` the rest. `ChannelCloses` resolves `close()`: the
middleware closes the channel and does not wait for it. What the handlers, the
gateway and the gRPC library may do is a constant each (`HandlerActions`,
`Rejections`, `LateServer`, `Overloads`, `MalformedJobs`), so that a property
can name what it needs: `Disciplined` handlers, handlers and payloads of which
`NothingLeaks`, a `CleanWire`. The last is an assumption about the gateway, that it is
never overloaded (or broken inside) and answers within the client-side timeout,
and none about the library.

**CommandRetry.** `Attempt` is one call of the operation inside
`retryOnFailure()`, with its look at `closing` and at the channel; `Accepted`,
`Refused`, `NetworkError`, `Backpressure` and `Dropped` are the ends a call may
have. `Dropped` is the status interceptor of `GrpcClient`: it passes on no CANCELLED
status that holds a 503 (constant `StatusDropped`), and none at all
once the client closed. `retry` and `maxRetries` are chosen initially, as the
constructor does, with zero turned into -1.

**ClientRequests.** `request` is the application's object: how often its variables
went through `JSON.stringify`, what they say (`version`), which object they are
(`origin`), and which correlationKey and messageId it names (`name`). A method
belongs to one of six kinds: it takes a converted copy at the call
(`Snapshots`), reads a file then (`Files`), converts in place, at the call
(`InPlace`) or at each attempt (`InPlaceLate`), converts what it publishes at
each attempt (`Publishing`), or passes the object through (`Plain`).
`operation[c]` is what the closure of a command captured, what its last attempt
sent, and under which identity. `publishMessage()` spreads the caller's object
at each attempt and so reads its variables and its identity again;
`publishStartMessage()` spreads it once, which keeps the identity and the
reference to the variables, but shares their properties with the caller and
converts them at each attempt. The application may replace the variables of its object
(`ReplaceVariables`), change them in place (`EditVariables`, which a start message
under way shares) or give it another identity (`Rename`), between two calls or
between a call and its retry. `published` is the gateway's memory of message ids.

**ManualActivation.** `Activate` is `activateJobs()` up to the token;
`ActivationFails` and `ActivationOpens` what comes after; `JobsArrive` resolves the
promise the first time and drops what comes later. `ActivationEnds` and
`ActivationBreaks` leave the promise as it is: nothing of it listens.

**Configuration.** `Spread` is the object spread: a later field wins, even if it
is "undefined". `configure` nests it over the parts in the code's order, each
part a function of the input. `Throws` are the inputs on which the constructor throws.

**ZBClient.** The steps of commands and of activations interleave over one
`closing` and one channel; the configuration is read once. `ZBClientSpec` leaves
them free and is what the proofs are about; `MCZBClient` restricts the run to
`BoundedSpec` (see Bounds).

**GracefulShutdown.** `CreateWorker`, `CloseClient`, `WorkerResolves` and
`ClientResolves` are `createWorker()` and the `Promise.all` of `close()`. Each
worker has its counter: `drainOne` lowers it and ends a draining worker at
exactly zero, `Closing` is the choice `close()` makes by it. A job names the
command its handler sends (`CompleteJob`, `FailJob`), and `Drained` drains it when
that settles. A refused `job.fail()` rejects after its drain: the handler catches that
(`CatchRefusal`) or throws with it, and then `handleJob` fails the job once
more with a command of `Refails`, not awaited, and drains it a second time
(`FailAgain`). From there on its worker is `Miscounted`. `ThrowInHandler` issues
the `failJob` that `handleJob` does not await. A handler acts once here, with or
without success; acting twice, leaking a job and throwing late are in `JobWorker`
alone, and so is a worker with `failProcessOnException` that drains a second
time after its cancel rather than at once.

**ConnectionStatus.** A signal action is one outcome of a call with the timers
it touches and the event it emits; `EventError` and `EventReady` are the
middleware, `HearError` and `HearReady` the listener. Time is in ticks; a timer
that is due fires before the next tick, but in any order with signals and with
other timers of the same tick.

**StatefulLog.** `Log` is `logError()` and `logInfo()` with the level filter;
`ready`, `connectionError` are the listeners, conjoined with the step of
`ConnectionStatus` that emits the event (`BringsReady`, `BringsError`);
`LogWindowEnds` is the interceptor's own timer. A message is its number.

**OAuthTokens.** A token is the time it is still valid. `getToken` is split
where the code returns: `FromMemory`, `FromFile`, `AskEndpoint`; `Post`,
`TokenArrives`, `RequestFails` are the shared request; `Truncate` and `WriteDone`
are the asynchronous write of the file, `Evict` the expiry timer, `strays` the
timers whose handle was overwritten. `Second` scales the second of margin.

**JobBatching.** `batch` hands the queue over (`execute`) or adds to it and starts
the timer (`enqueue`). Polling, the counter and `close()` are those of
`ZBWorkerBase`, reduced to what the queue sees of them.

Each module holds, before a definition, its mutants: the same definition with a
plausible bug, used to confirm that each property can fail.

## 3. The runs

The passing runs explore their whole state space.

| run | question | expected |
|---|---|---|
| `JobWorkerClean` | disciplined handlers, a gateway neither overloaded nor late whose streams may fail, time out or go silent, 5 jobs, maximum 4: `ConcurrencyBounded`, `OneRequestOutstanding`, `CapacityAccounted`, `DrainedBeforeResolved`, `ImplementsContract`; with fairness `CloseResolves`, `PollingGoesOn` | holds |
| `JobWorkerMisuse` | all misuse, refused commands, malformed payloads, overloads with their backoff timers, late answers and dropped statuses together: `CounterSound`, `NoStaleStream`, `NoWorkAfterClose` | holds |
| `JobWorkerBackoff` | `BackoffHonoured` after an overload | violated |
| `JobWorkerFailRejected` | `DrainedBeforeResolved` when `job.fail()` may be rejected | violated |
| `JobWorkerCancel` | `CloseResolves` when handlers call `job.cancelWorkflow()` | violated |
| `ZBClient` | one client: of the requests of its commands `EncodedOnce`, `AttemptsAlike`, `PublishedOnce`; of their retries `EffectsExplained`, `AttemptsBounded`, `ResolvedMeansExecuted`; of a manual activation `RejectedHoldsNothing`; of every configuration `AudienceMatchesGateway`, `TokensOverTLS` | holds |
| `ModifyProcessInstance` | `EncodedOnce` for `modifyProcessInstance()` | violated |
| `GracefulShutdown` | two workers, two jobs, all four ends of a handler, retries off or endless: `NoJobLeft`, `AwaitedSettled`, `SentWithoutRetry`; with fairness `ClientCloses`, `CommandsSettle` | holds |
| `GracefulShutdownLostAck` | `AcknowledgedMeansSent` with retries on | violated |
| `ConnectionStatus` | a connection with its log: `NotificationsAlternate`, `QuietAgreement`, `ReadyDebounced`, `MessagesSurface`, `OutageReported` | holds |
| `OAuthTokens` | two providers with one file, or one with a failing endpoint: `TokensFresh`, `EvictionPending`, `BackoffKept`, `RequestsPosted` | holds |
| `JobBatching` | `HandedOnceInOrder`, `TimerMeasuresOldest`, `ImplementsContract`, `QueueEmpties`, `CloseDrainsQueue` | holds |

What the violations show:

* A rejected `job.fail()` is drained twice: `failJob` drains in its `finally`
  and rethrows, the handler that awaited it throws, and `handleJob` drains
  again. The counter reaches zero early and `close()` resolves over a job still
  worked on (`JobWorkerFailRejected`). The same double drain is the exception
  in the three safety properties of `GracefulShutdown` (`Miscounted`). It never makes
  the worker count too much: that is the theorem `NeverOvercounts`.
* `job.cancelWorkflow()` never drains its job. A handler that calls it and does no more
  leaks the job: its capacity is lost and `close()` never resolves
  (`JobWorkerCancel`). So it is with a payload that does not parse and with a handler
  that never acts. `CounterSound` says that nothing else is counted too
  much, and that a `close()` that waits has a job, held or leaked, it waits for.
* After an overload (`RESOURCE_EXHAUSTED` or `INTERNAL`) the `error` listener
  starts a timer that is to clear the stream reference later. The `end` that
  follows has cleared it already, so the next tick of the poll loop asks the
  overloaded gateway again (`JobWorkerBackoff`). Section 5 says what the timer
  does when it fires.
* With retries on, which is the default, `retryOnFailure` resolves without a
  call once the client is closing. Workers are draining at that very moment:
  their jobs are acknowledged to the handler and never completed
  (`GracefulShutdownLostAck`). With `retry: false` an acknowledged job was sent,
  unless its worker had drained another one twice: then the channel may be
  closed already, and a call on it resolves too (`SentWithoutRetry`).
* `modifyProcessInstance()` turns the variables of the caller's object into a
  string inside the operation (`ZBClient.ts:1025`), so each retry turns the
  string of the attempt before into a string again. `setVariables()`, which
  writes into the caller's object as well, does it once and looks at the type;
  `PayloadsEncodedOnce` shows that no other method is affected.

### Bounds

* Jobs, streams: with a maximum of 4 one active job is below the threshold of
  30 %, so a poll may overlap active jobs, and five jobs are enough to exceed
  the maximum. Two stream slots: a slot is free again when its call ended, so
  any number of calls may follow one another, and two at a time are one more
  than there should be. In `JobWorkerClean` handlers complete or throw, and throwing
  cancels the process: `fail` and `error` behave as `complete` does when nothing
  is rejected. `JobWorkerMisuse` has two jobs, as a wrong drain needs one job to be
  drained and another to be missed; its handlers do not complete, as an accepted
  `fail` is the same step. 973,000 states up to symmetry, so it has no liveness: that
  overloads and late answers do not stop the polling is checked as far as
  `NoStaleStream` says.
* `MaxBackoffs` bounds the backoff timers pending at a time: a second overload
  while one is pending is left out of the runs. `MaxUnderflow` bounds how far misuse may push the
  counter below zero. The proofs hold for every value of both.
* `Cap` is where the counters of attempts, effects and lost answers stop; it is
  above `maxRetries + 1` where that is finite, so that one call too many is seen. `MaxRetriesOptions`
  {0, 1} of `ZBClient` are endless retries (the constructor turns 0 into -1) and one.
* `ZBClient`: two commands that share one object and one method, which the
  application changes once (`MaxEdits` 1), are what it takes for a retry to meet
  an object changed since. In-place edits are of the variables the object has at
  the time. `Methods` has one of each kind but `Plain`, which pass
  the object through, and `InPlaceLate`, which has the run `ModifyProcessInstance`.
  `MaxResponses` 2 is one response that settles the promise and one that comes
  too late. Commands, activations and the configuration share nothing but the
  close of the client, so an application uses commands or activations, never
  both, and of all the configurations, each an initial state, only the empty one
  is used further (`BoundedInit`, `BoundedNext`). The proofs need neither bound. About 616,000 states.
* `GracefulShutdown`: two jobs are one that is drained twice and one that is missed,
  two workers one that is wrong and one that is not. `Refails` has one command, so one
  refused `job.fail()` at most passes its handler by. `Cap` is 1, since no property of the run
  asks for more than whether a command was attempted. Liveness allows no
  symmetry: `InOrder` fixes which worker and which job comes first. 363,000 states.
* The gateway remembers a message id for the whole run: that is
  `PublishedOnce` within the time a message lives.
* Ticks: `Tolerance` 3 and `Window` 6 have the proportion of the defaults
  (3 s and 6 s), so both timers may run out within the window. `MaxMessages` 3
  leaves two messages of a kind to get out of order and one of the other kind.
* `OAuthTokens`: `Lifetimes` {1, 2} with `Second` 1 has a token evicted at once
  and one that is evicted while others are written. `MaxDelay` 8 seconds allows
  three doublings. A failing endpoint concerns one client, so only one is open
  then, and it finds no file. `MaxFailures` is where the history of failures
  stops, past the cap of the delay.
* `JobBatching`: batches of 3 with 4 jobs leave one that only the timer hands on.

Deadlock is not checked: a closed client, or one without a handler that goes
on, really does stop.

### Fairness

Weak fairness of: `setInterval` and timers, which fire; answers (`Answer`,
`Reply`, `StreamCloses`), because the gateway answers or the transport gives
the call up, with an answer the adversary chooses; the client-side timeout;
handlers, which in the end act and return; continuations of promises. Not fair:
deliveries, success of any command, calls to `close()`, new signals or commands,
the answer of the token endpoint.

* `CommandsSettle` and `ClientCloses` take it that a call is answered or fails:
  the run has `StatusDropped = FALSE`, and section 5 says what follows otherwise.
  `ClientCloses` also takes handlers that act or throw once and leak
  nothing; `JobWorkerCancel` shows that this matters too.
* `PollingGoesOn` needs the client-side timeout (a call may have gone silent) and
  that `poll()` gets past the call for its token. The latter is an assumption: `got.post`
  in `OAuthProvider.ts:169` has no timeout, and `inflightTokenRequest` is shared, so an
  endpoint that accepts a request and never answers stops every worker and
  every command of the client for ever.
* `RequestsPosted` assumes nothing of the endpoint, and says no more than that a
  waiting request is sent.

In `ManualActivation` nothing is fair: an activation need not end, and nothing is claimed of
its promise, which may stay pending for ever.

## 4. Proofs

`JobWorkerProofs` proves, for any finite set of jobs and streams and any
maximum:

| theorem | states | assumes |
|---|---|---|
| `TypeCorrect` | `[]TypeOK` | |
| `OvercountsAreLeaks` | `[]OvercountIsLeaked` | |
| `CloseNeverWaitsForNothing` | `[]CloseWaitsForJobs` | |
| `CounterStaysSound` | `[]CounterSound`, the two together | |
| `ReferenceIsCleared` | `[]NoStaleStream` | |
| `NoWorkAfterCloseIsKept` | `NoWorkAfterClose` | |
| `NeverOvercounts` | `[]NeverOvercounted` | `NothingLeaks` |
| `CapacityIsAccounted` | `[]CapacityAccounted` | `Disciplined` |
| `CloseDrains` | `[]DrainedBeforeResolved` | `Disciplined` |
| `WorkerImplementsContract` | `ImplementsContract` | `Disciplined` |
| `OneRequest` | `[]OneRequestOutstanding` | `CleanWire` |
| `ConcurrencyIsBounded` | `[]ConcurrencyBounded` | both |

The assumptions on the constants are that jobs and streams are finite, the
maximum is positive and the bounds are natural numbers.

`TaskInv` adds to the types that a job nobody works on has nothing in flight.
`OvercountIsLeaked` is inductive with it: a job enters `Counted` as the counter rises, and
leaves it only by a drain. `NeverOvercounts` follows by `LeakFree`: where handlers
always act and nothing is cancelled, a job that was acted on and not yet drained
has a command in flight whose answer will drain it, so no job is "leaked" and
`Counted` is `Held`.

`CloseNeverWaitsForNothing` and `ReferenceIsCleared` are the safety core of
`CloseResolves` and `PollingGoesOn`, and hold even where those do not. The
first is by `AboveZero`: the counter of a draining worker is above zero, as
`close()` waits only if it is, a drain lowers it by one, and the drain that
reaches zero ends the waiting; by `OvercountIsLeaked` there are at least as many
jobs counted. `NoStaleStream` is inductive with the types: a call becomes "free" or
"timedout" only in steps that clear `jobStream`, whichever stream it names, and
a silenced one stays where the client-side timeout will find it.

`AccountInv` adds to the counter that every job is drained once (`DrainOnce`): it has one command
in flight at most, and none once it is drained, and no handler is about to
hear of a rejection. That is where discipline is needed.
`DrainedBeforeResolved` is in it because it is not inductive alone: the last drain
resolves `close()` only because the counter is exact, and no drain may follow.

`WireInv` strengthens `OneRequestOutstanding`: a stream that is not free is
`jobStream`, and then no poll is under way; no backoff timer is pending; and the
counter plus what the request may still deliver is at most the maximum. The last
is why capacity computed before an `await` is still good after it:
nobody else raises the counter in between. With `LateServer` or `Overloads` it
is false, and so is `ConcurrencyBounded` (section 5).

`WorkerImplementsContract` maps `Held` and the phase of `closePromise` and takes
each action to an action of the contract or to a stutter, with `AccountInv` as
invariant.

`CommandRetryProofs` proves, for any commands, options and `Cap` above every
`maxRetries + 1`:

| theorem | states |
|---|---|
| `RetryTypeCorrect` | `[]RetryTypeOK` |
| `DuplicatesExplained` | `[]EffectsExplained` |
| `CallsBounded` | `[]AttemptsBounded` |
| `ResolvedIsExecuted` | `[]ResolvedMeansExecuted` |

`EffectsExplained` leaves no room for the answer that settles a command, so
`EffectsInv` adds that before it the effects are at most the lost answers: each
retry is either after a lost answer, or after one that says the gateway did
nothing. `AttemptsInv` adds to `AttemptsBounded` that a command waiting for its
retry still has one left, which `Again` decided when the last call failed and
nothing since has used up. `ResolvedInv` adds that only a closing client closes its
channel, because a call on a closed channel resolves without an effect.

`ZBClientProofs` proves, for any commands that share any object, any number of
changes to it and any activations beside them:

| theorem | states |
|---|---|
| `RequestsRefineRetry` | `RequestSpec => RetrySpec` |
| `RequestTypeCorrect` | `[]RequestTypeOK` |
| `PayloadsEncodedOnce` | `[]EncodedOnce`, unless `method` is `modifyProcessInstance` |
| `PayloadsAlike` | `[]AttemptsAlike` |
| `MessagesPublishedOnce` | `[]PublishedOnce` |
| `ClientRefinesRequests` | `ZBClientSpec => RequestSpec` |
| `CommandsUndisturbed` | the safety properties of commands and requests, of `ZBClientSpec` |
| `RejectionsHoldNothing` | `[]RejectedHoldsNothing` |
| `TokensForTheGateway` | `[]AudienceMatchesGateway` |
| `TokensSecured` | `[]TokensOverTLS` |

`PayloadInv` says how often the shared object and the copy of each closure were
converted: `EncodedOnce` speaks of what was sent, and the next attempt sends
what these two hold by then. It needs the method not to be one that converts in
place at each attempt; as a client's method never changes (`MethodKept`), that is
part of the statement (`PayloadsKept`) and no assumption, and `AttemptsAlike`,
which speaks of no such method, needs nothing. For a start message it says that the
closure's variables are the object it was called with, whatever they say by now.
`PublishInv` adds that whatever had an effect is among the ids the gateway
remembers, and that a closure keeps its identity from one attempt to the next:
that of a start message always, that of `publishMessage()` until the application
renames its object. After that a retry may publish the message a second time,
under the other name; `PublishedOnce` says so.

`ActivationInv`: nothing was taken for a call whose stream is not open yet, and
only such a call rejects. The two theorems about the configuration say which
part wins for each field, the last `Spread` that has it (`SpreadLast`,
`SpreadFirst`). If `camundaCloud` is set, host and audience come from it
(`CloudWins`); if `oAuth` is, the audience is the caller's own (`OwnTokens`);
otherwise both come from the environment (`EnvironmentDecides`), whose parts
agree unless they contradict each other (`EnvironmentAgrees`).

`GracefulShutdownProofs` proves, for any workers and jobs:

| theorem | states |
|---|---|
| `ShutdownRefinesRetry` | `ShutdownSpec => RetrySpec` |
| `ShutdownTypeCorrect` | `[]ShutdownTypeOK` |
| `NoJobIsLeft` | `[]NoJobLeft` |
| `AwaitedAreSettled` | `[]AwaitedSettled` |
| `WithoutRetryIsSent` | `[]SentWithoutRetry` |

`ShutdownInv`: a worker is `Miscounted` or `Trusted`, that is, its counter is the number of jobs
its handlers hold and it is not through with closing while there are any; and the
channel closes only when every worker has. `JobCounted` shows for each step of
a job that it leaves the hands of its worker with one drain, but for `FailAgain`,
which makes the worker `Miscounted` for good. `SentInv` adds that without
retries a command has been attempted as soon as it is issued, and that none waits.

`ConnectionStatusProofs` and `StatefulLogProofs` prove, for any tolerance,
window, set of signals and number of messages:

| theorem | states |
|---|---|
| `StatusTypeCorrect` | `[]StatusTypeOK` |
| `NoRepetition` | `[]NotificationsAlternate` |
| `ReadyIsDebounced` | `ReadyDebounced` |
| `QuietMeansTold` | `[]QuietAgreement` |
| `LogTypeCorrect` | `[]LogTypeOK` |
| `LogRefinesStatus` | `LogSpec => StatusSpec` |
| `HeldMessagesSurface` | `[]MessagesSurface` |

`FlagsInv`: the listener's two flags say what the application was told last.
`DebounceInv`: while the ready timer runs nothing has failed, and the time since
plus what is left of the timer is the tolerance. `QuietInv` is why
`QuietAgreement` holds once the timers are off: a good signal leaves the ready
timer, which brings the event and clears the fail timer when it fires; a bad
one stops the ready timer and leaves the fail timer, which was perhaps running
already; and the event reached the application unless the window still holds it
back. For an error to be heard the listener must not be disconnected already:
`ConnectedInv`, it is only after an error was told. `MessageInv`: in the window nothing
is printed and each kind is held in full and in order; afterwards messages are
printed as they come, so the numbers printed increase.

`OAuthTokensProofs` proves, for any providers, lifetimes and length of a second:

| theorem | states |
|---|---|
| `TokenTypeCorrect` | `[]TokenTypeOK` |
| `NobodyGetsStale` | `[]TokensFresh` |
| `EvictionIsPending` | `[]EvictionPending` |
| `EndpointIsSpared` | `BackoffKept` |

The second and third are proved together, by `FreshInv`: what an open client has
in memory is good, and a timer, the one its handle names or a stray one, will
evict it before it expires.

`BackoffInv`: the delay is what the failures in a row call for, and what is
left of a wait plus the time since the last failure is at least that delay. What
it calls for is `Doubled`, a recursive function rather than `2^n`, because the
prover knows nothing of powers. That the function has the value its definition says
is shown by induction over the set of the numbers for which it has
(`InductiveSet`), from the well-founded order of the naturals: the library's
induction rule takes an operator the provers cannot instantiate.

`JobBatchingProofs` proves, for any jobs, batch size and time:

| theorem | states |
|---|---|
| `BatchTypeCorrect` | `[]BatchTypeOK` |
| `QueueKeepsOrder` | `[]HandedOnceInOrder` |
| `TimerIsTheOldests` | `[]TimerMeasuresOldest` |
| `BatchWorkerImplementsContract` | `ImplementsContract` |

`BatchInv` adds that the counter is the number of jobs held, which the contract
needs for a `close()` that resolves, that a request never asks for more than is
free, and that an empty queue has no timer.

The safety properties that hold in the runs are proved; the type invariants, which
the proofs rest on, are proved and in no run. Only model-checked is liveness, which is out of the prover's reach: `CloseResolves`, `PollingGoesOn`,
`CommandsSettle`, `ClientCloses`, `OutageReported`, `RequestsPosted`, `QueueEmpties`
and `CloseDrainsQueue`.

## 5. What else the models show

Divergences met while modelling that no listed run carries. Those about a
constant are seen by changing it.

* With `Overloads = TRUE` in `JobWorkerClean` `OneRequestOutstanding` and
  `ConcurrencyBounded` fail: `handleStreamEnd()` ignores its argument, so the backoff timer of an
  overloaded call clears the reference to whatever stream is open by then
  (`ZBWorkerBase.ts:506`). The loop opens a second one beside it, and the jobs
  of both exceed `maxJobsToActivate`.
* With `LateServer = TRUE` they fail as well: the client-side timeout
  (`GrpcClient.ts:311`) emits `end` and cancels nothing. A gateway that answers after it
  delivers to a worker that has asked again.
* With `StatusDropped = TRUE` in `GracefulShutdown` `CommandsSettle` and `ClientCloses` fail: a
  command whose CANCELLED status the interceptor drops (`GrpcClient.ts:654`)
  never settles, and its job is never drained.
* The `failJob` after an exception in a handler is not awaited
  (`ZBWorker.ts:81`): `close()` may resolve, and the channel close, with it under way,
  although `ZBClient.ts:556` promises to "return when it is safe to exit".
  `AwaitedSettled` names it as an exception and shows what else can be: only commands of
  workers that drained a job twice.
* An endpoint that never answers: see `PollingGoesOn` under Fairness.
* After `publishMessage()`, an application that gives its object another
  messageId before the promise settles may have the first message published
  under both: a retry spreads the object as it is by then (`ZBClient.ts:1053`).
* A successful unary call reports ready at once (`GrpcClient.ts:392`), without
  the tolerance: `ReadyDebounced` speaks of the timer's ready only.
* `setNotReady()` does not restart a running fail timer and `setReady()` does not
  cancel it: a fresh error is reported when the old timer fires. A stream error is
  reported at once. Neither waits for `connectionTolerance` (README.md:365).
* Each stream that opens restarts the ready timer: a worker whose streams are
  shorter than the tolerance never reports that the connection is back.
* `waitForReady()` reports up to ten seconds later than the calls;
  `QuietAgreement` therefore speaks of the signals after it.
* A token from the file may be handed out with less than its second of margin.
* `interfaces-1.0.ts:355` advises a `jobBatchMaxTime` above the worker's
  timeout "to avoid batched jobs timing out". `TimerMeasuresOldest` says that
  the oldest job waits just that long, so it would time out in the queue;
  `README.md:1016` has it the right way round.
* A second token overwrites the handle of the first expiry timer (`strays`), so
  `stopExpiryTimer()` leaves that timer running. No document says what it promises.
* `README.md:1356` says that `activateJobs()` "returns a stream"; it returns a
  promise. That promise stays pending when the stream ends or fails first, or
  its first payload does not parse; jobs of a later response are dropped.
* `ZBClient.ts:1085` calls an example of `publishStartMessage()` idempotent that
  names only a `messageId`: its `correlationKey` is then a new uuid at each call, so two calls
  publish two messages (`PublishedOnce` asks for both, as `README.md:1350` does).
* A retry of `setVariables()`, `publishMessage()` or `failJob()` sends the
  caller's object as it is by then, and one of `publishStartMessage()` its
  variables with the properties they have by then: `AttemptsAlike`
  names the methods that promise more.
* `createProcessInstanceWithResult()` parses its answer, and a closing client
  answers with nothing: it rejects where the other commands resolve.
* Messages of level info held back in a window that ends in an error are never
  printed, nor is anything held when the client closes within it.
* `README.md:416` has the window for Camunda SaaS last five seconds; the code
  has six.
* The constructor throws a `TypeError` when the environment has a client id and
  secret and neither address, cluster nor audience, and the constructor no
  address as its argument (`Throws`), whatever the options say.
* `ConfigurationHydrator` writes the custom root certificate into the `oAuth`
  option of the caller (`ConfigurationHydrator.ts:61`).
* The environment variable for eager connection is `ZEEBE_NODE_EAGER_CONNECT` in the
  code and `ZEEBE_NODE_EAGER_CONNECTION` in `README.md:339`.

## 6. Not modelled

* Of the client: `createProcessInstanceWithResult()`, whose answer is parsed, and
  what other answers hold. Of logging: formatting, outputs, and debug messages, which are never held
  back. Of the configuration: ports, certificates, basic authentication, tenant,
  eager connection and retry options, where no two sources conflict beyond
  "option, environment, default".
* The BPMN parser and the code generator (a function of a file to a string), the
  event emitter, declarations and helpers, the command line tool: no state or
  pure I/O.
* Wording of messages, TLS and form parameters, JSON itself, the contents of
  variables.
* The internals of grpc-js: its streams are the "live", "dead" and "timedout"
  of `JobWorker`, from how the code uses them, and the order of `end` and
  `error` is that of the version `package.json` pins.

## 7. Plan

Done: all modules of section 2 in that order of importance, and a module of proofs for
each that has an invariant worth one.

All safety properties that the runs show are proved. What is left is proof, in the modules that
exist, of what liveness rests on and a prover can still say, as
`CloseNeverWaitsForNothing` and `ReferenceIsCleared` do for the worker:

1. `QueueEmpties` and `CloseDrainsQueue`: a queue that is not empty has its timer,
   and a draining batch worker a job to wait for.
2. `RequestsPosted`: a request that waits has a timer, and it only goes down.
3. `ClientCloses`: a closing client has a worker or a command it waits for, or
   closes its channel.
