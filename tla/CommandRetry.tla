---------------------------- MODULE CommandRetry ----------------------------
(***************************************************************************)
(* The commands of one ZBClient: executeOperation() and retryOnFailure()   *)
(* around one unary gRPC call each (src/zb/ZBClient.ts), with the Sync     *)
(* methods of src/lib/GrpcClient.ts below them.  The gateway is external:  *)
(* it may execute a command whose answer is lost.                          *)
(***************************************************************************)
EXTENDS Integers, FiniteSets

CONSTANTS
    Commands,           \* the commands the application issues
    RetryOptions,       \* what options.retry may be
    MaxRetriesOptions,  \* what options.maxRetries may be
    StatusDropped,      \* the gateway may answer CANCELLED with a 503 inside
    Cap                 \* bound: counters stop counting here

ASSUME RetryAssumption ==
    /\ RetryOptions \subseteq BOOLEAN /\ StatusDropped \in BOOLEAN
    /\ MaxRetriesOptions \subseteq Nat \cup {-1}
    /\ Cap \in Nat \ {0} /\ \A n \in MaxRetriesOptions \ {0} : Cap > n + 1

VARIABLES
    retry,          \* options.retry, set by the constructor
    maxRetries,     \* ZBClient.maxRetries, likewise; -1 is endless
    status,         \* where each command is
    attempts,       \* calls made for it
    effects,        \* times the gateway executed it
    lost,           \* transport errors it met
    closing,        \* ZBClient.closing
    channelClosed   \* the channel of the client is closed

counters == <<attempts, effects, lost>>
options == <<retry, maxRetries>>
clientVars == <<options, closing, channelClosed>>
retryVars == <<status, counters, clientVars>>

\* "dropped": the interceptor kept the answer, the promise stays pending.
Status == {"idle", "inflight", "waiting", "resolved", "rejected", "dropped"}
Settled == {"resolved", "rejected"}
Unsettled == {"inflight", "waiting"}

\* options.maxRetries || -1: zero counts as not given.
RetryInit ==
    /\ retry \in RetryOptions
    /\ \E n \in MaxRetriesOptions : maxRetries = IF n = 0 THEN -1 ELSE n
    /\ status = [c \in Commands |-> "idle"]
    /\ attempts = [c \in Commands |-> 0]
    /\ effects = [c \in Commands |-> 0]
    /\ lost = [c \in Commands |-> 0]
    /\ closing = FALSE
    /\ channelClosed = FALSE

Set(c, st) == status' = [status EXCEPT ![c] = st]

Count(f, c) == [f EXCEPT ![c] = IF @ < Cap THEN @ + 1 ELSE @]

-----------------------------------------------------------------------------
\* Mutant of Attempt: this.closing is not looked at.
AttemptWhileClosing(c) ==
    \/ /\ channelClosed
       /\ Set(c, "resolved")
       /\ UNCHANGED attempts
    \/ /\ ~channelClosed
       /\ Set(c, "inflight")
       /\ attempts' = Count(attempts, c)

\* One attempt.  With retries on, a closing client answers without a call;
\* with retries off, the call on a closed channel gives undefined, which the
\* operation returns or trips over.
Attempt(c) ==
    \/ /\ retry /\ (closing \/ channelClosed)
       /\ Set(c, "resolved")
       /\ UNCHANGED attempts
    \/ /\ ~retry /\ channelClosed
       /\ \E st \in Settled : Set(c, st)
       /\ UNCHANGED attempts
    \/ /\ ~channelClosed /\ (retry => ~closing)
       /\ Set(c, "inflight")
       /\ attempts' = Count(attempts, c)

Issue(c) ==
    /\ status[c] = "idle"
    /\ Attempt(c)
    /\ UNCHANGED <<effects, lost, clientVars>>

\* The method refuses its argument before any call: a key that is no number,
\* a file that is not there.
ArgumentRefused(c) ==
    /\ status[c] = "idle"
    /\ Set(c, "rejected")
    /\ UNCHANGED <<counters, clientVars>>

RetryFires(c) ==
    /\ status[c] = "waiting"
    /\ Attempt(c)
    /\ UNCHANGED <<effects, lost, clientVars>>

\* Mutant of Accepted: a late answer is retried as if it had failed.
AcceptedRetried(c) ==
    /\ status[c] = "inflight"
    /\ Set(c, "waiting")
    /\ effects' = Count(effects, c)
    /\ UNCHANGED <<attempts, lost, clientVars>>

Accepted(c) ==
    /\ status[c] = "inflight"
    /\ Set(c, "resolved")
    /\ effects' = Count(effects, c)
    /\ UNCHANGED <<attempts, lost, clientVars>>

\* Mutant of Refused: every error is swallowed.
RefusedSwallowed(c) ==
    /\ status[c] = "inflight"
    /\ Set(c, "resolved")
    /\ UNCHANGED <<counters, clientVars>>

\* Any error but those below, the token's included.  A client whose channel
\* is closed by then swallows it.
Refused(c) ==
    /\ status[c] = "inflight"
    /\ Set(c, IF retry /\ channelClosed THEN "resolved" ELSE "rejected")
    /\ UNCHANGED <<counters, clientVars>>

\* Mutant of AttemptsLeft: one retry too many.
AttemptsLeftPlusOne(c) == maxRetries = -1 \/ attempts[c] <= maxRetries + 1

AttemptsLeft(c) == maxRetries = -1 \/ attempts[c] <= maxRetries

Again(c) == Set(c, IF retry /\ AttemptsLeft(c) THEN "waiting" ELSE "rejected")

\* 14 UNAVAILABLE or "Stream removed": the command may have been executed.
NetworkError(c, executed) ==
    /\ status[c] = "inflight"
    /\ Again(c)
    /\ effects' = IF executed THEN Count(effects, c) ELSE effects
    /\ lost' = Count(lost, c)
    /\ UNCHANGED <<attempts, clientVars>>

\* 8 RESOURCE_EXHAUSTED: it was not.
Backpressure(c) ==
    /\ status[c] = "inflight"
    /\ Again(c)
    /\ UNCHANGED <<counters, clientVars>>

\* The interceptor of GrpcClient passes no CANCELLED status on that holds a
\* 503, and none at all once the client is closing.
Dropped(c, executed) ==
    /\ status[c] = "inflight"
    /\ StatusDropped \/ channelClosed
    /\ Set(c, "dropped")
    /\ effects' = IF executed THEN Count(effects, c) ELSE effects
    /\ UNCHANGED <<attempts, lost, clientVars>>

\* close() while workers drain, and the close of the client's own channel.
StartClosing ==
    /\ ~closing
    /\ closing' = TRUE
    /\ UNCHANGED <<status, counters, options, channelClosed>>

CloseChannel ==
    /\ closing /\ ~channelClosed
    /\ channelClosed' = TRUE
    /\ UNCHANGED <<status, counters, options, closing>>

Reply(c) ==
    \/ Accepted(c) \/ Refused(c) \/ Backpressure(c)
    \/ \E executed \in BOOLEAN : NetworkError(c, executed) \/ Dropped(c, executed)

RetryNext ==
    \/ \E c \in Commands :
          Issue(c) \/ ArgumentRefused(c) \/ RetryFires(c) \/ Reply(c)
    \/ StartClosing \/ CloseChannel

RetrySpec == RetryInit /\ [][RetryNext]_retryVars

-----------------------------------------------------------------------------
\* The type of every variable.
RetryTypeOK ==
    /\ retry \in BOOLEAN /\ maxRetries \in {-1} \cup (Nat \ {0})
    /\ status \in [Commands -> Status]
    /\ attempts \in [Commands -> 0..Cap]
    /\ effects \in [Commands -> 0..Cap]
    /\ lost \in [Commands -> 0..Cap]
    /\ closing \in BOOLEAN /\ channelClosed \in BOOLEAN

\* The gateway executes a command more than once only as often as the
\* transport lost an answer: backpressure and refusals never duplicate a
\* process instance (ZBClient.ts retryOnFailure).
EffectsExplained == \A c \in Commands : effects[c] <= lost[c] + 1

\* A finite maxRetries bounds the calls made for one command; without
\* retries there is one (ZBClient.ts executeOperation).
AttemptsBounded ==
    \A c \in Commands :
        /\ ~retry => attempts[c] <= 1
        /\ maxRetries # -1 => attempts[c] <= maxRetries + 1

\* While the client is open, a command whose promise resolved was executed.
ResolvedMeansExecuted ==
    ~closing => \A c \in Commands : status[c] = "resolved" => effects[c] > 0

\* A command the closed channel was still busy with gets no answer.
CutOff(c) == channelClosed /\ status[c] = "dropped"

\* A command settles when its retries are finite, and also when they are
\* endless and the gateway never comes back, once the client closes, so that
\* no handler that awaits its job action waits for ever (ZBClient.ts
\* retryOnFailure).  That is for a gateway that answers no CANCELLED with a
\* 503 inside (StatusDropped = FALSE): the interceptor drops such a status,
\* and the command stays pending, retries or not.
CommandsSettle ==
    \A c \in Commands :
        (status[c] \in Unsettled /\ (closing \/ ~retry \/ maxRetries # -1))
            ~> (status[c] \in Settled \/ CutOff(c))
=============================================================================
