-------------------------- MODULE ManualActivation --------------------------
(***************************************************************************)
(* ZBClient.activateJobs(): one ActivateJobs call outside any worker, as a *)
(* promise (src/zb/ZBClient.ts, over the Stream methods of                 *)
(* src/lib/GrpcClient.ts).  It goes through neither executeOperation() nor *)
(* this.closing.  The client-side timeout has no action: all it does is    *)
(* emit an 'end' this promise does not listen to, and the call goes on.    *)
(***************************************************************************)
EXTENDS CommandRetry

CONSTANTS
    Activations,    \* the calls of activateJobs()
    MaxResponses    \* bound: responses with jobs in one call

ASSUME ActivationAssumption == MaxResponses \in Nat

VARIABLES
    call,       \* "idle", "token", "open", "over"
    promise,    \* "none", "pending", "resolved", "rejected"
    taken,      \* responses the gateway activated jobs for
    coming,     \* those on their way
    handed      \* those whose jobs the application got

activationVars == <<call, promise, taken, coming, handed>>

ActivationInit ==
    /\ call = [a \in Activations |-> "idle"]
    /\ promise = [a \in Activations |-> "none"]
    /\ taken = [a \in Activations |-> 0]
    /\ coming = [a \in Activations |-> 0]
    /\ handed = [a \in Activations |-> 0]

Now(f, a, value) == [f EXCEPT ![a] = value]

\* A closing channel gives no stream, and calling its .on() throws.
Activate(a) ==
    /\ call[a] = "idle"
    /\ call' = Now(call, a, IF channelClosed THEN "over" ELSE "token")
    /\ promise' = Now(promise, a, IF channelClosed THEN "rejected" ELSE "pending")
    /\ UNCHANGED <<taken, coming, handed>>

\* No token, or a call that throws: {error} has no .on() either.
ActivationFails(a) ==
    /\ call[a] = "token"
    /\ call' = Now(call, a, "over")
    /\ promise' = Now(promise, a, "rejected")
    /\ UNCHANGED <<taken, coming, handed>>

ActivationOpens(a) ==
    /\ call[a] = "token" /\ ~channelClosed
    /\ call' = Now(call, a, "open")
    /\ UNCHANGED <<promise, taken, coming, handed>>

GatewayActivates(a) ==
    /\ call[a] = "open" /\ taken[a] < MaxResponses
    /\ taken' = Now(taken, a, taken[a] + 1)
    /\ coming' = Now(coming, a, coming[a] + 1)
    /\ UNCHANGED <<call, promise, handed>>

\* The first response settles the promise; the jobs of another are dropped.
JobsArrive(a) ==
    /\ call[a] = "open" /\ coming[a] > 0
    /\ coming' = Now(coming, a, coming[a] - 1)
    /\ promise' = Now(promise, a, "resolved")
    /\ handed' = IF promise[a] = "pending" THEN Now(handed, a, handed[a] + 1) ELSE handed
    /\ UNCHANGED <<call, taken>>

\* A payload that does not parse throws in the listener, outside the try.
JobsMalformed(a) ==
    /\ call[a] = "open" /\ coming[a] > 0
    /\ coming' = Now(coming, a, coming[a] - 1)
    /\ UNCHANGED <<call, promise, taken, handed>>

ActivationEnds(a) ==
    /\ call[a] = "open" /\ coming[a] = 0
    /\ call' = Now(call, a, "over")
    /\ UNCHANGED <<promise, taken, coming, handed>>

\* Mutant of ActivationBreaks: the promise listens to 'error'.
ActivationBreaksRejecting(a) ==
    /\ call[a] = "open"
    /\ call' = Now(call, a, "over")
    /\ coming' = Now(coming, a, 0)
    /\ promise' = IF promise[a] = "pending" THEN Now(promise, a, "rejected") ELSE promise
    /\ UNCHANGED <<taken, handed>>

\* An error, or a channel that closes: the listener of GrpcClient takes the
\* event and this promise hears nothing of it.
ActivationBreaks(a) ==
    /\ call[a] = "open"
    /\ call' = Now(call, a, "over")
    /\ coming' = Now(coming, a, 0)
    /\ UNCHANGED <<promise, taken, handed>>

ActivationStep(a) ==
    /\ \/ Activate(a) \/ ActivationFails(a) \/ ActivationOpens(a)
       \/ GatewayActivates(a) \/ JobsArrive(a) \/ JobsMalformed(a)
       \/ ActivationEnds(a) \/ ActivationBreaks(a)
    /\ UNCHANGED retryVars

ActivationNext ==
    \/ \E a \in Activations : ActivationStep(a)
    \/ (StartClosing \/ CloseChannel) /\ UNCHANGED activationVars

-----------------------------------------------------------------------------
\* A rejected activateJobs() left no job activated and given to nobody: an
\* application may call it again without waiting for the job timeout of jobs
\* it never saw (ZBClient.ts activateJobs).
RejectedHoldsNothing ==
    \A a \in Activations : promise[a] = "rejected" => taken[a] = 0
=============================================================================
