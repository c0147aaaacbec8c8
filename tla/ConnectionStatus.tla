-------------------------- MODULE ConnectionStatus --------------------------
(***************************************************************************)
(* How the application learns whether the gateway is reachable.  Calls     *)
(* give signals to setReady() and setNotReady() of src/lib/GrpcClient.ts,  *)
(* whose two debounce timers emit middleware events; GrpcMiddleware holds  *)
(* events back during the initial connection window; the listener of the   *)
(* client or worker turns what is left into onReady / onConnectionError.   *)
(* Time is counted in ticks; a due timer fires before the next tick.       *)
(***************************************************************************)
EXTENDS Integers

CONSTANTS
    Tolerance,  \* connectionTolerance, in ticks
    Window,     \* startupTime, in ticks; 0 for a vanilla gateway
    IsWorker,   \* the listener is a worker's, which also hears "unknown"
    Signals     \* what the calls of this connection may do

SignalKinds == {"streamOpened", "streamFails", "syncSucceeds", "syncRefused",
                "syncUnavailable", "waitForReady"}

ASSUME ConnectionAssumption ==
    /\ Tolerance \in Nat \ {0}
    /\ Window \in Nat
    /\ IsWorker \in BOOLEAN
    /\ Signals \subseteq SignalKinds

VARIABLES
    readyTimer, failTimer,  \* ticks left, Off when not pending
    window,                 \* the middleware's blocking timer, likewise
    state,                  \* GrpcMiddleware.state
    connected, readied,     \* the flags of the listener
    awaitingReady,          \* client.waitForReady() has not called back
    closed,                 \* the listeners were removed by close()
    told,                   \* the last notification of the application
    repeated,               \* it was told the same thing twice running
    signal, since           \* history: the last call's, ticks it has lasted

timers == <<readyTimer, failTimer>>
listener == <<connected, readied, told, repeated>>
history == <<signal, since>>
statusVars == <<timers, window, state, listener, awaitingReady, closed, history>>

Off == -1
blocking == window # Off

StatusInit ==
    /\ readyTimer = Off /\ failTimer = Off
    /\ window = IF Window > 0 THEN Window ELSE Off
    /\ state = "UNKNOWN"
    /\ connected = TRUE /\ readied = FALSE
    /\ awaitingReady = ("waitForReady" \in Signals)
    /\ closed = FALSE
    /\ told = "none" /\ repeated = FALSE
    /\ signal = "none" /\ since = 0

-----------------------------------------------------------------------------
(* The listener: a client's connected starts undefined, which here is TRUE. *)

\* Mutant of Tell: an error does not reset readied.
TellSticky(what) ==
    /\ told' = what
    /\ repeated' = (told = what)
    /\ connected' = (what = "ready")
    /\ readied' = (readied \/ what = "ready")

Tell(what) ==
    /\ told' = what
    /\ repeated' = (told = what)
    /\ connected' = (what = "ready")
    /\ readied' = (what = "ready")

HearError == IF connected THEN Tell("error") ELSE UNCHANGED listener
\* Mutant of HearReady: readied is not looked at.
HearReadyAlways == Tell("ready")

HearReady == IF ~readied THEN Tell("ready")
             ELSE connected' = TRUE /\ UNCHANGED <<readied, told, repeated>>

(* The middleware. *)
EventError == state' = "ERROR" /\ (IF blocking THEN UNCHANGED listener ELSE HearError)
EventReady == state' = "CONNECTED" /\ (IF blocking THEN UNCHANGED listener ELSE HearReady)
NoEvent == UNCHANGED <<state, listener>>

WindowEnds ==
    /\ window = 0
    /\ window' = Off
    /\ \/ state = "ERROR" /\ HearError
       \/ state = "CONNECTED" /\ HearReady
       \/ state = "UNKNOWN" /\ IF IsWorker THEN HearReady ELSE UNCHANGED listener
    /\ UNCHANGED <<timers, state, awaitingReady, closed, history>>

\* Mutants of setNotReady: the ready timer goes on; the fail timer restarts.
setNotReadyKeeping ==
    /\ failTimer' = IF failTimer = Off THEN Tolerance ELSE failTimer
    /\ UNCHANGED readyTimer
setNotReadyRestarting == readyTimer' = Off /\ failTimer' = Tolerance

(* The gRPC client. *)
setReady == readyTimer' = Tolerance /\ UNCHANGED failTimer
setNotReady == /\ readyTimer' = Off
               /\ failTimer' = IF failTimer = Off THEN Tolerance ELSE failTimer

ReadyTimerFires ==
    /\ readyTimer = 0
    /\ readyTimer' = Off /\ failTimer' = Off
    /\ EventReady
    /\ UNCHANGED <<window, awaitingReady, closed, history>>

FailTimerFires ==
    /\ failTimer = 0
    /\ failTimer' = Off
    /\ IF readyTimer # Off THEN NoEvent ELSE EventError
    /\ UNCHANGED <<readyTimer, window, awaitingReady, closed, history>>

-----------------------------------------------------------------------------
Signal(kind, value) ==
    /\ kind \in Signals /\ ~closed
    /\ signal' = value
    /\ since' = IF signal = value THEN since ELSE 0
    /\ UNCHANGED <<window, closed>>

\* The call returned a stream: only the timer is started.
StreamOpened ==
    /\ Signal("streamOpened", "good")
    /\ setReady /\ NoEvent /\ UNCHANGED awaitingReady

\* No token, a call that throws, or an error on the stream.
StreamFails ==
    /\ Signal("streamFails", "bad")
    /\ EventError /\ setNotReady /\ UNCHANGED awaitingReady

SyncSucceeds ==
    /\ Signal("syncSucceeds", "good")
    /\ EventReady /\ setReady /\ UNCHANGED awaitingReady

\* An answer other than UNAVAILABLE: the gateway is there.
SyncRefused ==
    /\ Signal("syncRefused", "good")
    /\ setReady /\ NoEvent /\ UNCHANGED awaitingReady

SyncUnavailable ==
    /\ Signal("syncUnavailable", "bad")
    /\ setNotReady /\ NoEvent /\ UNCHANGED awaitingReady

\* The callback of the constructor's waitForReady() emits and sets no timer;
\* what it reports may be older than the signals before it.
WaitForReady ==
    /\ awaitingReady
    /\ awaitingReady' = FALSE
    /\ Signal("waitForReady", "none")
    /\ EventReady \/ EventError
    /\ UNCHANGED timers

Close ==
    /\ ~closed
    /\ closed' = TRUE
    /\ window' = Off
    /\ UNCHANGED <<timers, state, listener, awaitingReady, history>>

Elapse(timer) == IF timer = Off THEN Off ELSE timer - 1

Tick ==
    /\ ~closed
    /\ 0 \notin {readyTimer, failTimer, window}
    /\ readyTimer' = Elapse(readyTimer)
    /\ failTimer' = Elapse(failTimer)
    /\ window' = Elapse(window)
    /\ since' = IF since < Tolerance THEN since + 1 ELSE since
    /\ UNCHANGED <<state, listener, awaitingReady, closed, signal>>

Fires == ~closed /\ (WindowEnds \/ ReadyTimerFires \/ FailTimerFires)

StatusNext ==
    \/ StreamOpened \/ StreamFails \/ SyncSucceeds \/ SyncRefused
    \/ SyncUnavailable \/ WaitForReady
    \/ Fires \/ Tick \/ Close

StatusSpec == StatusInit /\ [][StatusNext]_statusVars

\* Time passes and timers fire.
FairStatusSpec == StatusSpec /\ WF_statusVars(Tick) /\ WF_statusVars(Fires)

-----------------------------------------------------------------------------
\* The type of every variable.
StatusTypeOK ==
    /\ readyTimer \in {Off} \cup 0..Tolerance
    /\ failTimer \in {Off} \cup 0..Tolerance
    /\ window \in {Off} \cup 0..Window
    /\ state \in {"UNKNOWN", "ERROR", "CONNECTED"}
    /\ connected \in BOOLEAN /\ readied \in BOOLEAN
    /\ awaitingReady \in BOOLEAN /\ closed \in BOOLEAN
    /\ told \in {"none", "ready", "error"} /\ repeated \in BOOLEAN
    /\ signal \in {"none", "good", "bad"} /\ since \in 0..Tolerance

\* The application never hears onReady, or onConnectionError, twice running,
\* whichever of the five sources the events come from.
NotificationsAlternate == ~repeated

\* When no timer is pending, what the application was told last agrees with
\* what the calls on the connection showed last: no notification is swallowed
\* for good by the flags of the listener, the window or the timers.
QuietAgreement ==
    /\ {readyTimer, failTimer, window} = {Off}
    /\ ~closed /\ signal # "none"
    => told = IF signal = "good" THEN "ready" ELSE "error"

\* An onReady that the timer brings comes when no call has failed for the
\* tolerance (README.md:365): an outage cancels a ready timer under way.
ReadyDebounced ==
    [][told' = "ready" /\ told # "ready" /\ readyTimer = 0 /\ readyTimer' = Off
         => signal # "bad" /\ (signal = "good" => since >= Tolerance)]_statusVars

\* A lasting outage is reported in the end and for good, although bad signals
\* keep coming and each of them touches the timers.
OutageReported == <>[](signal = "bad" /\ ~closed) => <>[](told = "error")
=============================================================================
