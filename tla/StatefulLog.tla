----------------------------- MODULE StatefulLog -----------------------------
(***************************************************************************)
(* What a client or worker prints while it connects                        *)
(* (src/lib/StatefulLogInterceptor.ts over the level filter of             *)
(* src/lib/ZBLogger.ts).  Messages are held back during the initial        *)
(* window, until the connection is ready or the window has run out.        *)
(* Extends ConnectionStatus, whose middleware events the interceptor       *)
(* hears; it has a window timer of its own, of the same duration.          *)
(***************************************************************************)
EXTENDS ConnectionStatus, Sequences, SequencesExt

CONSTANTS
    LogLevels,      \* what loglevel may be
    MaxMessages     \* bound: messages logged

ASSUME LogAssumption ==
    /\ LogLevels \subseteq {"NONE", "ERROR", "INFO", "DEBUG"}
    /\ MaxMessages \in Nat

VARIABLES
    loglevel,
    logBlocking,        \* StatefulLogInterceptor.blocking
    logTimer,           \* its blockingTimer
    logState,           \* its state
    initialConnection,  \* emptyLogs() ran
    heldErrors,         \* errors: messages held back, by their number
    heldInfos,          \* logs, likewise
    logged,             \* the kinds of all messages logged so far
    printed             \* the messages the logger wrote

logVars == <<loglevel, logBlocking, logTimer, logState, initialConnection,
             heldErrors, heldInfos, logged, printed>>
logStatusVars == <<statusVars, logVars>>

LogInit ==
    /\ StatusInit
    /\ loglevel \in LogLevels
    /\ logBlocking = (Window > 0 /\ loglevel # "DEBUG")
    /\ logTimer = IF logBlocking THEN Window ELSE Off
    /\ logState = "ERROR"
    /\ initialConnection = FALSE
    /\ heldErrors = <<>> /\ heldInfos = <<>>
    /\ logged = <<>> /\ printed = <<>>

Shown(kind) == IF kind = "error" THEN loglevel # "NONE" ELSE loglevel \in {"INFO", "DEBUG"}
Write(kind, msgs) == printed' = IF Shown(kind) THEN printed \o msgs ELSE printed

\* logError() and logInfo(), through wrap().
Log(kind) ==
    LET msg == Len(logged) + 1
        hold == logBlocking /\ logState = "ERROR"
    IN /\ msg <= MaxMessages
       /\ logged' = Append(logged, kind)
       /\ heldErrors' = IF hold /\ kind = "error" THEN Append(heldErrors, msg) ELSE heldErrors
       /\ heldInfos' = IF hold /\ kind = "info" THEN Append(heldInfos, msg) ELSE heldInfos
       /\ IF hold THEN UNCHANGED printed ELSE Write(kind, <<msg>>)
       /\ UNCHANGED <<statusVars, loglevel, logBlocking, logTimer, logState, initialConnection>>

emptyErrors ==
    /\ Write("error", heldErrors)
    /\ heldErrors' = <<>>
    /\ UNCHANGED <<heldInfos, initialConnection>>

emptyLogs ==
    /\ Write("info", heldInfos)
    /\ heldInfos' = <<>>
    /\ initialConnection' = TRUE
    /\ UNCHANGED heldErrors

UnchangedLog == UNCHANGED <<initialConnection, heldErrors, heldInfos, printed>>

ready ==
    /\ logState' = "CONNECTED"
    /\ logBlocking' = FALSE
    /\ IF logBlocking THEN emptyLogs ELSE UnchangedLog
    /\ UNCHANGED <<loglevel, logTimer, logged>>

connectionError ==
    /\ logState' = "ERROR"
    /\ UnchangedLog
    /\ UNCHANGED <<loglevel, logBlocking, logTimer, logged>>

\* Mutant of LogWindowEnds: blocking is reset after the messages are emptied,
\* which holds them back again, for the array that is then thrown away.
LogWindowEndsBlocking ==
    /\ logTimer = 0 /\ ~closed
    /\ logTimer' = Off
    /\ logBlocking' = FALSE
    /\ heldErrors' = <<>>
    /\ UNCHANGED <<heldInfos, initialConnection, printed>>
    /\ UNCHANGED <<statusVars, loglevel, logState, logged>>

LogWindowEnds ==
    /\ logTimer = 0 /\ ~closed
    /\ logTimer' = Off
    /\ logBlocking' = FALSE
    /\ IF ~logBlocking THEN UnchangedLog
       ELSE IF logState = "ERROR" THEN emptyErrors ELSE emptyLogs
    /\ UNCHANGED <<statusVars, loglevel, logState, logged>>

\* close() of ConnectionFactory: the timer is cleared, blocking is not.
LogClose ==
    /\ logTimer' = Off
    /\ UnchangedLog
    /\ UNCHANGED <<loglevel, logBlocking, logState, logged>>

-----------------------------------------------------------------------------
(* The steps of the connection, and which event of the middleware each of  *)
(* them brings the interceptor.                                            *)

BringsReady ==
    \/ SyncSucceeds
    \/ ~closed /\ ReadyTimerFires
    \/ WaitForReady /\ state' = "CONNECTED"

BringsError ==
    \/ StreamFails
    \/ ~closed /\ FailTimerFires /\ readyTimer = Off
    \/ WaitForReady /\ state' = "ERROR"

BringsNothing ==
    \/ StreamOpened \/ SyncRefused \/ SyncUnavailable
    \/ ~closed /\ WindowEnds
    \/ ~closed /\ FailTimerFires /\ readyTimer # Off

LogTick ==
    /\ Tick /\ logTimer # 0
    /\ logTimer' = Elapse(logTimer)
    /\ UnchangedLog
    /\ UNCHANGED <<loglevel, logBlocking, logState, logged>>

LogNext ==
    \/ BringsReady /\ ready
    \/ BringsError /\ connectionError
    \/ BringsNothing /\ UNCHANGED logVars
    \/ \E kind \in {"error", "info"} : Log(kind)
    \/ LogWindowEnds \/ LogTick
    \/ Close /\ LogClose

LogSpec == LogInit /\ [][LogNext]_logStatusVars

\* Time passes and timers fire.
FairLogSpec ==
    /\ LogSpec
    /\ WF_statusVars(Tick) /\ WF_statusVars(Fires) /\ WF_logVars(LogWindowEnds)

-----------------------------------------------------------------------------
\* The type of every variable.
LogTypeOK ==
    /\ loglevel \in LogLevels
    /\ logBlocking \in BOOLEAN /\ initialConnection \in BOOLEAN
    /\ logTimer \in {Off} \cup 0..Window
    /\ logState \in {"ERROR", "CONNECTED"}
    /\ logged \in Seq({"error", "info"}) /\ Len(logged) <= MaxMessages
    /\ \A held \in {heldErrors, heldInfos, printed} : held \in Seq(1..Len(logged))

\* The messages of a kind that the level lets through and nobody has seen.
Unseen(kind) ==
    {msg \in DOMAIN logged : logged[msg] = kind /\ Shown(kind)} \ ToSet(printed)

\* No message is printed twice, and each kind in the order it was logged;
\* once the window is over, every message is out but those it suppressed: the
\* errors before a connection, or the progress of one that failed
\* (README.md:418, "suppress connection errors during this window, and only
\* report them if the connection did not succeed by the end of the window").
MessagesSurface ==
    /\ \A i, j \in DOMAIN printed :
          i < j /\ logged[printed[i]] = logged[printed[j]] => printed[i] < printed[j]
    /\ ~logBlocking => IF initialConnection THEN Unseen("info") = {}
                       ELSE Unseen("error") = {}
=============================================================================
