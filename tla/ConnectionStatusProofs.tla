----------------------- MODULE ConnectionStatusProofs -----------------------
(* What TLAPS proves about ConnectionStatus, for every tolerance, window   *)
(* and choice of signals.                                                  *)
EXTENDS ConnectionStatus, TLAPS

USE DEF Off

LEMMA StatusTypeInit == StatusInit => StatusTypeOK
<1>. SUFFICES ASSUME StatusInit PROVE StatusTypeOK  OBVIOUS
<1>1. awaitingReady \in BOOLEAN
  <2>1. awaitingReady = ("waitForReady" \in Signals)  BY Zenon DEF StatusInit
  <2>2. ("waitForReady" \in Signals) \in BOOLEAN  OBVIOUS
  <2>. QED  BY <2>1, <2>2, Zenon
<1>2. window \in {Off} \cup 0..Window  BY ConnectionAssumption DEF StatusInit
<1>3. connected \in BOOLEAN /\ readied \in BOOLEAN /\ closed \in BOOLEAN /\ repeated \in BOOLEAN
  BY Zenon DEF StatusInit
<1>4. /\ readyTimer \in {Off} \cup 0..Tolerance /\ failTimer \in {Off} \cup 0..Tolerance
      /\ since \in 0..Tolerance
  BY ConnectionAssumption DEF StatusInit
<1>5. /\ state \in {"UNKNOWN", "ERROR", "CONNECTED"} /\ signal \in {"none", "good", "bad"}
      /\ told \in {"none", "ready", "error"}
  BY DEF StatusInit
<1>. QED  BY <1>1, <1>2, <1>3, <1>4, <1>5, Zenon DEF StatusTypeOK

\* The flags of the listener are a record of what was told, with one
\* exception: connected starts TRUE although nothing was told.
FlagsAgree ==
    /\ readied <=> told = "ready"
    /\ told = "error" => ~connected
FlagsInv == FlagsAgree /\ ~repeated

-----------------------------------------------------------------------------
(* The type of every variable. *)

LEMMA HearType ==
    ASSUME StatusTypeOK, HearError \/ HearReady \/ UNCHANGED listener
    PROVE  /\ connected' \in BOOLEAN /\ readied' \in BOOLEAN
           /\ told' \in {"none", "ready", "error"} /\ repeated' \in BOOLEAN
<1>. QED  BY DEF StatusTypeOK, HearError, HearReady, Tell, listener

\* What a step does to the listener: it hears an event, or nothing.
LEMMA StepsAreHeard ==
    [StatusNext]_statusVars => HearError \/ HearReady \/ UNCHANGED listener
<1>. SUFFICES ASSUME [StatusNext]_statusVars
              PROVE  HearError \/ HearReady \/ UNCHANGED listener
  OBVIOUS
<1>1. EventError \/ EventReady \/ NoEvent => HearError \/ HearReady \/ UNCHANGED listener
  BY DEF EventError, EventReady, NoEvent
<1>2. CASE StreamOpened \/ SyncRefused \/ SyncUnavailable  BY <1>1, <1>2 DEF StreamOpened, SyncRefused, SyncUnavailable
<1>3. CASE StreamFails \/ SyncSucceeds \/ WaitForReady  BY <1>1, <1>3 DEF StreamFails, SyncSucceeds, WaitForReady
<1>4. CASE Fires
  <2>1. CASE WindowEnds  BY <2>1 DEF WindowEnds
  <2>2. CASE ReadyTimerFires  BY <2>2, <1>1 DEF ReadyTimerFires
  <2>3. CASE FailTimerFires  BY <2>3, <1>1 DEF FailTimerFires
  <2>. QED  BY <1>4, <2>1, <2>2, <2>3 DEF Fires
<1>5. CASE Tick \/ Close \/ UNCHANGED statusVars
  BY <1>5 DEF Tick, Close, statusVars
<1>. QED  BY <1>2, <1>3, <1>4, <1>5 DEF StatusNext

LEMMA TimersType ==
    ASSUME StatusTypeOK, [StatusNext]_statusVars
    PROVE  /\ readyTimer' \in {Off} \cup 0..Tolerance
           /\ failTimer' \in {Off} \cup 0..Tolerance
           /\ window' \in {Off} \cup 0..Window
           /\ since' \in 0..Tolerance
<1>. USE ConnectionAssumption DEF StatusTypeOK
<1>1. ASSUME setReady \/ setNotReady \/ UNCHANGED timers
      PROVE  readyTimer' \in {Off} \cup 0..Tolerance /\ failTimer' \in {Off} \cup 0..Tolerance
  BY <1>1 DEF setReady, setNotReady, timers
<1>2. ASSUME NEW kind, NEW value, Signal(kind, value)
      PROVE  window' \in {Off} \cup 0..Window /\ since' \in 0..Tolerance
  BY <1>2 DEF Signal
<1>3. CASE StreamOpened  BY <1>1, <1>2, <1>3 DEF StreamOpened
<1>4. CASE StreamFails  BY <1>1, <1>2, <1>4 DEF StreamFails
<1>5. CASE SyncSucceeds  BY <1>1, <1>2, <1>5 DEF SyncSucceeds
<1>6. CASE SyncRefused  BY <1>1, <1>2, <1>6 DEF SyncRefused
<1>7. CASE SyncUnavailable  BY <1>1, <1>2, <1>7 DEF SyncUnavailable
<1>8. CASE WaitForReady  BY <1>1, <1>2, <1>8 DEF WaitForReady
<1>9. CASE Fires
  BY <1>9 DEF Fires, WindowEnds, ReadyTimerFires, FailTimerFires, timers, history
<1>10. CASE Tick
  BY <1>10 DEF Tick, Elapse
<1>11. CASE Close \/ UNCHANGED statusVars
  BY <1>11 DEF Close, statusVars, timers, history
<1>. QED  BY <1>3, <1>4, <1>5, <1>6, <1>7, <1>8, <1>9, <1>10, <1>11 DEF StatusNext

LEMMA OthersType ==
    ASSUME StatusTypeOK, [StatusNext]_statusVars
    PROVE  /\ state' \in {"UNKNOWN", "ERROR", "CONNECTED"}
           /\ awaitingReady' \in BOOLEAN /\ closed' \in BOOLEAN
           /\ signal' \in {"none", "good", "bad"}
<1>. USE DEF StatusTypeOK
<1>1. EventError \/ EventReady \/ NoEvent => state' \in {"UNKNOWN", "ERROR", "CONNECTED"}
  BY DEF EventError, EventReady, NoEvent
<1>2. ASSUME NEW kind, NEW value \in {"none", "good", "bad"}, Signal(kind, value)
      PROVE  closed' \in BOOLEAN /\ signal' \in {"none", "good", "bad"}
  BY <1>2 DEF Signal
<1>3. CASE StreamOpened  BY <1>1, <1>2, <1>3 DEF StreamOpened
<1>4. CASE StreamFails  BY <1>1, <1>2, <1>4 DEF StreamFails
<1>5. CASE SyncSucceeds  BY <1>1, <1>2, <1>5 DEF SyncSucceeds
<1>6. CASE SyncRefused  BY <1>1, <1>2, <1>6 DEF SyncRefused
<1>7. CASE SyncUnavailable  BY <1>1, <1>2, <1>7 DEF SyncUnavailable
<1>8. CASE WaitForReady  BY <1>1, <1>2, <1>8 DEF WaitForReady
<1>9. CASE Fires
  BY <1>9, <1>1 DEF Fires, WindowEnds, ReadyTimerFires, FailTimerFires, history
<1>10. CASE Tick \/ Close \/ UNCHANGED statusVars
  BY <1>10 DEF Tick, Close, statusVars, history
<1>. QED  BY <1>3, <1>4, <1>5, <1>6, <1>7, <1>8, <1>9, <1>10 DEF StatusNext

LEMMA StatusTypeStep == StatusTypeOK /\ [StatusNext]_statusVars => StatusTypeOK'
<1>. SUFFICES ASSUME StatusTypeOK, [StatusNext]_statusVars PROVE StatusTypeOK'
  OBVIOUS
<1>1. /\ connected' \in BOOLEAN /\ readied' \in BOOLEAN
      /\ told' \in {"none", "ready", "error"} /\ repeated' \in BOOLEAN
  BY StepsAreHeard, HearType
<1>. QED  BY <1>1, TimersType, OthersType DEF StatusTypeOK

\* Every variable keeps its type.
THEOREM StatusTypeCorrect == StatusSpec => []StatusTypeOK
<1>. QED  BY StatusTypeInit, StatusTypeStep, PTL DEF StatusSpec

-----------------------------------------------------------------------------
(* Notifications. *)

LEMMA FlagsStep == StatusTypeOK /\ FlagsInv /\ [StatusNext]_statusVars => FlagsInv'
<1>. SUFFICES ASSUME StatusTypeOK, FlagsInv, HearError \/ HearReady \/ UNCHANGED listener
              PROVE  FlagsInv'
  BY StepsAreHeard
<1>. USE DEF FlagsInv, FlagsAgree
<1>1. CASE UNCHANGED listener  BY <1>1 DEF listener
<1>2. CASE Tell("error") /\ connected  BY <1>2 DEF Tell
<1>3. CASE Tell("ready") /\ ~readied  BY <1>3 DEF Tell
<1>4. CASE readied /\ connected' = TRUE /\ UNCHANGED <<readied, told, repeated>>  BY <1>4
<1>. QED  BY <1>1, <1>2, <1>3, <1>4 DEF HearError, HearReady

\* The application is never told the same thing twice running, whatever calls,
\* timers and the window do (listeners of ZBClient and ZBWorkerBase).
THEOREM NoRepetition == StatusSpec => []NotificationsAlternate
<1>1. StatusInit => FlagsInv  BY DEF StatusInit, FlagsInv, FlagsAgree
<1>2. FlagsInv => NotificationsAlternate  BY DEF FlagsInv, NotificationsAlternate
<1>. QED  BY <1>1, <1>2, FlagsStep, StatusTypeCorrect, PTL DEF StatusSpec

-----------------------------------------------------------------------------
(* The ready timer. *)

\* The ready timer runs only while nothing has failed, and has run down no
\* further than the good signals have lasted.
DebounceInv ==
    readyTimer # Off => /\ signal # "bad"
                        /\ signal = "good" => since + readyTimer >= Tolerance

LEMMA DebounceStep == StatusTypeOK /\ DebounceInv /\ [StatusNext]_statusVars => DebounceInv'
<1>. SUFFICES ASSUME StatusTypeOK, DebounceInv, [StatusNext]_statusVars PROVE DebounceInv'
  OBVIOUS
<1>. USE ConnectionAssumption
<1>1. CASE StreamOpened \/ SyncSucceeds \/ SyncRefused
  <2>1. readyTimer' = Tolerance /\ signal' = "good"
    BY <1>1 DEF StreamOpened, SyncSucceeds, SyncRefused, Signal, setReady
  <2>2. since' \in 0..Tolerance  BY TimersType
  <2>3. since' + readyTimer' >= Tolerance
    <3>1. \A s \in 0..Tolerance : s + Tolerance >= Tolerance  OBVIOUS
    <3>. QED  BY <2>1, <2>2, <3>1, Zenon
  <2>4. signal' # "bad"  BY <2>1
  <2>. QED  BY <2>3, <2>4 DEF DebounceInv
<1>2. CASE StreamFails \/ SyncUnavailable
  BY <1>2 DEF StreamFails, SyncUnavailable, setNotReady, DebounceInv
<1>3. CASE WaitForReady
  BY <1>3 DEF WaitForReady, Signal, timers, DebounceInv
<1>4. CASE Fires
  BY <1>4 DEF Fires, WindowEnds, ReadyTimerFires, FailTimerFires, timers, history, DebounceInv
<1>5. CASE Tick
  BY <1>5 DEF Tick, Elapse, StatusTypeOK, DebounceInv
<1>6. CASE Close \/ UNCHANGED statusVars
  BY <1>6 DEF Close, statusVars, timers, history, DebounceInv
<1>. QED  BY <1>1, <1>2, <1>3, <1>4, <1>5, <1>6 DEF StatusNext

\* An onReady that the timer brings comes after the tolerance, with no failure
\* in between (GrpcClient setReady, setNotReady).
THEOREM ReadyIsDebounced == StatusSpec => ReadyDebounced
<1>1. StatusInit => DebounceInv  BY DEF StatusInit, DebounceInv
<1>2. StatusTypeOK /\ DebounceInv /\ [StatusNext]_statusVars
        => [told' = "ready" /\ told # "ready" /\ readyTimer = 0 /\ readyTimer' = Off
              => signal # "bad" /\ (signal = "good" => since >= Tolerance)]_statusVars
  BY ConnectionAssumption DEF DebounceInv, StatusTypeOK
<1>. QED  BY <1>1, <1>2, DebounceStep, StatusTypeCorrect, PTL DEF StatusSpec, ReadyDebounced

-----------------------------------------------------------------------------
(* What the application has heard when the timers are quiet. *)

\* The middleware is in a state, and the application knows unless the window
\* still holds the event back.
Heard(st, what) == state = st /\ (blocking \/ told = what)

\* A good signal leaves the ready timer, which brings what it says and clears
\* the fail timer; a bad one stops it and leaves the fail timer, which was
\* perhaps running already.
QuietInv ==
    ~closed =>
        /\ signal = "good" /\ readyTimer = Off
              => failTimer = Off /\ Heard("CONNECTED", "ready")
        /\ signal = "bad" => /\ readyTimer = Off
                             /\ failTimer = Off => Heard("ERROR", "error")

\* Only an error leaves the listener disconnected.
ConnectedInv == ~connected => told = "error"

LEMMA ConnectedStep == StatusTypeOK /\ ConnectedInv /\ [StatusNext]_statusVars => ConnectedInv'
<1>. SUFFICES ASSUME ConnectedInv, HearError \/ HearReady \/ UNCHANGED listener
              PROVE  ConnectedInv'
  BY StepsAreHeard
<1>. QED  BY DEF ConnectedInv, HearError, HearReady, Tell, listener

\* The listener takes an event: afterwards it is what was told last.
LEMMA EventsTold ==
    ASSUME FlagsAgree, ConnectedInv
    PROVE  /\ HearError => told' = "error"
           /\ HearReady => told' = "ready"
<1>. QED  BY DEF FlagsAgree, ConnectedInv, HearError, HearReady, Tell, listener

LEMMA QuietSignals ==
    ASSUME StreamOpened \/ StreamFails \/ SyncSucceeds \/ SyncRefused
             \/ SyncUnavailable \/ WaitForReady,
           StatusTypeOK
    PROVE  QuietInv'
<1>. USE ConnectionAssumption DEF QuietInv
<1>1. CASE StreamOpened \/ SyncSucceeds \/ SyncRefused
  BY <1>1 DEF StreamOpened, SyncSucceeds, SyncRefused, Signal, setReady
<1>2. CASE StreamFails \/ SyncUnavailable
  BY <1>2 DEF StreamFails, SyncUnavailable, Signal, setNotReady
<1>3. CASE WaitForReady
  BY <1>3 DEF WaitForReady, Signal
<1>. QED  BY <1>1, <1>2, <1>3

LEMMA QuietStep ==
    ASSUME StatusTypeOK, FlagsAgree, ConnectedInv, QuietInv, [StatusNext]_statusVars
    PROVE  QuietInv'
<1>. USE DEF QuietInv, Heard, blocking
<1>1. CASE WindowEnds /\ ~closed
  BY <1>1, EventsTold DEF WindowEnds, timers, history
<1>2. CASE ReadyTimerFires /\ ~closed
  BY <1>2, EventsTold DEF ReadyTimerFires, EventReady, history
<1>3. CASE FailTimerFires /\ ~closed
  BY <1>3, EventsTold DEF FailTimerFires, EventError, NoEvent, history
<1>4. CASE Tick
  BY <1>4 DEF Tick, Elapse, listener, StatusTypeOK
<1>5. CASE Close \/ UNCHANGED statusVars
  BY <1>5 DEF Close, statusVars, timers, listener, history
<1>. QED  BY <1>1, <1>2, <1>3, <1>4, <1>5, QuietSignals DEF StatusNext, Fires

\* When no timer is pending, the application has been told what the calls
\* showed last, for any tolerance, window and choice of signals (GrpcClient,
\* GrpcMiddleware and the listeners together).
THEOREM QuietMeansTold == StatusSpec => []QuietAgreement
<1>1. StatusInit => QuietInv /\ FlagsInv /\ ConnectedInv
  BY DEF StatusInit, QuietInv, FlagsInv, FlagsAgree, ConnectedInv
<1>2. StatusTypeOK /\ QuietInv => QuietAgreement
  BY DEF StatusTypeOK, QuietInv, Heard, blocking, QuietAgreement
<1>3. StatusTypeOK /\ FlagsInv /\ ConnectedInv /\ QuietInv /\ [StatusNext]_statusVars => QuietInv'
  BY QuietStep DEF FlagsInv
<1>. QED  BY <1>1, <1>2, <1>3, FlagsStep, ConnectedStep, StatusTypeCorrect, PTL DEF StatusSpec
=============================================================================
