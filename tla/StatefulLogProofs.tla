-------------------------- MODULE StatefulLogProofs --------------------------
(* What TLAPS proves about StatefulLog: the log looks on and changes       *)
(* nothing about the connection, so that what ConnectionStatusProofs says  *)
(* holds of both together; and what becomes of messages held back, for any *)
(* number of them.                                                         *)
EXTENDS StatefulLog, ConnectionStatusProofs, SequenceTheorems

LEMMA LogStepIsStatusStep == [LogNext]_logStatusVars => [StatusNext]_statusVars
<1>. SUFFICES ASSUME [LogNext]_logStatusVars PROVE [StatusNext]_statusVars  OBVIOUS
<1>1. CASE BringsReady  BY <1>1 DEF BringsReady, StatusNext, Fires
<1>2. CASE BringsError  BY <1>2 DEF BringsError, StatusNext, Fires
<1>3. CASE BringsNothing  BY <1>3 DEF BringsNothing, StatusNext, Fires
<1>4. CASE \E kind \in {"error", "info"} : Log(kind)  BY <1>4 DEF Log
<1>5. CASE LogWindowEnds  BY <1>5 DEF LogWindowEnds
<1>6. CASE LogTick \/ Close \/ UNCHANGED logStatusVars
  BY <1>6 DEF LogTick, StatusNext, logStatusVars
<1>. QED  BY <1>1, <1>2, <1>3, <1>4, <1>5, <1>6 DEF LogNext

\* A connection with a log behaves as one without.
THEOREM LogRefinesStatus == LogSpec => StatusSpec
<1>1. LogInit => StatusInit  BY DEF LogInit
<1>. QED  BY <1>1, LogStepIsStatusStep, PTL DEF LogSpec, StatusSpec

-----------------------------------------------------------------------------
(* Messages. *)

Kinds == {"error", "info"}
Numbers == 1..Len(logged)
Increasing(s) == \A i, j \in DOMAIN s : i < j => s[i] < s[j]
OfKind(kind) == {msg \in DOMAIN logged : logged[msg] = kind}

\* While messages are held back nothing has been printed, and each kind is
\* held in full; from then on everything is printed at once, after what the
\* end of the window let out.
HoldsAll(s, kind) == s \in Seq(Numbers) /\ Increasing(s) /\ ToSet(s) = OfKind(kind)
MessageInv ==
    /\ logged \in Seq(Kinds) /\ loglevel \in LogLevels
    /\ logBlocking \in BOOLEAN /\ initialConnection \in BOOLEAN
    /\ printed \in Seq(Numbers) /\ Increasing(printed)
    /\ logBlocking => /\ logState = "ERROR" /\ printed = <<>>
                      /\ HoldsAll(heldErrors, "error") /\ HoldsAll(heldInfos, "info")
                      /\ ~initialConnection
    /\ ~logBlocking => IF initialConnection THEN Unseen("info") = {}
                       ELSE Unseen("error") = {}

\* Appending a number above all others.
LEMMA AppendNext ==
    ASSUME NEW n \in Nat, NEW s \in Seq(1..n), Increasing(s)
    PROVE  /\ Append(s, n + 1) \in Seq(1..(n + 1))
           /\ Increasing(Append(s, n + 1))
           /\ ToSet(Append(s, n + 1)) = ToSet(s) \cup {n + 1}
           /\ s \o <<n + 1>> = Append(s, n + 1)
<1>. DEFINE t == Append(s, n + 1)
<1>1. /\ Len(s) \in Nat /\ DOMAIN s = 1..Len(s) /\ Len(t) = Len(s) + 1
      /\ \A i \in 1..Len(s) : s[i] \in 1..n /\ t[i] = s[i]
      /\ t[Len(s) + 1] = n + 1
  BY LenProperties, ElementOfSeq, AppendProperties
<1>2. s \in Seq(1..(n + 1)) /\ n + 1 \in 1..(n + 1)
  <2>1. 1..n \subseteq 1..(n + 1) /\ n + 1 \in 1..(n + 1)  OBVIOUS
  <2>. QED  BY <2>1, SeqMonotonic
<1>3. t \in Seq(1..(n + 1))  BY <1>2, AppendProperties
<1>4. DOMAIN t = 1..(Len(s) + 1)  BY <1>1, <1>3, LenProperties
<1>5. Increasing(t)
  <2>1. ASSUME NEW i \in DOMAIN t, NEW j \in DOMAIN t, i < j PROVE t[i] < t[j]
    <3>1. i \in 1..Len(s) /\ (j \in 1..Len(s) \/ j = Len(s) + 1)  BY <1>1, <1>4, <2>1
    <3>2. CASE j \in 1..Len(s)
      BY <1>1, <2>1, <3>1, <3>2 DEF Increasing
    <3>3. CASE j = Len(s) + 1
      BY <1>1, <3>1, <3>3
    <3>. QED  BY <3>1, <3>2, <3>3
  <2>. QED  BY <2>1 DEF Increasing
<1>6. ToSet(t) = ToSet(s) \cup {n + 1}
  <2>1. ASSUME NEW x \in ToSet(t) PROVE x \in ToSet(s) \cup {n + 1}
    <3>1. PICK i \in 1..(Len(s) + 1) : x = t[i]  BY <1>4, <2>1 DEF ToSet
    <3>2. CASE i \in 1..Len(s)  BY <1>1, <3>1, <3>2 DEF ToSet
    <3>3. CASE i = Len(s) + 1  BY <1>1, <3>1, <3>3
    <3>. QED  BY <1>1, <3>1, <3>2, <3>3
  <2>2. ASSUME NEW x \in ToSet(s) PROVE x \in ToSet(t)
    <3>1. PICK i \in 1..Len(s) : x = s[i]  BY <1>1, <2>2 DEF ToSet
    <3>2. i \in DOMAIN t /\ x = t[i]  BY <1>1, <1>4, <3>1
    <3>. QED  BY <3>2 DEF ToSet
  <2>3. n + 1 \in ToSet(t)
    <3>1. Len(s) + 1 \in DOMAIN t  BY <1>1, <1>4
    <3>. QED  BY <1>1, <3>1 DEF ToSet
  <2>. QED  BY <2>1, <2>2, <2>3
<1>7. s \o <<n + 1>> = t  BY <1>2, AppendIsConcat
<1>. QED  BY <1>3, <1>5, <1>6, <1>7

LEMMA NothingHeld == <<>> \in Seq(Numbers) /\ Increasing(<<>>) /\ ToSet(<<>>) = {}
<1>1. DOMAIN <<>> = {}  OBVIOUS
<1>. QED  BY <1>1, EmptySeq DEF Increasing, ToSet

LEMMA MessageInit == LogInit => MessageInv
<1>. SUFFICES ASSUME LogInit PROVE MessageInv  OBVIOUS
<1>1. logged = <<>> /\ logged \in Seq(Kinds) /\ DOMAIN logged = {}
  BY EmptySeq DEF LogInit
<1>2. OfKind("error") = {} /\ OfKind("info") = {}  BY <1>1 DEF OfKind
<1>3. Unseen("error") = {}  BY <1>1 DEF Unseen
<1>4. logBlocking \in BOOLEAN
  <2>1. logBlocking = (Window > 0 /\ loglevel # "DEBUG")  BY Zenon DEF LogInit
  <2>2. (Window > 0 /\ loglevel # "DEBUG") \in BOOLEAN  OBVIOUS
  <2>. QED  BY <2>1, <2>2, Zenon
<1>5. /\ loglevel \in LogLevels /\ logState = "ERROR"
      /\ heldErrors = <<>> /\ heldInfos = <<>> /\ printed = <<>>
  BY DEF LogInit
<1>6. initialConnection = FALSE  BY Zenon DEF LogInit
<1>7. HoldsAll(heldErrors, "error") /\ HoldsAll(heldInfos, "info")
  BY <1>2, <1>5, NothingHeld DEF HoldsAll
<1>8. printed \in Seq(Numbers) /\ Increasing(printed)  BY <1>5, NothingHeld
<1>. QED  BY <1>1, <1>3, <1>4, <1>5, <1>6, <1>7, <1>8, Zenon DEF MessageInv

\* One message more.
LEMMA OneMore ==
    ASSUME MessageInv, NEW kind \in Kinds, logged' = Append(logged, kind)
    PROVE  /\ logged' \in Seq(Kinds) /\ Len(logged) \in Nat /\ Len(logged') = Len(logged) + 1
           /\ DOMAIN logged' = DOMAIN logged \cup {Len(logged) + 1}
           /\ \A msg \in DOMAIN logged : logged'[msg] = logged[msg]
           /\ logged'[Len(logged) + 1] = kind
           /\ DOMAIN logged = 1..Len(logged)
           /\ Numbers' = 1..(Len(logged) + 1) /\ Numbers \subseteq Numbers'
<1>1. logged \in Seq(Kinds)  BY DEF MessageInv
<1>2. logged' \in Seq(Kinds) /\ Len(logged') = Len(logged) + 1
      /\ (\A msg \in 1..Len(logged) : logged'[msg] = logged[msg])
      /\ logged'[Len(logged) + 1] = kind
  BY <1>1, AppendProperties
<1>3. Len(logged) \in Nat /\ DOMAIN logged = 1..Len(logged) /\ DOMAIN logged' = 1..Len(logged')
  BY <1>1, <1>2, LenProperties
<1>4. DOMAIN logged' = DOMAIN logged \cup {Len(logged) + 1}
  BY <1>2, <1>3
<1>. QED  BY <1>2, <1>3, <1>4 DEF Numbers

LEMMA LogKeeps ==
    ASSUME MessageInv, NEW kind \in Kinds, Log(kind)
    PROVE  MessageInv'
<1>. DEFINE msg == Len(logged) + 1
<1>1. /\ logged' = Append(logged, kind)
      /\ UNCHANGED <<loglevel, logBlocking, logState, initialConnection>>
  BY DEF Log
<1>2. /\ logged' \in Seq(Kinds) /\ Len(logged) \in Nat
      /\ DOMAIN logged' = DOMAIN logged \cup {msg}
      /\ \A m \in DOMAIN logged : logged'[m] = logged[m]
      /\ logged'[msg] = kind
      /\ Numbers' = 1..msg /\ Numbers \subseteq Numbers' /\ DOMAIN logged = 1..Len(logged)
  BY <1>1, OneMore
<1>3. \A k \in Kinds : OfKind(k)' = OfKind(k) \cup (IF k = kind THEN {msg} ELSE {})
  BY <1>2 DEF OfKind
<1>4. CASE logBlocking
  <2>1. logState = "ERROR" /\ printed = <<>> /\ ~initialConnection
        /\ HoldsAll(heldErrors, "error") /\ HoldsAll(heldInfos, "info")
    BY <1>4 DEF MessageInv
  <2>2. /\ heldErrors' = IF kind = "error" THEN Append(heldErrors, msg) ELSE heldErrors
        /\ heldInfos' = IF kind = "info" THEN Append(heldInfos, msg) ELSE heldInfos
        /\ printed' = printed
    BY <1>4, <2>1 DEF Log
  <2>3. ASSUME NEW k \in Kinds, NEW s, HoldsAll(s, k), NEW t,
               t = IF kind = k THEN Append(s, msg) ELSE s
        PROVE  t \in Seq(Numbers') /\ Increasing(t) /\ ToSet(t) = OfKind(k)'
    <3>1. s \in Seq(1..Len(logged)) /\ Increasing(s) /\ ToSet(s) = OfKind(k)
      BY <2>3 DEF HoldsAll, Numbers
    <3>2. CASE kind = k
      <4>1. t = Append(s, Len(logged) + 1)  BY <2>3, <3>2
      <4>2. /\ t \in Seq(1..(Len(logged) + 1)) /\ Increasing(t)
            /\ ToSet(t) = ToSet(s) \cup {Len(logged) + 1}
        BY <1>2, <3>1, <4>1, AppendNext
      <4>. QED  BY <1>2, <1>3, <3>1, <3>2, <4>2
    <3>3. CASE kind # k
      <4>1. t = s  BY <2>3, <3>3
      <4>2. t \in Seq(Numbers')  BY <1>2, <3>1, <4>1, SeqMonotonic DEF Numbers
      <4>. QED  BY <1>3, <3>1, <3>3, <4>1, <4>2
    <3>. QED  BY <3>2, <3>3
  <2>4. HoldsAll(heldErrors, "error")'
    <3>1. heldErrors' = IF kind = "error" THEN Append(heldErrors, msg) ELSE heldErrors  BY <2>2
    <3>2. heldErrors' \in Seq(Numbers') /\ Increasing(heldErrors') /\ ToSet(heldErrors') = OfKind("error")'
      BY <2>1, <2>3, <3>1 DEF Kinds
    <3>. QED  BY <3>2 DEF HoldsAll, Increasing, ToSet
  <2>5. HoldsAll(heldInfos, "info")'
    <3>1. heldInfos' = IF kind = "info" THEN Append(heldInfos, msg) ELSE heldInfos  BY <2>2
    <3>2. heldInfos' \in Seq(Numbers') /\ Increasing(heldInfos') /\ ToSet(heldInfos') = OfKind("info")'
      BY <2>1, <2>3, <3>1 DEF Kinds
    <3>. QED  BY <3>2 DEF HoldsAll, Increasing, ToSet
  <2>6. printed' = <<>> /\ printed' \in Seq(Numbers') /\ Increasing(printed')
    BY <2>1, <2>2, EmptySeq DEF Increasing
  <2>7. Increasing(printed)'  BY <2>6 DEF Increasing
  <2>. QED  BY <1>1, <1>2, <1>4, <2>1, <2>4, <2>5, <2>6, <2>7 DEF MessageInv
<1>5. CASE ~logBlocking
  <2>1. printed' = IF Shown(kind) THEN printed \o <<msg>> ELSE printed
    BY <1>5 DEF Log, Write
  <2>2. printed \in Seq(1..Len(logged)) /\ Increasing(printed)  BY DEF MessageInv, Numbers
  <2>3. /\ printed' \in Seq(Numbers') /\ Increasing(printed')
        /\ ToSet(printed') = ToSet(printed) \cup (IF Shown(kind) THEN {msg} ELSE {})
    <3>1. CASE Shown(kind)
      <4>1. printed' = Append(printed, Len(logged) + 1)
        BY <1>2, <2>1, <2>2, <3>1, AppendNext
      <4>. QED  BY <1>2, <2>2, <3>1, <4>1, AppendNext
    <3>2. CASE ~Shown(kind)
      <4>1. printed' = printed  BY <2>1, <3>2
      <4>2. printed' \in Seq(Numbers')  BY <1>2, <2>2, <4>1, SeqMonotonic DEF Numbers
      <4>. QED  BY <2>2, <3>2, <4>1, <4>2
    <3>. QED  BY <3>1, <3>2
  <2>4. \A k \in Kinds : Shown(k)' <=> Shown(k)  BY <1>1 DEF Shown
  <2>5. ASSUME NEW k \in Kinds, Unseen(k) = {} PROVE Unseen(k)' = {}
    <3>1. Unseen(k)' = {m \in DOMAIN logged' : logged'[m] = k /\ Shown(k)} \ ToSet(printed')
      BY <2>4 DEF Unseen, ToSet
    <3>2. ASSUME NEW m \in DOMAIN logged', logged'[m] = k, Shown(k) PROVE m \in ToSet(printed')
      <4>1. CASE m \in DOMAIN logged
        <5>1. logged[m] = k  BY <1>2, <3>2, <4>1
        <5>. QED  BY <2>3, <2>5, <3>2, <4>1, <5>1 DEF Unseen
      <4>2. CASE m = msg
        BY <1>2, <2>3, <3>2, <4>2
      <4>. QED  BY <1>2, <4>1, <4>2
    <3>. QED  BY <3>1, <3>2
  <2>6. IF initialConnection THEN Unseen("info")' = {} ELSE Unseen("error")' = {}
    BY <1>5, <2>5 DEF MessageInv, Kinds
  <2>7. Increasing(printed)'  BY <2>3 DEF Increasing
  <2>. QED  BY <1>1, <1>2, <1>5, <2>3, <2>6, <2>7 DEF MessageInv
<1>. QED  BY <1>4, <1>5 DEF MessageInv

\* The end of holding back: one kind is let out, in full and in its order.
LEMMA LetOut ==
    ASSUME MessageInv, logBlocking, NEW kind \in Kinds, NEW held, HoldsAll(held, kind),
           Write(kind, held), UNCHANGED <<logged, loglevel>>
    PROVE  /\ printed' \in Seq(Numbers') /\ Increasing(printed)' /\ Unseen(kind)' = {}
<1>1. printed = <<>> /\ held \in Seq(Numbers) /\ Increasing(held) /\ ToSet(held) = OfKind(kind)
  BY DEF MessageInv, HoldsAll
<1>2. printed' = IF Shown(kind) THEN held ELSE <<>>
  BY <1>1, ConcatEmptySeq DEF Write
<1>3. Numbers' = Numbers  BY DEF Numbers
<1>4. printed' \in Seq(Numbers') /\ Increasing(printed')
  BY <1>1, <1>2, <1>3, NothingHeld
<1>5. Shown(kind)' <=> Shown(kind)  BY DEF Shown
<1>6. Unseen(kind)' = {m \in DOMAIN logged : logged[m] = kind /\ Shown(kind)} \ ToSet(printed')
  BY <1>5 DEF Unseen, ToSet
<1>7. Unseen(kind)' = {}  BY <1>1, <1>2, <1>6 DEF OfKind
<1>8. Increasing(printed)'  BY <1>4 DEF Increasing
<1>. QED  BY <1>4, <1>7, <1>8

LEMMA ReleaseKeeps ==
    ASSUME MessageInv, logBlocking, logBlocking' = FALSE, logged' = logged, loglevel' = loglevel,
           emptyErrors \/ emptyLogs
    PROVE  MessageInv'
<1>1. /\ logged \in Seq(Kinds) /\ loglevel \in LogLevels /\ ~initialConnection
      /\ HoldsAll(heldErrors, "error") /\ HoldsAll(heldInfos, "info")
      /\ initialConnection \in BOOLEAN
  BY DEF MessageInv
<1>2. CASE emptyErrors
  <2>1. printed' \in Seq(Numbers') /\ Increasing(printed)' /\ Unseen("error")' = {}
    BY <1>1, <1>2, LetOut DEF emptyErrors, Kinds
  <2>2. initialConnection' = initialConnection  BY <1>2 DEF emptyErrors
  <2>. QED  BY <1>1, <2>1, <2>2, Zenon DEF MessageInv
<1>3. CASE emptyLogs
  <2>1. printed' \in Seq(Numbers') /\ Increasing(printed)' /\ Unseen("info")' = {}
    BY <1>1, <1>3, LetOut DEF emptyLogs, Kinds
  <2>2. initialConnection' = TRUE  BY <1>3 DEF emptyLogs
  <2>. QED  BY <1>1, <2>1, <2>2, Zenon DEF MessageInv
<1>. QED  BY <1>2, <1>3

\* Steps that print nothing.
LEMMA QuietKeeps ==
    ASSUME MessageInv, UnchangedLog, UNCHANGED <<loglevel, logged, logBlocking>>,
           logBlocking => logState' = "ERROR"
    PROVE  MessageInv'
<1>1. UNCHANGED <<loglevel, logged, logBlocking, initialConnection, heldErrors, heldInfos, printed>>
  BY DEF UnchangedLog
<1>2. Numbers' = Numbers /\ OfKind("error")' = OfKind("error") /\ OfKind("info")' = OfKind("info")
  BY <1>1 DEF Numbers, OfKind
<1>3. /\ HoldsAll(heldErrors, "error") => HoldsAll(heldErrors, "error")'
      /\ HoldsAll(heldInfos, "info") => HoldsAll(heldInfos, "info")'
  BY <1>1, <1>2 DEF HoldsAll, Increasing, ToSet
<1>4. Increasing(printed)' <=> Increasing(printed)  BY <1>1 DEF Increasing
<1>5. Unseen("error")' = Unseen("error") /\ Unseen("info")' = Unseen("info")
  BY <1>1 DEF Unseen, Shown, ToSet
<1>. QED  BY <1>1, <1>2, <1>3, <1>4, <1>5 DEF MessageInv

LEMMA MessageStep == MessageInv /\ [LogNext]_logStatusVars => MessageInv'
<1>. SUFFICES ASSUME MessageInv, [LogNext]_logStatusVars PROVE MessageInv'  OBVIOUS
<1>1. CASE BringsReady /\ ready
  <2>1. CASE logBlocking
    BY <1>1, <2>1, ReleaseKeeps DEF ready
  <2>2. CASE ~logBlocking
    <3>1. ~logBlocking' /\ UnchangedLog /\ UNCHANGED <<loglevel, logged>>  BY <1>1, <2>2 DEF ready
    <3>2. logBlocking' = logBlocking
      BY <1>1, <2>2 DEF ready, MessageInv
    <3>. QED  BY <2>2, <3>1, <3>2, QuietKeeps
  <2>. QED  BY <2>1, <2>2
<1>2. CASE BringsError /\ connectionError
  BY <1>2, QuietKeeps DEF connectionError
<1>3. CASE BringsNothing /\ UNCHANGED logVars
  BY <1>3, QuietKeeps DEF logVars, UnchangedLog, MessageInv
<1>4. ASSUME NEW kind \in {"error", "info"}, Log(kind) PROVE MessageInv'
  BY <1>4, LogKeeps DEF Kinds
<1>5. CASE LogWindowEnds
  <2>1. CASE logBlocking
    BY <1>5, <2>1, ReleaseKeeps DEF LogWindowEnds
  <2>2. CASE ~logBlocking
    <3>1. UnchangedLog /\ UNCHANGED <<loglevel, logged>> /\ logBlocking' = FALSE
      BY <1>5, <2>2 DEF LogWindowEnds
    <3>2. logBlocking' = logBlocking  BY <2>2, <3>1 DEF MessageInv
    <3>. QED  BY <2>2, <3>1, <3>2, QuietKeeps
  <2>. QED  BY <2>1, <2>2
<1>6. CASE LogTick \/ (Close /\ LogClose)
  BY <1>6, QuietKeeps DEF LogTick, LogClose, MessageInv
<1>7. CASE UNCHANGED logStatusVars
  BY <1>7, QuietKeeps DEF logStatusVars, logVars, UnchangedLog, MessageInv
<1>. QED  BY <1>1, <1>2, <1>3, <1>4, <1>5, <1>6, <1>7 DEF LogNext

\* No message is printed twice or, among its kind, out of order, and after the
\* window none is lost but those it suppresses (StatefulLogInterceptor).
THEOREM HeldMessagesSurface == LogSpec => []MessagesSurface
<1>1. MessageInv => MessagesSurface
  BY DEF MessageInv, MessagesSurface, Increasing
<1>. QED  BY <1>1, MessageInit, MessageStep, PTL DEF LogSpec

-----------------------------------------------------------------------------
(* Type correctness. *)

NumberSeq == Seq(1..Len(logged))
TypeInv ==
    /\ loglevel \in LogLevels /\ logBlocking \in BOOLEAN /\ initialConnection \in BOOLEAN
    /\ logTimer \in {Off} \cup 0..Window /\ logState \in {"ERROR", "CONNECTED"}
    /\ logged \in Seq(Kinds) /\ Len(logged) <= MaxMessages
    /\ heldErrors \in NumberSeq /\ heldInfos \in NumberSeq /\ printed \in NumberSeq

LEMMA TypeInitially == LogInit => TypeInv
<1>. SUFFICES ASSUME LogInit PROVE TypeInv  OBVIOUS
<1>1. MessageInv  BY MessageInit
<1>2. heldErrors = <<>> /\ heldInfos = <<>> /\ logged = <<>> /\ printed = <<>>
  BY DEF LogInit
<1>3. /\ heldErrors \in NumberSeq /\ heldInfos \in NumberSeq /\ printed \in NumberSeq
  BY <1>2, EmptySeq DEF NumberSeq
<1>4. Len(logged) <= MaxMessages  BY <1>2, LogAssumption
<1>5. logTimer \in {Off} \cup 0..Window
  <2>1. logTimer = Window \/ logTimer = Off  BY DEF LogInit
  <2>. QED  BY <2>1, ConnectionAssumption
<1>6. logState = "ERROR"  BY DEF LogInit
<1>. QED  BY <1>1, <1>3, <1>4, <1>5, <1>6, Zenon DEF MessageInv, TypeInv

\* A logger that writes more of what was logged.
LEMMA WriteType ==
    ASSUME TypeInv, NEW kind \in Kinds, NEW msgs \in NumberSeq, Write(kind, msgs)
    PROVE  printed' \in NumberSeq
<1>1. CASE Shown(kind)
  BY <1>1, ConcatProperties DEF TypeInv, Write, NumberSeq
<1>2. CASE ~Shown(kind)  BY <1>2 DEF TypeInv, Write
<1>. QED  BY <1>1, <1>2

\* Steps that log nothing new.
LEMMA TypeOfRest ==
    ASSUME TypeInv, UNCHANGED <<loglevel, logged>>, logBlocking' \in BOOLEAN,
           logTimer' \in {Off} \cup 0..Window, logState' \in {"ERROR", "CONNECTED"},
           UnchangedLog \/ emptyErrors \/ emptyLogs
    PROVE  TypeInv'
<1>1. NumberSeq' = NumberSeq  BY DEF NumberSeq
<1>2. <<>> \in NumberSeq  BY EmptySeq DEF NumberSeq
<1>3. CASE UnchangedLog  BY <1>1, <1>3 DEF UnchangedLog, TypeInv
<1>4. CASE emptyErrors
  <2>1. printed' \in NumberSeq  BY <1>4, WriteType DEF emptyErrors, TypeInv, Kinds
  <2>. QED  BY <1>1, <1>2, <1>4, <2>1 DEF emptyErrors, TypeInv
<1>5. CASE emptyLogs
  <2>1. printed' \in NumberSeq  BY <1>5, WriteType DEF emptyLogs, TypeInv, Kinds
  <2>. QED  BY <1>1, <1>2, <1>5, <2>1 DEF emptyLogs, TypeInv
<1>. QED  BY <1>3, <1>4, <1>5

LEMMA TypeOfLog ==
    ASSUME TypeInv, NEW kind \in Kinds, Log(kind)
    PROVE  TypeInv'
<1>. DEFINE msg == Len(logged) + 1
<1>1. /\ logged' = Append(logged, kind) /\ msg <= MaxMessages
      /\ UNCHANGED <<loglevel, logBlocking, logTimer, logState, initialConnection>>
  BY DEF Log
<1>2. logged \in Seq(Kinds)  BY DEF TypeInv
<1>3. logged' \in Seq(Kinds) /\ Len(logged') = msg /\ Len(logged) \in Nat
  BY <1>1, <1>2, AppendProperties, LenProperties
<1>4. 1..Len(logged) \subseteq 1..Len(logged') /\ msg \in 1..Len(logged')  BY <1>3
<1>5. \A s \in NumberSeq : s \in NumberSeq'
  BY <1>4, SeqMonotonic DEF NumberSeq
<1>6. \A s \in NumberSeq : Append(s, msg) \in NumberSeq' /\ s \o <<msg>> = Append(s, msg)
  BY <1>4, <1>5, AppendProperties, AppendIsConcat DEF NumberSeq
<1>7. heldErrors' \in NumberSeq' /\ heldInfos' \in NumberSeq'
  BY <1>5, <1>6 DEF Log, TypeInv
<1>8. printed' \in NumberSeq'
  <2>1. printed' = printed \/ printed' = printed \o <<msg>>  BY DEF Log, Write
  <2>. QED  BY <1>5, <1>6, <2>1 DEF TypeInv
<1>. QED  BY <1>1, <1>3, <1>7, <1>8 DEF TypeInv

LEMMA TypeStep == TypeInv /\ [LogNext]_logStatusVars => TypeInv'
<1>. SUFFICES ASSUME TypeInv, [LogNext]_logStatusVars PROVE TypeInv'  OBVIOUS
<1>1. CASE BringsReady /\ ready
  BY <1>1, TypeOfRest DEF ready, TypeInv
<1>2. CASE BringsError /\ connectionError
  BY <1>2, TypeOfRest DEF connectionError, TypeInv
<1>3. CASE (BringsNothing /\ UNCHANGED logVars) \/ UNCHANGED logStatusVars
  BY <1>3, TypeOfRest DEF logVars, logStatusVars, UnchangedLog, TypeInv
<1>4. ASSUME NEW kind \in {"error", "info"}, Log(kind) PROVE TypeInv'
  BY <1>4, TypeOfLog DEF Kinds
<1>5. CASE LogWindowEnds
  BY <1>5, TypeOfRest DEF LogWindowEnds, TypeInv
<1>6. CASE LogTick
  <2>1. logTimer' \in {Off} \cup 0..Window
    BY <1>6, ConnectionAssumption DEF LogTick, Elapse, TypeInv, Off
  <2>. QED  BY <1>6, <2>1, TypeOfRest DEF LogTick, TypeInv
<1>7. CASE Close /\ LogClose
  BY <1>7, TypeOfRest DEF LogClose, TypeInv
<1>. QED  BY <1>1, <1>2, <1>3, <1>4, <1>5, <1>6, <1>7 DEF LogNext

\* Every variable of the log keeps its type: held messages and printed ones
\* are numbers of messages that were logged.
THEOREM LogTypeCorrect == LogSpec => []LogTypeOK
<1>1. TypeInv => LogTypeOK  BY DEF TypeInv, LogTypeOK, NumberSeq, Kinds
<1>. QED  BY <1>1, TypeInitially, TypeStep, PTL DEF LogSpec
=============================================================================
