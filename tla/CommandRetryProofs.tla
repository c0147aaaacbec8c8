------------------------- MODULE CommandRetryProofs -------------------------
(***************************************************************************)
(* Theorems about CommandRetry for any commands, options and Cap: what the *)
(* retries of one command may do to the gateway.                           *)
(***************************************************************************)
EXTENDS CommandRetry, TLAPS

-----------------------------------------------------------------------------
(* Type correctness. *)

LEMMA SetType ==
    ASSUME RetryTypeOK, NEW c \in Commands, NEW st \in Status, Set(c, st)
    PROVE  status' \in [Commands -> Status]
  BY DEF Set, RetryTypeOK

LEMMA CountType ==
    ASSUME NEW f \in [Commands -> 0..Cap], NEW c \in Commands
    PROVE  /\ Count(f, c) \in [Commands -> 0..Cap]
           /\ \A d \in Commands : d # c => Count(f, c)[d] = f[d]
           /\ Count(f, c)[c] = IF f[c] < Cap THEN f[c] + 1 ELSE f[c]
<1>1. Cap \in Nat  BY RetryAssumption
<1>2. \A n \in 0..Cap : (IF n < Cap THEN n + 1 ELSE n) \in 0..Cap  BY <1>1
<1>3. f[c] \in 0..Cap  OBVIOUS
<1>4. Count(f, c) = [f EXCEPT ![c] = IF f[c] < Cap THEN f[c] + 1 ELSE f[c]]
  BY DEF Count
<1>5. (IF f[c] < Cap THEN f[c] + 1 ELSE f[c]) \in 0..Cap  BY <1>2, <1>3
<1>. QED  BY <1>4, <1>5

LEMMA RetryTypeInit == RetryInit => RetryTypeOK
<1>. SUFFICES ASSUME RetryInit PROVE RetryTypeOK
  OBVIOUS
<1>1. 0 \in 0..Cap  BY RetryAssumption
<1>2. retry \in BOOLEAN /\ maxRetries \in {-1} \cup (Nat \ {0})
  BY RetryAssumption DEF RetryInit
<1>3. status \in [Commands -> Status]  BY DEF RetryInit, Status
<1>4. /\ attempts \in [Commands -> 0..Cap] /\ effects \in [Commands -> 0..Cap]
      /\ lost \in [Commands -> 0..Cap]
  BY <1>1 DEF RetryInit
<1>. QED  BY <1>2, <1>3, <1>4 DEF RetryInit, RetryTypeOK

LEMMA AttemptType ==
    ASSUME RetryTypeOK, NEW c \in Commands, Attempt(c)
    PROVE  status' \in [Commands -> Status] /\ attempts' \in [Commands -> 0..Cap]
<1>1. \E st \in Status : Set(c, st)  BY DEF Attempt, Status, Settled
<1>2. attempts' \in [Commands -> 0..Cap]
  BY CountType DEF Attempt, RetryTypeOK
<1>. QED  BY <1>1, <1>2, SetType

LEMMA ReplyType ==
    ASSUME RetryTypeOK, NEW c \in Commands, Reply(c)
    PROVE  RetryTypeOK'
<1>1. \E st \in Status : Set(c, st)
  BY DEF Reply, Accepted, Refused, Backpressure, NetworkError, Dropped, Again, Status
<1>2. status' \in [Commands -> Status]  BY <1>1, SetType
<1>3. effects' \in [Commands -> 0..Cap]
  BY CountType DEF Reply, Accepted, Refused, Backpressure, NetworkError, Dropped,
     RetryTypeOK, counters
<1>4. lost' \in [Commands -> 0..Cap]
  BY CountType DEF Reply, Accepted, Refused, Backpressure, NetworkError, Dropped,
     RetryTypeOK, counters
<1>5. UNCHANGED <<attempts, clientVars>>
  BY DEF Reply, Accepted, Refused, Backpressure, NetworkError, Dropped, counters
<1>. QED  BY <1>2, <1>3, <1>4, <1>5 DEF RetryTypeOK, clientVars, options

LEMMA RetryTypeStep == RetryTypeOK /\ [RetryNext]_retryVars => RetryTypeOK'
<1>. SUFFICES ASSUME RetryTypeOK, [RetryNext]_retryVars PROVE RetryTypeOK'
  OBVIOUS
<1>1. ASSUME NEW c \in Commands, Issue(c) \/ RetryFires(c) PROVE RetryTypeOK'
  BY <1>1, AttemptType DEF Issue, RetryFires, RetryTypeOK, clientVars, options
<1>2. ASSUME NEW c \in Commands, Reply(c) PROVE RetryTypeOK'
  BY <1>2, ReplyType
<1>3. CASE StartClosing \/ CloseChannel
  BY <1>3 DEF StartClosing, CloseChannel, RetryTypeOK, counters, options
<1>4. CASE UNCHANGED retryVars
  BY <1>4 DEF retryVars, RetryTypeOK, counters, clientVars, options
<1>5. ASSUME NEW c \in Commands, ArgumentRefused(c) PROVE RetryTypeOK'
  <2>1. status' \in [Commands -> Status]
    BY <1>5, SetType DEF ArgumentRefused, Status
  <2>. QED
    BY <1>5, <2>1 DEF ArgumentRefused, RetryTypeOK, counters, clientVars, options
<1>. QED  BY <1>1, <1>2, <1>3, <1>4, <1>5 DEF RetryNext

\* Every variable keeps its type; the counters stop at Cap.
THEOREM RetryTypeCorrect == RetrySpec => []RetryTypeOK
<1>. QED  BY RetryTypeInit, RetryTypeStep, PTL DEF RetrySpec

\* Steps of one command leave the state of the others alone.
LEMMA OneCommand ==
    ASSUME RetryTypeOK, NEW c \in Commands,
           Issue(c) \/ ArgumentRefused(c) \/ RetryFires(c) \/ Reply(c)
    PROVE  \A d \in Commands : d # c => status'[d] = status[d]
  BY DEF Issue, ArgumentRefused, RetryFires, Attempt, Reply, Accepted, Refused,
     NetworkError, Backpressure, Dropped, Again, Set, RetryTypeOK

-----------------------------------------------------------------------------
(* Duplicates. *)

\* Until a command settles, each of its effects is one whose answer was lost;
\* only the answer that settles it may add one more.
EffectsInv ==
    /\ RetryTypeOK
    /\ \A c \in Commands :
          /\ effects[c] <= lost[c] + 1
          /\ status[c] \in Unsettled \cup {"idle"} => effects[c] <= lost[c]

LEMMA EffectsInit == RetryInit => EffectsInv
  BY RetryTypeInit DEF RetryInit, EffectsInv

LEMMA EffectsReply ==
    ASSUME EffectsInv, NEW c \in Commands, Reply(c)
    PROVE  EffectsInv'
<1>. USE DEF Unsettled
<1>0. RetryTypeOK'  BY ReplyType DEF EffectsInv
<1>1. /\ effects \in [Commands -> 0..Cap] /\ lost \in [Commands -> 0..Cap]
      /\ status \in [Commands -> Status]
  BY DEF EffectsInv, RetryTypeOK
<1>2. status[c] = "inflight" /\ effects[c] <= lost[c]
  BY DEF Reply, Accepted, Refused, Backpressure, NetworkError, Dropped, EffectsInv
<1>3. CASE Accepted(c) \/ \E executed \in BOOLEAN : Dropped(c, executed)
  <2>1. status'[c] \in {"resolved", "dropped"} /\ lost' = lost
    BY <1>1, <1>3 DEF Accepted, Dropped, Set
  <2>2. /\ \A d \in Commands : d # c => effects'[d] = effects[d] /\ status'[d] = status[d]
        /\ effects'[c] <= effects[c] + 1
    BY <1>1, <1>3, CountType DEF Accepted, Dropped, Set
  <2>. QED  BY <1>0, <1>1, <1>2, <2>1, <2>2 DEF EffectsInv, RetryTypeOK
<1>4. ASSUME NEW executed \in BOOLEAN, NetworkError(c, executed) PROVE EffectsInv'
  <2>1. /\ \A d \in Commands : d # c => /\ effects'[d] = effects[d] /\ lost'[d] = lost[d]
                                        /\ status'[d] = status[d]
        /\ effects'[c] <= effects[c] + 1
        /\ lost'[c] = IF lost[c] < Cap THEN lost[c] + 1 ELSE lost[c]
    BY <1>1, <1>4, CountType DEF NetworkError, Again, Set
  <2>2. effects'[c] <= lost'[c]
    BY <1>0, <1>1, <1>2, <2>1, RetryAssumption DEF RetryTypeOK
  <2>. QED  BY <1>0, <1>1, <2>1, <2>2 DEF EffectsInv, RetryTypeOK
<1>5. CASE Refused(c) \/ Backpressure(c)
  <2>1. effects' = effects /\ lost' = lost
        /\ \A d \in Commands : d # c => status'[d] = status[d]
    BY <1>1, <1>5 DEF Refused, Backpressure, Again, Set, counters
  <2>. QED  BY <1>0, <1>1, <1>2, <2>1 DEF EffectsInv
<1>. QED  BY <1>3, <1>4, <1>5 DEF Reply

LEMMA EffectsStep == EffectsInv /\ [RetryNext]_retryVars => EffectsInv'
<1>. SUFFICES ASSUME EffectsInv, [RetryNext]_retryVars PROVE EffectsInv'
  OBVIOUS
<1>0. RetryTypeOK'  BY RetryTypeStep DEF EffectsInv
<1>1. ASSUME NEW c \in Commands, Issue(c) \/ RetryFires(c) PROVE EffectsInv'
  <2>1. effects' = effects /\ lost' = lost  BY <1>1 DEF Issue, RetryFires
  <2>2. status[c] \in Unsettled \cup {"idle"}
    BY <1>1 DEF Issue, RetryFires, Unsettled
  <2>3. \A d \in Commands : d # c => status'[d] = status[d]
    BY <1>1 DEF Issue, RetryFires, Attempt, Set, EffectsInv, RetryTypeOK
  <2>. QED  BY <1>0, <2>1, <2>2, <2>3 DEF EffectsInv
<1>2. ASSUME NEW c \in Commands, Reply(c) PROVE EffectsInv'
  BY <1>2, EffectsReply
<1>3. CASE StartClosing \/ CloseChannel \/ UNCHANGED retryVars
  BY <1>0, <1>3 DEF StartClosing, CloseChannel, EffectsInv, retryVars, counters
<1>4. ASSUME NEW c \in Commands, ArgumentRefused(c) PROVE EffectsInv'
  <2>1. /\ status[c] = "idle" /\ effects' = effects /\ lost' = lost
        /\ \A d \in Commands : d # c => status'[d] = status[d]
    BY <1>4 DEF ArgumentRefused, Set, counters, EffectsInv, RetryTypeOK
  <2>. QED  BY <1>0, <2>1 DEF EffectsInv
<1>. QED  BY <1>1, <1>2, <1>3, <1>4 DEF RetryNext

\* However often a command is retried, the gateway executed it at most once
\* more than answers were lost.
THEOREM DuplicatesExplained == RetrySpec => []EffectsExplained
<1>1. EffectsInv => EffectsExplained  BY DEF EffectsInv, EffectsExplained
<1>. QED  BY <1>1, EffectsInit, EffectsStep, PTL DEF RetrySpec

-----------------------------------------------------------------------------
(* The number of calls. *)

\* A command that waits for a retry still has one left, and none waits when
\* retries are off.
AttemptsInv ==
    /\ RetryTypeOK
    /\ AttemptsBounded
    /\ \A c \in Commands :
          /\ status[c] = "idle" => attempts[c] = 0
          /\ status[c] = "waiting" => retry /\ AttemptsLeft(c)

LEMMA AttemptsInit == RetryInit => AttemptsInv
<1>. SUFFICES ASSUME RetryInit PROVE AttemptsInv
  OBVIOUS
<1>1. RetryTypeOK  BY RetryTypeInit
<1>2. \A c \in Commands : status[c] = "idle" /\ attempts[c] = 0  BY DEF RetryInit
<1>. QED  BY <1>1, <1>2 DEF AttemptsInv, AttemptsBounded, RetryTypeOK

LEMMA AttemptsStep == AttemptsInv /\ [RetryNext]_retryVars => AttemptsInv'
<1>. SUFFICES ASSUME AttemptsInv, [RetryNext]_retryVars PROVE AttemptsInv'
  OBVIOUS
<1>0. RetryTypeOK /\ RetryTypeOK'  BY RetryTypeStep DEF AttemptsInv
<1>1. ASSUME NEW c \in Commands, Issue(c) \/ RetryFires(c) PROVE AttemptsInv'
  <2>1. /\ \A d \in Commands : d # c => attempts'[d] = attempts[d] /\ status'[d] = status[d]
        /\ attempts'[c] <= attempts[c] + 1
        /\ status'[c] \notin {"idle", "waiting"}
        /\ UNCHANGED options
    BY <1>0, <1>1, CountType
    DEF Issue, RetryFires, Attempt, Set, Settled, RetryTypeOK, clientVars
  <2>2. /\ ~retry => attempts[c] = 0
        /\ maxRetries # -1 => attempts[c] <= maxRetries
    BY <1>0, <1>1 DEF Issue, RetryFires, AttemptsInv, AttemptsLeft, RetryTypeOK
  <2>. QED
    BY <1>0, <2>1, <2>2
    DEF AttemptsInv, AttemptsBounded, AttemptsLeft, RetryTypeOK, options
<1>2. ASSUME NEW c \in Commands, Reply(c) PROVE AttemptsInv'
  <2>1. UNCHANGED <<attempts, options>>
    BY <1>2 DEF Reply, Accepted, Refused, Backpressure, NetworkError, Dropped,
       counters, clientVars
  <2>2. /\ \A d \in Commands : d # c => status'[d] = status[d]
        /\ status'[c] # "idle"
        /\ status'[c] = "waiting" => retry /\ AttemptsLeft(c)
    BY <1>0, <1>2 DEF Reply, Accepted, Refused, Backpressure, NetworkError, Dropped,
       Again, Set, RetryTypeOK
  <2>. QED
    BY <1>0, <2>1, <2>2 DEF AttemptsInv, AttemptsBounded, AttemptsLeft, options
<1>3. CASE StartClosing \/ CloseChannel \/ UNCHANGED retryVars
  BY <1>0, <1>3 DEF StartClosing, CloseChannel, AttemptsInv, AttemptsBounded,
     AttemptsLeft, retryVars, counters, clientVars, options
<1>4. ASSUME NEW c \in Commands, ArgumentRefused(c) PROVE AttemptsInv'
  <2>1. /\ UNCHANGED <<attempts, options>> /\ status'[c] = "rejected"
        /\ \A d \in Commands : d # c => status'[d] = status[d]
    BY <1>0, <1>4 DEF ArgumentRefused, Set, counters, clientVars, RetryTypeOK
  <2>. QED
    BY <1>0, <2>1 DEF AttemptsInv, AttemptsBounded, AttemptsLeft, options
<1>. QED  BY <1>1, <1>2, <1>3, <1>4 DEF RetryNext

\* A finite maxRetries bounds the calls made for a command, whatever the
\* gateway answers and whenever the client closes.
THEOREM CallsBounded == RetrySpec => []AttemptsBounded
<1>1. AttemptsInv => AttemptsBounded  BY DEF AttemptsInv
<1>. QED  BY <1>1, AttemptsInit, AttemptsStep, PTL DEF RetrySpec

-----------------------------------------------------------------------------
(* What a resolved promise means. *)

\* Only a closing client closes its channel, which is what resolves a promise
\* without an effect.
ResolvedInv ==
    /\ RetryTypeOK /\ Cap > 0
    /\ channelClosed => closing
    /\ ResolvedMeansExecuted

LEMMA ResolvedInit == RetryInit => ResolvedInv
<1>. SUFFICES ASSUME RetryInit PROVE ResolvedInv
  OBVIOUS
<1>1. RetryTypeOK  BY RetryTypeInit
<1>2. Cap > 0
  <2>1. PICK n \in MaxRetriesOptions : TRUE  BY DEF RetryInit
  <2>. QED  BY <2>1, RetryAssumption
<1>3. \A c \in Commands : status[c] # "resolved"  BY DEF RetryInit
<1>. QED  BY <1>1, <1>2, <1>3 DEF ResolvedInv, ResolvedMeansExecuted, RetryInit

LEMMA ResolvedStep == ResolvedInv /\ [RetryNext]_retryVars => ResolvedInv'
<1>. SUFFICES ASSUME ResolvedInv, [RetryNext]_retryVars PROVE ResolvedInv'
  OBVIOUS
<1>0. RetryTypeOK /\ RetryTypeOK'  BY RetryTypeStep DEF ResolvedInv
<1>1. ASSUME NEW c \in Commands, Issue(c) \/ RetryFires(c) \/ Reply(c)
      PROVE  ResolvedInv'
  <2>1. UNCHANGED <<closing, channelClosed>>
    BY <1>1 DEF Issue, RetryFires, Reply, Accepted, Refused, NetworkError,
       Backpressure, Dropped, clientVars
  <2>2. \A d \in Commands : d # c => status'[d] = status[d] /\ effects'[d] = effects[d]
    BY <1>0, <1>1, CountType
    DEF Issue, RetryFires, Attempt, Reply, Accepted, Refused, NetworkError,
        Backpressure, Dropped, Again, Set, counters, RetryTypeOK
  <2>3. ~closing /\ status'[c] = "resolved" => effects'[c] > 0
    <3>. SUFFICES ASSUME ~closing, status'[c] = "resolved" PROVE effects'[c] > 0
      OBVIOUS
    <3>1. ~channelClosed  BY DEF ResolvedInv
    <3>2. Accepted(c)
      BY <1>0, <1>1, <3>1
      DEF Issue, RetryFires, Attempt, Reply, Refused, NetworkError, Backpressure,
          Dropped, Again, Set, RetryTypeOK
    <3>3. effects'[c] = IF effects[c] < Cap THEN effects[c] + 1 ELSE effects[c]
      BY <1>0, <3>2, CountType DEF Accepted, RetryTypeOK
    <3>. QED
      BY <1>0, <3>3, RetryAssumption DEF RetryTypeOK, ResolvedInv
  <2>. QED
    BY <1>0, <2>1, <2>2, <2>3 DEF ResolvedInv, ResolvedMeansExecuted
<1>2. CASE StartClosing \/ CloseChannel \/ UNCHANGED retryVars
  BY <1>0, <1>2 DEF StartClosing, CloseChannel, ResolvedInv, ResolvedMeansExecuted,
     retryVars, counters, clientVars
<1>3. ASSUME NEW c \in Commands, ArgumentRefused(c) PROVE ResolvedInv'
  <2>1. /\ UNCHANGED <<effects, closing, channelClosed>> /\ status'[c] = "rejected"
        /\ \A d \in Commands : d # c => status'[d] = status[d]
    BY <1>0, <1>3 DEF ArgumentRefused, Set, counters, clientVars, RetryTypeOK
  <2>. QED  BY <1>0, <2>1 DEF ResolvedInv, ResolvedMeansExecuted
<1>. QED  BY <1>1, <1>2, <1>3 DEF RetryNext

\* As long as the client is open, a promise that resolved stands for a command
\* the gateway executed: retries report no success of their own.
THEOREM ResolvedIsExecuted == RetrySpec => []ResolvedMeansExecuted
<1>1. ResolvedInv => ResolvedMeansExecuted  BY DEF ResolvedInv
<1>. QED  BY <1>1, ResolvedInit, ResolvedStep, PTL DEF RetrySpec
=============================================================================
