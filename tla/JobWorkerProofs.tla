--------------------------- MODULE JobWorkerProofs ---------------------------
(***************************************************************************)
(* Theorems about JobWorker for any number of jobs and streams and any     *)
(* maxJobsToActivate.  Every step of a handler or of a command moves one   *)
(* job, quietly or with a drain (TaskStepForm); from that follow the       *)
(* bounds of the counter, with nothing assumed; LeakFree where nothing     *)
(* leaks; AccountInv for disciplined handlers; WireInv on a clean wire.    *)
(***************************************************************************)
EXTENDS JobWorker, FiniteSetTheorems, TLAPS

-----------------------------------------------------------------------------
(* Type correctness. *)

\* The states of a job that somebody still works on.
Active == TaskState \ {"idle", "leaked"}

\* Nothing is in flight of a job that is not active.
TaskInv ==
    /\ TypeOK
    /\ \A t \in Tasks : tasks[t] \notin Active => inFlight[t] = {}

LEMMA SubsetCardinality ==
    ASSUME NEW ts \in SUBSET Tasks
    PROVE  IsFiniteSet(ts) /\ Cardinality(ts) \in Nat
  BY FS_Subset, FS_CardinalityType, TasksAssumption

LEMMA DrainType ==
    ASSUME activeJobs \in Int, closePromise \in CloseState, drainOne
    PROVE  activeJobs' \in Int /\ closePromise' \in CloseState
  BY DEF drainOne, CloseState

LEMMA TaskInit == Init => TaskInv
<1>. SUFFICES ASSUME Init PROVE TaskInv
  OBVIOUS
<1>1. tasks \in [Tasks -> TaskState] /\ inFlight \in [Tasks -> SUBSET Commands]
      /\ drained \in SUBSET Tasks
  BY DEF Init, TaskState
<1>2. streams \in [Streams -> StreamState] /\ budget \in [Streams -> Nat]
  BY DEF Init, StreamState
<1>3. backoffs \in 0..MaxBackoffs  BY BoundsAssumption DEF Init
<1>4. closePromise \in CloseState /\ pollMutex \in BOOLEAN
  BY DEF Init, CloseState
<1>5. activeJobs \in Int /\ amount \in Nat /\ jobStream \in Streams \cup {NoStream}
  BY DEF Init
<1>6. \A t \in Tasks : inFlight[t] = {}  BY DEF Init
<1>. QED  BY <1>1, <1>2, <1>3, <1>4, <1>5, <1>6 DEF TypeOK, TaskInv

\* A step of a handler, or the answer to a command, moves one active job.
LEMMA TaskStepForm ==
    ASSUME TaskInv, NEW t \in Tasks, Act(t) \/ Answer(t)
    PROVE  /\ tasks[t] \in Active
           /\ \E st \in Active, cs \in SUBSET Commands :
                 Quietly(t, st, cs) \/ Draining(t, st, cs)
<1>1. /\ {"acted", "rejected", "returned", "cancelling", "running"} \subseteq Active
      /\ inFlight[t] \in SUBSET Commands /\ tasks[t] \in TaskState
  BY DEF Active, TaskState, TaskInv, TypeOK
<1>2. inFlight[t] # {} => tasks[t] \in Active  BY DEF TaskInv
<1>3. Refused(t) \in {"rejected", tasks[t]}  BY DEF Refused
<1>4. ASSUME NEW c \in Commands, Send(t, c) \/ CommandSettles(t, c)
      PROVE  /\ tasks[t] \in Active
             /\ \E st \in Active, cs \in SUBSET Commands :
                   Quietly(t, st, cs) \/ Draining(t, st, cs)
  <2>1. inFlight[t] \cup {c} \in SUBSET Commands /\ inFlight[t] \ {c} \in SUBSET Commands
    BY <1>1
  <2>2. CASE Send(t, c)  BY <1>1, <2>1, <2>2 DEF Send, MayAct
  <2>3. CASE CommandSettles(t, c)  BY <1>1, <1>2, <2>1, <2>3 DEF CommandSettles
  <2>. QED  BY <1>4, <2>2, <2>3
<1>5. CASE Forward(t) \/ Return(t) \/ Throw(t) \/ CancelSettles(t)
  BY <1>1, <1>5 DEF Forward, MayAct, Return, Throw, CancelSettles
<1>6. CASE FailRejected(t)
  <2>1. inFlight[t] \ {"fail"} \in SUBSET Commands  BY <1>1
  <2>. QED  BY <1>1, <1>2, <1>3, <1>6, <2>1 DEF FailRejected
<1>7. CASE CancelAccepted(t) \/ CancelRejected(t)
  <2>1. inFlight[t] \ {"cancelWorkflow"} \in SUBSET Commands  BY <1>1
  <2>. QED  BY <1>1, <1>2, <1>3, <1>7, <2>1 DEF CancelAccepted, CancelRejected
<1>. QED  BY <1>4, <1>5, <1>6, <1>7 DEF Act, Answer

LEMMA MoveKeeps ==
    ASSUME TaskInv, NEW t \in Tasks, NEW st \in Active, NEW cs \in SUBSET Commands,
           NEW done \in {drained, drained \cup {t}}, Move(t, st, cs, done)
    PROVE  /\ tasks' \in [Tasks -> TaskState]
           /\ inFlight' \in [Tasks -> SUBSET Commands]
           /\ drained' \in SUBSET Tasks
           /\ \A u \in Tasks : tasks'[u] \notin Active => inFlight'[u] = {}
<1>. DEFINE over == st = "returned" /\ cs = {}
<1>1. tasks \in [Tasks -> TaskState] /\ inFlight \in [Tasks -> SUBSET Commands]
      /\ drained \in SUBSET Tasks
  BY DEF TaskInv, TypeOK
<1>2. inFlight' = [inFlight EXCEPT ![t] = cs]  BY DEF Move
<1>3. \E x \in TaskState : /\ tasks' = [tasks EXCEPT ![t] = x]
                           /\ x \notin Active => cs = {}
  <2>1. CASE over
    BY <2>1 DEF Move, Active, TaskState
  <2>2. CASE ~over
    BY <2>2 DEF Move, Active, TaskState
  <2>. QED  BY <2>1, <2>2
<1>4. drained' \in SUBSET Tasks  BY <1>1 DEF Move
<1>5. \A u \in Tasks : tasks'[u] \notin Active => inFlight'[u] = {}
  BY <1>1, <1>2, <1>3 DEF TaskInv
<1>. QED  BY <1>1, <1>2, <1>3, <1>4, <1>5

LEMMA TaskStepType ==
    ASSUME TaskInv, NEW t \in Tasks, Act(t) \/ Answer(t)
    PROVE  TaskInv'
<1>1. PICK st \in Active, cs \in SUBSET Commands :
         Quietly(t, st, cs) \/ Draining(t, st, cs)
  BY TaskStepForm
<1>2. PICK done \in {drained, drained \cup {t}} : Move(t, st, cs, done)
  BY <1>1 DEF Quietly, Draining
<1>3. activeJobs' \in Int /\ closePromise' \in CloseState
  BY <1>1, DrainType DEF Quietly, Draining, capacityVars, TaskInv, TypeOK
<1>4. UNCHANGED <<streamVars, pollVars>>  BY <1>2 DEF Move
<1>5. /\ tasks' \in [Tasks -> TaskState]
      /\ inFlight' \in [Tasks -> SUBSET Commands]
      /\ drained' \in SUBSET Tasks
      /\ \A u \in Tasks : tasks'[u] \notin Active => inFlight'[u] = {}
  BY <1>2, MoveKeeps
<1>. QED
  BY <1>3, <1>4, <1>5 DEF TaskInv, TypeOK, streamVars, pollVars

LEMMA DeliverType ==
    ASSUME TaskInv, NEW s \in Streams, NEW ts \in SUBSET Tasks,
           NEW state \in {"running", "leaked"}, Deliver(s, ts, state)
    PROVE  TaskInv'
<1>1. Cardinality(ts) \in Nat  BY SubsetCardinality
<1>2. budget' \in [Streams -> Nat]  BY <1>1 DEF TaskInv, TypeOK, Deliver
<1>3. activeJobs' \in Int  BY <1>1 DEF TaskInv, TypeOK, Deliver
<1>4. tasks' \in [Tasks -> TaskState] /\ drained' \in SUBSET Tasks
  BY DEF TaskInv, TypeOK, Deliver, TaskState
<1>5. \A u \in Tasks : tasks'[u] \notin Active => inFlight'[u] = {}
  BY DEF TaskInv, TypeOK, Deliver, Active
<1>. QED  BY <1>2, <1>3, <1>4, <1>5 DEF TaskInv, TypeOK, Deliver, pollVars

LEMMA WireStepType ==
    ASSUME TaskInv, NEW s \in Streams, StreamCloses(s) \/ StreamTimeout(s)
    PROVE  TaskInv'
<1>. USE DEF TaskInv, TypeOK, capacityVars, taskVars, pollVars, StreamState, handleStreamEnd
<1>1. CASE StreamEnd(s)  BY <1>1 DEF StreamEnd
<1>2. CASE StreamTimeout(s)  BY <1>2 DEF StreamTimeout
<1>3. CASE StreamSilenced(s)  BY <1>3 DEF StreamSilenced
<1>4. ASSUME NEW o \in BOOLEAN, StreamError(s, o) PROVE TaskInv'
  <2>1. backoffs' \in 0..MaxBackoffs  BY <1>4, BoundsAssumption DEF StreamError
  <2>. QED  BY <1>4, <2>1 DEF StreamError
<1>. QED  BY <1>1, <1>2, <1>3, <1>4 DEF StreamCloses

LEMMA TaskInvStep == TaskInv /\ [Next]_vars => TaskInv'
<1>. SUFFICES ASSUME TaskInv, [Next]_vars PROVE TaskInv'
  OBVIOUS
<1>1. CASE PollStart
  <2>1. amount' \in Nat
    BY <1>1, MaxJobsAssumption DEF PollStart, TaskInv, TypeOK, AtCapacity
  <2>. QED  BY <1>1, <2>1 DEF PollStart, TaskInv, TypeOK, capacityVars, taskVars, streamVars
<1>2. ASSUME NEW s \in Streams, NEW k \in {"live", "dead"}, PollOpen(s, k)
      PROVE  TaskInv'
  BY <1>2 DEF PollOpen, TaskInv, TypeOK, capacityVars, taskVars, StreamState
<1>3. CASE PollFail
  BY <1>3 DEF PollFail, TaskInv, TypeOK, capacityVars, taskVars, streamVars
<1>4. ASSUME NEW s \in Streams, NEW ts \in SUBSET Tasks,
             StreamData(s, ts) \/ StreamDataMalformed(s, ts)
      PROVE  TaskInv'
  BY <1>4, DeliverType DEF StreamData, StreamDataMalformed
<1>5. ASSUME NEW s \in Streams, StreamCloses(s) \/ StreamTimeout(s)
      PROVE  TaskInv'
  BY <1>5, WireStepType
<1>6. CASE BackoffFires
  <2>1. backoffs' \in 0..MaxBackoffs
    BY <1>6, BoundsAssumption DEF BackoffFires, TaskInv, TypeOK
  <2>. QED
    BY <1>6, <2>1 DEF BackoffFires, TaskInv, TypeOK, handleStreamEnd,
       capacityVars, taskVars, pollVars
<1>7. ASSUME NEW t \in Tasks, Act(t) \/ Answer(t) PROVE TaskInv'
  BY <1>7, TaskStepType
<1>8. CASE Close
  BY <1>8 DEF Close, TaskInv, TypeOK, taskVars, streamVars, pollVars, CloseState
<1>9. CASE ChannelCloses
  BY <1>9 DEF ChannelCloses, TaskInv, TypeOK, taskVars, pollVars, CloseState, StreamState
<1>10. CASE UNCHANGED vars
  BY <1>10 DEF vars, TaskInv, TypeOK, capacityVars, taskVars, streamVars, pollVars
<1>. QED
  BY <1>1, <1>2, <1>3, <1>4, <1>5, <1>6, <1>7, <1>8, <1>9, <1>10
  DEF Next, PollAnswer

LEMMA TaskInvariant == Spec => []TaskInv
<1>. QED  BY TaskInit, TaskInvStep, PTL DEF Spec

\* Every variable keeps its type for any jobs, streams and maximum; the
\* amount of a request is a natural number because poll() asks only below
\* the threshold.
THEOREM TypeCorrect == Spec => []TypeOK
<1>1. TaskInv => TypeOK  BY DEF TaskInv
<1>. QED  BY <1>1, TaskInvariant, PTL

\* The steps that touch neither jobs nor counter.
LEMMA WireStepQuiet ==
    ASSUME NEW s \in Streams, StreamCloses(s) \/ StreamTimeout(s)
    PROVE  UNCHANGED <<capacityVars, taskVars>>
  BY DEF StreamCloses, StreamEnd, StreamSilenced, StreamError, StreamTimeout

LEMMA PollStepQuiet ==
    ASSUME PollStart \/ PollAnswer \/ BackoffFires
    PROVE  UNCHANGED <<capacityVars, taskVars>>
  BY DEF PollStart, PollAnswer, PollOpen, PollFail, BackoffFires

-----------------------------------------------------------------------------
(* The counter.  Counted grows by the jobs delivered, and loses at most the *)
(* job of a drain.                                                          *)

LEMMA CountedFinite ==
    IsFiniteSet(Counted) /\ Cardinality(Counted) \in Nat
  BY SubsetCardinality DEF Counted

LEMMA CountedGrows ==
    ASSUME TypeOK, NEW ts \in SUBSET Tasks, NEW state \in {"running", "leaked"},
           \A t \in ts : tasks[t] = "idle",
           tasks' = [t \in Tasks |-> IF t \in ts THEN state ELSE tasks[t]],
           drained' = drained \ ts
    PROVE  /\ Counted' = Counted \cup ts
           /\ ts \cap Counted = {}
           /\ Cardinality(Counted') = Cardinality(Counted) + Cardinality(ts)
<1>1. Counted' = Counted \cup ts
  BY DEF Counted, TypeOK
<1>2. Counted \cap ts = {}  BY DEF Counted
<1>3. IsFiniteSet(Counted) /\ IsFiniteSet(ts) /\ Cardinality(Counted) \in Nat
      /\ Cardinality(ts) \in Nat
  BY CountedFinite, SubsetCardinality
<1>4. Cardinality(Counted \cap ts) = 0  BY <1>2, FS_EmptySet
<1>5. Cardinality(Counted \cup ts) = Cardinality(Counted) + Cardinality(ts) - Cardinality(Counted \cap ts)
  BY <1>3, FS_Union
<1>. QED  BY <1>1, <1>2, <1>3, <1>4, <1>5

LEMMA MoveCounted ==
    ASSUME TypeOK, NEW t \in Tasks, NEW st \in Active, NEW cs,
           NEW done \in {drained, drained \cup {t}},
           tasks[t] \in Active, Move(t, st, cs, done)
    PROVE  Counted' = Counted \ done
<1>. DEFINE over == st = "returned" /\ cs = {}
<1>1. \A u \in Tasks \ {t} : tasks'[u] = tasks[u] /\ (u \in drained' <=> u \in drained)
  BY DEF Move, TypeOK
<1>2. st # "idle" /\ tasks[t] # "idle"  BY DEF Active
<1>3. t \in Counted' <=> t \notin done
  <2>1. CASE over
    <3>1. tasks'[t] = (IF t \in done THEN "idle" ELSE "leaked") /\ t \notin drained'
      BY <2>1 DEF Move, TypeOK
    <3>. QED  BY <3>1 DEF Counted
  <2>2. CASE ~over
    <3>1. tasks'[t] = st /\ drained' = done
      BY <2>2 DEF Move, TypeOK
    <3>. QED  BY <1>2, <3>1 DEF Counted
  <2>. QED  BY <2>1, <2>2
<1>4. \A u \in Tasks \ {t} : u \in Counted' <=> u \in Counted /\ u \notin done
  BY <1>1 DEF Counted
<1>5. t \notin done => t \in Counted  BY <1>2 DEF Counted
<1>6. Counted \subseteq Tasks /\ Counted' \subseteq Tasks  BY DEF Counted
<1>. QED  BY <1>3, <1>4, <1>5, <1>6

LEMMA QuietCounted ==
    ASSUME TypeOK, NEW t \in Tasks, NEW st \in Active, NEW cs,
           tasks[t] \in Active, Quietly(t, st, cs)
    PROVE  Counted' = Counted
<1>1. Counted' = Counted \ drained  BY MoveCounted DEF Quietly
<1>. QED  BY <1>1 DEF Counted

LEMMA DrainCounted ==
    ASSUME TypeOK, NEW t \in Tasks, NEW st \in Active, NEW cs,
           tasks[t] \in Active, Draining(t, st, cs)
    PROVE  /\ Counted' = Counted \ {t}
           /\ Cardinality(Counted') \in Nat
           /\ Cardinality(Counted') = IF t \in Counted THEN Cardinality(Counted) - 1
                                      ELSE Cardinality(Counted)
<1>1. Counted' = Counted \ {t}
  <2>1. Counted' = Counted \ (drained \cup {t})  BY MoveCounted DEF Draining
  <2>. QED  BY <2>1 DEF Counted
<1>2. Cardinality(Counted \ {t}) = IF t \in Counted THEN Cardinality(Counted) - 1
                                   ELSE Cardinality(Counted)
  BY CountedFinite, FS_RemoveElement
<1>3. Counted \ {t} \in SUBSET Tasks  BY DEF Counted
<1>. QED  BY <1>1, <1>2, <1>3, SubsetCardinality

LEMMA OvercountStep ==
    ASSUME TaskInv, OvercountIsLeaked, [Next]_vars
    PROVE  OvercountIsLeaked'
<1>0. activeJobs \in Int /\ Cardinality(Counted) \in Nat /\ TypeOK
  BY CountedFinite DEF TaskInv, TypeOK
<1>1. ASSUME UNCHANGED <<activeJobs, taskVars>> PROVE OvercountIsLeaked'
  BY <1>1 DEF OvercountIsLeaked, Counted, taskVars
<1>2. ASSUME NEW s \in Streams, NEW ts \in SUBSET Tasks,
             NEW st \in {"running", "leaked"}, Deliver(s, ts, st)
      PROVE  OvercountIsLeaked'
  <2>1. CASE closing
    BY <1>1, <1>2, <2>1 DEF Deliver, taskVars
  <2>2. CASE ~closing
    <3>1. Cardinality(Counted') = Cardinality(Counted) + Cardinality(ts)
      BY <1>0, <1>2, <2>2, CountedGrows DEF Deliver
    <3>. QED
      BY <1>0, <1>2, <2>2, <3>1, SubsetCardinality DEF Deliver, OvercountIsLeaked
  <2>. QED  BY <2>1, <2>2
<1>3. CASE Close \/ ChannelCloses
  BY <1>1, <1>3 DEF Close, ChannelCloses
<1>4. CASE PollStart \/ PollAnswer \/ BackoffFires
  BY <1>1, <1>4, PollStepQuiet DEF capacityVars
<1>5. ASSUME NEW s \in Streams, StreamCloses(s) \/ StreamTimeout(s)
      PROVE  OvercountIsLeaked'
  BY <1>1, <1>5, WireStepQuiet DEF capacityVars
<1>6. ASSUME NEW t \in Tasks, Act(t) \/ Answer(t) PROVE OvercountIsLeaked'
  <2>1. PICK st \in Active, cs \in SUBSET Commands :
           Quietly(t, st, cs) \/ Draining(t, st, cs)
    BY <1>6, TaskStepForm
  <2>2. tasks[t] \in Active  BY <1>6, TaskStepForm
  <2>3. CASE Quietly(t, st, cs)
    BY <1>0, <2>2, <2>3, QuietCounted DEF Quietly, capacityVars, OvercountIsLeaked
  <2>4. CASE Draining(t, st, cs)
    <3>1. Cardinality(Counted') \in Nat /\ Cardinality(Counted') >= Cardinality(Counted) - 1
      BY <1>0, <2>2, <2>4, DrainCounted
    <3>2. activeJobs' = activeJobs - 1  BY <2>4 DEF Draining, drainOne
    <3>. QED  BY <1>0, <3>1, <3>2 DEF OvercountIsLeaked
  <2>. QED  BY <2>1, <2>3, <2>4
<1>7. CASE UNCHANGED vars
  BY <1>1, <1>7 DEF vars, capacityVars
<1>. QED
  BY <1>2, <1>3, <1>4, <1>5, <1>6, <1>7 DEF Next, StreamData, StreamDataMalformed

\* Whatever handlers, gateway and library do, the counter exceeds the jobs
\* held by no more than those that leaked: everything else is drained once at
\* the least.
THEOREM OvercountsAreLeaks == Spec => []OvercountIsLeaked
<1>1. Init => OvercountIsLeaked
  <2>1. Init => Counted = {} /\ activeJobs = 0  BY DEF Init, Counted
  <2>. QED  BY <2>1, FS_EmptySet DEF OvercountIsLeaked
<1>. QED  BY <1>1, OvercountStep, TaskInvariant, PTL DEF Spec

\* The counter of a draining worker is above zero: only close() starts to
\* drain, when there is something to wait for, and the counter moves by one.
AboveZero == closePromise = "draining" => activeJobs > 0

LEMMA AboveZeroStep ==
    ASSUME TaskInv, AboveZero, [Next]_vars
    PROVE  AboveZero'
<1>1. CASE UNCHANGED capacityVars
  BY <1>1 DEF capacityVars, AboveZero
<1>2. CASE drainOne
  BY <1>2 DEF drainOne, AboveZero, TaskInv, TypeOK
<1>3. CASE Close
  BY <1>3 DEF Close, AboveZero, TaskInv, TypeOK
<1>4. CASE ChannelCloses
  BY <1>4 DEF ChannelCloses, AboveZero
<1>5. ASSUME NEW s \in Streams, NEW ts \in SUBSET Tasks, NEW st, Deliver(s, ts, st)
      PROVE  AboveZero'
  BY <1>5, SubsetCardinality DEF Deliver, AboveZero, TaskInv, TypeOK, closing
<1>6. ASSUME NEW t \in Tasks, Act(t) \/ Answer(t)
      PROVE  UNCHANGED capacityVars \/ drainOne
  BY <1>6, TaskStepForm DEF Quietly, Draining
<1>7. CASE PollStart \/ PollAnswer \/ BackoffFires
  BY <1>1, <1>7, PollStepQuiet
<1>8. ASSUME NEW s \in Streams, StreamCloses(s) \/ StreamTimeout(s)
      PROVE  UNCHANGED capacityVars
  BY <1>8, WireStepQuiet
<1>9. CASE UNCHANGED vars  BY <1>1, <1>9 DEF vars
<1>. QED
  BY <1>1, <1>2, <1>3, <1>4, <1>5, <1>6, <1>7, <1>8, <1>9
  DEF Next, StreamData, StreamDataMalformed

\* A waiting close() has a job to wait for, held or leaked: nothing is
\* assumed here either.
THEOREM CloseNeverWaitsForNothing == Spec => []CloseWaitsForJobs
<1>1. Init => AboveZero  BY DEF Init, AboveZero
<1>2. TaskInv /\ AboveZero /\ [Next]_vars => AboveZero'  BY AboveZeroStep
<1>3. TaskInv /\ AboveZero /\ OvercountIsLeaked => CloseWaitsForJobs
  BY CountedFinite, FS_EmptySet DEF TaskInv, TypeOK, AboveZero, OvercountIsLeaked,
     CloseWaitsForJobs
<1>. QED  BY <1>1, <1>2, <1>3, TaskInvariant, OvercountsAreLeaks, PTL DEF Spec

\* Both together: what the counter keeps on any wire and under any misuse.
THEOREM CounterStaysSound == Spec => []CounterSound
<1>1. OvercountIsLeaked /\ CloseWaitsForJobs => CounterSound  BY DEF CounterSound
<1>. QED  BY <1>1, OvercountsAreLeaks, CloseNeverWaitsForNothing, PTL

-----------------------------------------------------------------------------
(* Where nothing leaks: a job that was acted on and is not drained has a     *)
(* command in flight, and every command drains when it is answered.          *)

LeakFree ==
    \A t \in Tasks :
        /\ tasks[t] # "leaked"
        /\ "cancelWorkflow" \notin inFlight[t]
        /\ tasks[t] \in {"acted", "rejected", "returned"} /\ t \notin drained
              => inFlight[t] # {}

LEMMA MoveLeakFree ==
    ASSUME TaskInv, LeakFree, NEW t \in Tasks, NEW st \in Active,
           NEW cs \in SUBSET Commands, "cancelWorkflow" \notin cs,
           NEW done \in {drained, drained \cup {t}}, Move(t, st, cs, done),
           t \in done \/ cs # {} \/ st \in {"running", "cancelling"}
    PROVE  LeakFree'
<1>1. \A u \in Tasks \ {t} : /\ tasks'[u] = tasks[u] /\ inFlight'[u] = inFlight[u]
                             /\ (u \in drained' <=> u \in drained)
  BY DEF Move, TaskInv, TypeOK
<1>2. inFlight'[t] = cs  BY DEF Move, TaskInv, TypeOK
<1>3. CASE st = "returned" /\ cs = {}
  <2>1. t \in done  BY <1>3
  <2>2. tasks'[t] = "idle"  BY <1>3, <2>1 DEF Move, TaskInv, TypeOK
  <2>. QED  BY <1>1, <1>2, <2>2 DEF LeakFree
<1>4. CASE ~(st = "returned" /\ cs = {})
  <2>1. tasks'[t] = st /\ (t \in drained' <=> t \in done)
    BY <1>4 DEF Move, TaskInv, TypeOK
  <2>2. st # "leaked"  BY DEF Active
  <2>. QED  BY <1>1, <1>2, <2>1, <2>2 DEF LeakFree
<1>. QED  BY <1>3, <1>4

LEMMA TaskStepLeakFree ==
    ASSUME NothingLeaks, TaskInv, LeakFree, NEW t \in Tasks, Act(t) \/ Answer(t)
    PROVE  LeakFree'
<1>. DEFINE fl == inFlight[t]
<1>1. /\ {"acted", "rejected", "returned", "cancelling", "running"} \subseteq Active
      /\ fl \in SUBSET Commands /\ tasks[t] \in TaskState /\ "cancelWorkflow" \notin fl
      /\ fl # {} => tasks[t] \in Active
  BY DEF Active, TaskState, TaskInv, TypeOK, LeakFree
<1>2. ASSUME NEW st \in Active, NEW cs \in SUBSET fl, Draining(t, st, cs) PROVE LeakFree'
  BY <1>1, <1>2, MoveLeakFree DEF Draining
<1>3. ASSUME NEW c \in Commands, Send(t, c) PROVE LeakFree'
  <2>1. c # "cancelWorkflow"  BY <1>3 DEF Send, MayAct, NothingLeaks
  <2>2. fl \cup {c} \in SUBSET Commands /\ fl \cup {c} # {} /\ "cancelWorkflow" \notin fl \cup {c}
    BY <1>1, <2>1
  <2>. QED  BY <1>1, <1>3, <2>2, MoveLeakFree DEF Send, Quietly
<1>4. ASSUME NEW c \in Commands, CommandSettles(t, c) PROVE LeakFree'
  BY <1>1, <1>2, <1>4 DEF CommandSettles
<1>5. CASE Forward(t) \/ CancelSettles(t)
  BY <1>1, <1>2, <1>5 DEF Forward, CancelSettles
<1>6. CASE FailRejected(t)
  <2>1. Refused(t) \in Active  BY <1>1, <1>6 DEF FailRejected, Refused
  <2>. QED  BY <1>1, <1>2, <1>6, <2>1 DEF FailRejected
<1>7. CASE CancelAccepted(t) \/ CancelRejected(t)
  BY <1>1, <1>7 DEF CancelAccepted, CancelRejected
<1>8. CASE Return(t)
  <2>1. tasks[t] \in {"acted", "rejected"}  BY <1>8 DEF Return, NothingLeaks
  <2>2. t \in drained \/ fl # {}  BY <2>1 DEF LeakFree
  <2>. QED  BY <1>1, <1>8, <2>2, MoveLeakFree DEF Return, Quietly
<1>9. CASE Throw(t)
  <2>1. CASE FailProcessOnException
    BY <1>1, <1>9, <2>1, MoveLeakFree DEF Throw, Quietly
  <2>2. CASE ~FailProcessOnException
    BY <1>1, <1>2, <1>9, <2>2 DEF Throw
  <2>. QED  BY <2>1, <2>2
<1>. QED  BY <1>3, <1>4, <1>5, <1>6, <1>7, <1>8, <1>9 DEF Act, Answer

LEMMA LeakFreeStep ==
    ASSUME NothingLeaks, TaskInv, LeakFree, [Next]_vars
    PROVE  LeakFree'
<1>1. ASSUME UNCHANGED taskVars PROVE LeakFree'
  BY <1>1 DEF LeakFree, taskVars
<1>2. ASSUME NEW s \in Streams, NEW ts \in SUBSET Tasks, StreamData(s, ts) PROVE LeakFree'
  BY <1>2 DEF StreamData, Deliver, LeakFree, TaskInv, TypeOK
<1>3. ASSUME NEW s \in Streams, NEW ts \in SUBSET Tasks, StreamDataMalformed(s, ts)
      PROVE LeakFree'
  BY <1>3 DEF StreamDataMalformed, NothingLeaks
<1>4. CASE PollStart \/ PollAnswer \/ BackoffFires
  BY <1>1, <1>4, PollStepQuiet
<1>5. ASSUME NEW s \in Streams, StreamCloses(s) \/ StreamTimeout(s) PROVE LeakFree'
  BY <1>1, <1>5, WireStepQuiet
<1>6. ASSUME NEW t \in Tasks, Act(t) \/ Answer(t) PROVE LeakFree'
  BY <1>6, TaskStepLeakFree
<1>7. CASE Close \/ ChannelCloses \/ UNCHANGED vars
  BY <1>1, <1>7 DEF Close, ChannelCloses, vars
<1>. QED  BY <1>2, <1>3, <1>4, <1>5, <1>6, <1>7 DEF Next

LEMMA LeakFreeInvariant == ASSUME NothingLeaks PROVE Spec => []LeakFree
<1>1. Init => LeakFree  BY DEF Init, LeakFree
<1>2. TaskInv /\ LeakFree /\ [Next]_vars => LeakFree'  BY LeakFreeStep
<1>. QED  BY <1>1, <1>2, TaskInvariant, PTL DEF Spec

LEMMA HeldIsCounted == ASSUME LeakFree PROVE Held = Counted
  BY DEF LeakFree, Held, Leaked, Counted

\* Where nothing leaks, no misuse and no refusal makes the worker count more
\* jobs than it holds.
THEOREM NeverOvercounts ==
    ASSUME NothingLeaks PROVE Spec => []NeverOvercounted
<1>1. LeakFree /\ OvercountIsLeaked => NeverOvercounted
  BY HeldIsCounted DEF OvercountIsLeaked, NeverOvercounted
<1>. QED  BY <1>1, LeakFreeInvariant, OvercountsAreLeaks, PTL

-----------------------------------------------------------------------------
(* Disciplined handlers.  A job is drained by its one command, its forward   *)
(* or its exception, and nothing of it is in flight afterwards.              *)

DrainOnce ==
    \A t \in Tasks :
        /\ tasks[t] # "rejected"
        /\ t \in drained => tasks[t] \in {"acted", "returned"} /\ inFlight[t] = {}
        /\ tasks[t] \in {"running", "cancelling"} => inFlight[t] = {}
        /\ \A c, e \in inFlight[t] : c = e

AccountInv ==
    /\ TaskInv /\ LeakFree /\ DrainOnce
    /\ activeJobs = Cardinality(Counted)
    /\ channelClosed => Counted = {}

LEMMA MoveDrainOnce ==
    ASSUME TaskInv, DrainOnce, NEW t \in Tasks, NEW st \in Active \ {"rejected"},
           NEW cs \in SUBSET Commands,
           NEW done \in {drained, drained \cup {t}}, Move(t, st, cs, done),
           \A c, e \in cs : c = e,
           t \in done => st \in {"acted", "returned"} /\ cs = {},
           st \in {"running", "cancelling"} => cs = {}
    PROVE  DrainOnce'
<1>1. \A u \in Tasks \ {t} : /\ tasks'[u] = tasks[u] /\ inFlight'[u] = inFlight[u]
                             /\ (u \in drained' <=> u \in drained)
  BY DEF Move, TaskInv, TypeOK
<1>2. inFlight'[t] = cs  BY DEF Move, TaskInv, TypeOK
<1>3. CASE st = "returned" /\ cs = {}
  <2>1. tasks'[t] \in {"idle", "leaked"} /\ t \notin drained'
    BY <1>3 DEF Move, TaskInv, TypeOK
  <2>. QED  BY <1>1, <1>2, <2>1 DEF DrainOnce
<1>4. CASE ~(st = "returned" /\ cs = {})
  <2>1. tasks'[t] = st /\ (t \in drained' <=> t \in done)
    BY <1>4 DEF Move, TaskInv, TypeOK
  <2>. QED  BY <1>1, <1>2, <2>1 DEF DrainOnce
<1>. QED  BY <1>3, <1>4

\* A step of a disciplined handler is quiet, or it is the only drain of its job.
LEMMA DisciplinedStep ==
    ASSUME Disciplined, AccountInv, NEW t \in Tasks, Act(t) \/ Answer(t)
    PROVE  /\ tasks[t] \in Active
           /\ DrainOnce'
           /\ \E st \in Active, cs \in SUBSET Commands :
                 \/ Quietly(t, st, cs)
                 \/ Draining(t, st, cs) /\ t \in Counted
<1>. DEFINE fl == inFlight[t]
            Goal == /\ DrainOnce'
                    /\ \E st \in Active, cs \in SUBSET Commands :
                          \/ Quietly(t, st, cs)
                          \/ Draining(t, st, cs) /\ t \in Counted
<1>0. TaskInv /\ LeakFree /\ DrainOnce  BY DEF AccountInv
<1>1. tasks[t] \in Active  BY <1>0, TaskStepForm
<1>2. /\ {"acted", "rejected", "returned", "cancelling", "running"} \subseteq Active
      /\ fl \in SUBSET Commands /\ {} \in SUBSET Commands
      /\ tasks[t] # "rejected" /\ tasks[t] # "idle"
  BY <1>0, <1>1 DEF Active, TaskState, TaskInv, TypeOK, DrainOnce
<1>3. \A a : MayAct(t, a) => a \in HandlerActions /\ tasks[t] = "running"
  BY DEF MayAct, Disciplined
<1>4. tasks[t] \in {"running", "cancelling"} => t \in Counted /\ fl = {} /\ t \notin drained
  BY <1>0, <1>2 DEF DrainOnce, Counted
<1>5. ASSUME NEW c \in fl PROVE t \in Counted /\ fl \ {c} = {}
                                /\ tasks[t] \in {"acted", "returned"} /\ t \notin drained
  BY <1>0, <1>1, <1>2 DEF DrainOnce, Counted, Active, TaskState
<1>6. ASSUME NEW st \in {"acted", "returned"}, Draining(t, st, {}), t \in Counted PROVE Goal
  BY <1>0, <1>2, <1>6, MoveDrainOnce DEF Draining
<1>7. ASSUME NEW c \in Commands, Send(t, c) PROVE Goal
  <2>1. tasks[t] = "running" /\ fl \cup {c} = {c} /\ t \notin drained
    BY <1>3, <1>4, <1>7 DEF Send
  <2>2. Quietly(t, "acted", {c}) /\ {c} \in SUBSET Commands
    BY <1>7, <2>1 DEF Send
  <2>3. DrainOnce'
    BY <1>0, <1>2, <2>1, <2>2, MoveDrainOnce DEF Quietly
  <2>. QED  BY <1>2, <2>2, <2>3
<1>8. ASSUME NEW c \in Commands, CommandSettles(t, c) PROVE Goal
  BY <1>5, <1>6, <1>8 DEF CommandSettles
<1>9. CASE Forward(t)
  BY <1>1, <1>3, <1>4, <1>6, <1>9 DEF Forward
<1>10. CASE CancelSettles(t)
  BY <1>1, <1>4, <1>6, <1>10 DEF CancelSettles
<1>11. CASE FailRejected(t)
  BY <1>11 DEF FailRejected, Disciplined
<1>12. CASE CancelAccepted(t) \/ CancelRejected(t)
  BY <1>0, <1>12 DEF CancelAccepted, CancelRejected, LeakFree
<1>13. CASE Return(t)
  <2>1. tasks[t] = "acted" /\ Quietly(t, "returned", fl)
    BY <1>2, <1>13 DEF Return, Disciplined, NothingLeaks
  <2>2. DrainOnce'
    BY <1>0, <1>2, <2>1, MoveDrainOnce DEF Quietly, DrainOnce
  <2>. QED  BY <1>2, <2>1, <2>2
<1>14. CASE Throw(t)
  <2>1. tasks[t] = "running"  BY <1>2, <1>14 DEF Throw, Disciplined
  <2>2. CASE FailProcessOnException
    <3>1. Quietly(t, "cancelling", {})  BY <1>4, <1>14, <2>1, <2>2 DEF Throw
    <3>2. DrainOnce'
      BY <1>0, <1>2, <1>4, <2>1, <3>1, MoveDrainOnce DEF Quietly
    <3>. QED  BY <1>1, <1>2, <3>1, <3>2
  <2>3. CASE ~FailProcessOnException
    BY <1>1, <1>4, <1>6, <1>14, <2>1, <2>3 DEF Throw
  <2>. QED  BY <2>2, <2>3
<1>. QED
  BY <1>1, <1>7, <1>8, <1>9, <1>10, <1>11, <1>12, <1>13, <1>14 DEF Act, Answer

LEMMA TaskStepAccount ==
    ASSUME Disciplined, AccountInv, NEW t \in Tasks, Act(t) \/ Answer(t)
    PROVE  AccountInv'
<1>0. TaskInv /\ TypeOK /\ LeakFree /\ NothingLeaks  BY DEF AccountInv, TaskInv, Disciplined
<1>1. TaskInv' /\ LeakFree' /\ DrainOnce' /\ tasks[t] \in Active
  BY <1>0, TaskStepType, TaskStepLeakFree, DisciplinedStep
<1>2. PICK st \in Active, cs \in SUBSET Commands :
         Quietly(t, st, cs) \/ (Draining(t, st, cs) /\ t \in Counted)
  BY DisciplinedStep
<1>3. CASE Quietly(t, st, cs)
  <2>1. Counted' = Counted /\ UNCHANGED capacityVars
    BY <1>0, <1>1, <1>3, QuietCounted DEF Quietly
  <2>. QED  BY <1>1, <2>1 DEF AccountInv, capacityVars, channelClosed
<1>4. CASE Draining(t, st, cs) /\ t \in Counted
  <2>1. /\ Cardinality(Counted') = Cardinality(Counted) - 1
        /\ drainOne
    BY <1>0, <1>1, <1>4, DrainCounted DEF Draining
  <2>2. ~channelClosed  BY <1>4 DEF AccountInv
  <2>3. channelClosed' => Counted' = {}
    <3>1. CASE closePromise = "draining" /\ activeJobs = 1
      <4>1. Cardinality(Counted') = 0 /\ IsFiniteSet(Counted')
        <5>1. Counted' \in SUBSET Tasks  BY DEF Counted
        <5>. QED  BY <2>1, <3>1, <5>1, SubsetCardinality DEF AccountInv
      <4>. QED  BY <4>1, FS_EmptySet
    <3>2. CASE ~(closePromise = "draining" /\ activeJobs = 1)
      BY <2>1, <2>2, <3>2 DEF drainOne, channelClosed
    <3>. QED  BY <3>1, <3>2
  <2>. QED  BY <1>1, <2>1, <2>3 DEF AccountInv, drainOne
<1>. QED  BY <1>2, <1>3, <1>4

LEMMA AccountStep ==
    ASSUME Disciplined, AccountInv, [Next]_vars
    PROVE  AccountInv'
<1>0. TaskInv' /\ LeakFree' /\ TypeOK
  BY TaskInvStep, LeakFreeStep DEF AccountInv, TaskInv, Disciplined
<1>1. ASSUME UNCHANGED <<capacityVars, taskVars>> PROVE AccountInv'
  <2>1. Counted' = Counted  BY <1>1 DEF Counted, taskVars
  <2>2. DrainOnce'  BY <1>1 DEF AccountInv, DrainOnce, taskVars
  <2>. QED  BY <1>0, <1>1, <2>1, <2>2 DEF AccountInv, channelClosed, capacityVars
<1>2. ASSUME NEW s \in Streams, NEW ts \in SUBSET Tasks,
             NEW st \in {"running", "leaked"}, Deliver(s, ts, st)
      PROVE  AccountInv'
  <2>1. CASE closing
    BY <1>1, <1>2, <2>1 DEF Deliver, capacityVars, taskVars
  <2>2. CASE ~closing
    <3>1. Cardinality(Counted') = Cardinality(Counted) + Cardinality(ts)
      BY <1>0, <1>2, <2>2, CountedGrows DEF Deliver
    <3>2. ~channelClosed'
      BY <1>2, <2>2 DEF Deliver, closing, channelClosed
    <3>3. DrainOnce'
      <4>1. \A u \in ts : inFlight[u] = {}
        BY <1>2 DEF Deliver, AccountInv, TaskInv, Active
      <4>. QED
        BY <1>2, <2>2, <4>1 DEF Deliver, AccountInv, DrainOnce, TaskInv, TypeOK
    <3>. QED  BY <1>0, <1>2, <2>2, <3>1, <3>2, <3>3 DEF AccountInv, Deliver
  <2>. QED  BY <2>1, <2>2
<1>3. CASE Close
  <2>1. Counted' = Counted /\ UNCHANGED <<activeJobs, taskVars>>
    BY <1>3 DEF Close, Counted, taskVars
  <2>2. DrainOnce'  BY <2>1 DEF AccountInv, DrainOnce, taskVars
  <2>3. activeJobs <= 0 => Counted = {}
    BY CountedFinite, FS_EmptySet DEF AccountInv
  <2>. QED
    BY <1>0, <1>3, <2>1, <2>2, <2>3 DEF Close, AccountInv, channelClosed
<1>4. CASE ChannelCloses
  <2>1. Counted' = Counted /\ UNCHANGED <<activeJobs, taskVars>> /\ channelClosed
    BY <1>4 DEF ChannelCloses, Counted, taskVars, channelClosed
  <2>2. DrainOnce'  BY <2>1 DEF AccountInv, DrainOnce, taskVars
  <2>. QED
    BY <1>0, <2>1, <2>2 DEF AccountInv
<1>5. CASE PollStart \/ PollAnswer \/ BackoffFires
  BY <1>1, <1>5, PollStepQuiet
<1>6. ASSUME NEW s \in Streams, StreamCloses(s) \/ StreamTimeout(s)
      PROVE  AccountInv'
  BY <1>1, <1>6, WireStepQuiet
<1>7. ASSUME NEW t \in Tasks, Act(t) \/ Answer(t) PROVE AccountInv'
  BY <1>7, TaskStepAccount
<1>8. CASE UNCHANGED vars
  BY <1>1, <1>8 DEF vars
<1>. QED
  BY <1>2, <1>3, <1>4, <1>5, <1>6, <1>7, <1>8
  DEF Next, StreamData, StreamDataMalformed

LEMMA AccountInvariant == ASSUME Disciplined PROVE Spec => []AccountInv
<1>1. Init => AccountInv
  <2>. SUFFICES ASSUME Init PROVE AccountInv
    OBVIOUS
  <2>1. Counted = {} /\ Cardinality(Counted) = 0  BY FS_EmptySet DEF Init, Counted
  <2>2. LeakFree /\ DrainOnce  BY DEF Init, LeakFree, DrainOnce
  <2>. QED  BY <2>1, <2>2, TaskInit DEF AccountInv, Init
<1>2. AccountInv /\ [Next]_vars => AccountInv'  BY AccountStep
<1>. QED  BY <1>1, <1>2, PTL DEF Spec

\* drainOne() runs once per job, however answers, returns, exceptions and
\* deliveries interleave, on any wire.
THEOREM CapacityIsAccounted ==
    ASSUME Disciplined PROVE Spec => []CapacityAccounted
<1>1. AccountInv => CapacityAccounted
  BY HeldIsCounted DEF AccountInv, CapacityAccounted
<1>. QED  BY <1>1, AccountInvariant, PTL

\* The promise of close() never resolves over a job still being worked on.
THEOREM CloseDrains ==
    ASSUME Disciplined PROVE Spec => []DrainedBeforeResolved
<1>1. AccountInv => DrainedBeforeResolved
  BY HeldIsCounted DEF AccountInv, DrainedBeforeResolved
<1>. QED  BY <1>1, AccountInvariant, PTL

-----------------------------------------------------------------------------
(* The wire.  On a clean one, a call that may still deliver is the one        *)
(* jobStream names, and nothing else is under way.                            *)

WireInv ==
    /\ TaskInv
    /\ backoffs = 0
    /\ \A s \in Streams : streams[s] \in {"free", "live", "dead"}
    /\ \A s \in Streams : streams[s] # "free" =>
          jobStream = s /\ ~pollMutex /\ activeJobs + budget[s] <= MaxJobs
    /\ pollMutex => jobStream = NoStream /\ activeJobs + amount <= MaxJobs
    /\ activeJobs <= MaxJobs

\* Steps of the tasks leave the streams alone and never raise the counter.
LEMMA TaskStepWire ==
    ASSUME WireInv, NEW t \in Tasks, Act(t) \/ Answer(t)
    PROVE  WireInv'
<1>0. TaskInv'  BY TaskStepType DEF WireInv
<1>1. PICK st \in Active, cs \in SUBSET Commands :
         Quietly(t, st, cs) \/ Draining(t, st, cs)
  BY TaskStepForm DEF WireInv
<1>2. UNCHANGED <<streamVars, pollVars>>  BY <1>1 DEF Quietly, Draining, Move
<1>3. activeJobs' = activeJobs \/ activeJobs' = activeJobs - 1
  BY <1>1 DEF Quietly, Draining, drainOne, capacityVars
<1>4. activeJobs' <= MaxJobs /\ \A n \in Nat : activeJobs + n <= MaxJobs => activeJobs' + n <= MaxJobs
  BY <1>3, MaxJobsAssumption DEF WireInv, TaskInv, TypeOK
<1>5. /\ jobStream' = jobStream /\ streams' = streams /\ budget' = budget
      /\ backoffs' = backoffs /\ pollMutex' = pollMutex /\ amount' = amount
  BY <1>2 DEF streamVars, pollVars
<1>6. amount \in Nat /\ \A s \in Streams : budget[s] \in Nat
  BY DEF WireInv, TaskInv, TypeOK
<1>. QED
  BY <1>0, <1>4, <1>5, <1>6 DEF WireInv

LEMMA WireStep ==
    ASSUME CleanWire, WireInv, [Next]_vars
    PROVE  WireInv'
<1>0. TaskInv' /\ TypeOK  BY TaskInvStep DEF WireInv, TaskInv
<1>. USE MaxJobsAssumption, StreamsAssumption
<1>1. CASE PollStart
  <2>1. \A s \in Streams : streams[s] = "free"
    BY <1>1 DEF PollStart, WireInv
  <2>2. activeJobs + amount' <= MaxJobs
    BY <1>0, <1>1 DEF PollStart, TypeOK
  <2>. QED
    BY <1>0, <1>1, <2>1, <2>2 DEF PollStart, WireInv, capacityVars, streamVars
<1>2. ASSUME NEW s \in Streams, NEW k \in {"live", "dead"}, PollOpen(s, k)
      PROVE  WireInv'
  <2>1. \A r \in Streams : r # s => streams'[r] = "free"
    BY <1>0, <1>2 DEF PollOpen, WireInv, TypeOK
  <2>2. streams'[s] = k /\ budget'[s] = amount
    BY <1>0, <1>2 DEF PollOpen, TypeOK
  <2>. QED
    BY <1>0, <1>2, <2>1, <2>2 DEF PollOpen, WireInv, TypeOK, capacityVars
<1>3. CASE PollFail
  BY <1>0, <1>3 DEF PollFail, WireInv, capacityVars, streamVars
<1>4. ASSUME NEW s \in Streams, NEW ts \in SUBSET Tasks, NEW st, Deliver(s, ts, st)
      PROVE  WireInv'
  <2>1. Cardinality(ts) \in Nat  BY SubsetCardinality
  <2>2. streams[s] # "free" /\ \A r \in Streams : r # s => streams[r] = "free"
    BY <1>4 DEF Deliver, Serving, WireInv
  <2>3. activeJobs' + budget'[s] <= MaxJobs
    BY <1>0, <1>4, <2>1, <2>2 DEF Deliver, WireInv, TypeOK
  <2>4. activeJobs' <= MaxJobs
    BY <1>0, <2>3 DEF TaskInv, TypeOK
  <2>. QED
    BY <1>0, <1>4, <2>2, <2>3, <2>4 DEF Deliver, WireInv, pollVars
<1>5. ASSUME NEW s \in Streams,
             StreamEnd(s) \/ StreamTimeout(s) \/ \E o \in BOOLEAN : StreamError(s, o)
      PROVE  WireInv'
  <2>1. streams[s] # "free"
    BY <1>5 DEF StreamEnd, StreamError, StreamTimeout, Serving
  <2>2. \A r \in Streams : streams'[r] = "free"
    BY <1>0, <1>5, <2>1 DEF StreamEnd, StreamError, StreamTimeout,
       Serving, WireInv, TypeOK, CleanWire
  <2>3. ~pollMutex' /\ UNCHANGED capacityVars
    BY <1>5, <2>1 DEF StreamEnd, StreamError, StreamTimeout, WireInv, pollVars
  <2>4. backoffs' = 0
    BY <1>5 DEF StreamEnd, StreamError, StreamTimeout, WireInv, CleanWire
  <2>. QED
    BY <1>0, <2>2, <2>3, <2>4 DEF WireInv, capacityVars
<1>6. CASE BackoffFires
  BY <1>6 DEF BackoffFires, WireInv
<1>7. ASSUME NEW t \in Tasks, Act(t) \/ Answer(t) PROVE WireInv'
  BY <1>7, TaskStepWire
<1>8. CASE Close
  BY <1>0, <1>8 DEF Close, WireInv, streamVars, pollVars
<1>9. CASE ChannelCloses
  <2>1. \A s \in Streams : streams'[s] # "free" =>
           streams[s] # "free" /\ jobStream' = jobStream /\ budget'[s] = budget[s]
    BY <1>0, <1>9 DEF ChannelCloses, WireInv, TypeOK
  <2>2. /\ activeJobs' = activeJobs /\ backoffs' = backoffs
        /\ pollMutex' = pollMutex /\ amount' = amount
    BY <1>9 DEF ChannelCloses, pollVars
  <2>3. pollMutex => jobStream' = NoStream  BY <1>9 DEF ChannelCloses, WireInv
  <2>4. \A s \in Streams : streams'[s] \in {"free", "live", "dead"}
    BY <1>0, <1>9 DEF ChannelCloses, WireInv, TypeOK
  <2>. QED
    BY <1>0, <2>1, <2>2, <2>3, <2>4 DEF WireInv
<1>10. CASE UNCHANGED vars
  BY <1>0, <1>10 DEF vars, WireInv, capacityVars, streamVars, pollVars
<1>11. ASSUME NEW s \in Streams, StreamSilenced(s) PROVE WireInv'
  <2>1. /\ streams[s] = "live"
        /\ \A r \in Streams : r # s => streams[r] = "free"
    BY <1>11 DEF StreamSilenced, Serving, WireInv
  <2>2. activeJobs + 0 <= MaxJobs /\ budget'[s] = 0
    BY <1>0, <1>11 DEF StreamSilenced, WireInv, TypeOK
  <2>. QED
    BY <1>0, <1>11, <2>1, <2>2 DEF StreamSilenced, WireInv, TypeOK, capacityVars, pollVars
<1>. QED
  BY <1>1, <1>2, <1>3, <1>4, <1>5, <1>6, <1>7, <1>8, <1>9, <1>10, <1>11
  DEF Next, PollAnswer, StreamCloses, StreamData, StreamDataMalformed

LEMMA WireInvariant == ASSUME CleanWire PROVE Spec => []WireInv
<1>1. Init => WireInv
  BY TaskInit, MaxJobsAssumption DEF Init, WireInv
<1>2. WireInv /\ [Next]_vars => WireInv'  BY WireStep
<1>. QED  BY <1>1, <1>2, PTL DEF Spec

\* Where the gateway is neither overloaded nor late, no second ActivateJobs
\* call is started while one is under way, whatever the handlers do.
THEOREM OneRequest ==
    ASSUME CleanWire PROVE Spec => []OneRequestOutstanding
<1>1. WireInv => OneRequestOutstanding
  BY DEF WireInv, OneRequestOutstanding, Serving
<1>. QED  BY <1>1, WireInvariant, PTL

\* There, and with the counter exact, the jobs really worked on are within the
\* maximum.
THEOREM ConcurrencyIsBounded ==
    ASSUME Disciplined, CleanWire PROVE Spec => []ConcurrencyBounded
<1>1. WireInv /\ CapacityAccounted => ConcurrencyBounded
  BY DEF WireInv, CapacityAccounted, ConcurrencyBounded
<1>. QED  BY <1>1, WireInvariant, CapacityIsAccounted, PTL

-----------------------------------------------------------------------------
(* The reference to the stream, on any wire: a call whose 'end' came from the *)
(* client-side timeout has lost it, and a call that ends clears it.           *)

LEMMA ReferenceStep ==
    ASSUME TaskInv, NoStaleStream, [Next]_vars
    PROVE  NoStaleStream'
<1>. USE StreamsAssumption DEF NoStaleStream, TaskInv
<1>1. CASE UNCHANGED streamVars
  BY <1>1 DEF streamVars
<1>2. ASSUME NEW s \in Streams, NEW k \in {"live", "dead"}, PollOpen(s, k)
      PROVE  NoStaleStream'
  BY <1>2 DEF PollOpen, TypeOK
<1>3. ASSUME NEW s \in Streams, NEW ts \in SUBSET Tasks, NEW st, Deliver(s, ts, st)
      PROVE  NoStaleStream'
  BY <1>3 DEF Deliver
<1>4. CASE jobStream' = NoStream
  BY <1>4
<1>5. ASSUME NEW s \in Streams, StreamSilenced(s) PROVE NoStaleStream'
  BY <1>5 DEF StreamSilenced, Serving, TypeOK
<1>6. ASSUME NEW s \in Streams,
             StreamEnd(s) \/ StreamTimeout(s) \/ \E o \in BOOLEAN : StreamError(s, o)
      PROVE  NoStaleStream'
  BY <1>4, <1>6 DEF StreamEnd, StreamTimeout, StreamError, handleStreamEnd
<1>7. CASE BackoffFires
  BY <1>4, <1>7 DEF BackoffFires, handleStreamEnd
<1>8. CASE ChannelCloses
  BY <1>1, <1>4, <1>8 DEF ChannelCloses, streamVars
<1>9. ASSUME NEW t \in Tasks, Act(t) \/ Answer(t) PROVE UNCHANGED streamVars
  BY <1>9, TaskStepForm DEF Quietly, Draining, Move
<1>10. CASE PollStart \/ PollFail \/ Close \/ UNCHANGED vars
  BY <1>1, <1>10 DEF PollStart, PollFail, Close, vars
<1>. QED
  BY <1>1, <1>2, <1>3, <1>5, <1>6, <1>7, <1>8, <1>9, <1>10
  DEF Next, PollAnswer, StreamCloses, StreamData, StreamDataMalformed

\* No reference to a call that has ended blocks polling for ever, whatever
\* handlers, gateway and library do.
THEOREM ReferenceIsCleared == Spec => []NoStaleStream
<1>1. Init => NoStaleStream  BY DEF Init, NoStaleStream
<1>2. TaskInv /\ NoStaleStream /\ [Next]_vars => NoStaleStream'  BY ReferenceStep
<1>. QED  BY <1>1, <1>2, TaskInvariant, PTL DEF Spec

-----------------------------------------------------------------------------
(* The contract: every step accepts jobs, releases one, shuts the worker,   *)
(* resolves its promise, or changes nothing the contract can see.           *)

Phase == IF ~closing THEN "open"
         ELSE IF closePromise = "resolved" THEN "closed" ELSE "closing"

LEMMA StutterContract ==
    ASSUME Held' = Held, Phase' = Phase
    PROVE  [Contract!ContractNext]_(Contract!contractVars)
  BY DEF Contract!contractVars, Phase

LEMMA ReleaseContract ==
    ASSUME NEW t \in Tasks, t \in Held, Held' = Held \ {t}, Phase' = Phase
    PROVE  Contract!ContractNext
  BY DEF Contract!ContractNext, Contract!Release, Phase

LEMMA AcceptContract ==
    ASSUME NEW ts \in SUBSET Tasks, ts # {}, ts \cap Held = {},
           Held' = Held \cup ts, ~closing, Phase' = Phase
    PROVE  Contract!ContractNext
<1>1. Contract!Accept(ts)  BY DEF Contract!Accept, Phase
<1>. QED  BY <1>1 DEF Contract!ContractNext

\* drainOne() may move close() along, but not to its end.
LEMMA DrainPhase == drainOne => Phase' = Phase
  BY DEF drainOne, Phase, closing

LEMMA ContractStep ==
    ASSUME Disciplined, AccountInv, AccountInv', [Next]_vars
    PROVE  [Contract!ContractNext]_(Contract!contractVars)
<1>0. Held = Counted /\ Held' = Counted' /\ TypeOK
  <2>1. Held = Counted  BY HeldIsCounted DEF AccountInv
  <2>2. LeakFree'  BY DEF AccountInv
  <2>3. Held' = Counted'  BY <2>2 DEF LeakFree, Held, Leaked, Counted
  <2>. QED  BY <2>1, <2>3 DEF AccountInv, TaskInv
<1>1. ASSUME UNCHANGED <<closePromise, taskVars>>
      PROVE  [Contract!ContractNext]_(Contract!contractVars)
  <2>1. Held' = Held  BY <1>0, <1>1 DEF Counted, taskVars
  <2>. QED  BY <1>1, <2>1, StutterContract DEF Phase, closing
<1>2. ASSUME NEW s \in Streams, NEW ts \in SUBSET Tasks,
             NEW st \in {"running", "leaked"}, Deliver(s, ts, st)
      PROVE  [Contract!ContractNext]_(Contract!contractVars)
  <2>1. CASE closing
    BY <1>1, <1>2, <2>1 DEF Deliver, taskVars
  <2>2. CASE ~closing
    <3>1. Held' = Held \cup ts /\ ts \cap Held = {}
      BY <1>0, <1>2, <2>2, CountedGrows DEF Deliver
    <3>2. ts # {} /\ Phase' = Phase  BY <1>2 DEF Deliver, Phase, closing
    <3>. QED  BY <2>2, <3>1, <3>2, AcceptContract
  <2>. QED  BY <2>1, <2>2
<1>3. CASE Close
  <2>1. Held' = Held  BY <1>0, <1>3 DEF Close, Counted, taskVars
  <2>2. Contract!Shut
    BY <1>3, <2>1 DEF Close, closing, Contract!Shut
  <2>. QED  BY <2>2 DEF Contract!ContractNext
<1>4. CASE ChannelCloses
  <2>1. Held' = Held /\ Held = {}
    BY <1>0, <1>4 DEF ChannelCloses, Counted, taskVars, AccountInv, channelClosed
  <2>2. Contract!Resolve
    BY <1>4, <2>1 DEF ChannelCloses, closing, Contract!Resolve
  <2>. QED  BY <2>2 DEF Contract!ContractNext
<1>5. CASE PollStart \/ PollAnswer \/ BackoffFires
  BY <1>1, <1>5, PollStepQuiet DEF capacityVars
<1>6. ASSUME NEW s \in Streams, StreamCloses(s) \/ StreamTimeout(s)
      PROVE  [Contract!ContractNext]_(Contract!contractVars)
  BY <1>1, <1>6, WireStepQuiet DEF capacityVars
<1>7. ASSUME NEW t \in Tasks, Act(t) \/ Answer(t)
      PROVE  [Contract!ContractNext]_(Contract!contractVars)
  <2>1. tasks[t] \in Active /\ \E st \in Active, cs \in SUBSET Commands :
           \/ Quietly(t, st, cs)
           \/ Draining(t, st, cs) /\ t \in Counted
    BY <1>7, DisciplinedStep
  <2>2. ASSUME NEW st \in Active, NEW cs \in SUBSET Commands, Quietly(t, st, cs)
        PROVE  [Contract!ContractNext]_(Contract!contractVars)
    <3>1. Counted' = Counted /\ UNCHANGED capacityVars
      BY <1>0, <2>1, <2>2, QuietCounted DEF Quietly
    <3>. QED  BY <1>0, <3>1, StutterContract DEF capacityVars, Phase, closing
  <2>3. ASSUME NEW st \in Active, NEW cs \in SUBSET Commands,
               Draining(t, st, cs), t \in Counted
        PROVE  [Contract!ContractNext]_(Contract!contractVars)
    <3>1. Counted' = Counted \ {t} /\ drainOne
      BY <1>0, <2>1, <2>3, DrainCounted DEF Draining
    <3>. QED  BY <1>0, <2>3, <3>1, DrainPhase, ReleaseContract
  <2>. QED  BY <2>1, <2>2, <2>3
<1>8. CASE UNCHANGED vars
  BY <1>1, <1>8 DEF vars, capacityVars
<1>. QED
  BY <1>2, <1>3, <1>4, <1>5, <1>6, <1>7, <1>8
  DEF Next, StreamData, StreamDataMalformed

\* The worker implements its contract whatever the wire does, as long as its
\* handlers are disciplined: it accepts jobs only while open, lets each go
\* once, and resolves close() only with empty hands.
THEOREM WorkerImplementsContract ==
    ASSUME Disciplined PROVE Spec => ImplementsContract
<1>1. Init => Contract!ContractInit
  BY DEF Init, Contract!ContractInit, Held, Counted, closing
<1>2. AccountInv /\ AccountInv' /\ [Next]_vars
         => [Contract!ContractNext]_(Contract!contractVars)
  BY ContractStep
<1>. QED
  BY <1>1, <1>2, AccountInvariant, PTL
  DEF Spec, ImplementsContract, Contract!ContractSpec

\* From close() on, no job reaches a handler (it is what the contract's
\* guard of Accept says of the code).
THEOREM NoWorkAfterCloseIsKept == Spec => NoWorkAfterClose
<1>1. TaskInv /\ [Next]_vars =>
        [closing => \A t \in Tasks : tasks[t] = "idle" => tasks'[t] = "idle"]_vars
  <2>. SUFFICES ASSUME TaskInv, Next, closing, NEW t \in Tasks, tasks[t] = "idle"
                PROVE  tasks'[t] = "idle"
    BY DEF vars
  <2>1. ASSUME NEW u \in Tasks, Act(u) \/ Answer(u) PROVE tasks'[t] = "idle"
    <3>1. tasks[u] # "idle"  BY <2>1, TaskStepForm DEF Active
    <3>2. \E x : tasks' = [tasks EXCEPT ![u] = x]
      BY <2>1, TaskStepForm DEF Quietly, Draining, Move
    <3>. QED  BY <3>1, <3>2 DEF TaskInv, TypeOK
  <2>2. ASSUME NEW s \in Streams, NEW ts \in SUBSET Tasks, NEW st, Deliver(s, ts, st)
        PROVE  tasks'[t] = "idle"
    BY <2>2 DEF Deliver
  <2>3. CASE UNCHANGED taskVars  BY <2>3 DEF taskVars
  <2>. QED
    BY <2>1, <2>2, <2>3, PollStepQuiet, WireStepQuiet
    DEF Next, StreamData, StreamDataMalformed, Close, ChannelCloses
<1>. QED  BY <1>1, TaskInvariant, PTL DEF Spec, NoWorkAfterClose
=============================================================================
