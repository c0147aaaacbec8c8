-------------------------- MODULE JobBatchingProofs --------------------------
(* What TLAPS proves about JobBatching, for any number of jobs, any batch  *)
(* size and any time limit.                                                *)
EXTENDS JobBatching, FiniteSetTheorems, FunctionTheorems, SequenceTheorems, TLAPS

(* The invariant, one part for each thing that keeps the others true. *)
Queued == {j \in Jobs : job[j] = "queued"}
QueueOK == Range(batchedJobs) \subseteq Queued
CountOK == activeJobs = Cardinality(Held)
RequestOK == request # Off => activeJobs + request <= MaxJobs
IdleOK == batchedJobs = <<>> => timer = Off /\ waited = 0
PhaseOK == phase \in {"emptied", "closed"} => activeJobs = 0
BatchInv == /\ BatchTypeOK
            /\ QueueOK /\ CountOK /\ RequestOK /\ PhaseOK
            /\ IdleOK /\ TimerMeasuresOldest /\ HandedOnceInOrder

-----------------------------------------------------------------------------
(* Facts about responses and counting. *)

LEMMA HeldIsFinite ==
    /\ IsFiniteSet(Held) /\ Held \subseteq Jobs
    /\ Cardinality(Held) \in Nat
<1>1. Held \subseteq Jobs  BY DEF Held
<1>. QED  BY <1>1, BatchAssumption, FS_Subset, FS_CardinalityType

LEMMA RangeOfConcat ==
    ASSUME NEW s \in Seq(Jobs), NEW t \in Seq(Jobs)
    PROVE  Range(s \o t) = Range(s) \cup Range(t)
<1>1. /\ s \o t \in Seq(Jobs) /\ DOMAIN (s \o t) = 1..(Len(s) + Len(t))
      /\ DOMAIN s = 1..Len(s) /\ DOMAIN t = 1..Len(t) /\ Len(s) \in Nat /\ Len(t) \in Nat
  BY ConcatProperties, LenProperties
<1>2. \A i \in 1..(Len(s) + Len(t)) :
         (s \o t)[i] = IF i <= Len(s) THEN s[i] ELSE t[i - Len(s)]
  BY ConcatProperties
<1>3. ASSUME NEW x \in Range(s \o t) PROVE x \in Range(s) \cup Range(t)
  <2>1. PICK i \in 1..(Len(s) + Len(t)) : x = (s \o t)[i]  BY <1>1, <1>3 DEF Range
  <2>2. CASE i <= Len(s)
    <3>1. i \in DOMAIN s /\ x = s[i]  BY <1>1, <1>2, <2>1, <2>2
    <3>. QED  BY <3>1 DEF Range
  <2>3. CASE ~(i <= Len(s))
    <3>1. i - Len(s) \in DOMAIN t /\ x = t[i - Len(s)]  BY <1>1, <1>2, <2>1, <2>3
    <3>. QED  BY <3>1 DEF Range
  <2>. QED  BY <2>2, <2>3
<1>4. ASSUME NEW x \in Range(s) PROVE x \in Range(s \o t)
  <2>1. PICK i \in 1..Len(s) : x = s[i]  BY <1>1, <1>4 DEF Range
  <2>2. i \in DOMAIN (s \o t) /\ (s \o t)[i] = x  BY <1>1, <1>2, <2>1
  <2>. QED  BY <2>2 DEF Range
<1>5. ASSUME NEW x \in Range(t) PROVE x \in Range(s \o t)
  <2>1. PICK i \in 1..Len(t) : x = t[i]  BY <1>1, <1>5 DEF Range
  <2>2. i + Len(s) \in 1..(Len(s) + Len(t)) /\ ~(i + Len(s) <= Len(s)) /\ (i + Len(s)) - Len(s) = i
    BY <1>1, <2>1
  <2>3. i + Len(s) \in DOMAIN (s \o t) /\ (s \o t)[i + Len(s)] = x  BY <1>1, <1>2, <2>1, <2>2
  <2>. QED  BY <2>3 DEF Range
<1>. QED  BY <1>3, <1>4, <1>5

LEMMA EmptyRange == Range(<<>>) = {}
<1>1. DOMAIN <<>> = {}  OBVIOUS
<1>. QED  BY <1>1 DEF Range

\* A response is a sequence of different jobs, at least one.
LEMMA ResponseFacts ==
    ASSUME NEW jobs \in Responses
    PROVE  /\ jobs \in Seq(Jobs) /\ Len(jobs) \in Nat \ {0}
           /\ Range(jobs) \subseteq Jobs /\ Range(jobs) # {}
           /\ IsFiniteSet(Range(jobs)) /\ Cardinality(Range(jobs)) = Len(jobs)
<1>0. Cardinality(Jobs) \in Nat  BY BatchAssumption, FS_CardinalityType
<1>1. PICK n \in 1..Cardinality(Jobs) : jobs \in Injection(1..n, Jobs)
  BY DEF Responses
<1>2. n \in Nat \ {0} /\ jobs \in [1..n -> Jobs]  BY <1>0, <1>1, Fun_InjectionProperties
<1>3. jobs \in Seq(Jobs) /\ Len(jobs) = n  BY <1>2
<1>4. Range(jobs) \subseteq Jobs  BY <1>2, Fun_RangeProperties
<1>5. jobs \in Bijection(1..n, Range(jobs))  BY <1>1, Fun_InjMeansBijImage
<1>6. ExistsBijection(1..n, Range(jobs))  BY <1>5, Fun_ExistsBij
<1>7. IsFiniteSet(1..n) /\ Cardinality(1..n) = n  BY <1>2, FS_Interval
<1>8. IsFiniteSet(Range(jobs)) /\ Cardinality(Range(jobs)) = n  BY <1>6, <1>7, FS_Bijection
<1>9. Range(jobs) # {}  BY <1>2, <1>8, FS_EmptySet
<1>. QED  BY <1>2, <1>3, <1>4, <1>8, <1>9

-----------------------------------------------------------------------------
(* What the batcher does to queue, timer and jobs. *)

QueueTypeOK ==
    /\ batchedJobs \in Seq(Jobs) /\ handed \in Seq(Jobs)
    /\ timer \in {Off} \cup 0..MaxTime /\ waited \in 0..MaxTime
    /\ job \in [Jobs -> {"available", "queued", "working", "abandoned", "done"}]

LEMMA ExecuteFacts ==
    ASSUME BatchTypeOK, NEW queue \in Seq(Jobs), execute(queue)
    PROVE  /\ QueueTypeOK' /\ QueueOK' /\ IdleOK' /\ TimerMeasuresOldest'
           /\ Held' = Held \cup Range(queue)
           /\ handed' \o batchedJobs' = handed \o queue
<1>1. batchedJobs' = <<>> /\ timer' = Off /\ waited' = 0 /\ handed' = handed \o queue
      /\ job' = [j \in Jobs |-> IF j \in Range(queue) THEN "working" ELSE job[j]]
  BY DEF execute
<1>2. Range(queue) \subseteq Jobs
  BY LenProperties, Fun_RangeProperties
<1>3. handed' \in Seq(Jobs) /\ handed' \o <<>> = handed'
  BY <1>1, ConcatProperties, ConcatEmptySeq DEF BatchTypeOK
<1>4. batchedJobs' \in Seq(Jobs)  BY <1>1, EmptySeq
<1>5. job' \in [Jobs -> {"available", "queued", "working", "abandoned", "done"}]
  BY <1>1 DEF BatchTypeOK
<1>6. QueueTypeOK'  BY <1>1, <1>3, <1>4, <1>5, BatchAssumption DEF QueueTypeOK, Off
<1>7. Held' = Held \cup Range(queue)  BY <1>1, <1>2 DEF Held
<1>8. QueueOK'  BY <1>1, EmptyRange DEF QueueOK
<1>. QED  BY <1>1, <1>3, <1>6, <1>7, <1>8 DEF IdleOK, TimerMeasuresOldest

LEMMA EnqueueFacts ==
    ASSUME BatchTypeOK, QueueOK, IdleOK, TimerMeasuresOldest,
           NEW jobs \in Responses, enqueue(jobs)
    PROVE  /\ QueueTypeOK' /\ QueueOK' /\ IdleOK' /\ TimerMeasuresOldest'
           /\ Held' = Held \cup Range(jobs)
           /\ handed' \o batchedJobs' = handed \o (batchedJobs \o jobs)
<1>1. /\ timer' = IF timer = Off THEN MaxTime ELSE timer
      /\ batchedJobs' = batchedJobs \o jobs /\ handed' = handed /\ waited' = waited
      /\ job' = [j \in Jobs |-> IF j \in Range(jobs) THEN "queued" ELSE job[j]]
  BY DEF enqueue
<1>2. jobs \in Seq(Jobs) /\ Range(jobs) \subseteq Jobs /\ jobs # <<>>
  BY ResponseFacts, EmptyRange
<1>3. batchedJobs' \in Seq(Jobs)  BY <1>1, <1>2, ConcatProperties DEF BatchTypeOK
<1>4. batchedJobs' # <<>>
  BY <1>1, <1>2, ConcatEqualIffEmpty DEF BatchTypeOK
<1>5. job' \in [Jobs -> {"available", "queued", "working", "abandoned", "done"}]
  BY <1>1 DEF BatchTypeOK
<1>6. timer' \in {Off} \cup 0..MaxTime /\ waited' \in 0..MaxTime
  BY <1>1, BatchAssumption DEF BatchTypeOK
<1>7. TimerMeasuresOldest'
  <2>1. timer' # Off /\ waited' + timer' = MaxTime
    <3>1. CASE batchedJobs = <<>>
      BY <3>1, <1>1, BatchAssumption DEF IdleOK, Off
    <3>2. CASE batchedJobs # <<>>
      BY <3>2, <1>1 DEF TimerMeasuresOldest
    <3>. QED  BY <3>1, <3>2
  <2>. QED  BY <2>1 DEF TimerMeasuresOldest
<1>8. Held' = Held \cup Range(jobs)  BY <1>1, <1>2 DEF Held
<1>9. QueueOK'
  <2>1. Range(batchedJobs') = Range(batchedJobs) \cup Range(jobs)
    BY <1>1, <1>2, RangeOfConcat DEF BatchTypeOK
  <2>. QED  BY <1>1, <1>2, <2>1 DEF QueueOK, Queued
<1>. QED  BY <1>1, <1>3, <1>4, <1>5, <1>6, <1>7, <1>8, <1>9
       DEF QueueTypeOK, IdleOK, BatchTypeOK

\* A response adds its jobs to those held and to the end of the order.
LEMMA DeliverFacts ==
    ASSUME BatchInv, NEW jobs \in Responses, Deliver(jobs)
    PROVE  /\ QueueTypeOK' /\ QueueOK' /\ IdleOK' /\ TimerMeasuresOldest'
           /\ Held' = Held \cup Range(jobs) /\ Range(jobs) \cap Held = {}
           /\ handed' \o batchedJobs' = handed \o (batchedJobs \o jobs)
<1>1. jobs \in Seq(Jobs) /\ batchedJobs \o jobs \in Seq(Jobs)
  BY ResponseFacts, ConcatProperties DEF BatchInv, BatchTypeOK
<1>2. Range(jobs) \cap Held = {}  BY DEF Deliver, Held
<1>3. CASE execute(batchedJobs \o jobs)
  <2>1. Held' = Held \cup Range(batchedJobs \o jobs)
    BY <1>1, <1>3, ExecuteFacts DEF BatchInv
  <2>2. Range(batchedJobs \o jobs) = Range(batchedJobs) \cup Range(jobs)
    BY <1>1, RangeOfConcat DEF BatchInv, BatchTypeOK
  <2>3. Range(batchedJobs) \subseteq Held  BY DEF BatchInv, QueueOK, Queued, Held
  <2>4. Held' = Held \cup Range(jobs)  BY <2>1, <2>2, <2>3
  <2>. QED  BY <1>1, <1>2, <1>3, <2>4, ExecuteFacts DEF BatchInv
<1>4. CASE enqueue(jobs)
  BY <1>2, <1>4, EnqueueFacts DEF BatchInv
<1>. QED  BY <1>3, <1>4 DEF Deliver, batch

-----------------------------------------------------------------------------
(* The invariant is inductive. *)

LEMMA BatchInvInit == BatchInit => BatchInv
<1>. SUFFICES ASSUME BatchInit PROVE BatchInv  OBVIOUS
<1>1. <<>> \in Seq(Jobs) /\ <<>> \o <<>> = <<>>  BY EmptySeq, ConcatEmptySeq
<1>2. Held = {}  BY DEF BatchInit, Held
<1>3. BatchTypeOK  BY <1>1, BatchAssumption DEF BatchInit, BatchTypeOK, Off
<1>4. CountOK  BY <1>2, FS_EmptySet DEF CountOK, BatchInit
<1>5. QueueOK  BY EmptyRange DEF QueueOK, BatchInit
<1>. QED  BY <1>1, <1>3, <1>4, <1>5
       DEF BatchInit, BatchInv, RequestOK, PhaseOK, IdleOK, TimerMeasuresOldest, HandedOnceInOrder

LEMMA TimerFiresKeeps == BatchInv /\ TimerFires => BatchInv'
<1>. SUFFICES ASSUME BatchInv, TimerFires PROVE BatchInv'  OBVIOUS
<1>1. batchedJobs \in Seq(Jobs) /\ execute(batchedJobs)
      /\ activeJobs' = activeJobs /\ request' = request /\ phase' = phase /\ arrived' = arrived
  BY DEF BatchInv, BatchTypeOK, TimerFires
<1>2. /\ QueueTypeOK' /\ QueueOK' /\ IdleOK' /\ TimerMeasuresOldest'
      /\ Held' = Held \cup Range(batchedJobs)
      /\ handed' \o batchedJobs' = handed \o batchedJobs
  BY <1>1, ExecuteFacts DEF BatchInv
<1>3. Held' = Held  BY <1>2 DEF BatchInv, QueueOK, Queued, Held
<1>4. BatchTypeOK'  BY <1>1, <1>2 DEF BatchInv, BatchTypeOK, QueueTypeOK
<1>. QED  BY <1>1, <1>2, <1>3, <1>4
       DEF BatchInv, CountOK, RequestOK, PhaseOK, HandedOnceInOrder

LEMMA DeliverKeeps == ASSUME BatchInv, NEW jobs \in Responses, Deliver(jobs) PROVE BatchInv'
<1>. USE DEF BatchInv
<1>1. /\ phase = "open" /\ phase' = "open" /\ request # Off /\ Len(jobs) <= request
      /\ request' = request - Len(jobs) /\ activeJobs' = activeJobs + Len(jobs)
      /\ arrived' = arrived \o jobs
  BY DEF Deliver, BatchTypeOK
<1>2. jobs \in Seq(Jobs) /\ Len(jobs) \in Nat \ {0} /\ IsFiniteSet(Range(jobs))
      /\ Cardinality(Range(jobs)) = Len(jobs)
  BY ResponseFacts
<1>3. /\ request \in 0..MaxJobs /\ activeJobs \in 0..MaxJobs /\ MaxJobs \in Nat
      /\ activeJobs + request <= MaxJobs
  BY <1>1, BatchAssumption DEF BatchTypeOK, RequestOK, Off
<1>4. request' \in 0..MaxJobs /\ activeJobs' \in 0..MaxJobs /\ activeJobs' + request' <= MaxJobs
  BY <1>1, <1>2, <1>3
<1>5. arrived' \in Seq(Jobs)  BY <1>1, <1>2, ConcatProperties DEF BatchTypeOK
<1>6. BatchTypeOK'  BY <1>1, <1>4, <1>5, DeliverFacts DEF BatchTypeOK, QueueTypeOK
<1>7. CountOK'
  <2>1. Held' = Held \cup Range(jobs) /\ Held \cap Range(jobs) = {}  BY DeliverFacts
  <2>2. Cardinality(Held \cup Range(jobs)) = Cardinality(Held) + Cardinality(Range(jobs))
    <3>1. Cardinality(Held \cap Range(jobs)) = 0  BY <2>1, FS_EmptySet
    <3>2. Cardinality(Held) \in Nat /\ Cardinality(Range(jobs)) \in Nat
      BY <1>2, HeldIsFinite
    <3>3. Cardinality(Held \cup Range(jobs)) =
            Cardinality(Held) + Cardinality(Range(jobs)) - Cardinality(Held \cap Range(jobs))
      BY <1>2, HeldIsFinite, FS_Union
    <3>. QED  BY <3>1, <3>2, <3>3
  <2>. QED  BY <1>1, <1>2, <2>1, <2>2 DEF CountOK
<1>8. HandedOnceInOrder'
  <2>1. handed' \o batchedJobs' = (handed \o batchedJobs) \o jobs
    <3>1. handed \in Seq(Jobs) /\ batchedJobs \in Seq(Jobs)  BY DEF BatchTypeOK
    <3>2. (handed \o batchedJobs) \o jobs = handed \o (batchedJobs \o jobs)
      BY <1>2, <3>1, ConcatAssociative
    <3>3. handed' \o batchedJobs' = handed \o (batchedJobs \o jobs)  BY DeliverFacts
    <3>. QED  BY <3>2, <3>3, Zenon
  <2>. QED  BY <1>1, <2>1 DEF HandedOnceInOrder
<1>9. QueueOK' /\ IdleOK' /\ TimerMeasuresOldest'  BY DeliverFacts
<1>10. RequestOK' /\ PhaseOK'  BY <1>1, <1>4 DEF RequestOK, PhaseOK
<1>. QED  BY <1>6, <1>7, <1>8, <1>9, <1>10

LEMMA SettleKeeps == ASSUME BatchInv, NEW j \in Jobs, Settle(j) PROVE BatchInv' /\ Held' = Held \ {j}
<1>. USE DEF BatchInv
<1>1. /\ job[j] = "working" /\ job' = [job EXCEPT ![j] = "done"] /\ activeJobs' = activeJobs - 1
      /\ UNCHANGED <<batchedJobs, timer, handed, waited, request, arrived>>
  BY DEF Settle, queueVars
<1>2. j \in Held /\ Held' = Held \ {j}  BY <1>1 DEF Held, BatchTypeOK
<1>3. CountOK' /\ activeJobs > 0
  <2>1. Cardinality(Held \ {j}) = Cardinality(Held) - 1  BY <1>2, HeldIsFinite, FS_RemoveElement
  <2>2. Cardinality(Held) # 0  BY <1>2, HeldIsFinite, FS_EmptySet
  <2>. QED  BY <1>1, <1>2, <2>1, <2>2, HeldIsFinite DEF CountOK
<1>4. /\ phase' \in {"open", "closing", "emptied", "closed"}
      /\ phase' \in {"emptied", "closed"} => activeJobs' = 0
  BY <1>1, <1>3 DEF Settle, PhaseOK, BatchTypeOK
<1>5. activeJobs' \in 0..MaxJobs  BY <1>1, <1>3, BatchAssumption DEF BatchTypeOK
<1>6. job' \in [Jobs -> {"available", "queued", "working", "abandoned", "done"}]
  BY <1>1 DEF BatchTypeOK
<1>7. BatchTypeOK'  BY <1>1, <1>4, <1>5, <1>6 DEF BatchTypeOK
<1>8. QueueOK'  BY <1>1 DEF QueueOK, Queued, BatchTypeOK
<1>9. RequestOK'
  <2>1. CASE request = Off  BY <1>1, <2>1 DEF RequestOK
  <2>2. CASE request # Off
    BY <1>1, <2>2, BatchAssumption DEF RequestOK, BatchTypeOK, Off
  <2>. QED  BY <2>1, <2>2
<1>. QED  BY <1>1, <1>2, <1>3, <1>4, <1>7, <1>8, <1>9
       DEF PhaseOK, IdleOK, TimerMeasuresOldest, HandedOnceInOrder

LEMMA AbandonKeeps == ASSUME BatchInv, NEW j \in Jobs, Abandon(j) PROVE BatchInv' /\ Held' = Held
<1>. USE DEF BatchInv
<1>1. /\ job[j] = "working" /\ job' = [job EXCEPT ![j] = "abandoned"]
      /\ UNCHANGED <<batchedJobs, timer, handed, waited, request, arrived, activeJobs, phase>>
  BY DEF Abandon, queueVars
<1>2. Held' = Held  BY <1>1 DEF Held, BatchTypeOK
<1>3. BatchTypeOK'  BY <1>1 DEF BatchTypeOK
<1>4. QueueOK'  BY <1>1 DEF QueueOK, Queued, BatchTypeOK
<1>. QED  BY <1>1, <1>2, <1>3, <1>4
       DEF CountOK, RequestOK, PhaseOK, IdleOK, TimerMeasuresOldest, HandedOnceInOrder

LEMMA TickKeeps == BatchInv /\ Tick => BatchInv'
<1>. SUFFICES ASSUME BatchInv, Tick PROVE BatchInv'  OBVIOUS
<1>. USE DEF BatchInv
<1>1. /\ timer # 0 /\ timer' = IF timer = Off THEN Off ELSE timer - 1
      /\ waited' = IF batchedJobs = <<>> THEN 0 ELSE waited + 1
      /\ UNCHANGED <<batchedJobs, handed, activeJobs, request, phase, job, arrived>>
  BY DEF Tick
<1>2. Held' = Held /\ Queued' = Queued  BY <1>1 DEF Held, Queued
<1>3. /\ timer' \in {Off} \cup 0..MaxTime /\ waited' \in 0..MaxTime
      /\ IdleOK' /\ TimerMeasuresOldest'
  <2>1. CASE batchedJobs = <<>>
    BY <1>1, <2>1, BatchAssumption DEF IdleOK, TimerMeasuresOldest, Off
  <2>2. CASE batchedJobs # <<>>
    <3>1. timer \in 1..MaxTime /\ waited + timer = MaxTime /\ waited \in 0..MaxTime /\ MaxTime \in Nat
      BY <1>1, <2>2, BatchAssumption DEF TimerMeasuresOldest, BatchTypeOK, Off
    <3>2. timer' = timer - 1 /\ waited' = waited + 1  BY <1>1, <2>2, <3>1 DEF Off
    <3>3. timer' \in 0..MaxTime /\ waited' \in 0..MaxTime /\ waited' + timer' = MaxTime /\ timer' # Off
      BY <3>1, <3>2 DEF Off
    <3>. QED  BY <1>1, <2>2, <3>3 DEF IdleOK, TimerMeasuresOldest
  <2>. QED  BY <2>1, <2>2
<1>4. BatchTypeOK'  BY <1>1, <1>3 DEF BatchTypeOK
<1>. QED  BY <1>1, <1>2, <1>3, <1>4
       DEF QueueOK, CountOK, RequestOK, PhaseOK, HandedOnceInOrder

LEMMA WorkerKeeps ==
    BatchInv /\ (Poll \/ StreamEnds \/ Close \/ ChannelCloses \/ UNCHANGED batchVars) => BatchInv'
<1>. SUFFICES ASSUME BatchInv, Poll \/ StreamEnds \/ Close \/ ChannelCloses \/ UNCHANGED batchVars
              PROVE  BatchInv'
  OBVIOUS
<1>. USE DEF BatchInv
<1>1. UNCHANGED <<batchedJobs, timer, handed, waited, activeJobs, job, arrived>>
  BY DEF Poll, StreamEnds, Close, ChannelCloses, batchVars, queueVars
<1>2. Held' = Held /\ Queued' = Queued  BY <1>1 DEF Held, Queued
<1>3. request' \in {Off} \cup 0..MaxJobs /\ (request' # Off => activeJobs' + request' <= MaxJobs)
  BY <1>1, BatchAssumption
     DEF Poll, StreamEnds, Close, ChannelCloses, batchVars, queueVars, BatchTypeOK, RequestOK, Off
<1>4. /\ phase' \in {"open", "closing", "emptied", "closed"}
      /\ phase' \in {"emptied", "closed"} => activeJobs' = 0
  BY <1>1, BatchAssumption
     DEF Poll, StreamEnds, Close, ChannelCloses, batchVars, queueVars, BatchTypeOK, PhaseOK
<1>5. BatchTypeOK'  BY <1>1, <1>3, <1>4 DEF BatchTypeOK
<1>. QED  BY <1>1, <1>2, <1>3, <1>4, <1>5
       DEF QueueOK, CountOK, RequestOK, PhaseOK, IdleOK, TimerMeasuresOldest, HandedOnceInOrder

LEMMA BatchInvStep == BatchInv /\ [BatchNext]_batchVars => BatchInv'
<1>. QED  BY TimerFiresKeeps, DeliverKeeps, SettleKeeps, AbandonKeeps, TickKeeps, WorkerKeeps
       DEF BatchNext

LEMMA BatchInvariant == BatchSpec => []BatchInv
<1>. QED  BY BatchInvInit, BatchInvStep, PTL DEF BatchSpec

\* Every variable keeps its type; the counter stays within maxJobsToActivate.
THEOREM BatchTypeCorrect == BatchSpec => []BatchTypeOK
<1>1. BatchInv => BatchTypeOK  BY DEF BatchInv
<1>. QED  BY <1>1, BatchInvariant, PTL

\* No job is lost, doubled or overtaken on its way through the queue
\* (JobBatcher batch, execute).
THEOREM QueueKeepsOrder == BatchSpec => []HandedOnceInOrder
<1>1. BatchInv => HandedOnceInOrder  BY DEF BatchInv
<1>. QED  BY <1>1, BatchInvariant, PTL

\* The one timer measures the wait of the oldest job (JobBatcher batch,
\* execute).
THEOREM TimerIsTheOldests == BatchSpec => []TimerMeasuresOldest
<1>1. BatchInv => TimerMeasuresOldest  BY DEF BatchInv
<1>. QED  BY <1>1, BatchInvariant, PTL

-----------------------------------------------------------------------------
(* A batch worker keeps the contract of a worker. *)

\* The phase of close() as the contract sees it.
PhaseSeen == IF phase = "emptied" THEN "closing" ELSE phase

LEMMA StutterContract ==
    ASSUME Held' = Held, PhaseSeen' = PhaseSeen
    PROVE  [Contract!ContractNext]_(Contract!contractVars)
  BY DEF Contract!contractVars, PhaseSeen

LEMMA ContractStep ==
    ASSUME BatchInv, [BatchNext]_batchVars
    PROVE  [Contract!ContractNext]_(Contract!contractVars)
<1>. USE DEF BatchInv
<1>1. ASSUME NEW jobs \in Responses, Deliver(jobs)
      PROVE  [Contract!ContractNext]_(Contract!contractVars)
  <2>1. Range(jobs) \in SUBSET Jobs /\ Range(jobs) # {}  BY ResponseFacts
  <2>2. Held' = Held \cup Range(jobs) /\ Range(jobs) \cap Held = {}  BY <1>1, DeliverFacts
  <2>3. phase = "open" /\ phase' = phase  BY <1>1 DEF Deliver
  <2>4. Contract!Accept(Range(jobs))  BY <2>1, <2>2, <2>3 DEF Contract!Accept
  <2>. QED  BY <2>1, <2>4 DEF Contract!ContractNext
<1>2. ASSUME NEW j \in Jobs, Settle(j)
      PROVE  [Contract!ContractNext]_(Contract!contractVars)
  <2>1. j \in Held /\ Held' = Held \ {j}
    BY <1>2, SettleKeeps DEF Settle, Held
  <2>2. PhaseSeen' = PhaseSeen  BY <1>2 DEF Settle, PhaseSeen
  <2>3. Contract!Release(j)  BY <2>1, <2>2 DEF Contract!Release, PhaseSeen
  <2>. QED  BY <2>3 DEF Contract!ContractNext
<1>3. ASSUME NEW j \in Jobs, Abandon(j)
      PROVE  [Contract!ContractNext]_(Contract!contractVars)
  <2>1. Held' = Held  BY <1>3, AbandonKeeps
  <2>2. PhaseSeen' = PhaseSeen  BY <1>3 DEF Abandon, PhaseSeen
  <2>. QED  BY <2>1, <2>2, StutterContract
<1>4. CASE TimerFires
  <2>1. batchedJobs \in Seq(Jobs) /\ execute(batchedJobs) /\ phase' = phase
    BY <1>4 DEF BatchTypeOK, TimerFires
  <2>2. Held' = Held
    BY <2>1, ExecuteFacts DEF QueueOK, Queued, Held
  <2>3. PhaseSeen' = PhaseSeen  BY <2>1 DEF PhaseSeen
  <2>. QED  BY <2>2, <2>3, StutterContract
<1>5. CASE Close
  <2>1. Held' = Held  BY <1>5 DEF Close, Held
  <2>2. Contract!Shut  BY <1>5, <2>1 DEF Close, Contract!Shut
  <2>. QED  BY <2>2 DEF Contract!ContractNext
<1>6. CASE ChannelCloses
  <2>1. Held' = Held  BY <1>6 DEF ChannelCloses, Held
  <2>2. Held = {}  BY <1>6, HeldIsFinite, FS_EmptySet DEF ChannelCloses, PhaseOK, CountOK
  <2>3. Contract!Resolve  BY <1>6, <2>1, <2>2 DEF ChannelCloses, Contract!Resolve
  <2>. QED  BY <2>3 DEF Contract!ContractNext
<1>7. CASE Poll \/ StreamEnds \/ Tick \/ UNCHANGED batchVars
  <2>1. job' = job /\ phase' = phase  BY <1>7 DEF Poll, StreamEnds, Tick, batchVars
  <2>2. Held' = Held /\ PhaseSeen' = PhaseSeen  BY <2>1 DEF Held, PhaseSeen
  <2>. QED  BY <2>2, StutterContract
<1>. QED  BY <1>1, <1>2, <1>3, <1>4, <1>5, <1>6, <1>7 DEF BatchNext

\* With batches too a worker takes on jobs only while it is open, and close()
\* resolves only when it holds none; whatever batches, timers and throwing
\* handlers do (JobBatcher, ZBWorkerBase close).
THEOREM BatchWorkerImplementsContract == BatchSpec => ImplementsContract
<1>1. BatchInit => Contract!ContractInit
  BY DEF BatchInit, Contract!ContractInit, Held
<1>. QED  BY <1>1, ContractStep, BatchInvariant, PTL
       DEF BatchSpec, ImplementsContract, Contract!ContractSpec
=============================================================================
