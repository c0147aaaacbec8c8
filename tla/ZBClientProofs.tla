--------------------------- MODULE ZBClientProofs ---------------------------
(***************************************************************************)
(* Theorems about ClientRequests, for any commands, options and edits: it  *)
(* is a client of CommandRetry, its payloads are converted once and the    *)
(* same at each attempt, and a message is published once.  And about the   *)
(* whole ZBClient: whatever holds of its commands alone holds beside any   *)
(* activations, these never lose a job by rejecting, and its tokens fit    *)
(* the gateway it connects to.                                             *)
(***************************************************************************)
EXTENDS ZBClient, CommandRetryProofs

\* A step of the client is one of CommandRetry, or none of its business.
LEMMA RequestStepIsRetryStep ==
    [RequestNext]_clientRequestVars => [RetryNext]_retryVars
<1>. SUFFICES ASSUME [RequestNext]_clientRequestVars PROVE [RetryNext]_retryVars
  OBVIOUS
<1>1. ASSUME NEW c \in Commands, IssueRequest(c) PROVE RetryNext
  BY <1>1 DEF IssueRequest, RetryNext
<1>2. ASSUME NEW c \in Commands, RequestRefused(c) PROVE RetryNext
  BY <1>2 DEF RequestRefused, RetryNext
<1>3. ASSUME NEW c \in Commands, RetryRequest(c) PROVE RetryNext
  BY <1>3 DEF RetryRequest, RetryNext
<1>4. ASSUME NEW c \in Commands, AnswerRequest(c) PROVE RetryNext
  BY <1>4 DEF AnswerRequest, Executes, Declines, Reply, RetryNext
<1>5. CASE Reuse \/ UNCHANGED clientRequestVars
  BY <1>5 DEF Reuse, ReplaceVariables, EditVariables, Rename, clientRequestVars
<1>6. CASE CloseStep
  BY <1>6 DEF CloseStep, RetryNext
<1>. QED  BY <1>1, <1>2, <1>3, <1>4, <1>5, <1>6 DEF RequestNext

\* The client with its request objects is a client of CommandRetry, so that
\* what is proved of the one holds of the other.
THEOREM RequestsRefineRetry == RequestSpec => RetrySpec
<1>1. RequestInit => RetryInit  BY DEF RequestInit
<1>. QED  BY <1>1, RequestStepIsRetryStep, PTL DEF RequestSpec, RetrySpec

LEMMA AnswerIsReply == \A c \in Commands : AnswerRequest(c) => Reply(c)
  BY DEF AnswerRequest, Executes, Declines, Reply

-----------------------------------------------------------------------------
(* Type correctness. *)

LEMMA RequestTypeInit == RequestInit => RequestTypeOK
<1>. SUFFICES ASSUME RequestInit PROVE RequestTypeOK
  OBVIOUS
<1>1. request \in Doc  BY RequestAssumption DEF RequestInit, Doc, Changes
<1>2. \A c \in Commands : status[c] \notin Unsettled
  BY DEF RequestInit, RetryInit, Unsettled
<1>. QED  BY <1>1, <1>2 DEF RequestInit, RequestTypeOK

LEMMA EncodeType == \A doc \in Doc : /\ Encode(doc) \in Doc
                                     /\ Encode(doc).times = doc.times + 1
                                     /\ Encode(doc).version = doc.version
                                     /\ Encode(doc).origin = doc.origin
                                     /\ Encode(doc).name = doc.name
  BY DEF Encode, Doc

LEMMA TouchedType ==
    ASSUME NEW doc \in Doc
    PROVE  /\ Touched(doc) \in Doc /\ Touched(doc).version = doc.version
           /\ Touched(doc).name = doc.name
           /\ method \notin InPlaceLate => Touched(doc) = doc
  BY EncodeType DEF Touched

LEMMA PayloadType ==
    ASSUME NEW object \in Doc, NEW copy \in Doc
    PROVE  Payload(object, copy) \in Doc
  BY EncodeType DEF Payload

\* What keeping a closure does, for any closure of the right type.
LEMMA KeepType ==
    ASSUME RequestTypeOK, NEW c \in Commands, NEW op, Keep(c, op),
           status'[c] \in Unsettled => op \in Operation,
           \A d \in Commands : d # c => status'[d] = status[d]
    PROVE  /\ operation' \in [Commands -> Operation \cup {NoOperation}]
           /\ \A d \in Commands : status'[d] \in Unsettled => operation'[d] \in Operation
           /\ \A d \in Commands : d # c => operation'[d] = operation[d]
           /\ status'[c] \in Unsettled => operation'[c] = op
  BY DEF Keep, RequestTypeOK

LEMMA IdentityType ==
    ASSUME RequestTypeOK, NEW c \in Commands
    PROVE  Identity(c) \in Identities
<1>1. request.name \in Changes  BY DEF RequestTypeOK, Doc
<1>2. CASE hasKey  BY <1>1, <1>2 DEF Identity, Identities
<1>3. CASE ~hasKey
  <2>1. 0 \in {0}  OBVIOUS
  <2>. QED  BY <1>3, <2>1 DEF Identity, Identities
<1>. QED  BY <1>2, <1>3

LEMMA IssueType ==
    ASSUME RetryTypeOK, RequestTypeOK, NEW c \in Commands, IssueRequest(c)
    PROVE  /\ RequestTypeOK'
           /\ Convert \in Doc /\ Convert.version = request.version
           /\ Hold \in Doc /\ Hold.version = request.version
           /\ Hold.origin = request.origin /\ Hold.name = request.name
           /\ request'.name = request.name
<1>1. Convert \in Doc /\ Convert.version = request.version /\ Convert.name = request.name
  BY EncodeType DEF Convert, RequestTypeOK
<1>2. /\ Hold \in Doc /\ Hold.version = request.version
      /\ Hold.origin = request.origin /\ Hold.name = request.name
  BY EncodeType DEF Hold, RequestTypeOK
<1>3. request' \in Doc /\ request'.name = request.name
  BY <1>1, TouchedType DEF IssueRequest
<1>4. Identity(c) \in Identities  BY IdentityType
<1>5. [given |-> request, copy |-> Hold, sent |-> Payload(request', Hold),
       identity |-> Identity(c)] \in Operation
  BY <1>2, <1>3, <1>4, PayloadType DEF Operation, RequestTypeOK
<1>6. \A d \in Commands : d # c => status'[d] = status[d]
  BY OneCommand DEF IssueRequest
<1>7. /\ operation' \in [Commands -> Operation \cup {NoOperation}]
      /\ \A d \in Commands : status'[d] \in Unsettled => operation'[d] \in Operation
  BY <1>5, <1>6, KeepType DEF IssueRequest
<1>. QED  BY <1>1, <1>2, <1>3, <1>7 DEF IssueRequest, RequestTypeOK, scenario

LEMMA RetryType ==
    ASSUME RetryTypeOK, RequestTypeOK, NEW c \in Commands, RetryRequest(c)
    PROVE  RequestTypeOK'
<1>1. request' \in Doc
  BY TouchedType DEF RetryRequest, RequestTypeOK
<1>2. operation[c] \in Operation
  BY DEF RetryRequest, RetryFires, RequestTypeOK, Unsettled
<1>3. Payload(request', operation[c].copy) \in Doc
  BY <1>1, <1>2, PayloadType DEF Operation
<1>. DEFINE identity == IF method = "publishMessage" THEN Identity(c) ELSE operation[c].identity
<1>7. identity \in Identities  BY <1>2, IdentityType DEF Operation
<1>4. [operation[c] EXCEPT !.sent = Payload(request', operation[c].copy),
                           !.identity = identity] \in Operation
  BY <1>2, <1>3, <1>7 DEF Operation
<1>5. \A d \in Commands : d # c => status'[d] = status[d]
  BY OneCommand DEF RetryRequest
<1>6. /\ operation' \in [Commands -> Operation \cup {NoOperation}]
      /\ \A d \in Commands : status'[d] \in Unsettled => operation'[d] \in Operation
  BY <1>4, <1>5, KeepType DEF RetryRequest
<1>. QED  BY <1>1, <1>6 DEF RetryRequest, RequestTypeOK, scenario

LEMMA AnswerType ==
    ASSUME RetryTypeOK, RequestTypeOK, NEW c \in Commands, AnswerRequest(c)
    PROVE  /\ RequestTypeOK'
           /\ status[c] = "inflight" /\ operation[c] \in Operation
           /\ \A d \in Commands : status'[d] \in Unsettled =>
                 status[d] \in Unsettled /\ operation'[d] = operation[d]
<1>1. Reply(c)  BY AnswerIsReply
<1>2. status[c] = "inflight"
  BY <1>1 DEF Reply, Accepted, Refused, NetworkError, Backpressure, Dropped
<1>3. operation[c] \in Operation  BY <1>2 DEF RequestTypeOK, Unsettled
<1>4. \A d \in Commands : d # c => status'[d] = status[d]  BY <1>1, OneCommand
<1>5. /\ operation' \in [Commands -> Operation \cup {NoOperation}]
      /\ \A d \in Commands : status'[d] \in Unsettled => operation'[d] \in Operation
      /\ \A d \in Commands : d # c => operation'[d] = operation[d]
      /\ status'[c] \in Unsettled => operation'[c] = operation[c]
  BY <1>3, <1>4, KeepType DEF AnswerRequest
<1>6. operation[c].identity \in Identities  BY <1>3 DEF Operation
<1>7. published' \subseteq Identities
  BY <1>6 DEF AnswerRequest, Executes, Declines, RequestTypeOK
<1>. QED
  BY <1>2, <1>3, <1>4, <1>5, <1>7 DEF AnswerRequest, RequestTypeOK, scenario, Unsettled

\* What the application does to its object, and to the commands under way.
LEMMA ReuseType ==
    ASSUME RequestTypeOK, Reuse
    PROVE  /\ RequestTypeOK'
           /\ UNCHANGED <<retryVars, scenario, published>>
           /\ request'.version >= request.version /\ request'.name >= request.name
           /\ request'.times \in {0, request.times}
           /\ method \in Publishing \/ request'.version > request.version
           /\ \A c \in Commands : status[c] \in Unsettled =>
                 \/ operation'[c] = operation[c]
                 \/ /\ method = "publishStartMessage"
                    /\ operation'[c] = [operation[c] EXCEPT !.copy.version = request'.version]
<1>1. request \in Doc  BY DEF RequestTypeOK
<1>2. CASE ReplaceVariables
  <2>1. request' \in Doc
    <3>1. request.version + 1 \in Changes
      BY <1>1, <1>2, RequestAssumption DEF ReplaceVariables, ChangesLeft, Doc, Changes
    <3>2. request' = [request EXCEPT !.times = 0, !.version = @ + 1,
                                     !.origin = request.version + 1]
      BY <1>2 DEF ReplaceVariables
    <3>. QED  BY <1>1, <3>1, <3>2 DEF Doc
  <2>2. /\ request'.version > request.version /\ request'.name = request.name
        /\ request'.times = 0
    BY <1>1, <1>2 DEF ReplaceVariables, Doc, Changes
  <2>3. request.name \in Int /\ request.version \in Int  BY <1>1 DEF Doc, Changes
  <2>4. UNCHANGED <<status, retryVars, scenario, operation, published, method, hasKey, hasId>>
    BY <1>2 DEF ReplaceVariables, retryVars, scenario
  <2>5. RequestTypeOK'  BY <2>1, <2>4 DEF RequestTypeOK
  <2>6. request'.version >= request.version
    BY <2>1, <2>2, <2>3 DEF Doc, Changes
  <2>. QED  BY <2>2, <2>3, <2>4, <2>5, <2>6
<1>3. CASE EditVariables
  <2>1. /\ request' \in Doc /\ request'.version = request.version + 1
        /\ request'.times = 0 /\ request.times = 0 /\ request'.name = request.name
    BY <1>1, <1>3, RequestAssumption DEF EditVariables, ChangesLeft, Doc, Changes
  <2>2. ASSUME NEW c \in Commands, status[c] \in Unsettled
        PROVE  /\ operation'[c] \in Operation
               /\ \/ operation'[c] = operation[c]
                  \/ /\ method = "publishStartMessage"
                     /\ operation'[c] = [operation[c] EXCEPT !.copy.version = request'.version]
    <3>1. operation[c] \in Operation  BY <2>2 DEF RequestTypeOK
    <3>2. [operation[c] EXCEPT !.copy.version = request'.version] \in Operation
      BY <2>1, <3>1 DEF Operation, Doc
    <3>. QED  BY <1>3, <3>1, <3>2 DEF EditVariables
  <2>3. operation' \in [Commands -> Operation \cup {NoOperation}]
    <3>1. \A c \in Commands : operation'[c] = operation[c] \/ status[c] \in Unsettled
      BY <1>3 DEF EditVariables
    <3>2. \A c \in Commands : operation'[c] \in Operation \cup {NoOperation}
      BY <2>2, <3>1 DEF RequestTypeOK
    <3>. QED  BY <1>3, <3>2 DEF EditVariables
  <2>. QED
    BY <1>1, <1>3, <2>1, <2>2, <2>3 DEF EditVariables, RequestTypeOK, retryVars, scenario,
       Doc, Changes
<1>4. CASE Rename
  <2>1. request' \in Doc
    BY <1>1, <1>4, RequestAssumption DEF Rename, ChangesLeft, Doc, Changes
  <2>. QED
    BY <1>1, <1>4, <2>1 DEF Rename, RequestTypeOK, retryVars, scenario, Doc, Changes
<1>. QED  BY <1>2, <1>3, <1>4 DEF Reuse

LEMMA RequestTypeStep ==
    RetryTypeOK /\ RequestTypeOK /\ [RequestNext]_clientRequestVars => RequestTypeOK'
<1>. SUFFICES ASSUME RetryTypeOK, RequestTypeOK, [RequestNext]_clientRequestVars
              PROVE  RequestTypeOK'
  OBVIOUS
<1>1. ASSUME NEW c \in Commands, RequestRefused(c) PROVE RequestTypeOK'
  <2>1. status' = [status EXCEPT ![c] = "rejected"]
    BY <1>1 DEF RequestRefused, ArgumentRefused, Set
  <2>2. \A d \in Commands : status'[d] \in Unsettled => status[d] \in Unsettled
    BY <2>1 DEF Unsettled, RetryTypeOK
  <2>. QED  BY <1>1, <2>2 DEF RequestRefused, RequestTypeOK, requestVars, scenario
<1>2. CASE Reuse
  BY <1>2, ReuseType
<1>3. CASE CloseStep \/ UNCHANGED clientRequestVars
  BY <1>3 DEF CloseStep, StartClosing, CloseChannel, RequestTypeOK, clientRequestVars,
     retryVars, requestVars, scenario
<1>. QED
  BY <1>1, <1>2, <1>3, IssueType, RetryType, AnswerType DEF RequestNext

\* Every variable of the requests keeps its type.
THEOREM RequestTypeCorrect == RequestSpec => []RequestTypeOK
<1>1. RequestSpec => []RetryTypeOK
  BY RequestsRefineRetry, RetryTypeCorrect, PTL
<1>. QED  BY <1>1, RequestTypeInit, RequestTypeStep, PTL DEF RequestSpec

-----------------------------------------------------------------------------
(* What the attempts send. *)

AtTheCall == Snapshots \cup Files

\* A copy was converted at the call, or not at all, and says what was said at
\* the call, but for a start message, whose copy keeps the same object;
\* setVariables has converted the object as long as that holds the variables
\* of the call; and what was sent is what should be.
SameObject(doc, given) == doc.origin = given.origin /\ doc.name = given.name
ClosureOK(op) ==
    /\ op.given.version <= request.version
    /\ method \notin InPlace => op.copy.times = IF method \in Snapshots THEN 1 ELSE 0
    /\ method \in InPlace /\ op.given.version = request.version => request.times = 1
    /\ op.sent.times = Due \/ (method \in InPlace /\ op.sent.version # op.given.version)
    /\ method \in AtTheCall =>
          op.copy.version = op.given.version /\ op.sent.version = op.given.version
    /\ method = "publishStartMessage" =>
          SameObject(op.copy, op.given) /\ SameObject(op.sent, op.given)

PayloadInv ==
    /\ RetryTypeOK /\ RequestTypeOK
    /\ method \notin InPlaceLate
    /\ request.times = 0 \/ (method \in InPlace /\ request.times = 1)
    /\ \A c \in Commands : status[c] \in Unsettled => ClosureOK(operation[c])

LEMMA PayloadInit == RequestInit /\ method \notin InPlaceLate => PayloadInv
<1>. SUFFICES ASSUME RequestInit, method \notin InPlaceLate PROVE PayloadInv
  OBVIOUS
<1>1. RetryTypeOK /\ RequestTypeOK
  BY RetryTypeInit, RequestTypeInit DEF RequestInit
<1>2. \A c \in Commands : status[c] \notin Unsettled
  BY DEF RequestInit, RetryInit, Unsettled
<1>3. request.times = 0  BY DEF RequestInit
<1>. QED  BY <1>1, <1>2, <1>3 DEF PayloadInv

\* What an attempt sends, given its object and its copy.
LEMMA PayloadSent ==
    ASSUME NEW object \in Doc, NEW copy \in Doc, method \in Methods,
           method \notin InPlaceLate,
           method \notin InPlace => object.times = 0,
           method \notin InPlace => copy.times = IF method \in Snapshots THEN 1 ELSE 0
    PROVE  /\ method \notin InPlace => Payload(object, copy).times = Due
           /\ method \in InPlace => Payload(object, copy) = object /\ Due = 1
           /\ method \in AtTheCall => Payload(object, copy).version = copy.version
           /\ method = "publishStartMessage" => SameObject(Payload(object, copy), copy)
<1>. USE DEF Snapshots, Files, InPlace, InPlaceLate, Publishing, Plain, AtTheCall, SameObject
<1>1. CASE method \in Publishing
  BY <1>1, EncodeType DEF Payload, Due, Doc
<1>2. CASE method \notin Publishing
  BY <1>2, RequestAssumption DEF Payload, Due
<1>. QED  BY <1>1, <1>2

\* A closure is none the worse for what happens to the object meanwhile.
LEMMA ClosureKept ==
    ASSUME RequestTypeOK, RequestTypeOK', NEW op \in Operation, ClosureOK(op),
           method' = method,
           \/ request' = request
           \/ request'.version = request.version /\ (method \in InPlace => request'.times = 1)
           \/ request'.version > request.version
    PROVE  ClosureOK(op)'
  BY DEF ClosureOK, RequestTypeOK, Doc, Changes, Operation, Due, SameObject

LEMMA PayloadAfter ==
    ASSUME PayloadInv, RetryTypeOK', RequestTypeOK', NEW c \in Commands,
           \A d \in Commands : d # c => status'[d] = status[d] /\ operation'[d] = operation[d],
           status'[c] \in Unsettled => ClosureOK(operation[c])',
           method' = method,
           request'.version = request.version,
           method \in InPlace => request' = request \/ request'.times = 1,
           method \notin InPlace => request' = request
    PROVE  PayloadInv'
<1>1. \A x \in Operation : ClosureOK(x) => ClosureOK(x)'
  <2>. SUFFICES ASSUME NEW x \in Operation, ClosureOK(x) PROVE ClosureOK(x)'
    OBVIOUS
  <2>. QED  BY ClosureKept DEF PayloadInv
<1>2. ASSUME NEW d \in Commands, status'[d] \in Unsettled
      PROVE  ClosureOK(operation[d])'
  <2>1. CASE d = c  BY <2>1, <1>2
  <2>2. CASE d # c
    <3>1. status[d] \in Unsettled /\ operation'[d] = operation[d]  BY <2>2, <1>2
    <3>2. operation[d] \in Operation /\ ClosureOK(operation[d])
      BY <3>1 DEF PayloadInv, RequestTypeOK
    <3>3. PICK x \in Operation : x = operation[d]  BY <3>2
    <3>4. ClosureOK(x)'  BY <1>1, <3>2, <3>3
    <3>5. operation'[d] = x  BY <3>1, <3>3
    <3>. QED  BY <3>4, <3>5 DEF ClosureOK
  <2>. QED  BY <2>1, <2>2
<1>3. request'.times = 0 \/ (method' \in InPlace /\ request'.times = 1)
  BY DEF PayloadInv
<1>. QED  BY <1>2, <1>3 DEF PayloadInv

LEMMA PayloadIssue ==
    ASSUME PayloadInv, NEW c \in Commands, IssueRequest(c)
    PROVE  PayloadInv'
<1>0. RetryTypeOK /\ RequestTypeOK /\ method \in Methods /\ method \notin InPlaceLate
  BY DEF PayloadInv, RequestTypeOK
<1>1. /\ RequestTypeOK' /\ Convert \in Doc /\ Convert.version = request.version
      /\ Hold \in Doc /\ Hold.version = request.version
      /\ SameObject(Hold, request)
  BY <1>0, IssueType DEF SameObject
<1>2. RetryTypeOK'
  BY <1>0, RetryTypeStep DEF IssueRequest, RetryNext
<1>3. method' = method  BY DEF IssueRequest, scenario
<1>4. request' = Convert
  BY <1>0, <1>1, TouchedType DEF IssueRequest
<1>5. /\ method \in InPlace => request'.times = 1
      /\ method \notin InPlace => request' = request /\ request'.times = 0
  BY <1>0, <1>4, EncodeType DEF Convert, PayloadInv, RequestTypeOK
<1>6. method \notin InPlace => Hold.times = IF method \in Snapshots THEN 1 ELSE 0
  BY <1>0, <1>5, EncodeType DEF Hold, RequestTypeOK
<1>7. request' \in Doc /\ request'.version = request.version  BY <1>1, <1>4
<1>8. /\ Payload(request', Hold).times = Due
      /\ method \in AtTheCall => Payload(request', Hold).version = request.version
      /\ method = "publishStartMessage" => SameObject(Payload(request', Hold), Hold)
  BY <1>0, <1>1, <1>5, <1>6, <1>7, PayloadSent
<1>9. Due' = Due  BY <1>3 DEF Due
<1>10. \A d \in Commands : d # c => status'[d] = status[d]
  BY <1>0, OneCommand DEF IssueRequest
<1>11. /\ \A d \in Commands : d # c => operation'[d] = operation[d]
       /\ status'[c] \in Unsettled =>
             operation'[c] = [given |-> request, copy |-> Hold,
                              sent |-> Payload(request', Hold), identity |-> Identity(c)]
  BY <1>0, <1>10 DEF IssueRequest, Keep, RequestTypeOK
<1>12. ASSUME status'[c] \in Unsettled PROVE ClosureOK(operation[c])'
  <2>1. /\ operation'[c].given = request /\ operation'[c].copy = Hold
        /\ operation'[c].sent = Payload(request', Hold)
    BY <1>11, <1>12
  <2>2. request.version <= request'.version
    BY <1>0, <1>7 DEF RequestTypeOK, Doc, Changes
  <2>. QED
    BY <1>1, <1>3, <1>5, <1>6, <1>7, <1>8, <1>9, <2>1, <2>2
    DEF ClosureOK, SameObject
<1>. QED
  BY <1>1, <1>2, <1>3, <1>5, <1>7, <1>10, <1>11, <1>12, PayloadAfter

LEMMA PayloadRetry ==
    ASSUME PayloadInv, NEW c \in Commands, RetryRequest(c)
    PROVE  PayloadInv'
<1>0. RetryTypeOK /\ RequestTypeOK /\ method \in Methods /\ method \notin InPlaceLate
  BY DEF PayloadInv, RequestTypeOK
<1>1. RequestTypeOK' /\ RetryTypeOK'
  BY <1>0, RetryType, RetryTypeStep DEF RetryRequest, RetryNext
<1>2. method' = method  BY DEF RetryRequest, scenario
<1>3. request' = request /\ request \in Doc
  BY <1>0, TouchedType DEF RetryRequest, RequestTypeOK
<1>4. operation[c] \in Operation /\ ClosureOK(operation[c])
  BY <1>0 DEF RetryRequest, RetryFires, PayloadInv, RequestTypeOK, Unsettled
<1>5. operation[c].copy \in Doc  BY <1>4 DEF Operation
<1>6. method \notin InPlace => request.times = 0  BY DEF PayloadInv
<1>. DEFINE sent == Payload(request', operation[c].copy)
<1>7. /\ method \notin InPlace => sent.times = Due
      /\ method \in InPlace => sent = request /\ Due = 1
      /\ method \in AtTheCall => sent.version = operation[c].copy.version
      /\ method = "publishStartMessage" => SameObject(sent, operation[c].copy)
  BY <1>0, <1>3, <1>4, <1>5, <1>6, PayloadSent DEF ClosureOK
<1>8. Due' = Due  BY <1>2 DEF Due
<1>9. \A d \in Commands : d # c => status'[d] = status[d]
  BY <1>0, OneCommand DEF RetryRequest
<1>10. /\ \A d \in Commands : d # c => operation'[d] = operation[d]
       /\ status'[c] \in Unsettled =>
             operation'[c] = [operation[c] EXCEPT !.sent = sent,
                                !.identity = IF method = "publishMessage" THEN Identity(c) ELSE @]
  BY <1>0, <1>9 DEF RetryRequest, Keep, RequestTypeOK
<1>11. ASSUME status'[c] \in Unsettled PROVE ClosureOK(operation[c])'
  <2>1. /\ operation'[c].given = operation[c].given
        /\ operation'[c].copy = operation[c].copy /\ operation'[c].sent = sent
    BY <1>4, <1>10, <1>11 DEF Operation
  <2>2. method \in AtTheCall => method \notin InPlace
    BY DEF AtTheCall, InPlace, Snapshots, Files
  <2>3. /\ method \in AtTheCall => sent.version = operation[c].given.version
        /\ method = "publishStartMessage" => SameObject(sent, operation[c].given)
        /\ sent.times = Due \/ (method \in InPlace /\ sent.version # operation[c].given.version)
    BY <1>4, <1>7, <2>2 DEF ClosureOK, SameObject
  <2>. QED
    BY <1>2, <1>3, <1>4, <1>8, <2>1, <2>3 DEF ClosureOK
<1>. QED
  BY <1>1, <1>2, <1>3, <1>9, <1>10, <1>11, PayloadAfter

LEMMA PayloadAnswer ==
    ASSUME PayloadInv, NEW c \in Commands, AnswerRequest(c)
    PROVE  PayloadInv'
<1>0. RetryTypeOK /\ RequestTypeOK  BY DEF PayloadInv
<1>1. /\ RequestTypeOK'
      /\ status[c] = "inflight"
      /\ \A d \in Commands : status'[d] \in Unsettled =>
            status[d] \in Unsettled /\ operation'[d] = operation[d]
  BY <1>0, AnswerType
<1>2. RetryTypeOK'  BY <1>0, AnswerIsReply, RetryTypeStep DEF RetryNext
<1>3. UNCHANGED <<method, request>>  BY DEF AnswerRequest, scenario
<1>. QED  BY <1>1, <1>2, <1>3 DEF PayloadInv, ClosureOK, SameObject, Due

LEMMA PayloadReuse ==
    ASSUME PayloadInv, Reuse
    PROVE  PayloadInv'
<1>0. RetryTypeOK /\ RequestTypeOK  BY DEF PayloadInv
<1>1. /\ RequestTypeOK' /\ UNCHANGED <<retryVars, method, status>>
      /\ request'.version >= request.version /\ request'.times \in {0, request.times}
      /\ method \in Publishing \/ request'.version > request.version
      /\ \A c \in Commands : status[c] \in Unsettled =>
            \/ operation'[c] = operation[c]
            \/ /\ method = "publishStartMessage"
               /\ operation'[c] = [operation[c] EXCEPT !.copy.version = request'.version]
  BY <1>0, ReuseType DEF retryVars, scenario
<1>2. RetryTypeOK'
  BY <1>0, <1>1, RetryTypeStep
<1>3. request \in Doc /\ request' \in Doc  BY <1>0, <1>1 DEF RequestTypeOK
<1>4. method \in InPlace => request'.version > request.version
  BY <1>1 DEF InPlace, Publishing
<1>5. ASSUME NEW c \in Commands, status'[c] \in Unsettled
      PROVE  ClosureOK(operation[c])'
  <2>1. operation[c] \in Operation /\ ClosureOK(operation[c])
    BY <1>0, <1>1, <1>5 DEF PayloadInv, RequestTypeOK
  <2>2. /\ operation'[c].given = operation[c].given /\ operation'[c].sent = operation[c].sent
        /\ operation'[c].copy.times = operation[c].copy.times
        /\ SameObject(operation'[c].copy, operation[c].copy)
        /\ method \in AtTheCall => operation'[c].copy = operation[c].copy
    <3>1. CASE operation'[c] = operation[c]
      BY <3>1 DEF SameObject
    <3>2. CASE /\ method = "publishStartMessage"
               /\ operation'[c] = [operation[c] EXCEPT !.copy.version = request'.version]
      <4>1. /\ operation[c].copy \in Doc
            /\ operation'[c].copy = [operation[c].copy EXCEPT !.version = request'.version]
            /\ operation'[c].given = operation[c].given /\ operation'[c].sent = operation[c].sent
        BY <2>1, <3>2 DEF Operation
      <4>2. method \notin AtTheCall  BY <3>2 DEF AtTheCall, Snapshots, Files
      <4>. QED  BY <4>1, <4>2 DEF Doc, SameObject
    <3>. QED  BY <1>1, <1>5, <3>1, <3>2
  <2>3. /\ operation[c].given.version <= request'.version
        /\ method \in InPlace => operation[c].given.version < request'.version
    BY <1>1, <1>3, <1>4, <2>1 DEF ClosureOK, Doc, Changes, Operation
  <2>4. operation[c].given \in Doc  BY <2>1 DEF Operation
  <2>5. ~(method \in InPlace /\ operation[c].given.version = request'.version)
    BY <1>3, <2>3, <2>4 DEF Doc, Changes
  <2>. QED
    BY <1>1, <2>1, <2>2, <2>3, <2>5 DEF ClosureOK, SameObject, Due
<1>. QED  BY <1>1, <1>2, <1>3, <1>5 DEF PayloadInv, Doc

LEMMA PayloadStep == PayloadInv /\ [RequestNext]_clientRequestVars => PayloadInv'
<1>. SUFFICES ASSUME PayloadInv, [RequestNext]_clientRequestVars PROVE PayloadInv'
  OBVIOUS
<1>0. RetryTypeOK /\ RequestTypeOK /\ RetryTypeOK' /\ RequestTypeOK'
  BY RequestStepIsRetryStep, RetryTypeStep, RequestTypeStep DEF PayloadInv
<1>1. ASSUME NEW c \in Commands, RequestRefused(c) PROVE PayloadInv'
  <2>1. UNCHANGED <<method, request, operation>>
    BY <1>1 DEF RequestRefused, requestVars, scenario
  <2>2. \A d \in Commands : status'[d] \in Unsettled => status[d] \in Unsettled
    BY <1>0, <1>1 DEF RequestRefused, ArgumentRefused, Set, Unsettled, RetryTypeOK
  <2>. QED  BY <1>0, <2>1, <2>2 DEF PayloadInv, ClosureOK, SameObject, Due
<1>2. CASE Reuse
  BY <1>2, PayloadReuse
<1>3. CASE CloseStep \/ UNCHANGED clientRequestVars
  <2>1. UNCHANGED <<method, request, operation, status>>
    BY <1>3 DEF CloseStep, StartClosing, CloseChannel, clientRequestVars, retryVars,
       requestVars, scenario
  <2>. QED  BY <1>0, <2>1 DEF PayloadInv, ClosureOK, SameObject, Due
<1>. QED
  BY <1>1, <1>2, <1>3, PayloadIssue, PayloadRetry, PayloadAnswer DEF RequestNext

\* A client keeps to the method it was given.
LEMMA MethodKept == [RequestNext]_clientRequestVars => method' = method
  BY DEF RequestNext, IssueRequest, RequestRefused, RetryRequest, AnswerRequest,
     Reuse, ReplaceVariables, EditVariables, Rename, CloseStep, clientRequestVars,
     requestVars, scenario

PayloadsKept == method \in InPlaceLate \/ PayloadInv

LEMMA PayloadInvariant == RequestSpec => []PayloadsKept
<1>1. RequestInit => PayloadsKept  BY PayloadInit DEF PayloadsKept
<1>2. PayloadsKept /\ [RequestNext]_clientRequestVars => PayloadsKept'
  BY PayloadStep, MethodKept DEF PayloadsKept
<1>. QED  BY <1>1, <1>2, PTL DEF RequestSpec

\* With any method but modifyProcessInstance, each attempt sends its payload
\* converted exactly once, or not at all where there is nothing to convert,
\* whatever shares or reuses the object.
THEOREM PayloadsEncodedOnce ==
    RequestSpec => [](method \notin InPlaceLate => EncodedOnce)
<1>1. PayloadsKept => (method \notin InPlaceLate => EncodedOnce)
  BY DEF PayloadsKept, PayloadInv, ClosureOK, EncodedOnce, Sent, Reused
<1>. QED  BY <1>1, PayloadInvariant, PTL

\* Each attempt of a method that converts or reads at the call sends what its
\* variables said there, and each of publishStartMessage the variables object
\* and the identity it was called with, whatever became of the request.
THEOREM PayloadsAlike == RequestSpec => []AttemptsAlike
<1>1. InPlaceLate \cap AtTheCall = {}
  BY DEF InPlaceLate, AtTheCall, Snapshots, Files
<1>2. PayloadsKept => AttemptsAlike
  BY <1>1 DEF PayloadsKept, PayloadInv, ClosureOK, SameObject, AttemptsAlike, AtTheCall,
     Sent, Reused, InPlaceLate
<1>. QED  BY <1>2, PayloadInvariant, PTL

-----------------------------------------------------------------------------
(* Messages. *)

\* As long as nobody renamed the object, every message with a correlationKey
\* has the identity given at first; a start message keeps its own anyway; and
\* the gateway remembers the identity of what it published.
Unrenamed == hasKey /\ request.name = 0
PublishInv ==
    /\ RetryTypeOK /\ RequestTypeOK
    /\ hasKey \/ method = "publishStartMessage"
    /\ \A c \in Commands :
          /\ status[c] = "idle" => effects[c] = 0
          /\ status[c] \in Unsettled /\ Unrenamed => operation[c].identity = <<"given", 0>>
          /\ hasId /\ Unrenamed /\ effects[c] > 0 => <<"given", 0>> \in published
          /\ /\ hasId /\ method = "publishStartMessage"
             /\ status[c] \in Unsettled /\ effects[c] > 0
             => operation[c].identity \in published
    /\ PublishedOnce

LEMMA PublishInit == RequestInit => PublishInv
<1>. SUFFICES ASSUME RequestInit PROVE PublishInv
  OBVIOUS
<1>1. RetryTypeOK /\ RequestTypeOK
  BY RetryTypeInit, RequestTypeInit DEF RequestInit
<1>2. \A c \in Commands : status[c] \notin Unsettled /\ effects[c] = 0
  BY DEF RequestInit, RetryInit, Unsettled
<1>3. hasKey \/ method = "publishStartMessage"  BY DEF RequestInit
<1>. QED  BY <1>1, <1>2, <1>3 DEF PublishInv, PublishedOnce

\* A step that executes nothing: a name given is never taken back, and the
\* commands under way keep their identities, or have just been sent.
LEMMA PublishKept ==
    ASSUME PublishInv, RetryTypeOK', RequestTypeOK',
           UNCHANGED <<scenario, effects, published>>,
           Unrenamed' => Unrenamed,
           request'.name = 0 => request.name = 0,
           \A c \in Commands :
              /\ status'[c] = "idle" => status[c] = "idle"
              /\ status'[c] \in Unsettled /\ Unrenamed' =>
                    operation'[c].identity = <<"given", 0>>
              /\ status'[c] \in Unsettled /\ method = "publishStartMessage" =>
                    \/ effects[c] = 0
                    \/ status[c] \in Unsettled /\ operation'[c].identity = operation[c].identity
    PROVE  PublishInv'
<1>1. PublishedOnce'  BY DEF PublishInv, PublishedOnce, scenario
<1>2. ASSUME NEW c \in Commands
      PROVE  /\ status'[c] = "idle" => effects'[c] = 0
             /\ hasId' /\ Unrenamed' /\ effects'[c] > 0 => <<"given", 0>> \in published'
             /\ /\ hasId' /\ method' = "publishStartMessage"
                /\ status'[c] \in Unsettled /\ effects'[c] > 0
                => operation'[c].identity \in published'
  BY DEF PublishInv, scenario
<1>3. hasKey' \/ method' = "publishStartMessage"  BY DEF PublishInv, scenario
<1>. QED  BY <1>1, <1>2, <1>3 DEF PublishInv

LEMMA PublishExecutes ==
    ASSUME PublishInv, NEW c \in Commands, AnswerRequest(c), Executes(c)
    PROVE  PublishInv'
<1>0. RetryTypeOK /\ RequestTypeOK  BY DEF PublishInv
<1>1. /\ RequestTypeOK' /\ status[c] = "inflight"
      /\ \A d \in Commands : status'[d] \in Unsettled =>
            status[d] \in Unsettled /\ operation'[d] = operation[d]
  BY <1>0, AnswerType
<1>2. RetryTypeOK'  BY <1>0, AnswerIsReply, RetryTypeStep DEF RetryNext
<1>3. UNCHANGED <<scenario, method, hasKey, hasId, request>> /\ Unrenamed' = Unrenamed
  BY DEF AnswerRequest, scenario, Unrenamed
<1>4. status[c] \in Unsettled  BY <1>1 DEF Unsettled
<1>5. hasId => /\ operation[c].identity \notin published
               /\ published' = published \cup {operation[c].identity}
  BY DEF Executes, Duplicate
<1>6. /\ \A d \in Commands : d # c => effects'[d] = effects[d] /\ status'[d] = status[d]
      /\ status'[c] # "idle"
  BY <1>0, <1>1, OneCommand, AnswerIsReply, CountType
  DEF Executes, Accepted, NetworkError, Dropped, RetryTypeOK, Again, Set
<1>7. effects'[c] <= effects[c] + 1 /\ effects[c] \in Nat /\ effects'[c] \in Nat
  BY <1>0, <1>2, CountType, RetryAssumption
  DEF Executes, Accepted, NetworkError, Dropped, RetryTypeOK
<1>8. hasId /\ method = "publishStartMessage" => effects'[c] <= 1
  BY <1>4, <1>5, <1>7 DEF PublishInv
<1>9. hasId /\ Unrenamed => /\ <<"given", 0>> \in published'
                           /\ \A d \in Commands : effects[d] = 0
  <2>. SUFFICES ASSUME hasId, Unrenamed
                PROVE  /\ <<"given", 0>> \in published'
                       /\ \A d \in Commands : effects[d] = 0
    OBVIOUS
  <2>1. operation[c].identity = <<"given", 0>>  BY <1>4 DEF PublishInv
  <2>2. \A d \in Commands : effects[d] \in Nat  BY <1>0, RetryAssumption DEF RetryTypeOK
  <2>. QED  BY <1>5, <2>1, <2>2 DEF PublishInv
<1>10. PublishedOnce'
  <2>. SUFFICES ASSUME hasId, NEW d \in Commands, NEW e \in Commands
                PROVE  /\ method = "publishStartMessage" \/ request.name = 0 => effects'[d] <= 1
                       /\ hasKey /\ request.name = 0 /\ d # e => effects'[d] + effects'[e] <= 1
    BY <1>3 DEF PublishedOnce
  <2>1. ASSUME hasKey, request.name = 0
        PROVE  effects'[d] <= 1 /\ (d # e => effects'[d] + effects'[e] <= 1)
    BY <1>6, <1>7, <1>9, <2>1 DEF Unrenamed
  <2>2. ASSUME method = "publishStartMessage" PROVE effects'[d] <= 1
    BY <1>6, <1>8, <2>2 DEF PublishInv, PublishedOnce
  <2>. QED  BY <2>1, <2>2 DEF PublishInv
<1>11. ASSUME NEW d \in Commands
       PROVE  /\ status'[d] = "idle" => effects'[d] = 0
              /\ status'[d] \in Unsettled /\ Unrenamed' => operation'[d].identity = <<"given", 0>>
              /\ hasId' /\ Unrenamed' /\ effects'[d] > 0 => <<"given", 0>> \in published'
              /\ /\ hasId' /\ method' = "publishStartMessage"
                 /\ status'[d] \in Unsettled /\ effects'[d] > 0
                 => operation'[d].identity \in published'
  BY <1>1, <1>3, <1>5, <1>6, <1>9 DEF PublishInv
<1>. QED  BY <1>1, <1>2, <1>3, <1>10, <1>11 DEF PublishInv

LEMMA PublishStep == PublishInv /\ [RequestNext]_clientRequestVars => PublishInv'
<1>. SUFFICES ASSUME PublishInv, [RequestNext]_clientRequestVars PROVE PublishInv'
  OBVIOUS
<1>0. RetryTypeOK /\ RequestTypeOK /\ RetryTypeOK' /\ RequestTypeOK'
  BY RequestStepIsRetryStep, RetryTypeStep, RequestTypeStep DEF PublishInv
<1>1. ASSUME NEW c \in Commands, IssueRequest(c) PROVE PublishInv'
  <2>1. UNCHANGED <<scenario, hasKey, method, effects, published>> /\ status[c] = "idle"
    BY <1>1 DEF IssueRequest, Issue, scenario
  <2>2. request'.name = request.name  BY <1>0, <1>1, IssueType
  <2>3. Unrenamed' = Unrenamed  BY <2>1, <2>2 DEF Unrenamed
  <2>4. \A d \in Commands : d # c => status'[d] = status[d]
    BY <1>0, <1>1, OneCommand DEF IssueRequest
  <2>5. /\ \A d \in Commands : d # c => operation'[d] = operation[d]
        /\ status'[c] \in Unsettled => operation'[c].identity = Identity(c)
    BY <1>0, <1>1, <2>4 DEF IssueRequest, Keep, RequestTypeOK
  <2>6. effects[c] = 0  BY <2>1 DEF PublishInv
  <2>7. Unrenamed => Identity(c) = <<"given", 0>>  BY DEF Unrenamed, Identity
  <2>. QED
    BY <1>0, <2>1, <2>2, <2>3, <2>4, <2>5, <2>6, <2>7, PublishKept DEF PublishInv
<1>2. ASSUME NEW c \in Commands, RetryRequest(c) PROVE PublishInv'
  <2>1. /\ UNCHANGED <<scenario, hasKey, method, effects, published>>
        /\ status[c] \in Unsettled
    BY <1>2 DEF RetryRequest, RetryFires, scenario, Unsettled
  <2>2. request'.name = request.name
    BY <1>0, <1>2, TouchedType DEF RetryRequest, RequestTypeOK
  <2>3. Unrenamed' = Unrenamed  BY <2>1, <2>2 DEF Unrenamed
  <2>4. /\ \A d \in Commands : d # c => status'[d] = status[d]
        /\ status'[c] # "idle"
    BY <1>0, <1>2, OneCommand DEF RetryRequest, RetryFires, Attempt, Set, Settled, RetryTypeOK
  <2>5. operation[c] \in Operation  BY <1>0, <2>1 DEF RequestTypeOK
  <2>6. /\ \A d \in Commands : d # c => operation'[d] = operation[d]
        /\ status'[c] \in Unsettled => operation'[c].identity =
              IF method = "publishMessage" THEN Identity(c) ELSE operation[c].identity
    BY <1>0, <1>2, <2>4, <2>5 DEF RetryRequest, Keep, RequestTypeOK, Operation
  <2>7. Unrenamed => Identity(c) = <<"given", 0>>  BY DEF Unrenamed, Identity
  <2>8. ASSUME NEW d \in Commands
        PROVE  /\ status'[d] = "idle" => status[d] = "idle"
               /\ status'[d] \in Unsettled /\ Unrenamed' =>
                     operation'[d].identity = <<"given", 0>>
               /\ status'[d] \in Unsettled /\ method = "publishStartMessage" =>
                     status[d] \in Unsettled /\ operation'[d].identity = operation[d].identity
    BY <2>1, <2>3, <2>4, <2>6, <2>7 DEF PublishInv
  <2>. QED  BY <1>0, <2>1, <2>2, <2>3, <2>8, PublishKept
<1>3. ASSUME NEW c \in Commands, AnswerRequest(c) PROVE PublishInv'
  <2>1. CASE Executes(c)  BY <1>3, <2>1, PublishExecutes
  <2>2. CASE Declines(c)
    <3>1. /\ UNCHANGED <<scenario, hasKey, request, effects, published>>
          /\ status[c] = "inflight"
      BY <1>3, <2>2 DEF AnswerRequest, Declines, Refused, Backpressure, NetworkError,
         Dropped, counters, scenario
    <3>2. Unrenamed' = Unrenamed  BY <3>1 DEF Unrenamed
    <3>3. \A d \in Commands : status'[d] \in Unsettled =>
             status[d] \in Unsettled /\ operation'[d] = operation[d]
      BY <1>0, <1>3, AnswerType
    <3>4. \A d \in Commands : status'[d] = "idle" => status[d] = "idle"
      BY <1>0, <1>3, <2>2, <3>1, OneCommand, AnswerIsReply
      DEF Declines, Refused, Backpressure, NetworkError, Dropped, Again, Set, RetryTypeOK
    <3>. QED  BY <1>0, <3>1, <3>2, <3>3, <3>4, PublishKept DEF PublishInv
  <2>. QED  BY <1>3, <2>1, <2>2 DEF AnswerRequest
<1>4. ASSUME NEW c \in Commands, RequestRefused(c) PROVE PublishInv'
  <2>1. UNCHANGED <<scenario, hasKey, request, effects, published, operation>>
    BY <1>4 DEF RequestRefused, ArgumentRefused, requestVars, counters, scenario
  <2>2. Unrenamed' = Unrenamed  BY <2>1 DEF Unrenamed
  <2>3. \A d \in Commands : /\ status'[d] \in Unsettled => status[d] \in Unsettled
                            /\ status'[d] = "idle" => status[d] = "idle"
    BY <1>0, <1>4 DEF RequestRefused, ArgumentRefused, Set, Unsettled, RetryTypeOK
  <2>. QED  BY <1>0, <2>1, <2>2, <2>3, PublishKept DEF PublishInv
<1>5. CASE Reuse
  <2>1. /\ UNCHANGED <<scenario, hasKey, method, effects, published, status>>
        /\ request'.name >= request.name
        /\ \A c \in Commands : status[c] \in Unsettled =>
              \/ operation'[c] = operation[c]
              \/ operation'[c] = [operation[c] EXCEPT !.copy.version = request'.version]
    BY <1>0, <1>5, ReuseType DEF retryVars, scenario, counters
  <2>2. request'.name = 0 => request.name = 0
    BY <1>0, <2>1 DEF RequestTypeOK, Doc, Changes
  <2>3. Unrenamed' => Unrenamed  BY <2>1, <2>2 DEF Unrenamed
  <2>4. \A c \in Commands : status[c] \in Unsettled =>
           operation'[c].identity = operation[c].identity
    BY <1>0, <2>1 DEF RequestTypeOK, Operation
  <2>. QED  BY <1>0, <2>1, <2>2, <2>3, <2>4, PublishKept DEF PublishInv
<1>6. CASE CloseStep \/ UNCHANGED clientRequestVars
  <2>1. UNCHANGED <<scenario, hasKey, request, effects, published, operation, status>>
    BY <1>6 DEF CloseStep, StartClosing, CloseChannel, clientRequestVars,
       retryVars, requestVars, counters, scenario
  <2>2. Unrenamed' = Unrenamed  BY <2>1 DEF Unrenamed
  <2>. QED  BY <1>0, <2>1, <2>2, PublishKept DEF PublishInv
<1>. QED  BY <1>1, <1>2, <1>3, <1>4, <1>5, <1>6 DEF RequestNext

\* With a messageId no retry publishes a message again, and of the commands
\* that share a correlationKey only one publishes it; for publishMessage as
\* long as the application gives its object no other identity meanwhile.
THEOREM MessagesPublishedOnce == RequestSpec => []PublishedOnce
<1>1. PublishInv => PublishedOnce  BY DEF PublishInv
<1>. QED  BY <1>1, PublishInit, PublishStep, PTL DEF RequestSpec

-----------------------------------------------------------------------------
(* The whole client. *)

\* A step of an activation does not touch the commands, except that closing
\* the client is a step of both.
LEMMA ClientStepIsRequestStep ==
    [ZBClientNext]_clientStateVars => [RequestNext]_clientRequestVars
<1>. SUFFICES ASSUME [ZBClientNext]_clientStateVars
              PROVE  [RequestNext]_clientRequestVars
  OBVIOUS
<1>1. CASE RequestNext  BY <1>1
<1>2. CASE ActivationNext /\ UNCHANGED requestVars
  <2>1. CASE \E a \in Activations : ActivationStep(a)
    BY <1>2, <2>1 DEF ActivationStep, clientRequestVars
  <2>2. CASE StartClosing \/ CloseChannel
    BY <1>2, <2>2 DEF CloseStep, RequestNext
  <2>. QED  BY <1>2, <2>1, <2>2 DEF ActivationNext
<1>3. CASE UNCHANGED clientStateVars  BY <1>3 DEF clientStateVars
<1>. QED  BY <1>1, <1>2, <1>3 DEF ZBClientNext

\* A client with activations and a configuration is, to its commands, one
\* without: the theorems above and those of CommandRetryProofs hold of it.
THEOREM ClientRefinesRequests == ZBClientSpec => RequestSpec
<1>1. ZBClientInit => RequestInit  BY DEF ZBClientInit
<1>. QED  BY <1>1, ClientStepIsRequestStep, PTL DEF ZBClientSpec, RequestSpec

\* What the commands of a client promise, they promise beside any activations
\* of the same client and whatever these do to its channel.
THEOREM CommandsUndisturbed ==
    ZBClientSpec => [](/\ EffectsExplained /\ AttemptsBounded
                       /\ ResolvedMeansExecuted /\ PublishedOnce /\ AttemptsAlike
                       /\ method \notin InPlaceLate => EncodedOnce)
<1>. QED
  BY ClientRefinesRequests, RequestsRefineRetry, DuplicatesExplained, CallsBounded,
     ResolvedIsExecuted, MessagesPublishedOnce, PayloadsAlike, PayloadsEncodedOnce, PTL

-----------------------------------------------------------------------------
(* Activations. *)

\* The gateway activates nothing before the stream is open, and a promise is
\* rejected only by a call that ended before that.
ActivationInv ==
    /\ call \in [Activations -> {"idle", "token", "open", "over"}]
    /\ promise \in [Activations -> {"none", "pending", "resolved", "rejected"}]
    /\ taken \in [Activations -> Nat]
    /\ \A a \in Activations :
          /\ call[a] = "idle" <=> promise[a] = "none"
          /\ call[a] \in {"idle", "token"} => taken[a] = 0
          /\ call[a] = "token" => promise[a] = "pending"
          /\ promise[a] = "rejected" => call[a] = "over" /\ taken[a] = 0

LEMMA ActivationInitially == ActivationInit => ActivationInv
  BY DEF ActivationInit, ActivationInv

LEMMA ActivationKept ==
    ASSUME ActivationInv, NEW a \in Activations, ActivationStep(a)
    PROVE  ActivationInv'
<1>. USE DEF ActivationInv, Now
<1>1. CASE Activate(a)  BY <1>1 DEF Activate
<1>2. CASE ActivationFails(a)  BY <1>2 DEF ActivationFails
<1>3. CASE ActivationOpens(a)  BY <1>3 DEF ActivationOpens
<1>4. CASE GatewayActivates(a)  BY <1>4 DEF GatewayActivates
<1>5. CASE JobsArrive(a)  BY <1>5 DEF JobsArrive
<1>6. CASE JobsMalformed(a)  BY <1>6 DEF JobsMalformed
<1>7. CASE ActivationEnds(a)  BY <1>7 DEF ActivationEnds
<1>8. CASE ActivationBreaks(a)  BY <1>8 DEF ActivationBreaks
<1>. QED
  BY <1>1, <1>2, <1>3, <1>4, <1>5, <1>6, <1>7, <1>8 DEF ActivationStep

LEMMA ActivationInvStep ==
    ActivationInv /\ [ZBClientNext]_clientStateVars => ActivationInv'
<1>. SUFFICES ASSUME ActivationInv, [ZBClientNext]_clientStateVars
              PROVE  ActivationInv'
  OBVIOUS
<1>1. ASSUME NEW a \in Activations, ActivationStep(a) PROVE ActivationInv'
  BY <1>1, ActivationKept
<1>2. CASE UNCHANGED activationVars
  BY <1>2 DEF activationVars, ActivationInv
<1>. QED  BY <1>1, <1>2 DEF ZBClientNext, ActivationNext, clientStateVars

\* A rejected activateJobs() left no job activated, beside any number of other
\* activations and commands and however the client is closed.
THEOREM RejectionsHoldNothing == ZBClientSpec => []RejectedHoldsNothing
<1>1. ActivationInv => RejectedHoldsNothing
  BY DEF ActivationInv, RejectedHoldsNothing
<1>2. ZBClientInit => ActivationInv  BY ActivationInitially DEF ZBClientInit
<1>. QED  BY <1>1, <1>2, ActivationInvStep, PTL DEF ZBClientSpec

-----------------------------------------------------------------------------
(* The configuration. *)

\* A field of a spread object is the last one's that has it.
LEMMA SpreadHas ==
    \A part, fields, f :
        f \in DOMAIN Spread(part, fields) <=> f \in DOMAIN part \/ f \in DOMAIN fields
  BY DEF Spread

LEMMA SpreadLast ==
    \A part, fields, f : f \in DOMAIN fields => Spread(part, fields)[f] = fields[f]
  BY DEF Spread

LEMMA SpreadFirst ==
    \A part, fields, f :
        f \in DOMAIN part /\ f \notin DOMAIN fields => Spread(part, fields)[f] = part[f]
  BY DEF Spread

LEMMA CloudFields ==
    ASSUME NEW host
    PROVE  /\ DOMAIN CloudAt(host) = {"hostname", "oAuth", "useTLS"}
           /\ CloudAt(host).oAuth.audience = host /\ CloudAt(host).hostname = host
  BY DEF CloudAt

\* Tokens are over TLS as far as that is asked for.
LEMMA AskedFor ==
    ASSUME input \in Inputs
    PROVE  TokensOverTLS
<1>. DEFINE asked == readTLSFromEnvironment(input.env, input.opts)
            before == Spread(Spread(fromEnvironment(input.env, input.explicit),
                                    decodeConnectionString(input.env, input.explicit)),
                             getCamundaCloudConfig(input.opts))
<1>1. asked.useTLS \in Flag /\ DOMAIN asked = {"useTLS"}
  BY DEF Inputs, Environments, OptionSets, readTLSFromEnvironment
<1>2. conf = Spread(before, asked)  BY DEF conf, configure
<1>3. "useTLS" \in DOMAIN asked  BY <1>1
<1>. HIDE DEF asked, before
<1>4. conf["useTLS"] = asked["useTLS"]  BY <1>2, <1>3, SpreadLast
<1>5. conf.useTLS = asked.useTLS  BY <1>4
<1>. QED  BY <1>1, <1>5 DEF TokensOverTLS, UseTLS, Flag, asked, readTLSFromEnvironment

\* An application that names a cluster gets tokens for that cluster.
LEMMA CloudWins ==
    ASSUME input \in Inputs, input.opts.camundaCloud
    PROVE  conf.oAuth.audience = "cloud" /\ conf.hostname = "cloud"
<1>. DEFINE cloud == getCamundaCloudConfig(input.opts)
            tls == readTLSFromEnvironment(input.env, input.opts)
<1>1. \E part : cloud = Spread(part, CloudAt("cloud"))
  BY DEF getCamundaCloudConfig, Optional
<1>2. \E part : conf = Spread(Spread(part, cloud), tls)  BY DEF conf, configure
<1>3. DOMAIN tls = {"useTLS"}  BY DEF readTLSFromEnvironment
<1>. HIDE DEF cloud, tls
<1>4. ASSUME NEW name \in {"hostname", "oAuth"}
      PROVE  conf[name] = CloudAt("cloud")[name]
  <2>1. name \in DOMAIN CloudAt("cloud") /\ name \notin DOMAIN tls  BY <1>3, CloudFields
  <2>2. name \in DOMAIN cloud /\ cloud[name] = CloudAt("cloud")[name]
    BY <1>1, <2>1, SpreadHas, SpreadLast
  <2>. QED  BY <1>2, <2>1, <2>2, SpreadHas, SpreadLast, SpreadFirst
<1>5. conf["oAuth"] = CloudAt("cloud")["oAuth"] /\ conf["hostname"] = CloudAt("cloud")["hostname"]
  BY <1>4
<1>. QED  BY <1>5, CloudFields

\* The application's own tokens have an audience of its own.
LEMMA OwnTokens ==
    ASSUME input \in Inputs, ~input.opts.camundaCloud, input.opts.oAuth
    PROVE  conf.oAuth.audience = "explicit"
<1>. DEFINE given == getCamundaCloudConfig(input.opts)
            tls == readTLSFromEnvironment(input.env, input.opts)
            tokens == [oAuth |-> [audience |-> "explicit"]]
            host == Optional(input.opts.hostname, [hostname |-> "option"])
            cloud == Optional(input.opts.camundaCloud, CloudAt("cloud"))
<1>1. "oAuth" \notin DOMAIN host /\ "oAuth" \notin DOMAIN cloud
  BY DEF Optional
<1>2. \E part : given = Spread(Spread(Spread(part, tokens), host), cloud)
  BY DEF getCamundaCloudConfig, Optional
<1>3. \E part : conf = Spread(Spread(part, given), tls)  BY DEF conf, configure
<1>4. "oAuth" \notin DOMAIN tls  BY DEF readTLSFromEnvironment
<1>5. "oAuth" \in DOMAIN tokens /\ tokens["oAuth"] = [audience |-> "explicit"]  OBVIOUS
<1>. HIDE DEF given, tls, tokens, host, cloud
<1>6. "oAuth" \in DOMAIN given /\ given["oAuth"] = tokens["oAuth"]
  BY <1>1, <1>2, <1>5, SpreadHas, SpreadLast, SpreadFirst
<1>7. conf["oAuth"] = tokens["oAuth"]
  BY <1>3, <1>4, <1>6, SpreadHas, SpreadLast, SpreadFirst
<1>. QED  BY <1>5, <1>7

\* Without options of that kind, the environment and the argument decide.
LEMMA EnvironmentDecides ==
    ASSUME input \in Inputs, ~input.opts.camundaCloud, ~input.opts.hostname
    PROVE  LET env == fromEnvironment(input.env, input.explicit)
               arg == decodeConnectionString(input.env, input.explicit)
           IN /\ conf["hostname"] = Spread(env, arg)["hostname"]
              /\ ~input.opts.oAuth =>
                    /\ "oAuth" \in DOMAIN conf <=> "oAuth" \in DOMAIN Spread(env, arg)
                    /\ "oAuth" \in DOMAIN conf => conf["oAuth"] = Spread(env, arg)["oAuth"]
<1>. DEFINE env == fromEnvironment(input.env, input.explicit)
            arg == decodeConnectionString(input.env, input.explicit)
            given == getCamundaCloudConfig(input.opts)
            tls == readTLSFromEnvironment(input.env, input.opts)
            tlsOption == Optional(input.opts.useTLS # "undefined", [useTLS |-> input.opts.useTLS])
            tokens == Optional(input.opts.oAuth, [oAuth |-> [audience |-> "explicit"]])
            host == Optional(input.opts.hostname, [hostname |-> "option"])
            cloud == Optional(input.opts.camundaCloud, CloudAt("cloud"))
<1>1. /\ DOMAIN host = {} /\ DOMAIN cloud = {} /\ DOMAIN tls = {"useTLS"}
      /\ DOMAIN tlsOption \subseteq {"useTLS"} /\ DOMAIN tokens \subseteq {"oAuth"}
      /\ ~input.opts.oAuth => DOMAIN tokens = {}
  BY DEF Optional, readTLSFromEnvironment
<1>2. given = Spread(Spread(Spread(tlsOption, tokens), host), cloud)
  BY DEF getCamundaCloudConfig
<1>3. conf = Spread(Spread(Spread(env, arg), given), tls)  BY DEF conf, configure
<1>4. "hostname" \in DOMAIN env  BY SpreadHas DEF fromEnvironment
<1>. HIDE DEF env, arg, given, tls, tlsOption, tokens, host, cloud
<1>5. "hostname" \notin DOMAIN given /\ (~input.opts.oAuth => "oAuth" \notin DOMAIN given)
  BY <1>1, <1>2, SpreadHas
<1>6. "hostname" \in DOMAIN Spread(env, arg)  BY <1>4, SpreadHas
<1>7. conf["hostname"] = Spread(env, arg)["hostname"]
  BY <1>1, <1>3, <1>5, <1>6, SpreadHas, SpreadFirst
<1>8. ASSUME ~input.opts.oAuth
      PROVE  /\ "oAuth" \in DOMAIN conf <=> "oAuth" \in DOMAIN Spread(env, arg)
             /\ "oAuth" \in DOMAIN conf => conf["oAuth"] = Spread(env, arg)["oAuth"]
  BY <1>1, <1>3, <1>5, <1>8, SpreadHas, SpreadFirst
<1>. QED  BY <1>7, <1>8 DEF env, arg

\* Tokens derived from the environment are for the gateway it names.
LEMMA EnvironmentAgrees ==
    ASSUME input \in Inputs, ~(input.env.clusterId /\ input.env.address)
    PROVE  LET env == fromEnvironment(input.env, input.explicit)
               arg == decodeConnectionString(input.env, input.explicit)
               both == Spread(env, arg)
           IN "oAuth" \in DOMAIN both /\ both["oAuth"]["audience"] # "explicit"
                 => both["oAuth"]["audience"] = both["hostname"]
<1>. DEFINE env == fromEnvironment(input.env, input.explicit)
            arg == decodeConnectionString(input.env, input.explicit)
            tokens == readOAuthFromEnvironment(input.env, input.explicit)
            gateway == getGatewayFromEnvironment(input.env)
            both == Spread(env, arg)
<1>. SUFFICES ASSUME "oAuth" \in DOMAIN both, both["oAuth"]["audience"] # "explicit"
              PROVE  both["oAuth"]["audience"] = both["hostname"]
  OBVIOUS
<1>1. env = Spread(Spread([hostname |-> "localhost"], tokens), gateway)
  BY DEF fromEnvironment
<1>2. DOMAIN gateway \subseteq {"hostname"} /\ DOMAIN arg \subseteq {"hostname"}
  BY DEF getGatewayFromEnvironment, decodeConnectionString, Optional
<1>3. "oAuth" \in DOMAIN tokens /\ both["oAuth"] = tokens["oAuth"]
  <2>. HIDE DEF env, arg, tokens, gateway
  <2>1. "oAuth" \notin DOMAIN gateway /\ "oAuth" \notin DOMAIN arg  BY <1>2
  <2>2. "oAuth" \in DOMAIN env /\ both["oAuth"] = env["oAuth"]
    BY <2>1, SpreadHas, SpreadFirst
  <2>3. DOMAIN [hostname |-> "localhost"] = {"hostname"}  OBVIOUS
  <2>4. "oAuth" \in DOMAIN tokens  BY <1>1, <2>1, <2>2, <2>3, SpreadHas
  <2>5. env["oAuth"] = tokens["oAuth"]
    BY <1>1, <2>1, <2>4, SpreadHas, SpreadLast, SpreadFirst
  <2>. QED  BY <2>2, <2>4, <2>5
<1>4. tokens["oAuth"]["audience"] # "explicit"  BY <1>3
<1>. DEFINE at == IF input.env.clusterId THEN "envCluster" ELSE "envAddress"
<1>5. /\ IsCamundaCloudShortcut(input.env) /\ ~input.explicit
      /\ tokens = CloudAt(at)
  BY <1>3, <1>4 DEF readOAuthFromEnvironment, readCamundaClusterConfFromEnv, Optional
<1>6. tokens["oAuth"]["audience"] = at /\ tokens["hostname"] = at /\ "hostname" \in DOMAIN tokens
  BY <1>5, CloudFields
<1>7. arg = gateway  BY <1>5 DEF decodeConnectionString
<1>8. CASE input.env.address
  <2>1. at = "envAddress" /\ gateway = [hostname |-> "envAddress"]
    BY <1>8 DEF getGatewayFromEnvironment, Optional, Inputs, Environments
  <2>2. "hostname" \in DOMAIN arg /\ arg["hostname"] = at  BY <1>7, <2>1
  <2>3. both["hostname"] = at
    <3>. HIDE DEF env, arg, at
    <3>. QED  BY <2>2, SpreadLast
  <2>. QED  BY <1>3, <1>6, <2>3
<1>9. CASE ~input.env.address
  <2>1. DOMAIN gateway = {}  BY <1>9 DEF getGatewayFromEnvironment, Optional
  <2>2. both["hostname"] = tokens["hostname"]
    <3>. HIDE DEF env, arg, tokens, gateway
    <3>. QED  BY <1>1, <1>6, <1>7, <2>1, SpreadHas, SpreadLast, SpreadFirst
  <2>. QED  BY <1>3, <1>6, <2>2
<1>. QED  BY <1>8, <1>9

LEMMA AudienceAgrees ==
    ASSUME input \in Inputs
    PROVE  AudienceMatchesGateway
<1>. SUFFICES ASSUME HasOAuth(conf), conf.oAuth.audience # "explicit", ~Contradictory
              PROVE  conf.oAuth.audience = conf.hostname
  BY DEF AudienceMatchesGateway
<1>1. CASE input.opts.camundaCloud  BY <1>1, CloudWins
<1>2. CASE ~input.opts.camundaCloud
  <2>1. ~input.opts.oAuth  BY <1>2, OwnTokens
  <2>2. ~input.opts.hostname /\ ~(input.env.clusterId /\ input.env.address)
    BY <1>2 DEF Contradictory
  <2>3. "oAuth" \in DOMAIN conf /\ conf["oAuth"]["audience"] # "explicit"
    BY DEF HasOAuth
  <2>4. conf["oAuth"]["audience"] = conf["hostname"]
    BY <1>2, <2>1, <2>2, <2>3, EnvironmentDecides, EnvironmentAgrees
  <2>. QED  BY <2>4
<1>. QED  BY <1>1, <1>2

\* The configuration is read once, and it was one the constructor takes.
LEMMA InputKept ==
    input \in Inputs /\ [ZBClientNext]_clientStateVars => (input \in Inputs)'
  BY DEF ZBClientNext, clientStateVars

\* Tokens are for the gateway the client connects to, whichever of argument,
\* options and environment win, unless these contradict each other.
THEOREM TokensForTheGateway == ZBClientSpec => []AudienceMatchesGateway
<1>1. ZBClientInit => input \in Inputs  BY DEF ZBClientInit, ConfigurationInit
<1>. QED  BY <1>1, InputKept, AudienceAgrees, PTL DEF ZBClientSpec

\* Tokens travel over TLS unless it was switched off by name.
THEOREM TokensSecured == ZBClientSpec => []TokensOverTLS
<1>1. ZBClientInit => input \in Inputs  BY DEF ZBClientInit, ConfigurationInit
<1>. QED  BY <1>1, InputKept, AskedFor, PTL DEF ZBClientSpec
=============================================================================
