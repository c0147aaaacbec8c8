--------------------------- MODULE ClientRequests ---------------------------
(***************************************************************************)
(* What the command methods of ZBClient make of the request object the     *)
(* application gives them (src/zb/ZBClient.ts): variables turned into JSON *)
(* at the call or at each attempt, in a copy or in the object itself, and  *)
(* the identity of a published message.  Extends CommandRetry with the     *)
(* payload of each attempt.  All commands are given the same object, to    *)
(* the same method; the gateway is external.                               *)
(***************************************************************************)
EXTENDS CommandRetry

CONSTANTS
    Methods,    \* the methods the application may call
    MaxEdits    \* bound: how often it changes its object

(* The methods, by what they do with the variables. *)
Snapshots == {"completeJob", "createProcessInstance", "evaluateDecision",
              "throwError", "broadcastSignal"}
Files == {"deployResource", "deployProcess"}    \* given by their file names
InPlace == {"setVariables"}
InPlaceLate == {"modifyProcessInstance"}
Publishing == {"publishMessage", "publishStartMessage"}
Plain == {"failJob", "resolveIncident", "updateJobRetries", "cancelProcessInstance"}
Refusing == Files \cup {"cancelProcessInstance"}

ASSUME RequestAssumption ==
    /\ Methods \subseteq Snapshots \cup Files \cup InPlace \cup InPlaceLate
                           \cup Publishing \cup Plain
    /\ MaxEdits \in Nat

VARIABLES
    method,     \* the method called
    hasKey,     \* the request names a correlationKey
    hasId,      \* the request names a messageId
    request,    \* the application's object
    operation,  \* what the closure of each command under way holds on to
    published   \* the messages the gateway remembers

scenario == <<method, hasKey, hasId>>
requestVars == <<scenario, request, operation, published>>
clientRequestVars == <<retryVars, requestVars>>

\* A request: what its variables say (version), which object they are, by
\* the version it started with (origin), how often they went through
\* JSON.stringify, and which correlationKey and messageId it names.
Changes == 0..MaxEdits
Doc == [times : Nat, version : Changes, origin : Changes, name : Changes]
Encode(doc) == [doc EXCEPT !.times = @ + 1]

\* given: the object at the call; copy: the operation's own; sent: by its
\* last attempt; identity: correlationKey and messageId of that attempt.
Identities == {"given"} \X Changes \cup Commands \X {0}
Operation == [given : Doc, copy : Doc, sent : Doc, identity : Identities]
NoOperation == [given |-> "nothing"]

RequestInit ==
    /\ RetryInit
    /\ method \in Methods
    /\ hasKey \in BOOLEAN /\ hasId \in BOOLEAN
    /\ method # "publishStartMessage" => hasKey
    /\ method \notin Publishing => ~hasId
    /\ request = [times |-> 0, version |-> 0, origin |-> 0, name |-> 0]
    /\ operation = [c \in Commands |-> NoOperation]
    /\ published = {}

-----------------------------------------------------------------------------
(* The call. *)

\* Mutant of Convert: setVariables does not look at the type.
ConvertAlways == IF method \in InPlace THEN Encode(request) ELSE request

\* setVariables turns the variables of the caller's object into a string,
\* unless they are one already.
Convert == IF method \in InPlace /\ request.times = 0 THEN Encode(request) ELSE request

\* A converted copy; for a start message a copy still to be converted, that
\* shares the caller's variables.
Hold == IF method \in Snapshots THEN Encode(request) ELSE request

\* uuid() gives a start message without a correlationKey one of its own.
Identity(c) == IF hasKey THEN <<"given", request.name>> ELSE <<c, 0>>

(* The attempt: a closing client that retries does not run the operation. *)
Runs == retry => ~(closing \/ channelClosed)

\* modifyProcessInstance converts inside the operation, in the object itself.
Touched(object) == IF Runs /\ method \in InPlaceLate THEN Encode(object) ELSE object

\* Mutant of Payload: the copy is not used.
PayloadLive(object, copy) == IF method \in Publishing THEN Encode(object) ELSE object

\* What an attempt makes of the object it was given, or of its copy.
Payload(object, copy) ==
    LET source == IF method \in Snapshots \cup Files \cup {"publishStartMessage"}
                  THEN copy ELSE object
    IN IF method \in Publishing THEN Encode(source) ELSE source

\* The closure lives until its promise is settled.
Keep(c, op) ==
    operation' = [operation EXCEPT ![c] = IF status'[c] \in Unsettled THEN op
                                          ELSE NoOperation]

IssueRequest(c) ==
    /\ Issue(c)
    /\ request' = Touched(Convert)
    /\ Keep(c, [given |-> request, copy |-> Hold,
                sent |-> Payload(request', Hold), identity |-> Identity(c)])
    /\ UNCHANGED <<scenario, published>>

\* A file that cannot be read, a key that is no number.
RequestRefused(c) ==
    /\ method \in Refusing
    /\ ArgumentRefused(c)
    /\ UNCHANGED requestVars

\* Mutant of RetryRequest: uuid() is called by the operation.
RetryRequestRenamed(c) ==
    /\ RetryFires(c)
    /\ request' = Touched(request)
    /\ Keep(c, [operation[c] EXCEPT !.sent = Payload(request', operation[c].copy),
                  !.identity = IF hasKey THEN @ ELSE <<c, attempts[c]>>])
    /\ UNCHANGED <<scenario, published>>

\* publishMessage reads the identity from the caller's object again.
RetryRequest(c) ==
    /\ RetryFires(c)
    /\ request' = Touched(request)
    /\ Keep(c, [operation[c] EXCEPT !.sent = Payload(request', operation[c].copy),
                  !.identity = IF method = "publishMessage" THEN Identity(c) ELSE @])
    /\ UNCHANGED <<scenario, published>>

-----------------------------------------------------------------------------
(* The gateway refuses a message it remembers. *)

Duplicate(c) == hasId /\ operation[c].identity \in published

Executes(c) ==
    /\ status[c] = "inflight" /\ ~Duplicate(c)
    /\ Accepted(c) \/ NetworkError(c, TRUE) \/ Dropped(c, TRUE)
    /\ published' = IF hasId THEN published \cup {operation[c].identity} ELSE published

Declines(c) ==
    /\ \/ Refused(c) \/ Backpressure(c)
       \/ NetworkError(c, FALSE) \/ Dropped(c, FALSE)
    /\ UNCHANGED published

AnswerRequest(c) ==
    /\ Executes(c) \/ Declines(c)
    /\ Keep(c, operation[c])
    /\ UNCHANGED <<scenario, request>>

-----------------------------------------------------------------------------
(* The application changes its object, for its next call. *)

ChangesLeft == request.version + request.name < MaxEdits

\* Other variables.
ReplaceVariables ==
    /\ ChangesLeft
    /\ request' = [request EXCEPT !.times = 0, !.version = @ + 1, !.origin = request.version + 1]
    /\ UNCHANGED <<retryVars, scenario, operation, published>>

\* The same ones changed in place, unless they are a string by now: a start
\* message under way has them too.
EditVariables ==
    /\ ChangesLeft /\ request.times = 0
    /\ request' = [request EXCEPT !.version = @ + 1]
    /\ operation' = [c \in Commands |->
          IF /\ method = "publishStartMessage" /\ status[c] \in Unsettled
             /\ operation[c].copy.origin = request.origin
          THEN [operation[c] EXCEPT !.copy.version = request'.version]
          ELSE operation[c]]
    /\ UNCHANGED <<retryVars, scenario, published>>

\* Another correlationKey and messageId.
Rename ==
    /\ ChangesLeft /\ method \in Publishing /\ hasKey
    /\ request' = [request EXCEPT !.name = @ + 1]
    /\ UNCHANGED <<retryVars, scenario, operation, published>>

Reuse == ReplaceVariables \/ EditVariables \/ Rename

CloseStep == (StartClosing \/ CloseChannel) /\ UNCHANGED requestVars

RequestNext ==
    \/ \E c \in Commands :
          \/ IssueRequest(c) \/ RequestRefused(c)
          \/ RetryRequest(c) \/ AnswerRequest(c)
    \/ Reuse \/ CloseStep

RequestSpec == RequestInit /\ [][RequestNext]_clientRequestVars

-----------------------------------------------------------------------------
\* The type of every variable.
RequestTypeOK ==
    /\ method \in Methods /\ hasKey \in BOOLEAN /\ hasId \in BOOLEAN
    /\ request \in Doc
    /\ operation \in [Commands -> Operation \cup {NoOperation}]
    /\ \A c \in Commands : status[c] \in Unsettled => operation[c] \in Operation
    /\ published \subseteq Identities

\* What a command's last attempt sent, and whether that says something else
\* than at the call.
Sent(c) == operation[c].sent
Reused(c) == Sent(c).version # operation[c].given.version

\* Whatever an attempt sends went through JSON.stringify exactly once, or not
\* at all where there is nothing to convert, however often the command is
\* retried, whichever commands share its object and whether the application
\* reuses it; but a retry of setVariables sends the object as it is by then
\* ("the Zeebe server needs it as a JSON document", ZBClient.ts:1198).
Due == IF method \in Files \cup Plain THEN 0 ELSE 1
EncodedOnce ==
    \A c \in Commands :
        status[c] \in Unsettled /\ ~(method \in InPlace /\ Reused(c))
            => Sent(c).times = Due

\* Also when the application has changed its object since, every attempt of a
\* command sends what the variables it was called with said at the call, for
\* the methods that convert them or read a file there; and publishStartMessage
\* keeps the identity and the variables it was called with, though their
\* properties may be others by then (ZBClient.ts publishStartMessage).
AttemptsAlike ==
    \A c \in Commands : status[c] \in Unsettled =>
        /\ method \in Snapshots \cup Files => ~Reused(c)
        /\ method = "publishStartMessage" =>
              /\ Sent(c).origin = operation[c].given.origin
              /\ Sent(c).name = operation[c].given.name

\* A message with a messageId is published once, however often its command
\* is retried; and once altogether when several commands name the same
\* correlationKey with it ("They will only ever be correlated once",
\* README.md:1350).  publishMessage reads both at each attempt: for it, as
\* long as the application has not renamed its object.
PublishedOnce ==
    hasId => \A c, d \in Commands :
        /\ method = "publishStartMessage" \/ request.name = 0 => effects[c] <= 1
        /\ hasKey /\ request.name = 0 /\ c # d => effects[c] + effects[d] <= 1
=============================================================================
