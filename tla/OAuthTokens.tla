----------------------------- MODULE OAuthTokens -----------------------------
(***************************************************************************)
(* The OAuth tokens of several clients of one process that share a client  *)
(* id, and with it the token file (src/lib/OAuthProvider.ts).  A token is  *)
(* the number of ticks it is still valid; 0 is an expired one.  Timers     *)
(* count down as well, and a due timer fires before the next tick.         *)
(***************************************************************************)
EXTENDS Integers, FiniteSets, FiniteSetsExt

CONSTANTS
    Providers,
    Second,        \* ticks to the second
    Lifetimes,     \* what the endpoint gives as expires_in, in ticks
    MaxDelay,      \* BACKOFF_TOKEN_ENDPOINT_MAX, in ticks
    UseFileCache,  \* cacheOnDisk
    FailureOptions \* whether the token endpoint may fail

None == -1   \* no token, no timer

ASSUME OAuthAssumption ==
    /\ IsFiniteSet(Providers)
    /\ Second \in Nat \ {0}
    /\ Lifetimes \subseteq Nat \ {0} /\ IsFiniteSet(Lifetimes) /\ Lifetimes # {}
    /\ MaxDelay \in Nat /\ MaxDelay >= 2 * Second
    /\ UseFileCache \in BOOLEAN /\ FailureOptions \subseteq BOOLEAN

VARIABLES
    memory,    \* tokenCache[clientId] of each provider
    timer,     \* the expiry timer its handle names
    strays,    \* expiry timers still pending whose handle was overwritten
    request,   \* inflightTokenRequest: "none", "waiting", "posted"
    wait,      \* ticks until a waiting request is posted
    backoff,   \* currentBackoffTime
    stopped,   \* stopExpiryTimer() was called by close()
    file,      \* the token file; 0 also when it is being written
    writes,    \* tokens on their way to the file
    failing,   \* the token endpoint may fail
    stale,     \* history: an expired token was handed out
    failures,  \* history: failures of the endpoint in a row
    quiet      \* history: ticks since the last one

requestVars == <<request, wait, backoff>>
fileVars == <<file, writes>>
historyVars == <<failures, quiet>>
tokenVars == <<memory, timer, strays, requestVars, stopped, fileVars, failing, stale, historyVars>>

Least(a, b) == IF a < b THEN a ELSE b
MaxLifetime == Max(Lifetimes)
Validity == 0..MaxLifetime
MaxFailures == MaxDelay   \* bound of the history: the delay is at its cap by then

TokenInit ==
    /\ memory = [p \in Providers |-> None]
    /\ timer = [p \in Providers |-> None]
    /\ strays = [p \in Providers |-> {}]
    /\ request = [p \in Providers |-> "none"]
    /\ wait = [p \in Providers |-> None]
    /\ backoff = [p \in Providers |-> 0]
    /\ stopped \in [Providers -> BOOLEAN]   \* clients closed before
    /\ file \in {None} \cup Validity
    /\ writes = {}
    /\ failing \in FailureOptions
    /\ stale = FALSE
    /\ failures = [p \in Providers |-> 0]
    /\ quiet = [p \in Providers |-> MaxDelay]

-----------------------------------------------------------------------------
\* Cache a token and startExpiryTimer(): one second before it expires.
Keep(p, token) ==
    IF token <= 0
    THEN memory' = [memory EXCEPT ![p] = None] /\ UNCHANGED <<timer, strays>>
    ELSE /\ memory' = [memory EXCEPT ![p] = token]
         /\ timer' = [timer EXCEPT ![p] = IF token > Second THEN token - Second ELSE 0]
         /\ strays' = [strays EXCEPT ![p] = @ \cup ({timer[p]} \ {None})]

Hand(token) == stale' = (stale \/ token <= 0) /\ UNCHANGED failing

FromMemory(p) ==
    /\ memory[p] # None /\ ~stopped[p]
    /\ Hand(memory[p])
    /\ UNCHANGED <<memory, timer, strays, requestVars, stopped, fileVars, historyVars>>

\* Mutant of Usable: a token that expires now still counts.
UsableAtExpiry(f) == UseFileCache /\ f >= 0

\* fromFileCache: an expired or unreadable token does not count.
Usable(f) == UseFileCache /\ f > 0

\* Mutant of FromFile: no expiry timer for a token from the file.
FromFileUntimed(p) ==
    /\ memory[p] = None /\ ~stopped[p]
    /\ Usable(file)
    /\ memory' = [memory EXCEPT ![p] = file]
    /\ Hand(file)
    /\ UNCHANGED <<timer, strays, requestVars, stopped, fileVars, historyVars>>

FromFile(p) ==
    /\ memory[p] = None /\ ~stopped[p]
    /\ Usable(file)
    /\ Keep(p, file)
    /\ Hand(file)
    /\ UNCHANGED <<requestVars, stopped, fileVars, historyVars>>

\* Mutant of AskEndpoint: every caller starts the delay anew.
AskEndpointRestarts(p) ==
    /\ memory[p] = None /\ ~stopped[p] /\ ~Usable(file)
    /\ request[p] \in {"none", "waiting"}
    /\ request' = [request EXCEPT ![p] = "waiting"]
    /\ wait' = [wait EXCEPT ![p] = backoff[p]]
    /\ UNCHANGED <<memory, timer, strays, backoff, stopped, fileVars, failing, stale, historyVars>>

\* The first caller starts the request; later ones await the same promise.
AskEndpoint(p) ==
    /\ memory[p] = None /\ ~stopped[p] /\ ~Usable(file)
    /\ request[p] = "none"
    /\ request' = [request EXCEPT ![p] = "waiting"]
    /\ wait' = [wait EXCEPT ![p] = backoff[p]]
    /\ UNCHANGED <<memory, timer, strays, backoff, stopped, fileVars, failing, stale, historyVars>>

Post(p) ==
    /\ request[p] = "waiting" /\ wait[p] = 0
    /\ request' = [request EXCEPT ![p] = "posted"]
    /\ wait' = [wait EXCEPT ![p] = None]
    /\ UNCHANGED <<memory, timer, strays, backoff, stopped, fileVars, failing, stale, historyVars>>

TokenArrives(p, token) ==
    /\ request[p] = "posted" /\ token \in Lifetimes
    /\ request' = [request EXCEPT ![p] = "none"]
    /\ backoff' = [backoff EXCEPT ![p] = 0]
    /\ Keep(p, token)
    /\ writes' = IF UseFileCache THEN writes \cup {token} ELSE writes
    /\ Hand(token)
    /\ failures' = [failures EXCEPT ![p] = 0]
    /\ UNCHANGED <<wait, stopped, file, quiet>>

\* Mutant of RequestFails: the delay does not grow.
RequestFailsFlat(p) ==
    /\ request[p] = "posted" /\ failing
    /\ request' = [request EXCEPT ![p] = "none"]
    /\ backoff' = [backoff EXCEPT ![p] = 2 * Second]
    /\ failures' = [failures EXCEPT ![p] = Least(@ + 1, MaxFailures)]
    /\ quiet' = [quiet EXCEPT ![p] = 0]
    /\ UNCHANGED <<memory, timer, strays, wait, stopped, fileVars, failing, stale>>

RequestFails(p) ==
    /\ request[p] = "posted" /\ failing
    /\ request' = [request EXCEPT ![p] = "none"]
    /\ backoff' = [backoff EXCEPT ![p] =
                     Least(2 * (IF @ = 0 THEN Second ELSE @), MaxDelay)]
    /\ failures' = [failures EXCEPT ![p] = Least(@ + 1, MaxFailures)]
    /\ quiet' = [quiet EXCEPT ![p] = 0]
    /\ UNCHANGED <<memory, timer, strays, wait, stopped, fileVars, failing, stale>>

\* fs.writeFile truncates the file and fills it, or fails, some time later.
Truncate ==
    /\ writes # {} /\ file # 0
    /\ file' = 0
    /\ UNCHANGED <<memory, timer, strays, requestVars, stopped, writes, failing, stale, historyVars>>

WriteDone(token, ok) ==
    /\ token \in writes
    /\ writes' = writes \ {token}
    /\ file' = IF ok THEN token ELSE file
    /\ UNCHANGED <<memory, timer, strays, requestVars, stopped, failing, stale, historyVars>>

Evict(p) ==
    /\ \/ /\ timer[p] = 0
          /\ timer' = [timer EXCEPT ![p] = None]
          /\ UNCHANGED strays
       \/ /\ 0 \in strays[p]
          /\ strays' = [strays EXCEPT ![p] = @ \ {0}]
          /\ UNCHANGED timer
    /\ memory' = [memory EXCEPT ![p] = None]
    /\ file' = IF UseFileCache THEN None ELSE file
    /\ UNCHANGED <<requestVars, stopped, writes, failing, stale, historyVars>>

\* The client is closed: nobody asks this provider any more.
stopExpiryTimer(p) ==
    /\ ~stopped[p]
    /\ stopped' = [stopped EXCEPT ![p] = TRUE]
    /\ timer' = [timer EXCEPT ![p] = None]
    /\ UNCHANGED <<memory, strays, requestVars, fileVars, failing, stale, historyVars>>

Older(t) == IF t > 0 THEN t - 1 ELSE t

Tick ==
    /\ \A p \in Providers : 0 \notin {timer[p], wait[p]} \cup strays[p]
    /\ memory' = [p \in Providers |-> Older(memory[p])]
    /\ timer' = [p \in Providers |-> Older(timer[p])]
    /\ strays' = [p \in Providers |-> {Older(t) : t \in strays[p]}]
    /\ wait' = [p \in Providers |-> Older(wait[p])]
    /\ file' = Older(file)
    /\ writes' = {Older(t) : t \in writes}
    /\ quiet' = [p \in Providers |-> Least(quiet[p] + 1, MaxDelay)]
    /\ UNCHANGED <<request, backoff, stopped, failing, stale, failures>>

getToken(p) == FromMemory(p) \/ FromFile(p) \/ AskEndpoint(p)
Answer(p) == RequestFails(p) \/ \E token \in Lifetimes : TokenArrives(p, token)

TokenNext ==
    \/ \E p \in Providers :
          getToken(p) \/ Post(p) \/ Answer(p) \/ Evict(p) \/ stopExpiryTimer(p)
    \/ Truncate \/ \E token \in writes, ok \in BOOLEAN : WriteDone(token, ok)
    \/ Tick

TokenSpec == TokenInit /\ [][TokenNext]_tokenVars

\* Time passes and timers fire.  Nothing is assumed of the endpoint: the request
\* has no timeout, and one that is never answered keeps its callers for ever.
TokenFairness ==
    /\ WF_tokenVars(Tick)
    /\ \A p \in Providers : WF_tokenVars(Post(p)) /\ WF_tokenVars(Evict(p))

FairTokenSpec == TokenSpec /\ TokenFairness

-----------------------------------------------------------------------------
\* The type of every variable.
TokenTypeOK ==
    /\ memory \in [Providers -> {None} \cup Validity]
    /\ timer \in [Providers -> {None} \cup Validity]
    /\ \A p \in Providers : strays[p] \subseteq Validity
    /\ request \in [Providers -> {"none", "waiting", "posted"}]
    /\ wait \in [Providers -> {None} \cup 0..MaxDelay]
    /\ backoff \in [Providers -> 0..MaxDelay]
    /\ stopped \in [Providers -> BOOLEAN]
    /\ file \in {None} \cup Validity
    /\ writes \subseteq Validity
    /\ failing \in BOOLEAN /\ stale \in BOOLEAN
    /\ failures \in [Providers -> 0..MaxFailures]
    /\ quiet \in [Providers -> 0..MaxDelay]

\* No caller ever gets an expired token, whichever cache it came from and
\* whatever other clients did to the file (CHANGELOG.md:46).
TokensFresh == ~stale

\* A token stays in memory only while a timer is pending that evicts it
\* before it expires; timers left over from other tokens may evict early,
\* never late.
EvictionPending ==
    \A p \in Providers : memory[p] # None /\ ~stopped[p] =>
        \E t \in strays[p] \cup ({timer[p]} \ {None}) :
            t + Second <= memory[p] \/ t = 0

\* The endpoint is asked again only after the delay its failures in a row
\* call for: two seconds, doubling, up to the maximum (CHANGELOG.md:240).
Doubled[n \in Nat] == IF n = 0 THEN Second ELSE 2 * Doubled[n - 1]
Owed(n) == IF n = 0 THEN 0 ELSE Least(Doubled[n], MaxDelay)
BackoffKept ==
    [][\A p \in Providers :
         request[p] = "waiting" /\ request'[p] = "posted"
            => quiet[p] >= Owed(failures[p])]_tokenVars

\* A token request that waits for its delay is sent in the end: callers who
\* join it, evictions, files that come and go and close() do not put it off
\* (OAuthProvider.ts getToken).  Whether the endpoint answers is another matter.
RequestsPosted ==
    \A p \in Providers : request[p] = "waiting" ~> request[p] = "posted"
=============================================================================
