------------------------- MODULE OAuthTokensProofs -------------------------
(* What TLAPS proves about OAuthTokens, for any number of clients that     *)
(* share the token file, any lifetimes and any delays.                     *)
EXTENDS OAuthTokens, FiniteSetTheorems, WellFoundedInduction, TLAPS

(* The times, with no upper bound: the proofs need none. *)
Time == {None} \cup Nat
TimesOK ==
    /\ memory \in [Providers -> Time] /\ timer \in [Providers -> Time]
    /\ strays \in [Providers -> SUBSET Nat]
    /\ stopped \in [Providers -> BOOLEAN]
    /\ file \in Time /\ writes \subseteq Nat

\* What an open client has in memory is still good ...
MemoryGood(p) == memory[p] # None /\ ~stopped[p] => memory[p] > 0

\* ... and will be evicted: one provider's part of EvictionPending.
Evictors(p) == strays[p] \cup ({timer[p]} \ {None})
Covered(p) ==
    memory[p] # None /\ ~stopped[p] =>
        \E t \in Evictors(p) : t + Second <= memory[p] \/ t = 0

FreshInv == /\ TimesOK /\ TokensFresh
            /\ \A p \in Providers : MemoryGood(p) /\ Covered(p)

cacheVars == <<memory, timer, strays, stopped>>

LEMMA FreshInit == TokenInit => FreshInv
<1>. SUFFICES ASSUME TokenInit PROVE FreshInv  OBVIOUS
<1>1. file \in Time  BY DEF TokenInit, Validity, Time
<1>2. TimesOK  BY <1>1 DEF TokenInit, TimesOK, Time
<1>3. \A p \in Providers : memory[p] = None  BY DEF TokenInit
<1>. QED  BY <1>2, <1>3 DEF FreshInv, MemoryGood, Covered, TokensFresh, TokenInit

-----------------------------------------------------------------------------
(* Steps that do not touch what is cached. *)

LEMMA CacheStays ==
    ASSUME FreshInv, UNCHANGED cacheVars, ~stale', file' \in Time, writes' \subseteq Nat
    PROVE  FreshInv'
<1>1. TimesOK'  BY DEF FreshInv, TimesOK, cacheVars
<1>2. \A p \in Providers : MemoryGood(p)' /\ Covered(p)'
  BY DEF FreshInv, MemoryGood, Covered, Evictors, cacheVars
<1>. QED  BY <1>1, <1>2 DEF FreshInv, TokensFresh

\* A token that is cached gets a timer that runs out before it does; the
\* timers of earlier tokens stay.
LEMMA KeepStep ==
    ASSUME FreshInv, NEW p \in Providers, NEW token \in Nat \ {0}, Keep(p, token),
           UNCHANGED stopped, ~stale', file' \in Time, writes' \subseteq Nat
    PROVE  FreshInv'
<1>. USE OAuthAssumption
<1>1. /\ memory' = [memory EXCEPT ![p] = token]
      /\ timer' = [timer EXCEPT ![p] = IF token > Second THEN token - Second ELSE 0]
      /\ strays' = [strays EXCEPT ![p] = @ \cup ({timer[p]} \ {None})]
  BY DEF Keep
<1>2. (IF token > Second THEN token - Second ELSE 0) \in Nat  OBVIOUS
<1>3. strays[p] \cup ({timer[p]} \ {None}) \in SUBSET Nat
  BY DEF FreshInv, TimesOK, Time
<1>4. TimesOK'  BY <1>1, <1>2, <1>3 DEF FreshInv, TimesOK, Time
<1>5. MemoryGood(p)' /\ Covered(p)'
  <2>1. memory'[p] = token /\ timer'[p] = IF token > Second THEN token - Second ELSE 0
    BY <1>1 DEF FreshInv, TimesOK
  <2>2. timer'[p] # None /\ (timer'[p] + Second <= memory'[p] \/ timer'[p] = 0)
    BY <2>1 DEF None
  <2>3. timer'[p] \in Evictors(p)'  BY <2>2 DEF Evictors
  <2>. QED  BY <2>1, <2>2, <2>3 DEF MemoryGood, Covered
<1>6. \A q \in Providers \ {p} : MemoryGood(q)' /\ Covered(q)'
  <2>. TAKE q \in Providers \ {p}
  <2>1. memory'[q] = memory[q] /\ timer'[q] = timer[q] /\ strays'[q] = strays[q] /\ stopped' = stopped
    BY <1>1 DEF FreshInv, TimesOK
  <2>. QED  BY <2>1 DEF FreshInv, MemoryGood, Covered, Evictors
<1>. QED  BY <1>4, <1>5, <1>6 DEF FreshInv, TokensFresh

LEMMA HandGood ==
    ASSUME ~stale, NEW token \in Nat \ {0}, Hand(token)
    PROVE  ~stale'
<1>1. ~(token <= 0)  OBVIOUS
<1>. QED  BY <1>1, Zenon DEF Hand

LEMMA TokenStep ==
    ASSUME FreshInv, NEW p \in Providers, getToken(p) \/ Post(p) \/ Answer(p)
    PROVE  FreshInv'
<1>1. ~stale /\ file \in Time /\ writes \subseteq Nat  BY DEF FreshInv, TokensFresh, TimesOK
<1>2. CASE FromMemory(p)
  <2>1. memory[p] > 0  BY <1>2 DEF FreshInv, MemoryGood, FromMemory
  <2>2. memory[p] \in Nat \ {0}  BY <2>1 DEF FreshInv, TimesOK, Time, None
  <2>3. ~stale'  BY <1>1, <1>2, <2>2, HandGood DEF FromMemory
  <2>. QED  BY <1>1, <1>2, <2>3, CacheStays DEF FromMemory, cacheVars, fileVars
<1>3. CASE FromFile(p)
  <2>1. file \in Nat \ {0}  BY <1>1, <1>3 DEF FromFile, Usable, Time, None
  <2>2. ~stale'  BY <1>1, <1>3, <2>1, HandGood DEF FromFile
  <2>. QED  BY <1>1, <1>3, <2>1, <2>2, KeepStep DEF FromFile, fileVars
<1>4. CASE AskEndpoint(p) \/ Post(p) \/ RequestFails(p)
  <2>1. UNCHANGED <<memory, timer, strays, stopped, file, writes, stale>>
    BY <1>4 DEF AskEndpoint, Post, RequestFails, fileVars
  <2>. QED  BY <1>1, <2>1, CacheStays DEF cacheVars
<1>5. ASSUME NEW token \in Lifetimes, TokenArrives(p, token) PROVE FreshInv'
  <2>1. token \in Nat \ {0}  BY OAuthAssumption
  <2>2. ~stale'  BY <1>1, <1>5, <2>1, HandGood DEF TokenArrives
  <2>3. writes' \subseteq Nat /\ file' \in Time /\ stopped' = stopped
    BY <1>1, <1>5, <2>1 DEF TokenArrives
  <2>. QED  BY <1>5, <2>1, <2>2, <2>3, KeepStep DEF TokenArrives
<1>. QED  BY <1>2, <1>3, <1>4, <1>5 DEF getToken, Answer

LEMMA EvictStep ==
    ASSUME FreshInv, NEW p \in Providers, Evict(p) \/ stopExpiryTimer(p)
    PROVE  FreshInv'
<1>1. CASE Evict(p)
  <2>1. /\ memory' = [memory EXCEPT ![p] = None] /\ UNCHANGED <<stopped, writes, stale>>
        /\ file' \in {None, file}
    BY <1>1 DEF Evict
  <2>2. \/ timer' = [timer EXCEPT ![p] = None] /\ UNCHANGED strays
        \/ strays' = [strays EXCEPT ![p] = @ \ {0}] /\ UNCHANGED timer
    BY <1>1 DEF Evict
  <2>3. TimesOK'  BY <2>1, <2>2 DEF FreshInv, TimesOK, Time
  <2>4. MemoryGood(p)' /\ Covered(p)'
    BY <2>1 DEF FreshInv, TimesOK, MemoryGood, Covered
  <2>5. \A q \in Providers \ {p} : MemoryGood(q)' /\ Covered(q)'
    BY <2>1, <2>2 DEF FreshInv, TimesOK, MemoryGood, Covered, Evictors
  <2>. QED  BY <2>1, <2>3, <2>4, <2>5 DEF FreshInv, TokensFresh
<1>2. CASE stopExpiryTimer(p)
  <2>1. /\ stopped' = [stopped EXCEPT ![p] = TRUE] /\ timer' = [timer EXCEPT ![p] = None]
        /\ UNCHANGED <<memory, strays, file, writes, stale>>
    BY <1>2 DEF stopExpiryTimer, fileVars
  <2>2. TimesOK'
    <3>1. stopped' \in [Providers -> BOOLEAN]  BY <2>1 DEF FreshInv, TimesOK
    <3>. QED  BY <2>1, <3>1 DEF FreshInv, TimesOK, Time
  <2>3. stopped'[p]  BY <2>1, Zenon DEF FreshInv, TimesOK
  <2>4. \A q \in Providers \ {p} :
            memory'[q] = memory[q] /\ timer'[q] = timer[q] /\ strays'[q] = strays[q] /\ stopped'[q] = stopped[q]
    BY <2>1 DEF FreshInv, TimesOK
  <2>5. \A q \in Providers \ {p} : MemoryGood(q)' /\ Covered(q)'
    BY <2>4 DEF FreshInv, MemoryGood, Covered, Evictors
  <2>6. MemoryGood(p)' /\ Covered(p)'  BY <2>3 DEF MemoryGood, Covered
  <2>. QED  BY <2>1, <2>2, <2>5, <2>6 DEF FreshInv, TokensFresh
<1>. QED  BY <1>1, <1>2

\* As time passes a token and its evictor grow old together; no tick passes
\* over a timer that is due.
LEMMA TickStep == FreshInv /\ Tick => FreshInv'
<1>. SUFFICES ASSUME FreshInv, Tick PROVE FreshInv'  OBVIOUS
<1>1. /\ memory' = [p \in Providers |-> Older(memory[p])]
      /\ timer' = [p \in Providers |-> Older(timer[p])]
      /\ strays' = [p \in Providers |-> {Older(t) : t \in strays[p]}]
      /\ file' = Older(file) /\ writes' = {Older(t) : t \in writes}
      /\ stopped' = stopped /\ stale' = stale
  BY DEF Tick
<1>2. \A t \in Time : Older(t) \in Time  BY DEF Older, Time, None
<1>3. \A t \in Nat : Older(t) \in Nat  BY DEF Older
<1>4. TimesOK'
  <2>1. memory' \in [Providers -> Time] /\ timer' \in [Providers -> Time] /\ file' \in Time
    BY <1>1, <1>2 DEF FreshInv, TimesOK
  <2>2. strays' \in [Providers -> SUBSET Nat] /\ writes' \subseteq Nat
    BY <1>1, <1>3 DEF FreshInv, TimesOK
  <2>. QED  BY <1>1, <2>1, <2>2 DEF FreshInv, TimesOK
<1>5. ASSUME NEW p \in Providers, memory'[p] # None, ~stopped'[p]
      PROVE  memory'[p] > 0 /\ \E t \in Evictors(p)' : t + Second <= memory'[p] \/ t = 0
  <2>1. memory[p] \in Nat /\ memory'[p] = Older(memory[p])
    BY <1>1, <1>5 DEF FreshInv, TimesOK, Time, Older, None
  <2>2. memory[p] # None /\ ~stopped[p]  BY <1>1, <1>5, <2>1 DEF None
  <2>3. PICK t \in Evictors(p) : t + Second <= memory[p] \/ t = 0
    BY <2>2 DEF FreshInv, Covered
  <2>4. t \in Nat \ {0}
    BY <2>3 DEF Tick, Evictors, FreshInv, TimesOK, Time
  <2>5. Older(t) + Second <= Older(memory[p]) /\ Older(memory[p]) > 0
    BY <2>1, <2>3, <2>4, OAuthAssumption DEF Older
  <2>6. Older(t) \in Evictors(p)'
    <3>1. CASE t \in strays[p]  BY <1>1, <3>1 DEF Evictors
    <3>2. CASE t = timer[p]
      <4>1. timer'[p] = Older(t) /\ Older(t) # None  BY <1>1, <2>4, <3>2 DEF Older, None
      <4>. QED  BY <4>1 DEF Evictors
    <3>. QED  BY <2>3, <3>1, <3>2 DEF Evictors
  <2>. QED  BY <2>1, <2>5, <2>6
<1>6. \A p \in Providers : MemoryGood(p)' /\ Covered(p)'
  BY <1>5 DEF MemoryGood, Covered
<1>. QED  BY <1>1, <1>4, <1>6 DEF FreshInv, TokensFresh

LEMMA FreshStep == FreshInv /\ [TokenNext]_tokenVars => FreshInv'
<1>. SUFFICES ASSUME FreshInv, [TokenNext]_tokenVars PROVE FreshInv'  OBVIOUS
<1>1. ~stale /\ file \in Time /\ writes \subseteq Nat  BY DEF FreshInv, TokensFresh, TimesOK
<1>2. CASE Truncate
  BY <1>1, <1>2, CacheStays DEF Truncate, cacheVars, Time
<1>3. ASSUME NEW token \in writes, NEW ok \in BOOLEAN, WriteDone(token, ok) PROVE FreshInv'
  BY <1>1, <1>3, CacheStays DEF WriteDone, cacheVars, Time
<1>4. CASE UNCHANGED tokenVars
  BY <1>1, <1>4, CacheStays DEF tokenVars, cacheVars, fileVars
<1>. QED  BY <1>2, <1>3, <1>4, TokenStep, EvictStep, TickStep DEF TokenNext

LEMMA FreshInvariant == TokenSpec => []FreshInv
<1>. QED  BY FreshInit, FreshStep, PTL DEF TokenSpec

\* No caller ever gets an expired token (OAuthProvider getToken).
THEOREM NobodyGetsStale == TokenSpec => []TokensFresh
<1>1. FreshInv => TokensFresh  BY DEF FreshInv
<1>. QED  BY <1>1, FreshInvariant, PTL

\* Whatever a client holds in memory, a timer of its own will evict in time
\* (OAuthProvider startExpiryTimer).
THEOREM EvictionIsPending == TokenSpec => []EvictionPending
<1>1. FreshInv => EvictionPending
  BY DEF FreshInv, Covered, Evictors, EvictionPending
<1>. QED  BY <1>1, FreshInvariant, PTL

-----------------------------------------------------------------------------
(* The doubling delay.  A set of numbers stands for the formula that the   *)
(* theorems of NaturalsInduction take as a parameter.                      *)

LEMMA LeastElement ==
    ASSUME NEW T \in SUBSET Nat, T # {}
    PROVE  \E x \in T : \A y \in T : ~(y < x)
<1>1. IsWellFoundedOn(OpToRel(<, Nat), Nat)  BY NatLessThanWellFounded, Zenon
<1>2. PICK x \in T : \A y \in T : <<y, x>> \notin OpToRel(<, Nat)
  BY <1>1, WFMin, Zenon
<1>3. \A y \in T : <<y, x>> \in OpToRel(<, Nat) <=> y < x  BY Zenon DEF OpToRel
<1>. QED  BY <1>2, <1>3

LEMMA InductiveSet ==
    ASSUME NEW S, 0 \in S, \A n \in Nat : n \in S => n + 1 \in S
    PROVE  Nat \subseteq S
<1>. SUFFICES ASSUME Nat \ S # {} PROVE FALSE  OBVIOUS
<1>1. PICK n \in Nat \ S : \A m \in Nat \ S : ~(m < n)
  <2>1. Nat \ S \in SUBSET Nat  OBVIOUS
  <2>. QED  BY <2>1, LeastElement
<1>2. n # 0 /\ n - 1 \in Nat /\ n - 1 < n /\ n = (n - 1) + 1  OBVIOUS
<1>3. n - 1 \in S  BY <1>1, <1>2
<1>. QED  BY <1>2, <1>3

\* A function that doubles up to n.
Doubles(g, n) == g[0] = Second /\ \A k \in 0..(n - 1) : g[k + 1] = 2 * g[k]

LEMMA DoublesExists == \A n \in Nat : \E g \in [Nat -> Nat] : Doubles(g, n)
<1>. DEFINE S == {n \in Nat : \E g \in [Nat -> Nat] : Doubles(g, n)}
<1>1. 0 \in S
  <2>1. Doubles([k \in Nat |-> Second], 0)  BY DEF Doubles
  <2>2. [k \in Nat |-> Second] \in [Nat -> Nat]  BY OAuthAssumption
  <2>. QED  BY <2>1, <2>2
<1>2. ASSUME NEW n \in Nat, n \in S PROVE n + 1 \in S
  <2>1. PICK g \in [Nat -> Nat] : Doubles(g, n)  BY <1>2
  <2>2. [g EXCEPT ![n + 1] = 2 * g[n]] \in [Nat -> Nat]  OBVIOUS
  <2>3. Doubles([g EXCEPT ![n + 1] = 2 * g[n]], n + 1)  BY <2>1 DEF Doubles
  <2>4. n + 1 \in Nat  OBVIOUS
  <2>. QED  BY <2>2, <2>3, <2>4
<1>. HIDE DEF S
<1>3. Nat \subseteq S  BY <1>1, <1>2, InductiveSet
<1>. QED  BY <1>3 DEF S

LEMMA DoublesUnique ==
    ASSUME NEW m \in Nat, NEW n \in Nat, NEW g, NEW h, Doubles(g, m), Doubles(h, n)
    PROVE  \A k \in Nat : k <= m /\ k <= n => g[k] = h[k]
<1>. DEFINE S == {k \in Nat : k <= m /\ k <= n => g[k] = h[k]}
<1>1. 0 \in S  BY DEF Doubles
<1>2. ASSUME NEW k \in Nat, k \in S PROVE k + 1 \in S  BY <1>2 DEF Doubles
<1>. HIDE DEF S
<1>3. Nat \subseteq S  BY <1>1, <1>2, InductiveSet
<1>. QED  BY <1>3 DEF S

\* The recursive definition has a solution: its value at n is that of any
\* function that doubles so far.
LEMMA DoubledRecursion ==
    Doubled = [n \in Nat |-> IF n = 0 THEN Second ELSE 2 * Doubled[n - 1]]
<1>. DEFINE W(n) == CHOOSE g \in [Nat -> Nat] : Doubles(g, n)
            f == [n \in Nat |-> W(n)[n]]
<1>1. \A n \in Nat : Doubles(W(n), n)  BY DoublesExists
<1>. HIDE DEF W
<1>2. W(0)[0] = Second  BY <1>1 DEF Doubles
<1>3. ASSUME NEW n \in Nat \ {0} PROVE W(n)[n] = 2 * W(n - 1)[n - 1]
  <2>1. n - 1 \in Nat /\ n - 1 \in 0..(n - 1) /\ (n - 1) + 1 = n  OBVIOUS
  <2>2. Doubles(W(n), n) /\ Doubles(W(n - 1), n - 1)  BY <1>1, <2>1
  <2>3. W(n)[n] = 2 * W(n)[n - 1]  BY <2>1, <2>2 DEF Doubles
  <2>4. W(n)[n - 1] = W(n - 1)[n - 1]  BY <2>1, <2>2, DoublesUnique
  <2>. QED  BY <2>3, <2>4
<1>4. \A n \in Nat : W(n)[n] = IF n = 0 THEN Second ELSE 2 * f[n - 1]
  <2>. TAKE n \in Nat
  <2>1. CASE n = 0  BY <2>1, <1>2
  <2>2. CASE n # 0
    <3>1. n - 1 \in Nat  BY <2>2
    <3>. QED  BY <2>2, <1>3, <3>1
  <2>. QED  BY <2>1, <2>2
<1>5. f = [n \in Nat |-> W(n)[n]]  OBVIOUS
<1>. HIDE DEF f
<1>6. f = [n \in Nat |-> IF n = 0 THEN Second ELSE 2 * f[n - 1]]  BY <1>4, <1>5
<1>. QED  BY <1>6 DEF Doubled

\* It doubles, and exceeds its argument.
LEMMA DoubledGrows ==
    /\ Doubled[0] = Second
    /\ \A n \in Nat : /\ Doubled[n + 1] = 2 * Doubled[n]
                      /\ Doubled[n] \in Nat /\ Doubled[n] > n
<1>. DEFINE S == {n \in Nat : Doubled[n] \in Nat /\ Doubled[n] > n}
<1>1. Doubled[0] = Second /\ \A n \in Nat : Doubled[n + 1] = 2 * Doubled[n]
  BY DoubledRecursion
<1>2. 0 \in S  BY <1>1, OAuthAssumption
<1>3. ASSUME NEW n \in Nat, n \in S PROVE n + 1 \in S  BY <1>1, <1>3
<1>. HIDE DEF S
<1>4. Nat \subseteq S  BY <1>2, <1>3, InductiveSet
<1>. QED  BY <1>1, <1>4 DEF S

\* What a failure makes of the delay is what one more failure calls for, also
\* where the count of failures stops.
LEMMA DelayDoubles ==
    ASSUME NEW n \in 0..MaxFailures
    PROVE  Least(2 * (IF Owed(n) = 0 THEN Second ELSE Owed(n)), MaxDelay)
             = Owed(Least(n + 1, MaxFailures))
<1>. USE OAuthAssumption DEF MaxFailures
<1>1. CASE n = 0
  <2>1. Doubled[1] = 2 * Second  BY DoubledGrows, 1 = 0 + 1
  <2>. QED  BY <1>1, <2>1 DEF Owed, Least
<1>2. CASE n # 0 /\ n < MaxDelay
  <2>1. Doubled[n + 1] = 2 * Doubled[n] /\ Doubled[n] \in Nat /\ Doubled[n] > n
    BY DoubledGrows
  <2>. QED  BY <1>2, <2>1 DEF Owed, Least
<1>3. CASE n = MaxDelay
  <2>1. Doubled[n] \in Nat /\ Doubled[n] > n  BY DoubledGrows
  <2>. QED  BY <1>3, <2>1 DEF Owed, Least
<1>. QED  BY <1>1, <1>2, <1>3

LEMMA OwedType == \A n \in 0..MaxFailures : Owed(n) \in 0..MaxDelay
<1>. QED  BY DoubledGrows, OAuthAssumption DEF Owed, Least, MaxFailures

-----------------------------------------------------------------------------
(* The backoff of the token endpoint. *)

DelaysOK ==
    /\ request \in [Providers -> {"none", "waiting", "posted"}]
    /\ wait \in [Providers -> {None} \cup 0..MaxDelay]
    /\ backoff \in [Providers -> 0..MaxDelay]
    /\ failures \in [Providers -> 0..MaxFailures]
    /\ quiet \in [Providers -> 0..MaxDelay]

\* The delay is what the failures in a row call for, and what is left of it is
\* at most what has not gone by since the last one.
Owing(p) ==
    /\ backoff[p] = Owed(failures[p])
    /\ request[p] = "waiting" => wait[p] # None /\ wait[p] + quiet[p] >= backoff[p]

BackoffInv == DelaysOK /\ \A p \in Providers : Owing(p)

delayVars == <<requestVars, historyVars>>

LEMMA BackoffInit == TokenInit => BackoffInv
<1>. SUFFICES ASSUME TokenInit PROVE BackoffInv  OBVIOUS
<1>. USE OAuthAssumption
<1>1. DelaysOK  BY DEF TokenInit, DelaysOK, MaxFailures
<1>2. \A p \in Providers : Owing(p)  BY DEF TokenInit, Owing, Owed
<1>. QED  BY <1>1, <1>2 DEF BackoffInv

\* A provider's step leaves the delays of the others alone.
LEMMA OthersOwe ==
    ASSUME BackoffInv, NEW p \in Providers, DelaysOK', Owing(p)',
           \A q \in Providers \ {p} :
              /\ request'[q] = request[q] /\ wait'[q] = wait[q] /\ backoff'[q] = backoff[q]
              /\ failures'[q] = failures[q] /\ quiet'[q] = quiet[q]
    PROVE  BackoffInv'
<1>1. \A q \in Providers \ {p} : Owing(q)'  BY DEF BackoffInv, Owing
<1>. QED  BY <1>1 DEF BackoffInv

LEMMA BackoffStep ==
    ASSUME BackoffInv, NEW p \in Providers, AskEndpoint(p) \/ Post(p) \/ Answer(p)
    PROVE  BackoffInv'
<1>. USE OAuthAssumption DEF MaxFailures
<1>1. CASE AskEndpoint(p)
  <2>1. DelaysOK'  BY <1>1 DEF AskEndpoint, BackoffInv, DelaysOK, historyVars
  <2>2. Owing(p)'
    BY <1>1 DEF AskEndpoint, BackoffInv, DelaysOK, Owing, historyVars, None
  <2>. QED  BY <1>1, <2>1, <2>2, OthersOwe DEF AskEndpoint, BackoffInv, DelaysOK, historyVars
<1>2. CASE Post(p)
  <2>1. DelaysOK'  BY <1>2 DEF Post, BackoffInv, DelaysOK, historyVars
  <2>2. Owing(p)'  BY <1>2 DEF Post, BackoffInv, DelaysOK, Owing, historyVars
  <2>. QED  BY <1>2, <2>1, <2>2, OthersOwe DEF Post, BackoffInv, DelaysOK, historyVars
<1>3. ASSUME NEW token \in Lifetimes, TokenArrives(p, token) PROVE BackoffInv'
  <2>1. DelaysOK'  BY <1>3 DEF TokenArrives, BackoffInv, DelaysOK
  <2>2. Owing(p)'  BY <1>3 DEF TokenArrives, BackoffInv, DelaysOK, Owing, Owed
  <2>. QED  BY <1>3, <2>1, <2>2, OthersOwe DEF TokenArrives, BackoffInv, DelaysOK
<1>4. CASE RequestFails(p)
  <2>1. backoff[p] = Owed(failures[p]) /\ failures[p] \in 0..MaxFailures
    BY DEF BackoffInv, DelaysOK, Owing
  <2>2. /\ backoff' = [backoff EXCEPT ![p] = Owed(Least(failures[p] + 1, MaxFailures))]
        /\ failures' = [failures EXCEPT ![p] = Least(failures[p] + 1, MaxFailures)]
        /\ request' = [request EXCEPT ![p] = "none"]
        /\ quiet' = [quiet EXCEPT ![p] = 0] /\ wait' = wait
    BY <1>4, <2>1, DelayDoubles DEF RequestFails, BackoffInv, DelaysOK
  <2>3. Least(failures[p] + 1, MaxFailures) \in 0..MaxFailures  BY <2>1 DEF Least
  <2>4. DelaysOK'  BY <2>2, <2>3, OwedType DEF BackoffInv, DelaysOK
  <2>5. Owing(p)'  BY <2>2 DEF BackoffInv, DelaysOK, Owing
  <2>. QED  BY <2>2, <2>4, <2>5, OthersOwe DEF BackoffInv, DelaysOK
<1>. QED  BY <1>1, <1>2, <1>3, <1>4 DEF Answer

\* A tick takes from what is left what it adds to what has gone by.
LEMMA BackoffTick == BackoffInv /\ Tick => BackoffInv'
<1>. SUFFICES ASSUME BackoffInv, Tick PROVE BackoffInv'  OBVIOUS
<1>. USE OAuthAssumption
<1>1. /\ wait' = [p \in Providers |-> Older(wait[p])]
      /\ quiet' = [p \in Providers |-> Least(quiet[p] + 1, MaxDelay)]
      /\ UNCHANGED <<request, backoff, failures>>
  BY DEF Tick
<1>2. DelaysOK'  BY <1>1 DEF BackoffInv, DelaysOK, Older, Least, None
<1>3. ASSUME NEW p \in Providers PROVE Owing(p)'
  <2>1. wait[p] # 0  BY DEF Tick
  <2>2. /\ wait'[p] = Older(wait[p]) /\ quiet'[p] = Least(quiet[p] + 1, MaxDelay)
        /\ backoff[p] \in 0..MaxDelay /\ quiet[p] \in 0..MaxDelay
        /\ wait[p] \in {None} \cup 0..MaxDelay
    BY <1>1 DEF BackoffInv, DelaysOK
  <2>. QED  BY <1>1, <2>1, <2>2 DEF BackoffInv, Owing, Older, Least, None
<1>. QED  BY <1>2, <1>3 DEF BackoffInv

LEMMA BackoffNext == BackoffInv /\ [TokenNext]_tokenVars => BackoffInv'
<1>. SUFFICES ASSUME BackoffInv, [TokenNext]_tokenVars PROVE BackoffInv'  OBVIOUS
<1>1. ASSUME UNCHANGED delayVars PROVE BackoffInv'
  BY <1>1 DEF BackoffInv, DelaysOK, Owing, delayVars, requestVars, historyVars
<1>2. ASSUME NEW p \in Providers,
             FromMemory(p) \/ FromFile(p) \/ Evict(p) \/ stopExpiryTimer(p)
      PROVE  BackoffInv'
  BY <1>1, <1>2 DEF FromMemory, FromFile, Evict, stopExpiryTimer, delayVars
<1>3. CASE Truncate \/ UNCHANGED tokenVars
  BY <1>1, <1>3 DEF Truncate, tokenVars, delayVars
<1>4. ASSUME NEW token \in writes, NEW ok \in BOOLEAN, WriteDone(token, ok) PROVE BackoffInv'
  BY <1>1, <1>4 DEF WriteDone, delayVars
<1>. QED  BY <1>2, <1>3, <1>4, BackoffStep, BackoffTick DEF TokenNext, getToken

\* The endpoint is asked again only after the delay its failures in a row
\* call for, for any number of failures and any maximum (OAuthProvider
\* debouncedTokenRequest).
THEOREM EndpointIsSpared == TokenSpec => BackoffKept
<1>1. BackoffInv /\ [TokenNext]_tokenVars =>
        [\A p \in Providers :
           request[p] = "waiting" /\ request'[p] = "posted"
             => quiet[p] >= Owed(failures[p])]_tokenVars
  <2>. SUFFICES ASSUME BackoffInv, [TokenNext]_tokenVars, NEW p \in Providers,
                       request[p] = "waiting", request'[p] = "posted"
                PROVE  quiet[p] >= Owed(failures[p])
    OBVIOUS
  <2>1. wait[p] = 0
    <3>1. \A q \in Providers : Post(q) => q = p \/ request'[p] = request[p]
      BY DEF Post, BackoffInv, DelaysOK
    <3>2. \A q \in Providers : AskEndpoint(q) \/ Answer(q) => request'[p] = request[p] \/ request'[p] # "posted"
      BY DEF AskEndpoint, Answer, RequestFails, TokenArrives, BackoffInv, DelaysOK
    <3>3. \A q \in Providers : FromMemory(q) \/ FromFile(q) \/ Evict(q) \/ stopExpiryTimer(q)
            => request' = request
      BY DEF FromMemory, FromFile, Evict, stopExpiryTimer, requestVars
    <3>4. Tick \/ Truncate \/ UNCHANGED tokenVars => request' = request
      BY DEF Tick, Truncate, tokenVars, requestVars
    <3>5. \A token \in writes, ok \in BOOLEAN : WriteDone(token, ok) => request' = request
      BY DEF WriteDone, requestVars
    <3>6. Post(p) => wait[p] = 0  BY DEF Post
    <3>. QED  BY <3>1, <3>2, <3>3, <3>4, <3>5, <3>6 DEF TokenNext, getToken
  <2>. QED  BY <2>1, OAuthAssumption DEF BackoffInv, DelaysOK, Owing
<1>. QED  BY <1>1, BackoffInit, BackoffNext, PTL DEF TokenSpec, BackoffKept

-----------------------------------------------------------------------------
(* The type of every variable, with the longest lifetime as the bound of   *)
(* all times of tokens.                                                    *)

\* A finite set of numbers has a largest one, by induction on its size.
LEMMA FiniteHasMax ==
    ASSUME NEW T \in SUBSET Nat, IsFiniteSet(T), T # {}
    PROVE  \E x \in T : \A y \in T : x >= y
<1>. DEFINE S == {n \in Nat : \A U \in SUBSET Nat :
                    IsFiniteSet(U) /\ Cardinality(U) = n + 1
                      => \E x \in U : \A y \in U : x >= y}
<1>1. 0 \in S
  <2>. SUFFICES ASSUME NEW U \in SUBSET Nat, IsFiniteSet(U), Cardinality(U) = 1
                PROVE  \E x \in U : \A y \in U : x >= y
    OBVIOUS
  <2>1. PICK x : U = {x}  BY FS_Singleton
  <2>2. x \in Nat  BY <2>1
  <2>3. x >= x  BY <2>2
  <2>. QED  BY <2>1, <2>3
<1>2. ASSUME NEW n \in Nat, n \in S PROVE n + 1 \in S
  <2>. SUFFICES ASSUME NEW U \in SUBSET Nat, IsFiniteSet(U), Cardinality(U) = n + 2
                PROVE  \E x \in U : \A y \in U : x >= y
    OBVIOUS
  <2>1. U # {}
    <3>1. n + 2 # 0  OBVIOUS
    <3>. QED  BY <3>1, FS_EmptySet
  <2>2. PICK u \in U : TRUE  BY <2>1
  <2>3. IsFiniteSet(U \ {u}) /\ Cardinality(U \ {u}) = n + 1
    BY <2>2, FS_RemoveElement
  <2>4. PICK x \in U \ {u} : \A y \in U \ {u} : x >= y  BY <1>2, <2>3
  <2>5. CASE x >= u  BY <2>4, <2>5
  <2>6. CASE ~(x >= u)  BY <2>4, <2>6
  <2>. QED  BY <2>5, <2>6
<1>. HIDE DEF S
<1>3. Nat \subseteq S  BY <1>1, <1>2, InductiveSet
<1>4. Cardinality(T) - 1 \in Nat /\ Cardinality(T) = (Cardinality(T) - 1) + 1
  BY FS_CardinalityType, FS_EmptySet
<1>5. Cardinality(T) - 1 \in S  BY <1>3, <1>4
<1>. QED  BY <1>4, <1>5 DEF S

LEMMA ValidityFacts ==
    /\ Validity \subseteq Nat /\ 0 \in Validity /\ Lifetimes \subseteq Validity
    /\ \A t \in Validity : t > Second => t - Second \in Validity
    /\ \A t \in Validity : Older(t) \in Validity
<1>1. MaxLifetime \in Lifetimes /\ \A t \in Lifetimes : MaxLifetime >= t
  <2>1. \E x \in Lifetimes : \A y \in Lifetimes : x >= y
    BY FiniteHasMax, OAuthAssumption
  <2>. QED  BY <2>1 DEF MaxLifetime, Max
<1>2. MaxLifetime \in Nat /\ Lifetimes \subseteq Nat  BY <1>1, OAuthAssumption
<1>. QED  BY <1>1, <1>2, OAuthAssumption DEF Validity, Older

\* The times of tokens, and the flags.
LimitsOK ==
    /\ memory \in [Providers -> {None} \cup Validity]
    /\ timer \in [Providers -> {None} \cup Validity]
    /\ strays \in [Providers -> SUBSET Validity]
    /\ stopped \in [Providers -> BOOLEAN]
    /\ file \in {None} \cup Validity /\ writes \subseteq Validity
    /\ failing \in BOOLEAN /\ stale \in BOOLEAN

LEMMA LimitsInit == TokenInit => LimitsOK
<1>. SUFFICES ASSUME TokenInit PROVE LimitsOK  OBVIOUS
<1>1. failing \in BOOLEAN /\ stale \in BOOLEAN
  <2>1. failing \in FailureOptions /\ stale = FALSE  BY Zenon DEF TokenInit
  <2>2. FailureOptions \subseteq BOOLEAN  BY OAuthAssumption, Zenon
  <2>. QED  BY <2>1, <2>2, Zenon
<1>. QED  BY <1>1 DEF TokenInit, LimitsOK

LEMMA HandType ==
    ASSUME LimitsOK, NEW token, Hand(token)
    PROVE  failing' \in BOOLEAN /\ stale' \in BOOLEAN
<1>1. stale' = (stale \/ token <= 0) /\ failing' = failing  BY Zenon DEF Hand
<1>2. (stale \/ token <= 0) \in BOOLEAN  OBVIOUS
<1>. QED  BY <1>1, <1>2, Zenon DEF LimitsOK

LEMMA KeepType ==
    ASSUME LimitsOK, NEW p \in Providers, NEW token \in Validity, Keep(p, token)
    PROVE  /\ memory' \in [Providers -> {None} \cup Validity]
           /\ timer' \in [Providers -> {None} \cup Validity]
           /\ strays' \in [Providers -> SUBSET Validity]
<1>1. (IF token > Second THEN token - Second ELSE 0) \in Validity  BY ValidityFacts
<1>2. strays[p] \cup ({timer[p]} \ {None}) \in SUBSET Validity  BY DEF LimitsOK
<1>. QED  BY <1>1, <1>2 DEF Keep, LimitsOK

LEMMA LimitsStep ==
    ASSUME LimitsOK, NEW p \in Providers,
           getToken(p) \/ Post(p) \/ Answer(p) \/ Evict(p) \/ stopExpiryTimer(p)
    PROVE  LimitsOK'
<1>1. CASE FromMemory(p)
  <2>1. failing' \in BOOLEAN /\ stale' \in BOOLEAN  BY <1>1, HandType DEF FromMemory
  <2>. QED  BY <1>1, <2>1 DEF FromMemory, LimitsOK, fileVars
<1>2. CASE FromFile(p)
  <2>1. failing' \in BOOLEAN /\ stale' \in BOOLEAN  BY <1>2, HandType DEF FromFile
  <2>2. file \in Validity  BY <1>2 DEF FromFile, Usable, LimitsOK, None
  <2>. QED  BY <1>2, <2>1, <2>2, KeepType DEF FromFile, LimitsOK, fileVars
<1>3. CASE AskEndpoint(p) \/ Post(p) \/ RequestFails(p)
  BY <1>3, Zenon DEF AskEndpoint, Post, RequestFails, LimitsOK, fileVars
<1>4. ASSUME NEW token \in Lifetimes, TokenArrives(p, token) PROVE LimitsOK'
  <2>1. failing' \in BOOLEAN /\ stale' \in BOOLEAN  BY <1>4, HandType DEF TokenArrives
  <2>2. token \in Validity  BY ValidityFacts
  <2>3. writes' \subseteq Validity  BY <1>4, <2>2 DEF TokenArrives, LimitsOK
  <2>4. stopped' = stopped /\ file' = file /\ Keep(p, token)  BY <1>4 DEF TokenArrives
  <2>. QED  BY <2>1, <2>2, <2>3, <2>4, KeepType, Zenon DEF LimitsOK
<1>5. CASE Evict(p)
  <2>1. failing' = failing /\ stale' = stale /\ stopped' = stopped /\ writes' = writes
    BY <1>5 DEF Evict
  <2>2. /\ memory' \in [Providers -> {None} \cup Validity]
        /\ timer' \in [Providers -> {None} \cup Validity]
        /\ strays' \in [Providers -> SUBSET Validity]
        /\ file' \in {None} \cup Validity
    BY <1>5 DEF Evict, LimitsOK
  <2>. QED  BY <2>1, <2>2, Zenon DEF LimitsOK
<1>6. CASE stopExpiryTimer(p)
  <2>1. /\ UNCHANGED <<memory, strays, file, writes, failing, stale>>
        /\ timer' \in [Providers -> {None} \cup Validity]
    BY <1>6 DEF stopExpiryTimer, LimitsOK, fileVars
  <2>2. stopped' \in [Providers -> BOOLEAN]  BY <1>6 DEF stopExpiryTimer, LimitsOK
  <2>. QED  BY <2>1, <2>2, Zenon DEF LimitsOK
<1>. QED  BY <1>1, <1>2, <1>3, <1>4, <1>5, <1>6 DEF getToken, Answer

LEMMA LimitsNext == LimitsOK /\ [TokenNext]_tokenVars => LimitsOK'
<1>. SUFFICES ASSUME LimitsOK, [TokenNext]_tokenVars PROVE LimitsOK'  OBVIOUS
<1>1. CASE Truncate
  <2>1. file' = 0 /\ UNCHANGED <<memory, timer, strays, stopped, writes, failing, stale>>
    BY <1>1 DEF Truncate
  <2>. QED  BY <2>1, ValidityFacts DEF LimitsOK
<1>2. ASSUME NEW token \in writes, NEW ok \in BOOLEAN, WriteDone(token, ok) PROVE LimitsOK'
  <2>1. /\ UNCHANGED <<memory, timer, strays, stopped, failing, stale>>
        /\ writes' = writes \ {token} /\ file' \in {token, file}
    BY <1>2 DEF WriteDone
  <2>. QED  BY <2>1 DEF LimitsOK
<1>3. CASE Tick
  <2>1. \A t \in {None} \cup Validity : Older(t) \in {None} \cup Validity
    BY ValidityFacts DEF Older, None
  <2>2. /\ memory' \in [Providers -> {None} \cup Validity]
        /\ timer' \in [Providers -> {None} \cup Validity]
        /\ file' \in {None} \cup Validity
    BY <1>3, <2>1 DEF Tick, LimitsOK
  <2>3. strays' \in [Providers -> SUBSET Validity] /\ writes' \subseteq Validity
    BY <1>3, ValidityFacts DEF Tick, LimitsOK
  <2>4. UNCHANGED <<stopped, failing, stale>>  BY <1>3 DEF Tick
  <2>. QED  BY <2>2, <2>3, <2>4, Zenon DEF LimitsOK
<1>4. CASE UNCHANGED tokenVars
  BY <1>4 DEF tokenVars, fileVars, LimitsOK
<1>. QED  BY <1>1, <1>2, <1>3, <1>4, LimitsStep DEF TokenNext

\* Every variable keeps its type.
THEOREM TokenTypeCorrect == TokenSpec => []TokenTypeOK
<1>1. BackoffInv /\ LimitsOK => TokenTypeOK
  <2>. SUFFICES ASSUME BackoffInv, LimitsOK PROVE TokenTypeOK  OBVIOUS
  <2>1. \A p \in Providers : strays[p] \subseteq Validity  BY DEF LimitsOK
  <2>. QED  BY <2>1, Zenon DEF BackoffInv, DelaysOK, LimitsOK, TokenTypeOK
<1>. QED  BY <1>1, BackoffInit, BackoffNext, LimitsInit, LimitsNext, PTL DEF TokenSpec
=============================================================================
