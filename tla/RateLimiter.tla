---------------------------- MODULE RateLimiter ----------------------------
(***************************************************************************)
(* The per-IP token bucket of internal/middleware/ratelimit.go.            *)
(*                                                                         *)
(* Goroutines call Allow for the client they serve; a background goroutine *)
(* sweeps stale buckets out of the map.  One action is one atomic access   *)
(* to shared memory or one section under rl.mu.  A bucket is an address:   *)
(* Allow goes on using the one it looked up after a sweep has dropped it   *)
(* from the map.                                                           *)
(*                                                                         *)
(* The rate is RateNum/RateDen tokens per clock tick.  The conversion to   *)
(* int64 truncates, as \div does for the positive amounts that matter.     *)
(* Rounding of the float64 product is not modelled.                        *)
(***************************************************************************)
EXTENDS Integers

CONSTANTS
    Goroutine,
    IP,
    ClientOf,         \* the client each goroutine serves
    Bucket,           \* addresses of buckets
    Nil,
    Burst,            \* rl.burst
    RateNum, RateDen, \* rl.rate
    CleanupInterval,  \* the interval given to StartCleanup
    MaxTime           \* bound on the clock, for model checking

ASSUME LimiterAssumption ==
    /\ ClientOf \in [Goroutine -> IP]
    /\ Nil \notin Bucket
    /\ Burst \in Nat
    /\ RateNum \in Nat
    /\ RateDen \in Nat \ {0}
    /\ CleanupInterval \in Nat \ {0}
    /\ MaxTime \in Nat

VARIABLES
    now,         \* the wall clock
    buckets,     \* rl.buckets
    tokens,      \* tokens of each bucket
    lastRefill,  \* lastRefill of each bucket
    pc,          \* where each goroutine is in Allow
    b,           \* locals of Allow: the bucket,
    t,           \*   now,
    refill,      \*   refill,
    cur,         \*   cur
    sweep,       \* the cleanup goroutine: what it does, its cutoff, the IPs to visit
    swept,       \* ticks of the cleanup ticker consumed
    disturbed,   \* history: clients with Allows that overlapped or a bucket swept
    admitted     \* history: requests admitted, per client, until it is disturbed

locals == <<pc, b, t, refill, cur>>
sweeper == <<sweep, swept>>
history == <<disturbed, admitted>>
vars == <<now, buckets, tokens, lastRefill, locals, sweeper, history>>

Least(x, y) == IF x < y THEN x ELSE y

NotSweeping == [at |-> "ticker", cutoff |-> 0, ips |-> {}]

Init ==
    /\ now = 0
    /\ buckets = [ip \in IP |-> Nil]
    /\ tokens = [k \in Bucket |-> 0]
    /\ lastRefill = [k \in Bucket |-> 0]
    /\ pc = [g \in Goroutine |-> "idle"]
    /\ b = [g \in Goroutine |-> Nil]
    /\ t = [g \in Goroutine |-> 0]
    /\ refill = [g \in Goroutine |-> 0]
    /\ cur = [g \in Goroutine |-> 0]
    /\ sweep = NotSweeping
    /\ swept = 0
    /\ disturbed = {}
    /\ admitted = [ip \in IP |-> 0]

Goto(g, label) == pc' = [pc EXCEPT ![g] = label]

Sweeping == sweep.at = "evict"

\* Memory a new bucket may occupy: neither in the map nor held by an Allow.
Free(k) ==
    /\ \A ip \in IP : buckets[ip] # k
    /\ \A g \in Goroutine : b[g] # k

-----------------------------------------------------------------------------
(* Allow *)

\* bucket(ip): one section under rl.mu, which the sweep may hold.
Lookup(g) ==
    LET ip == ClientOf[g] IN
    /\ pc[g] = "idle"
    /\ ~Sweeping
    /\ \/ /\ buckets[ip] # Nil
          /\ b' = [b EXCEPT ![g] = buckets[ip]]
          /\ UNCHANGED <<buckets, tokens, lastRefill>>
       \/ /\ buckets[ip] = Nil
          /\ \E k \in Bucket :
                /\ Free(k)
                /\ b' = [b EXCEPT ![g] = k]
                /\ buckets' = [buckets EXCEPT ![ip] = k]
                /\ tokens' = [tokens EXCEPT ![k] = Burst]
                /\ lastRefill' = [lastRefill EXCEPT ![k] = now]
    /\ Goto(g, "now")
    /\ disturbed' = IF \E h \in Goroutine \ {g} : ClientOf[h] = ip /\ pc[h] # "idle"
                    THEN disturbed \cup {ip} ELSE disturbed
    /\ UNCHANGED <<now, t, refill, cur, sweeper, admitted>>

ReadClock(g) ==
    /\ pc[g] = "now"
    /\ t' = [t EXCEPT ![g] = now]
    /\ Goto(g, "swap")
    /\ UNCHANGED <<now, buckets, tokens, lastRefill, b, refill, cur, sweeper, history>>

\* Mutant: the refill is computed from the clock alone, not from the elapsed time.
SwapNoElapsed(g) ==
    LET r == (t[g] * RateNum) \div RateDen IN
    /\ pc[g] = "swap"
    /\ lastRefill' = [lastRefill EXCEPT ![b[g]] = t[g]]
    /\ refill' = [refill EXCEPT ![g] = r]
    /\ Goto(g, IF r > 0 THEN "load" ELSE "take")
    /\ UNCHANGED <<now, buckets, tokens, b, t, cur, sweeper, history>>

\* lastRefill is swapped whether or not the elapsed time is worth a token.
Swap(g) ==
    LET r == ((t[g] - lastRefill[b[g]]) * RateNum) \div RateDen IN
    /\ pc[g] = "swap"
    /\ lastRefill' = [lastRefill EXCEPT ![b[g]] = t[g]]
    /\ refill' = [refill EXCEPT ![g] = r]
    /\ Goto(g, IF r > 0 THEN "load" ELSE "take")
    /\ UNCHANGED <<now, buckets, tokens, b, t, cur, sweeper, history>>

LoadForRefill(g) ==
    /\ pc[g] = "load"
    /\ cur' = [cur EXCEPT ![g] = tokens[b[g]]]
    /\ Goto(g, "store")
    /\ UNCHANGED <<now, buckets, tokens, lastRefill, b, t, refill, sweeper, history>>

\* Mutant: the refill is not capped at the burst.
StoreUncapped(g) ==
    /\ pc[g] = "store"
    /\ tokens' = [tokens EXCEPT ![b[g]] = cur[g] + refill[g]]
    /\ Goto(g, "take")
    /\ UNCHANGED <<now, buckets, lastRefill, b, t, refill, cur, sweeper, history>>

\* Mutant: the refill is computed but not stored.
StoreDropped(g) ==
    /\ pc[g] = "store"
    /\ Goto(g, "take")
    /\ UNCHANGED <<now, buckets, tokens, lastRefill, b, t, refill, cur, sweeper, history>>

Store(g) ==
    /\ pc[g] = "store"
    /\ tokens' = [tokens EXCEPT ![b[g]] = Least(cur[g] + refill[g], Burst)]
    /\ Goto(g, "take")
    /\ UNCHANGED <<now, buckets, lastRefill, b, t, refill, cur, sweeper, history>>

Forget(g) ==
    /\ b' = [b EXCEPT ![g] = Nil]
    /\ t' = [t EXCEPT ![g] = 0]
    /\ refill' = [refill EXCEPT ![g] = 0]

\* The loop's load: no token left returns false.
Deny(g) ==
    /\ pc[g] = "take"
    /\ tokens[b[g]] <= 0
    /\ Goto(g, "idle")
    /\ Forget(g)
    /\ cur' = [cur EXCEPT ![g] = 0]
    /\ UNCHANGED <<now, buckets, tokens, lastRefill, sweeper, history>>

LoadForTake(g) ==
    /\ pc[g] = "take"
    /\ tokens[b[g]] > 0
    /\ cur' = [cur EXCEPT ![g] = tokens[b[g]]]
    /\ Goto(g, "cas")
    /\ UNCHANGED <<now, buckets, tokens, lastRefill, b, t, refill, sweeper, history>>

\* A successful compare-and-swap returns true.
Admit(g) ==
    /\ pc[g] = "cas"
    /\ tokens[b[g]] = cur[g]
    /\ tokens' = [tokens EXCEPT ![b[g]] = cur[g] - 1]
    /\ admitted' = IF ClientOf[g] \in disturbed THEN admitted
                   ELSE [admitted EXCEPT ![ClientOf[g]] = @ + 1]
    /\ Goto(g, "idle")
    /\ Forget(g)
    /\ cur' = [cur EXCEPT ![g] = 0]
    /\ UNCHANGED <<now, buckets, lastRefill, sweeper, disturbed>>

\* A failed compare-and-swap goes round the loop.
Retry(g) ==
    /\ pc[g] = "cas"
    /\ tokens[b[g]] # cur[g]
    /\ Goto(g, "take")
    /\ UNCHANGED <<now, buckets, tokens, lastRefill, b, t, refill, cur, sweeper, history>>

-----------------------------------------------------------------------------
(* StartCleanup *)

\* A tick of the ticker (ticks that nobody waited for are dropped).
CleanupTick ==
    /\ sweep.at = "ticker"
    /\ swept < now \div CleanupInterval
    /\ swept' = now \div CleanupInterval
    /\ sweep' = [at |-> "lock", cutoff |-> now - CleanupInterval, ips |-> {}]
    /\ UNCHANGED <<now, buckets, tokens, lastRefill, locals, history>>

\* Lock rl.mu and range over the map.
CleanupLock ==
    /\ sweep.at = "lock"
    /\ sweep' = [sweep EXCEPT !.at = "evict",
                              !.ips = {ip \in IP : buckets[ip] # Nil}]
    /\ UNCHANGED <<now, buckets, tokens, lastRefill, locals, swept, history>>

\* Visit one entry: load its lastRefill and delete it when stale.
Evict(ip) ==
    /\ Sweeping
    /\ ip \in sweep.ips
    /\ IF lastRefill[buckets[ip]] < sweep.cutoff
       THEN /\ buckets' = [buckets EXCEPT ![ip] = Nil]
            /\ disturbed' = disturbed \cup {ip}
       ELSE UNCHANGED <<buckets, disturbed>>
    /\ sweep' = [sweep EXCEPT !.ips = @ \ {ip}]
    /\ UNCHANGED <<now, tokens, lastRefill, locals, swept, admitted>>

CleanupUnlock ==
    /\ Sweeping
    /\ sweep.ips = {}
    /\ sweep' = NotSweeping
    /\ UNCHANGED <<now, buckets, tokens, lastRefill, locals, swept, history>>

-----------------------------------------------------------------------------
\* Time passes.
Tick ==
    /\ now < MaxTime
    /\ now' = now + 1
    /\ UNCHANGED <<buckets, tokens, lastRefill, locals, sweeper, history>>

Allow(g) ==
    \/ Lookup(g) \/ ReadClock(g) \/ Swap(g) \/ LoadForRefill(g) \/ Store(g)
    \/ Deny(g) \/ LoadForTake(g) \/ Admit(g) \/ Retry(g)

Cleanup ==
    \/ CleanupTick \/ CleanupLock \/ CleanupUnlock
    \/ \E ip \in IP : Evict(ip)

Next == Tick \/ Cleanup \/ \E g \in Goroutine : Allow(g)

Spec == Init /\ [][Next]_vars

-----------------------------------------------------------------------------
(* Properties *)

PC == {"idle", "now", "swap", "load", "store", "take", "cas"}

\* Every variable has its type, and a goroutine inside Allow holds a bucket.
TypeOK ==
    /\ now \in Nat
    /\ buckets \in [IP -> Bucket \cup {Nil}]
    /\ tokens \in [Bucket -> Int]
    /\ lastRefill \in [Bucket -> Int]
    /\ pc \in [Goroutine -> PC]
    /\ b \in [Goroutine -> Bucket \cup {Nil}]
    /\ \A g \in Goroutine : pc[g] # "idle" => b[g] # Nil
    /\ t \in [Goroutine -> Nat]
    /\ refill \in [Goroutine -> Int]
    /\ cur \in [Goroutine -> Int]
    /\ disturbed \subseteq IP
    /\ admitted \in [IP -> Nat]

\* No interleaving of refills, compare-and-swaps and evictions drives a bucket
\* below zero or above its capacity.
TokensInRange == \A k \in Bucket : tokens[k] \in 0..Burst

\* "tokens per second", "max tokens (bucket capacity)": a client whose requests
\* do not overlap, and whose bucket the sweep has left alone, is admitted at most
\* its burst plus what the rate has earned, however its lazy refills are spaced.
NeverOverAdmits ==
    \A ip \in IP \ disturbed :
        admitted[ip] * RateDen <= Burst * RateDen + RateNum * now

\* Such a client is not denied after a pause long enough for one whole token,
\* although refills are truncated and lastRefill moves with every request.
PacedClientAdmitted ==
    [][\A g \in Goroutine :
         Deny(g) /\ ClientOf[g] \notin disturbed => refill[g] = 0]_vars
=============================================================================
