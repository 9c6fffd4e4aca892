------------------------- MODULE RateLimiterProofs -------------------------
(***************************************************************************)
(* Proofs, for any number of goroutines, clients and buckets, any burst    *)
(* and rate: no bucket of RateLimiter leaves 0..Burst, and a client whose  *)
(* requests do not overlap gets no more than, and is not refused, what it  *)
(* has earned.                                                             *)
(*                                                                         *)
(* TokensInRange is not inductive: a store or a compare-and-swap writes a  *)
(* value computed from a token count loaded earlier.  LocalsInRange says   *)
(* what those copies may be.  What a client may get needs an account per   *)
(* client: admissions, tokens in its bucket and the refill under way are   *)
(* paid for by the time up to lastRefill (Ledger).                         *)
(***************************************************************************)
EXTENDS RateLimiter, TLAPS

LocalsInRange ==
    \A g \in Goroutine :
        /\ cur[g] \in 0..Burst
        /\ pc[g] = "cas" => cur[g] > 0
        /\ pc[g] \in {"load", "store"} => refill[g] > 0

IndInv == TypeOK /\ TokensInRange /\ LocalsInRange

\* Where a goroutine serving ip is inside Allow.
Serves(g, ip) == ClientOf[g] = ip /\ pc[g] # "idle"

\* Clocks only lag, a goroutine that left Allow holds nothing, and a bucket in
\* the map is its client's alone: memory that anyone still holds is not reused.
Orderly ==
    /\ \A k \in Bucket : lastRefill[k] \in 0..now
    /\ \A g \in Goroutine :
          /\ t[g] \in 0..now
          /\ pc[g] = "idle" => b[g] = Nil
          /\ pc[g] \in {"idle", "now", "swap"} => refill[g] = 0
          /\ \A ip \in IP : buckets[ip] = b[g] /\ b[g] # Nil => ClientOf[g] = ip
    /\ \A ip, jp \in IP : buckets[ip] = buckets[jp] /\ buckets[ip] # Nil => ip = jp

\* What the goroutine of an undisturbed client knows of its bucket.
Undisturbed(g) ==
    /\ b[g] = buckets[ClientOf[g]]
    /\ pc[g] = "swap" => lastRefill[b[g]] <= t[g]
    /\ pc[g] = "store" => cur[g] = tokens[b[g]]
    /\ refill[g] >= 0
    /\ pc[g] \in {"take", "cas"} /\ refill[g] > 0 => tokens[b[g]] > 0 \/ Burst = 0

\* An undisturbed client has spent, still holds, and is about to be credited
\* with r, no more than its burst and what the rate earned up to lastRefill.
Ledger(ip, r) ==
    (admitted[ip] + tokens[buckets[ip]] + r) * RateDen
        <= Burst * RateDen + RateNum * lastRefill[buckets[ip]]

AccountedFor(ip) ==
    /\ buckets[ip] = Nil => admitted[ip] = 0
    /\ buckets[ip] # Nil => Ledger(ip, 0)
    /\ \A g \in Goroutine : Serves(g, ip) =>
          /\ Undisturbed(g)
          /\ pc[g] \in {"load", "store"} => Ledger(ip, refill[g])
          /\ \A h \in Goroutine : Serves(h, ip) => h = g

Accounted == \A ip \in IP \ disturbed : AccountedFor(ip)

\* The conversion of the refill to int64 yields an integer.
LEMMA DivInt ==
    ASSUME NEW x \in Int, NEW d \in Nat \ {0}
    PROVE  x \div d \in Int
OBVIOUS

-----------------------------------------------------------------------------
(* The arithmetic of a refill *)

\* Truncation never rounds an amount of time up to a token, or below zero.
LEMMA Truncates ==
    ASSUME NEW x \in Nat, NEW d \in Nat \ {0}
    PROVE  /\ x \div d \in Nat
           /\ (x \div d) * d <= x
OBVIOUS

\* Moving lastRefill from l to u pays for the r tokens credited meanwhile.
LEMMA RefillPaid ==
    ASSUME NEW s \in Int, NEW c \in Int, NEW d \in Int, NEW n \in Int,
           NEW l \in Int, NEW u \in Int, NEW r \in Int,
           s * d <= c + n * l, r * d <= (u - l) * n
    PROVE  (s + r) * d <= c + n * u
<1>1. (s + r) * d = s * d + r * d
  OBVIOUS
<1>2. (u - l) * n = n * u - n * l
  OBVIOUS
<1> QED
  BY <1>1, <1>2

\* Products of counts are counts.
LEMMA ProductNat ==
    ASSUME NEW x \in Nat, NEW y \in Nat
    PROVE  x * y \in Nat
OBVIOUS

\* A larger factor gives a larger product.
LEMMA Monotone ==
    ASSUME NEW x \in Int, NEW y \in Int, NEW d \in Nat, x <= y
    PROVE  x * d <= y * d /\ d * x <= d * y
<1>1. PICK z \in Nat : y = x + z
  <2>1. y - x \in Nat /\ y = x + (y - x)
    OBVIOUS
  <2> QED
    BY <2>1
<1>2. z * d \in Nat
  OBVIOUS
<1>3. y * d = x * d + z * d /\ d * y = y * d /\ d * x = x * d
  BY <1>1
<1> QED
  BY <1>2, <1>3

\* New limiters satisfy the invariant.
LEMMA InitInvariant == Init => IndInv
BY LimiterAssumption
   DEF Init, IndInv, TypeOK, TokensInRange, LocalsInRange, PC

\* Every step of Allow preserves it.
LEMMA AllowStep ==
    ASSUME IndInv, NEW g \in Goroutine, Allow(g)
    PROVE  IndInv'
<1> USE LimiterAssumption
    DEF IndInv, TypeOK, TokensInRange, LocalsInRange, PC, Goto, sweeper, history
<1>1. CASE Lookup(g)
  <2>1. CASE buckets[ClientOf[g]] # Nil
    BY <1>1, <2>1 DEF Lookup
  <2>2. CASE buckets[ClientOf[g]] = Nil
    BY <1>1, <2>2 DEF Lookup
  <2> QED
    BY <2>1, <2>2
<1>2. CASE ReadClock(g)
  BY <1>2 DEF ReadClock
<1>3. CASE Swap(g)
  <2> DEFINE e == (t[g] - lastRefill[b[g]]) * RateNum
  <2>1. b[g] \in Bucket
    BY <1>3 DEF Swap
  <2>2. e \in Int
    BY <2>1
  <2>3. e \div RateDen \in Int
    BY <2>2, DivInt
  <2> QED
    BY <1>3, <2>1, <2>3 DEF Swap
<1>4. CASE LoadForRefill(g)
  BY <1>4 DEF LoadForRefill
<1>5. CASE Store(g)
  BY <1>5 DEF Store, Least
<1>6. CASE Deny(g)
  BY <1>6 DEF Deny, Forget
<1>7. CASE LoadForTake(g)
  BY <1>7 DEF LoadForTake
<1>8. CASE Admit(g)
  BY <1>8 DEF Admit, Forget
<1>9. CASE Retry(g)
  BY <1>9 DEF Retry
<1> QED
  BY <1>1, <1>2, <1>3, <1>4, <1>5, <1>6, <1>7, <1>8, <1>9 DEF Allow

\* The sweep and the clock touch neither tokens nor the locals of Allow.
LEMMA OtherStep ==
    ASSUME IndInv, Tick \/ Cleanup \/ UNCHANGED vars
    PROVE  IndInv'
<1> USE LimiterAssumption
    DEF IndInv, TypeOK, TokensInRange, LocalsInRange, locals, sweeper, history
<1>1. CASE Tick
  BY <1>1 DEF Tick
<1>2. CASE CleanupTick \/ CleanupLock \/ CleanupUnlock
  BY <1>2 DEF CleanupTick, CleanupLock, CleanupUnlock
<1>3. ASSUME NEW ip \in IP, Evict(ip)
      PROVE  IndInv'
  BY <1>3 DEF Evict
<1>4. CASE UNCHANGED vars
  BY <1>4 DEF vars
<1> QED
  BY <1>1, <1>2, <1>3, <1>4 DEF Cleanup

-----------------------------------------------------------------------------
(* Whose bucket is whose *)

\* New limiters are in order.
LEMMA InitOrderly == Init => Orderly /\ Accounted
BY LimiterAssumption
   DEF Init, Orderly, Accounted, AccountedFor, Serves

\* Every step keeps them in order.
LEMMA OrderlyAllow ==
    ASSUME IndInv, Orderly, NEW g \in Goroutine, Allow(g)
    PROVE  Orderly'
<1> USE LimiterAssumption DEF IndInv, TypeOK, PC, Orderly, Goto, sweeper, history
<1>1. CASE Lookup(g)
  <2>1. CASE buckets[ClientOf[g]] # Nil
    BY <1>1, <2>1 DEF Lookup
  <2>2. CASE buckets[ClientOf[g]] = Nil
    BY <1>1, <2>2 DEF Lookup, Free
  <2> QED
    BY <2>1, <2>2
<1>2. CASE ReadClock(g)
  BY <1>2 DEF ReadClock
<1>3. CASE Swap(g)
  BY <1>3 DEF Swap
<1>4. CASE LoadForRefill(g) \/ Store(g) \/ LoadForTake(g) \/ Retry(g)
  BY <1>4 DEF LoadForRefill, Store, LoadForTake, Retry
<1>5. CASE Deny(g) \/ Admit(g)
  BY <1>5 DEF Deny, Admit, Forget
<1> QED
  BY <1>1, <1>2, <1>3, <1>4, <1>5 DEF Allow

LEMMA OrderlyOther ==
    ASSUME IndInv, Orderly, Tick \/ Cleanup \/ UNCHANGED vars
    PROVE  Orderly'
<1> USE LimiterAssumption DEF IndInv, TypeOK, Orderly, locals, sweeper, history
<1>1. CASE Tick
  BY <1>1 DEF Tick
<1>2. CASE CleanupTick \/ CleanupLock \/ CleanupUnlock
  BY <1>2 DEF CleanupTick, CleanupLock, CleanupUnlock
<1>3. ASSUME NEW ip \in IP, Evict(ip)
      PROVE  Orderly'
  BY <1>3 DEF Evict
<1>4. CASE UNCHANGED vars
  BY <1>4 DEF vars
<1> QED
  BY <1>1, <1>2, <1>3, <1>4 DEF Cleanup

\* A client's account is disturbed only through its bucket or its goroutines.
LEMMA Frame ==
    ASSUME IndInv, NEW ip \in IP, AccountedFor(ip),
           UNCHANGED <<buckets[ip], admitted[ip]>>,
           buckets[ip] # Nil =>
               UNCHANGED <<tokens[buckets[ip]], lastRefill[buckets[ip]]>>,
           \A h \in Goroutine : ClientOf[h] = ip =>
               UNCHANGED <<pc[h], b[h], t[h], refill[h], cur[h]>>
    PROVE  AccountedFor(ip)'
<1>1. UNCHANGED Ledger(ip, 0) \/ buckets[ip] = Nil
  BY DEF Ledger
<1>2. ASSUME NEW h \in Goroutine, Serves(h, ip)'
      PROVE  /\ Serves(h, ip)
             /\ Undisturbed(h)'
             /\ (pc[h] \in {"load", "store"} => Ledger(ip, refill[h]))'
  <2>1. Serves(h, ip) /\ Undisturbed(h) /\ b[h] # Nil
    BY <1>2 DEF Serves, AccountedFor, IndInv, TypeOK
  <2> QED
    BY <1>2, <2>1 DEF Serves, Undisturbed, Ledger, AccountedFor
<1> QED
  BY <1>1, <1>2 DEF AccountedFor

\* A goroutine's steps leave the other clients' accounts alone.
LEMMA OthersKept ==
    ASSUME IndInv, Orderly, NEW g \in Goroutine, Allow(g),
           NEW ip \in IP, ip # ClientOf[g], AccountedFor(ip)
    PROVE  AccountedFor(ip)'
<1> USE LimiterAssumption DEF IndInv, TypeOK, PC, Goto
<1>1. \A h \in Goroutine : ClientOf[h] = ip =>
          UNCHANGED <<pc[h], b[h], t[h], refill[h], cur[h]>>
  BY DEF Allow, Lookup, ReadClock, Swap, LoadForRefill, Store, Deny, LoadForTake,
         Admit, Retry, Forget
<1>2. UNCHANGED <<buckets[ip], admitted[ip]>>
  BY DEF Allow, Lookup, ReadClock, Swap, LoadForRefill, Store, Deny, LoadForTake,
         Admit, Retry, history
<1>3. buckets[ip] # Nil =>
          UNCHANGED <<tokens[buckets[ip]], lastRefill[buckets[ip]]>>
  <2>1. b[g] # buckets[ip] \/ buckets[ip] = Nil
    BY DEF Orderly
  <2>2. CASE Lookup(g)
    BY <2>2 DEF Lookup, Free
  <2>3. CASE ~Lookup(g)
    BY <2>1, <2>3 DEF Allow, ReadClock, Swap, LoadForRefill, Store, Deny,
                      LoadForTake, Admit, Retry
  <2> QED
    BY <2>2, <2>3
<1> QED
  BY <1>1, <1>2, <1>3, Frame

\* A goroutine's steps keep its own client's account, while the client is left
\* undisturbed.
LEMMA OwnKept ==
    ASSUME IndInv, IndInv', Orderly, NEW g \in Goroutine, Allow(g),
           NEW ip \in IP, ip = ClientOf[g], AccountedFor(ip), ip \notin disturbed'
    PROVE  AccountedFor(ip)'
<1> USE LimiterAssumption
<1>1. ip \notin disturbed
  BY DEF Allow, Lookup, ReadClock, Swap, LoadForRefill, Store, Deny, LoadForTake,
         Admit, Retry, history
<1>2. CASE Lookup(g)
  <2>1. \A h \in Goroutine : Serves(h, ip)' => h = g
    BY <1>2 DEF Lookup, Goto, Serves, IndInv, TypeOK
  <2>2. Undisturbed(g)' /\ pc'[g] = "now"
    BY <1>2 DEF Lookup, Goto, Undisturbed, Orderly, IndInv, TypeOK
  <2>3. (buckets[ip] # Nil /\ Ledger(ip, 0))'
    <3>1. CASE buckets[ip] # Nil
      BY <1>2, <3>1 DEF Lookup, AccountedFor, Ledger
    <3>2. CASE buckets[ip] = Nil
      <4>1. PICK k \in Bucket : /\ buckets' = [buckets EXCEPT ![ip] = k]
                                /\ tokens' = [tokens EXCEPT ![k] = Burst]
                                /\ lastRefill' = [lastRefill EXCEPT ![k] = now]
        BY <1>2, <3>2 DEF Lookup
      <4>2. /\ buckets'[ip] = k /\ tokens'[k] = Burst /\ lastRefill'[k] = now
            /\ admitted'[ip] = 0
        BY <1>2, <3>2, <4>1 DEF Lookup, AccountedFor, IndInv, TypeOK
      <4>3. RateNum * now \in Nat /\ Burst * RateDen \in Nat
        BY DEF IndInv, TypeOK
      <4> QED
        BY <4>2, <4>3 DEF Ledger
    <3> QED
      BY <3>1, <3>2
  <2> QED
    BY <2>1, <2>2, <2>3 DEF AccountedFor
<1> DEFINE k == b[g]
<1>3. ASSUME ~Lookup(g)
      PROVE  /\ Serves(g, ip) /\ Undisturbed(g) /\ k \in Bucket /\ buckets[ip] = k
             /\ \A h \in Goroutine : Serves(h, ip) => h = g
             /\ Ledger(ip, 0)
             /\ UNCHANGED buckets
             /\ \A h \in Goroutine : Serves(h, ip)' => h = g
  <2>1. Serves(g, ip) /\ k \in Bucket
    BY <1>3 DEF Allow, ReadClock, Swap, LoadForRefill, Store, Deny, LoadForTake,
                Admit, Retry, Serves, IndInv, TypeOK
  <2>2. /\ Undisturbed(g) /\ buckets[ip] = k
        /\ \A h \in Goroutine : Serves(h, ip) => h = g
    BY <2>1 DEF AccountedFor, Undisturbed
  <2>3. Ledger(ip, 0)
    BY <2>1, <2>2 DEF AccountedFor
  <2>4. UNCHANGED buckets /\ \A h \in Goroutine \ {g} : pc'[h] = pc[h]
    BY <1>3 DEF Allow, ReadClock, Swap, LoadForRefill, Store, Deny, LoadForTake,
                Admit, Retry, Goto, IndInv, TypeOK
  <2> QED
    BY <2>1, <2>2, <2>3, <2>4 DEF Serves
<1> HIDE DEF k
<1>4. ASSUME ~Lookup(g), Ledger(ip, 0)',
             Serves(g, ip)' => /\ Undisturbed(g)'
                               /\ (pc[g] \in {"load", "store"} => Ledger(ip, refill[g]))'
      PROVE  AccountedFor(ip)'
  BY <1>3, <1>4 DEF AccountedFor
<1> USE DEF IndInv, TypeOK, Goto, sweeper, history
<1>5. CASE ReadClock(g)
  <2>1. ~Lookup(g) /\ Ledger(ip, 0)' /\ pc'[g] = "swap"
    BY <1>5, <1>3 DEF ReadClock, Lookup, Ledger
  <2>2. Undisturbed(g)'
    BY <1>5, <1>3, SMTT(40) DEF ReadClock, Lookup, Undisturbed, Orderly, k
  <2> QED
    BY <1>4, <2>1, <2>2
<1>6. CASE Swap(g)
  <2> DEFINE l == lastRefill[k]
             r == ((t[g] - l) * RateNum) \div RateDen
             s == admitted[ip] + tokens[k]
             c == Burst * RateDen
  <2>1. ~Lookup(g) /\ pc[g] = "swap"
    BY <1>6 DEF Swap, Lookup
  <2>2. /\ k \in Bucket /\ l \in Nat /\ t[g] \in Nat /\ l <= t[g] /\ s \in Int /\ c \in Int
        /\ buckets[ip] = k
    BY <1>3, <2>1 DEF Orderly, Undisturbed, k
  <2>3. s * RateDen <= c + RateNum * l
    BY <1>3, <2>1, <2>2 DEF Ledger
  <2>4. (t[g] - l) * RateNum \in Nat
    BY <2>2
  <2>5. r \in Nat /\ r * RateDen <= (t[g] - l) * RateNum
    BY <2>4, Truncates, Zenon
  <2>6. /\ lastRefill'[k] = t[g] /\ tokens'[k] = tokens[k] /\ admitted'[ip] = admitted[ip]
        /\ buckets'[ip] = k /\ b'[g] = k /\ refill'[g] = r
        /\ pc'[g] = IF r > 0 THEN "load" ELSE "take"
    BY <1>6, <1>3, <2>1, <2>2 DEF Swap, k
  <2> HIDE DEF r, s, c
  <2>7. (s + r) * RateDen <= c + RateNum * t[g]
    BY <2>2, <2>3, <2>5, RefillPaid
  <2>8. RateNum * l <= RateNum * t[g]
    BY <2>2, Monotone
  <2>9. s * RateDen <= c + RateNum * t[g]
    BY <2>2, <2>3, <2>8
  <2>10. Ledger(ip, 0)' /\ Ledger(ip, refill[g])'
    BY <2>2, <2>6, <2>7, <2>9 DEF Ledger, s, c
  <2>11. Undisturbed(g)'
    BY <1>6, <2>1, <2>2, <2>5, <2>6 DEF Undisturbed
  <2> QED
    BY <1>4, <2>1, <2>10, <2>11
<1>7. CASE LoadForRefill(g)
  <2>1. ~Lookup(g) /\ pc[g] = "load" /\ pc'[g] = "store"
    BY <1>7 DEF LoadForRefill, Lookup
  <2>2. Ledger(ip, 0)' /\ Ledger(ip, refill[g])'
    BY <1>7, <1>3, <2>1 DEF LoadForRefill, AccountedFor, Ledger
  <2>3. Undisturbed(g)'
    BY <1>7, <1>3, <2>1 DEF LoadForRefill, Undisturbed, k
  <2> QED
    BY <1>4, <2>1, <2>2, <2>3
<1>8. CASE Store(g)
  <2> DEFINE s == admitted[ip] + tokens[k] + refill[g]
             u == admitted[ip] + Least(tokens[k] + refill[g], Burst)
             c == Burst * RateDen + RateNum * lastRefill[k]
  <2>1. ~Lookup(g) /\ pc[g] = "store" /\ pc'[g] = "take"
    BY <1>8 DEF Store, Lookup
  <2>2. k \in Bucket /\ buckets[ip] = k /\ cur[g] = tokens[k] /\ refill[g] > 0
    BY <1>3, <2>1 DEF Undisturbed, LocalsInRange, k
  <2>3. s \in Int /\ u \in Int /\ u <= s /\ c \in Int
    BY <2>2 DEF Least
  <2>4. s * RateDen <= c
    BY <1>3, <2>1, <2>2 DEF AccountedFor, Ledger
  <2>5. /\ tokens'[k] = Least(tokens[k] + refill[g], Burst)
        /\ buckets'[ip] = k /\ b'[g] = k /\ refill'[g] = refill[g]
        /\ admitted'[ip] = admitted[ip] /\ lastRefill'[k] = lastRefill[k]
    BY <1>8, <1>3, <2>1, <2>2 DEF Store, k
  <2>6. tokens'[k] > 0 \/ Burst = 0
    BY <2>2, <2>5 DEF Least, TokensInRange
  <2>7. u * RateDen <= s * RateDen
    BY <2>3, Monotone
  <2>8. u * RateDen <= c
    BY <2>3, <2>4, <2>7
  <2>9. Ledger(ip, 0)'
    BY <2>2, <2>5, <2>8 DEF Ledger, Least
  <2>10. Undisturbed(g)'
    BY <2>1, <2>2, <2>5, <2>6 DEF Undisturbed
  <2> QED
    BY <1>4, <2>1, <2>9, <2>10
<1>9. CASE LoadForTake(g) \/ Retry(g)
  <2>1. ~Lookup(g) /\ pc[g] \in {"take", "cas"} /\ pc'[g] \in {"take", "cas"}
    BY <1>9 DEF LoadForTake, Retry, Lookup
  <2>2. Ledger(ip, 0)'
    BY <1>9, <1>3, <2>1 DEF LoadForTake, Retry, Ledger
  <2>3. Undisturbed(g)'
    BY <1>9, <1>3, <2>1 DEF LoadForTake, Retry, Undisturbed, k
  <2> QED
    BY <1>4, <2>1, <2>2, <2>3
<1>10. CASE Deny(g) \/ Admit(g)
  <2>1. ~Lookup(g) /\ pc'[g] = "idle"
    BY <1>10 DEF Deny, Admit, Lookup
  <2>2. Ledger(ip, 0)'
    <3>1. k \in Bucket /\ buckets[ip] = k
      BY <1>3, <2>1
    <3>2. /\ lastRefill'[k] = lastRefill[k]
          /\ admitted'[ip] + tokens'[k] = admitted[ip] + tokens[k]
      BY <1>10, <1>1, <3>1 DEF Deny, Admit, k
    <3> QED
      BY <1>3, <2>1, <3>1, <3>2 DEF Ledger
  <2> QED
    BY <1>4, <2>1, <2>2 DEF Serves
<1> QED
  BY <1>2, <1>5, <1>6, <1>7, <1>8, <1>9, <1>10 DEF Allow

\* The sweep disturbs the client whose bucket it drops; the clock disturbs nobody.
LEMMA AccountedOther ==
    ASSUME IndInv, Accounted, Tick \/ Cleanup \/ UNCHANGED vars
    PROVE  Accounted'
<1> SUFFICES ASSUME NEW ip \in IP, ip \notin disturbed'
             PROVE  AccountedFor(ip)'
  BY DEF Accounted
<1> USE LimiterAssumption DEF IndInv, TypeOK, locals, sweeper, history
<1>1. /\ UNCHANGED <<tokens, lastRefill, admitted, pc, b, t, refill, cur>>
      /\ buckets'[ip] = buckets[ip]
      /\ ip \notin disturbed
  <2>1. CASE \E jp \in IP : Evict(jp)
    BY <2>1 DEF Evict
  <2>2. CASE ~\E jp \in IP : Evict(jp)
    BY <2>2 DEF Tick, Cleanup, CleanupTick, CleanupLock, CleanupUnlock, vars
  <2> QED
    BY <2>1, <2>2
<1>2. AccountedFor(ip)
  BY <1>1 DEF Accounted
<1> QED
  BY <1>1, <1>2, Frame

-----------------------------------------------------------------------------
(* What follows for every limiter *)

FullInv == IndInv /\ Orderly /\ Accounted

\* The invariant of the accounts is inductive.
LEMMA Invariance == Spec => []FullInv
<1>1. Init => FullInv
  BY InitInvariant, InitOrderly DEF FullInv
<1>2. ASSUME FullInv, [Next]_vars
      PROVE  FullInv'
  <2>1. ASSUME NEW g \in Goroutine, Allow(g)
        PROVE  FullInv'
    <3>1. IndInv' /\ Orderly'
      BY <1>2, <2>1, AllowStep, OrderlyAllow DEF FullInv
    <3>2. ASSUME NEW ip \in IP, ip \notin disturbed'
          PROVE  AccountedFor(ip)'
      <4>1. ip \notin disturbed
        BY <2>1, <3>2
           DEF Allow, Lookup, ReadClock, Swap, LoadForRefill, Store, Deny,
               LoadForTake, Admit, Retry, history
      <4>2. AccountedFor(ip)
        BY <1>2, <3>2, <4>1 DEF FullInv, Accounted
      <4> QED
        BY <1>2, <2>1, <3>1, <3>2, <4>2, OwnKept, OthersKept DEF FullInv
    <3> QED
      BY <3>1, <3>2 DEF FullInv, Accounted
  <2>2. CASE Tick \/ Cleanup \/ UNCHANGED vars
    BY <1>2, <2>2, OtherStep, OrderlyOther, AccountedOther DEF FullInv
  <2> QED
    BY <1>2, <2>1, <2>2 DEF Next
<1> QED
  BY <1>1, <1>2, PTL DEF Spec

\* However refills, compare-and-swaps and evictions interleave, every bucket
\* holds between zero and Burst tokens.
THEOREM TokensBounded == Spec => []TokensInRange
BY Invariance, PTL DEF FullInv, IndInv

\* The truncated, lazily applied refills of Allow never admit a client whose
\* requests do not overlap, and whose bucket is not swept, beyond its burst and
\* what the rate has earned, for every burst and every rate.
THEOREM AdmissionBounded == Spec => []NeverOverAdmits
<1>1. FullInv => NeverOverAdmits
  <2> SUFFICES ASSUME FullInv, NEW ip \in IP, ip \notin disturbed
               PROVE  admitted[ip] * RateDen <= Burst * RateDen + RateNum * now
    BY DEF NeverOverAdmits
  <2> USE LimiterAssumption
  <2>1. /\ admitted[ip] \in Nat /\ now \in Nat /\ buckets[ip] \in Bucket \cup {Nil}
        /\ AccountedFor(ip)
    BY DEF FullInv, IndInv, TypeOK, Accounted
  <2>2. Burst * RateDen \in Nat /\ RateNum * now \in Nat
    <3>1. Burst \in Nat /\ RateDen \in Nat /\ RateNum \in Nat
      OBVIOUS
    <3> QED BY <2>1, <3>1, ProductNat, Zenon
  <2>3. CASE buckets[ip] = Nil
    BY <2>1, <2>2, <2>3 DEF AccountedFor
  <2>4. CASE buckets[ip] # Nil
    <3> DEFINE k == buckets[ip]
    <3>1. tokens[k] \in Nat /\ lastRefill[k] \in Nat /\ lastRefill[k] <= now
      BY <2>1, <2>4 DEF FullInv, IndInv, TypeOK, TokensInRange, Orderly
    <3>2. (admitted[ip] + tokens[k]) * RateDen <= Burst * RateDen + RateNum * lastRefill[k]
      BY <2>1, <2>4, <3>1, SMTT(40) DEF AccountedFor, Ledger
    <3>3. admitted[ip] * RateDen <= (admitted[ip] + tokens[k]) * RateDen
      BY <2>1, <3>1, Monotone
    <3>4. RateNum * lastRefill[k] <= RateNum * now
      BY <2>1, <3>1, Monotone
    <3> QED
      BY <2>1, <2>2, <3>1, <3>2, <3>3, <3>4
  <2> QED
    BY <2>3, <2>4
<1> QED
  BY Invariance, <1>1, PTL

\* A limiter that holds tokens at all never denies such a client when the time
\* since its last request was worth a whole token: the refill it earned is in the
\* bucket when its own compare-and-swap loop looks.  (With a burst of zero no
\* request is ever admitted, whatever has been earned.)
THEOREM PacedNotDenied ==
    ASSUME Burst > 0
    PROVE  Spec => PacedClientAdmitted
<1>1. ASSUME FullInv, NEW g \in Goroutine, Deny(g), ClientOf[g] \notin disturbed
      PROVE  refill[g] = 0
  <2>1. Serves(g, ClientOf[g]) /\ ClientOf[g] \in IP
    BY <1>1, LimiterAssumption DEF Deny, Serves
  <2>2. Undisturbed(g)
    BY <1>1, <2>1 DEF FullInv, Accounted, AccountedFor
  <2>3. b[g] \in Bucket /\ refill[g] \in Int /\ tokens[b[g]] \in Int
    BY <1>1 DEF FullInv, IndInv, TypeOK, Deny
  <2> QED
    BY <1>1, <2>2, <2>3, LimiterAssumption DEF Deny, Undisturbed
<1>2. FullInv /\ [Next]_vars =>
          [\A g \in Goroutine :
             Deny(g) /\ ClientOf[g] \notin disturbed => refill[g] = 0]_vars
  BY <1>1
<1> QED
  BY Invariance, <1>2, PTL DEF Spec, PacedClientAdmitted
=============================================================================
