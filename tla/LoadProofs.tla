----------------------------- MODULE LoadProofs -----------------------------
(***************************************************************************)
(* Proofs, for any number of requests, backends and admin calls, of what    *)
(* LeastConnections and P2C promise about the load of their pick, and that  *)
(* the counters they read count the requests in flight.                     *)
(*                                                                          *)
(* On top of the invariant of ListSelectorsProofs it takes                  *)
(*   SliceDistinct, OutDistinct   no object is listed twice, in the pool or *)
(*              in the list a request chooses from;                         *)
(*   Weighed    what the selectors loaded is still so, while no count has   *)
(*              moved.                                                      *)
(***************************************************************************)
EXTENDS ListSelectorsProofs

SliceDistinct ==
    /\ \A j, k \in DOMAIN backends : backends[j] = backends[k] => j = k
    /\ \A k \in DOMAIN backends : backends[k] \in created

OutDistinct ==
    \A g \in Goroutine :
        /\ \A j, k \in DOMAIN out[g] : out[g][j] = out[g][k] => j = k
        /\ pc[g] = "scan" =>
             \A k \in DOMAIN out[g] :
                 \E j \in DOMAIN backends : j < i[g] /\ out[g][k] = backends[j]

WeighedFor(g) ==
    /\ pc[g] = "next" /\ i[g] = 1 => best[g] = NoBackend
    /\ pc[g] \in {"draw", "compare", "panic"} => algorithm = "p2c"
    /\ pc[g] = "compare" =>
         \E j, k \in DOMAIN out[g] : j # k /\ best[g] = out[g][j] /\ rival[g] = out[g][k]
    /\ pc[g] = "compare" /\ g \in calm => bestConns[g] = activeConns[best[g]]
    /\ pc[g] = "next" /\ algorithm = "least_connections" /\ i[g] > 1 /\ g \in calm =>
         /\ bestConns[g] = activeConns[best[g]]
         /\ \A k \in DOMAIN out[g] : k < i[g] => bestConns[g] <= activeConns[out[g][k]]

Weighed == \A g \in Goroutine : WeighedFor(g)

\* PicksLessLoaded, request by request.
Light(g) ==
    /\ algorithm = "least_connections" =>
         \A k \in DOMAIN out[g] : activeConns[sel[g]] <= activeConns[out[g][k]]
    /\ algorithm = "p2c" /\ Len(out[g]) > 1 =>
         \E k \in DOMAIN out[g] :
             out[g][k] # sel[g] /\ activeConns[sel[g]] <= activeConns[out[g][k]]

LightFor(g) == pc[g] = "picked" /\ g \in calm => Light(g)

LoadInv == SliceDistinct /\ OutDistinct /\ Weighed /\ PicksLessLoaded

\* z is s, of length n, without its k-th element.
Spliced(z, s, n, k) ==
    /\ DOMAIN z = 1..(n - 1)
    /\ \A j \in 1..(n - 1) : z[j] = IF j < k THEN s[j] ELSE s[j + 1]

\* Pool.Remove moves the elements behind the removed one up by one.
LEMMA SpliceElements ==
    ASSUME NEW s \in Seq(Backend), NEW n \in Nat, n = Len(s), NEW k \in 1..n,
           NEW z, z = SubSeq(s, 1, k - 1) \o SubSeq(s, k + 1, Len(s))
    PROVE  Spliced(z, s, n, k)
<1>1. /\ SubSeq(s, 1, k - 1) \in Seq(Backend)
      /\ Len(SubSeq(s, 1, k - 1)) = k - 1
      /\ \A j \in 1..(k - 1) : SubSeq(s, 1, k - 1)[j] = s[j]
  OBVIOUS
<1>2. /\ SubSeq(s, k + 1, Len(s)) \in Seq(Backend)
      /\ Len(SubSeq(s, k + 1, Len(s))) = n - k
      /\ \A j \in 1..(n - k) : SubSeq(s, k + 1, Len(s))[j] = s[k + j]
  OBVIOUS
<1>3. PICK u \in Seq(Backend), v \in Seq(Backend) :
          /\ z = u \o v /\ Len(u) = k - 1 /\ Len(v) = n - k
          /\ \A j \in 1..(k - 1) : u[j] = s[j]
          /\ \A j \in 1..(n - k) : v[j] = s[k + j]
  BY <1>1, <1>2, Zenon
<1>4. /\ u \o v \in Seq(Backend) /\ Len(u \o v) = Len(u) + Len(v)
      /\ \A j \in 1..(Len(u) + Len(v)) :
           (u \o v)[j] = IF j <= Len(u) THEN u[j] ELSE v[j - Len(u)]
  BY ConcatProperties, Zenon
<1>5. (k - 1) + (n - k) = n - 1
  OBVIOUS
<1>6. /\ z \in Seq(Backend) /\ Len(z) = n - 1
      /\ \A j \in 1..(n - 1) : z[j] = IF j <= k - 1 THEN u[j] ELSE v[j - (k - 1)]
  BY <1>3, <1>4, <1>5, Zenon
<1>7. DOMAIN z = 1..(n - 1)
  BY <1>6, LenProperties, Zenon
<1>8. ASSUME NEW j \in 1..(n - 1)
      PROVE  z[j] = IF j < k THEN s[j] ELSE s[j + 1]
  <2>1. CASE j < k
    <3>1. j \in 1..(k - 1) /\ j <= k - 1
      BY <2>1
    <3> QED BY <1>3, <1>6, <2>1, <3>1, Zenon
  <2>2. CASE ~(j < k)
    <3>1. ~(j <= k - 1) /\ j - (k - 1) \in 1..(n - k) /\ k + (j - (k - 1)) = j + 1
      BY <2>2
    <3>2. z[j] = v[j - (k - 1)]
      BY <1>6, <3>1, Zenon
    <3>3. v[j - (k - 1)] = s[k + (j - (k - 1))]
      BY <1>3, <3>1, Zenon
    <3> QED BY <2>2, <3>1, <3>2, <3>3, Zenon
  <2> QED BY <2>1, <2>2, Zenon
<1> QED BY <1>7, <1>8, Zenon DEF Spliced

\* Nothing is chosen when the server starts.
LEMMA InitLoad == Init => LoadInv
<1> USE DEF Init, InitProxy, NewPool
<1>1. Init => SliceDistinct /\ OutDistinct
  BY PoolAssumption DEF SliceDistinct, OutDistinct
<1>2. Init => Weighed /\ PicksLessLoaded
  BY DEF Weighed, WeighedFor, PicksLessLoaded
<1> QED BY <1>1, <1>2 DEF LoadInv

\* No list holds an object twice: Add appends only new objects and Remove closes
\* the gap.
LEMMA SliceStep ==
    ASSUME TypeOK, SliceDistinct, [Next]_vars
    PROVE  SliceDistinct'
<1>1. PICK n \in Nat : /\ n = Len(backends) /\ DOMAIN backends = 1..n
                       /\ backends \in Seq(Backend)
  BY LenProperties DEF TypeOK, RequestTypeOK, PoolTypeOK
<1>2. CASE UNCHANGED <<backends, created>>
  BY <1>2 DEF SliceDistinct
<1>3. ASSUME NEW b \in Backend, HandleAddBackend(b)
      PROVE  SliceDistinct'
  <2>1. backends' = Append(backends, b) /\ created' = created \cup {b} /\ b \notin created
    BY <1>3 DEF HandleAddBackend, Add
  <2>2. /\ DOMAIN backends' = 1..(n + 1)
        /\ \A k \in 1..n : backends'[k] = backends[k]
        /\ backends'[n + 1] = b
    BY <1>1, <2>1, AppendProperties, LenProperties
  <2> QED BY <1>1, <2>1, <2>2 DEF SliceDistinct
<1>4. ASSUME NEW id, HandleRemoveBackend(id)
      PROVE  SliceDistinct'
  <2>1. PICK k \in 1..n :
            backends' = SubSeq(backends, 1, k - 1) \o SubSeq(backends, k + 1, Len(backends))
    BY <1>1, <1>4, Zenon DEF HandleRemoveBackend, Remove
  <2>2. /\ DOMAIN backends' = 1..(n - 1)
        /\ \A j \in 1..(n - 1) : backends'[j] = IF j < k THEN backends[j] ELSE backends[j + 1]
    <3>1. Spliced(backends', backends, n, k)
      <4>1. n = Len(backends) /\ backends \in Seq(Backend)
        BY <1>1
      <4> QED BY <2>1, <4>1, SpliceElements, Zenon
    <3> QED BY <3>1 DEF Spliced
  <2>3. \A j \in 1..(n - 1) : j \in Int /\ j \in 1..n /\ j + 1 \in 1..n
    OBVIOUS
  <2>4. \A j, l \in 1..n : backends[j] = backends[l] => j = l
    BY <1>1 DEF SliceDistinct
  <2>5. \A j, l \in 1..(n - 1) : backends'[j] = backends'[l] => j = l
    BY <2>2, <2>3, <2>4
  <2>6. \A j \in 1..(n - 1) : backends'[j] \in created
    BY <1>1, <2>2, <2>3, Zenon DEF SliceDistinct
  <2>7. created' = created
    BY <1>4 DEF HandleRemoveBackend, Remove
  <2> QED BY <2>2, <2>5, <2>6, <2>7, Zenon DEF SliceDistinct
<1>5. ASSUME NEW g \in Goroutine, Proxy(g) \/ Count(g)
      PROVE  UNCHANGED <<backends, created>>
  BY <1>5, Zenon DEF Proxy, ServeHTTP, HealthyStep, HealthyEnd, Count, Dispatch, Finish,
              IncConns, DecConns
<1>6. ASSUME NEW g \in Goroutine,
             \/ RoundRobinNext(g) \/ IPHashNext(g)
             \/ LeastConnStep(g) \/ LeastConnEnd(g)
             \/ P2CNext(g) \/ P2CDraw(g) \/ P2CPanic(g) \/ Recover(g) \/ P2CCompare(g)
      PROVE  UNCHANGED <<backends, created>>
  BY <1>6, Zenon DEF RoundRobinNext, IPHashNext, LeastConnStep, LeastConnEnd, P2CNext, P2CDraw,
              P2CPanic, Recover, P2CCompare, Chosen, Selected, SelectorError, poolVars
<1>7. ASSUME NEW b, NEW h, HealthWrite(b, h)
      PROVE  UNCHANGED <<backends, created>>
  BY <1>7 DEF HealthWrite, SetHealth
<1>8. CASE UNCHANGED vars
  BY <1>2, <1>8 DEF vars, proxyVars
<1> QED BY <1>2, <1>3, <1>4, <1>5, <1>6, <1>7, <1>8 DEF Next, Environment

\* A scan takes each element of the slice, which the read lock keeps still, once.
LEMMA OutStep ==
    ASSUME TypeOK, Shape, SliceDistinct, OutDistinct, [Next]_vars
    PROVE  OutDistinct'
<1>1. PICK n \in Nat : n = Len(backends) /\ DOMAIN backends = 1..n
  BY LenProperties DEF TypeOK, RequestTypeOK, PoolTypeOK
<1>2. ASSUME NEW g \in Goroutine, UNCHANGED backends, pc'[g] # "scan",
             out'[g] = out[g] \/ out'[g] = <<>>,
             \A h \in Goroutine \ {g} : pc'[h] = pc[h] /\ out'[h] = out[h] /\ i'[h] = i[h]
      PROVE  OutDistinct'
  <2>1. \A j, k \in DOMAIN out'[g] : out'[g][j] = out'[g][k] => j = k
    BY <1>2 DEF OutDistinct
  <2>2. ASSUME NEW h \in Goroutine \ {g}
        PROVE  /\ \A j, k \in DOMAIN out'[h] : out'[h][j] = out'[h][k] => j = k
               /\ pc'[h] = "scan" =>
                    \A k \in DOMAIN out'[h] :
                        \E j \in DOMAIN backends' : j < i'[h] /\ out'[h][k] = backends'[j]
    BY <1>2 DEF OutDistinct
  <2> QED BY <1>2, <2>1, <2>2 DEF OutDistinct
<1>3. ASSUME NEW g \in Goroutine, ServeHTTP(g)
      PROVE  OutDistinct'
  <2>1. DOMAIN out[g] = {}
    <3>1. out[g] \in Seq(Backend) /\ Len(out[g]) = 0
      BY <1>3 DEF ServeHTTP, Shape, TypeOK, RequestTypeOK
    <3> QED BY <3>1
  <2> QED BY <1>3, <2>1 DEF ServeHTTP, OutDistinct
<1>4. ASSUME NEW g \in Goroutine, HealthyStep(g)
      PROVE  OutDistinct'
  <2>1. /\ i[g] \in Nat /\ i'[g] = i[g] + 1 /\ out[g] \in Seq(Backend)
        /\ UNCHANGED <<backends, pc>>
        /\ \A h \in Goroutine \ {g} : out'[h] = out[h] /\ i'[h] = i[h]
    BY <1>4 DEF HealthyStep, TypeOK, RequestTypeOK
  <2>2. pc[g] = "scan" /\ i[g] \in 1..n /\ backends[i[g]] \in Backend
    BY <1>1, <1>4 DEF HealthyStep, TypeOK, RequestTypeOK, PoolTypeOK
  <2>3. \A k \in DOMAIN out[g] : \E j \in 1..n : j < i[g] /\ out[g][k] = backends[j]
    BY <1>1, <2>2 DEF OutDistinct
  <2>4. /\ \A j, k \in DOMAIN out'[g] : out'[g][j] = out'[g][k] => j = k
        /\ \A k \in DOMAIN out'[g] : \E j \in 1..n : j < i[g] + 1 /\ out'[g][k] = backends[j]
    <3>1. CASE IsHealthy(backends[i[g]])
      <4>1. PICK m \in Nat : m = Len(out[g]) /\ DOMAIN out[g] = 1..m
        BY <2>1, LenProperties
      <4>2. out'[g] = Append(out[g], backends[i[g]])
        BY <1>4, <3>1 DEF HealthyStep, TypeOK, RequestTypeOK
      <4>3. /\ DOMAIN out'[g] = 1..(m + 1)
            /\ \A k \in 1..m : out'[g][k] = out[g][k]
            /\ out'[g][m + 1] = backends[i[g]]
        BY <2>1, <2>2, <4>1, <4>2, AppendProperties, LenProperties
      <4>4. \A k \in 1..m : out[g][k] # backends[i[g]]
        BY <1>1, <2>2, <2>3, <4>1 DEF SliceDistinct
      <4>5. \A j, k \in 1..m : out[g][j] = out[g][k] => j = k
        BY <4>1 DEF OutDistinct
      <4>6. \A j, k \in DOMAIN out'[g] : out'[g][j] = out'[g][k] => j = k
        BY <4>3, <4>4, <4>5
      <4>7. \A k \in DOMAIN out'[g] : \E j \in 1..n : j < i[g] + 1 /\ out'[g][k] = backends[j]
        <5>1. ASSUME NEW k \in 1..m
              PROVE  \E j \in 1..n : j < i[g] + 1 /\ out'[g][k] = backends[j]
          <6>1. PICK j \in 1..n : j < i[g] /\ out[g][k] = backends[j]
            BY <2>3, <4>1
          <6> QED BY <2>1, <4>3, <6>1
        <5>2. i[g] \in 1..n /\ i[g] < i[g] + 1 /\ out'[g][m + 1] = backends[i[g]]
          BY <2>1, <2>2, <4>3
        <5> QED BY <4>3, <5>1, <5>2
      <4> QED BY <4>6, <4>7
    <3>2. CASE ~IsHealthy(backends[i[g]])
      <4>1. out'[g] = out[g]
        BY <1>4, <3>2 DEF HealthyStep
      <4> QED BY <2>1, <2>3, <4>1 DEF OutDistinct
    <3> QED BY <3>1, <3>2
  <2> QED BY <1>1, <2>1, <2>4 DEF OutDistinct
<1>5. ASSUME NEW g \in Goroutine,
             \/ HealthyEnd(g) \/ Count(g)
             \/ RoundRobinNext(g) \/ IPHashNext(g)
             \/ LeastConnStep(g) \/ LeastConnEnd(g)
             \/ P2CNext(g) \/ P2CDraw(g) \/ P2CPanic(g) \/ Recover(g) \/ P2CCompare(g)
      PROVE  OutDistinct'
  <2> USE DEF TypeOK, RequestTypeOK
  <2>1. CASE HealthyEnd(g) \/ Recover(g)
    BY <1>2, <2>1, Zenon DEF HealthyEnd, Recover, SelectorError, Return, poolVars
  <2>2. CASE Count(g)
    BY <1>2, <2>2, Zenon DEF Count, Dispatch, Finish, Return, IncConns, DecConns
  <2>3. CASE RoundRobinNext(g) \/ IPHashNext(g) \/ LeastConnEnd(g) \/ P2CCompare(g)
    BY <1>2, <2>3, ZenonT(60)
       DEF RoundRobinNext, IPHashNext, LeastConnEnd, P2CCompare, Chosen, Selected
  <2>4. CASE P2CNext(g)
    BY <1>2, <2>4, Zenon DEF P2CNext, Chosen, Selected
  <2>5. CASE LeastConnStep(g) \/ P2CDraw(g) \/ P2CPanic(g)
    BY <1>2, <2>5, Zenon DEF LeastConnStep, P2CDraw, P2CPanic
  <2> HIDE DEF TypeOK, RequestTypeOK
  <2> QED BY <1>5, <2>1, <2>2, <2>3, <2>4, <2>5, ZenonT(60)
<1>6. ASSUME Environment
      PROVE  OutDistinct'
  <2>1. UNCHANGED <<pc, out, i>>
    BY <1>6, ZenonT(60) DEF Environment, HandleAddBackend, HandleRemoveBackend, HealthWrite
  <2>2. UNCHANGED backends \/ \A g \in Goroutine : pc[g] # "scan"
    BY <1>6 DEF Environment, HandleAddBackend, HandleRemoveBackend, HealthWrite, SetHealth,
                NoReader
  <2>3. CASE UNCHANGED backends
    BY <2>1, <2>3 DEF OutDistinct
  <2>4. CASE \A g \in Goroutine : pc[g] # "scan"
    BY <2>1, <2>4 DEF OutDistinct
  <2> QED BY <2>2, <2>3, <2>4
<1>7. CASE UNCHANGED vars
  BY <1>7 DEF vars, proxyVars, OutDistinct
<1> QED BY <1>3, <1>4, <1>5, <1>6, <1>7, SMTT(40) DEF Next, Proxy

\* A choice is disturbed only through its request's locals or through the counts.
LEMMA ChoiceFrame ==
    ASSUME NEW g \in Goroutine, WeighedFor(g), LightFor(g),
           UNCHANGED <<pc[g], i[g], out[g], sel[g], best[g], rival[g], bestConns[g]>>,
           UNCHANGED <<algorithm, activeConns>>,
           g \in calm' => g \in calm
    PROVE  WeighedFor(g)' /\ LightFor(g)'
<1>1. Light(g) => Light(g)'
  BY DEF Light
<1> QED BY <1>1 DEF WeighedFor, LightFor

\* A request whose Next has not begun to weigh, or weighs nothing, has nothing to lose.
LEMMA NotChoosing ==
    ASSUME TypeOK, NEW g \in Goroutine, WeighedFor(g), ~Choosing(g),
           UNCHANGED <<pc[g], i[g], out[g], sel[g], best[g], rival[g], bestConns[g]>>,
           UNCHANGED algorithm
    PROVE  WeighedFor(g)' /\ LightFor(g)'
<1>1. pc'[g] # "compare"
  BY DEF WeighedFor, Choosing
<1>2. pc'[g] = "picked" => algorithm' \notin {"least_connections", "p2c"}
  BY DEF Choosing
<1> QED BY <1>1, <1>2 DEF WeighedFor, LightFor, Light, Choosing

\* The choices of the other requests stand while a request counts nothing.
LEMMA OthersChoice ==
    ASSUME TypeOK, NEW g \in Goroutine,
           \/ Proxy(g) \/ RoundRobinNext(g) \/ IPHashNext(g)
           \/ LeastConnStep(g) \/ LeastConnEnd(g)
           \/ P2CNext(g) \/ P2CDraw(g) \/ P2CPanic(g) \/ Recover(g) \/ P2CCompare(g),
           NEW h \in Goroutine, h # g
    PROVE  /\ UNCHANGED <<pc[h], i[h], out[h], sel[h], best[h], rival[h], bestConns[h]>>
           /\ UNCHANGED <<algorithm, activeConns>>
           /\ h \in calm' => h \in calm
<1> USE DEF TypeOK, RequestTypeOK
<1>1. CASE Proxy(g)
  BY <1>1, Zenon DEF Proxy, ServeHTTP, HealthyStep, HealthyEnd, Return
<1>2. CASE RoundRobinNext(g) \/ IPHashNext(g) \/ LeastConnEnd(g) \/ P2CCompare(g)
  BY <1>2, ZenonT(60)
     DEF RoundRobinNext, IPHashNext, LeastConnEnd, P2CCompare, Chosen, Selected
<1>3. CASE LeastConnStep(g)
  BY <1>3, Zenon DEF LeastConnStep
<1>4. CASE P2CNext(g)
  BY <1>4, Zenon DEF P2CNext, Chosen, Selected
<1>5. CASE P2CDraw(g) \/ P2CPanic(g)
  BY <1>5, Zenon DEF P2CDraw, P2CPanic
<1>6. CASE Recover(g)
  BY <1>6 DEF Recover, SelectorError, Return, poolVars
<1> QED BY <1>1, <1>2, <1>3, <1>4, <1>5, <1>6, ZenonT(60)

\* x has the least count, c, of the objects of s before the n-th.
LeastUpTo(s, A, n, x, c) ==
    c = A[x] /\ \A k \in DOMAIN s : k < n => c <= A[s[k]]

\* One turn of LeastConnections' loop extends that by one object.
LEMMA ScanTurn ==
    ASSUME NEW s \in Seq(Backend), NEW A \in [Backend -> Int], NEW n \in DOMAIN s,
           NEW x, NEW c \in Int, NEW y, NEW d,
           n = 1 => x = NoBackend,
           n > 1 => x # NoBackend /\ LeastUpTo(s, A, n, x, c),
           IF x = NoBackend \/ A[s[n]] < c THEN y = s[n] /\ d = A[s[n]] ELSE y = x /\ d = c
    PROVE  LeastUpTo(s, A, n + 1, y, d)
<1>1. \A k \in DOMAIN s : k \in Nat /\ A[s[k]] \in Int
  OBVIOUS
<1>2. CASE n = 1
  BY <1>1, <1>2 DEF LeastUpTo
<1>3. CASE n > 1
  BY <1>1, <1>3 DEF LeastUpTo
<1> QED BY <1>1, <1>2, <1>3

\* A request's own step weighs what it has seen, and picks by it.
LEMMA OwnChoice ==
    ASSUME TypeOK, Shape, OutDistinct, NEW g \in Goroutine, WeighedFor(g),
           \/ Proxy(g) \/ Count(g) \/ RoundRobinNext(g) \/ IPHashNext(g)
           \/ LeastConnStep(g) \/ LeastConnEnd(g)
           \/ P2CNext(g) \/ P2CDraw(g) \/ P2CPanic(g) \/ Recover(g) \/ P2CCompare(g)
    PROVE  WeighedFor(g)' /\ LightFor(g)'
<1>1. /\ i[g] \in Nat \ {0} /\ out[g] \in Seq(Backend) /\ Len(out[g]) \in Nat
      /\ DOMAIN out[g] = 1..Len(out[g])
      /\ \A k \in DOMAIN out[g] : out[g][k] \in Backend /\ activeConns[out[g][k]] \in Int
      /\ bestConns[g] \in Int
  BY DEF TypeOK, RequestTypeOK, PoolTypeOK
<1>2. /\ DOMAIN i = Goroutine /\ DOMAIN out = Goroutine /\ DOMAIN sel = Goroutine
      /\ DOMAIN best = Goroutine /\ DOMAIN rival = Goroutine /\ DOMAIN bestConns = Goroutine
      /\ DOMAIN pc = Goroutine
  BY DEF TypeOK, RequestTypeOK
<1>3. ASSUME pc'[g] \in {"idle", "scan", "serve"}
      PROVE  WeighedFor(g)' /\ LightFor(g)'
  BY <1>3 DEF WeighedFor, LightFor
<1>4. CASE Proxy(g)
  <2>1. CASE pc'[g] = "next"
    <3>1. best'[g] = NoBackend /\ i'[g] = 1
      BY <1>4, <1>2, <2>1, Zenon DEF Proxy, ServeHTTP, HealthyStep, HealthyEnd, Return, Shape
    <3> QED BY <2>1, <3>1 DEF WeighedFor, LightFor
  <2>2. CASE pc'[g] # "next"
    BY <1>4, <1>2, <1>3, <2>2, Zenon DEF Proxy, ServeHTTP, HealthyStep, HealthyEnd, Return
  <2> QED BY <2>1, <2>2
<1>5. CASE Count(g) \/ Recover(g)
  BY <1>5, <1>2, <1>3, Zenon
     DEF Count, Dispatch, Finish, Return, Recover, SelectorError
<1>6. CASE RoundRobinNext(g) \/ IPHashNext(g)
  <2>1. pc'[g] = "picked" /\ algorithm' \notin {"least_connections", "p2c"}
    BY <1>6, <1>2, Zenon DEF RoundRobinNext, IPHashNext, Chosen, Selected
  <2> QED BY <2>1 DEF WeighedFor, LightFor, Light
<1>7. CASE LeastConnEnd(g)
  <2>1. /\ pc'[g] = "picked" /\ sel'[g] = best[g] /\ out'[g] = out[g]
        /\ UNCHANGED <<activeConns, algorithm, calm>>
        /\ algorithm = "least_connections" /\ pc[g] = "next" /\ i[g] > Len(out[g])
    BY <1>7, <1>2 DEF LeastConnEnd, Chosen, Selected
  <2>2. i[g] > 1 /\ \A k \in DOMAIN out[g] : k < i[g]
    BY <1>1, <2>1 DEF Shape
  <2> QED BY <2>1, <2>2 DEF WeighedFor, LightFor, Light
<1>8. CASE P2CNext(g)
  <2>1. algorithm' = "p2c" /\ pc'[g] \in {"picked", "draw"}
    BY <1>8, <1>2, Zenon DEF P2CNext, Chosen, Selected
  <2>2. pc'[g] = "picked" => ~(Len(out'[g]) > 1)
    BY <1>8, <1>2 DEF P2CNext, Chosen, Selected
  <2>3. pc'[g] = "picked" => Light(g)'
    BY <2>1, <2>2, Zenon DEF Light
  <2> QED BY <2>1, <2>3 DEF WeighedFor, LightFor
<1>9. CASE LeastConnStep(g)
  <2>1. /\ pc'[g] = "next" /\ i'[g] = i[g] + 1 /\ out'[g] = out[g]
        /\ UNCHANGED <<activeConns, algorithm>>
        /\ pc[g] = "next" /\ algorithm = "least_connections" /\ i[g] <= Len(out[g])
        /\ g \in calm' => g \in calm \/ i[g] = 1
    BY <1>9, <1>2, Zenon DEF LeastConnStep
  <2>2. IF best[g] = NoBackend \/ activeConns[out[g][i[g]]] < bestConns[g]
        THEN best'[g] = out[g][i[g]] /\ bestConns'[g] = activeConns[out[g][i[g]]]
        ELSE best'[g] = best[g] /\ bestConns'[g] = bestConns[g]
    BY <1>9, <1>2 DEF LeastConnStep
  <2>3. i[g] \in DOMAIN out[g] /\ i[g] + 1 # 1
    BY <1>1, <2>1
  <2>4. /\ i[g] = 1 => best[g] = NoBackend
        /\ i[g] > 1 => best[g] # NoBackend
        /\ g \in calm /\ i[g] > 1 => LeastUpTo(out[g], activeConns, i[g], best[g], bestConns[g])
    BY <2>1, ProxyAssumption DEF WeighedFor, Shape, LeastUpTo
  <2>5. ASSUME g \in calm'
        PROVE  LeastUpTo(out[g], activeConns, i[g] + 1, best'[g], bestConns'[g])
    <3>1. i[g] > 1 => g \in calm
      BY <2>1, <2>5
    <3>2. activeConns \in [Backend -> Int] /\ out[g] \in Seq(Backend) /\ bestConns[g] \in Int
      BY Zenon DEF TypeOK, RequestTypeOK, PoolTypeOK
    <3> QED BY <2>2, <2>3, <2>4, <3>1, <3>2, ScanTurn, Zenon
  <2> QED BY <2>1, <2>3, <2>5, Zenon DEF WeighedFor, LightFor, LeastUpTo
<1>10. CASE P2CDraw(g)
  <2>1. /\ pc[g] = "draw" /\ pc'[g] = "compare" /\ UNCHANGED <<algorithm, activeConns, out>>
        /\ \E x, y \in DOMAIN out[g] :
             /\ x # y
             /\ best'[g] = out[g][x] /\ rival'[g] = out[g][y]
             /\ bestConns'[g] = activeConns[out[g][x]]
    BY <1>10, <1>2 DEF P2CDraw
  <2> QED BY <2>1 DEF WeighedFor, LightFor
<1>11. CASE P2CPanic(g)
  BY <1>11, <1>2 DEF P2CPanic, WeighedFor, LightFor
<1>12. CASE P2CCompare(g)
  <2>1. /\ pc[g] = "compare" /\ pc'[g] = "picked" /\ UNCHANGED <<algorithm, activeConns, calm>>
        /\ out'[g] = out[g]
        /\ sel'[g] = IF bestConns[g] <= activeConns[rival[g]] THEN best[g] ELSE rival[g]
    BY <1>12, <1>2 DEF P2CCompare, Chosen, Selected
  <2>2. algorithm = "p2c"
    BY <2>1 DEF WeighedFor
  <2>3. PICK j, k \in DOMAIN out[g] : j # k /\ best[g] = out[g][j] /\ rival[g] = out[g][k]
    BY <2>1 DEF WeighedFor
  <2>4. out[g][j] # out[g][k]
    BY <2>3 DEF OutDistinct
  <2>5. ASSUME g \in calm
        PROVE  Light(g)'
    <3>1. bestConns[g] = activeConns[out[g][j]]
      BY <2>1, <2>3, <2>5 DEF WeighedFor
    <3>2. activeConns[out[g][j]] \in Int /\ activeConns[out[g][k]] \in Int
      BY <1>1
    <3>3. CASE activeConns[out[g][j]] <= activeConns[out[g][k]]
      BY <2>1, <2>2, <2>3, <2>4, <3>1, <3>3 DEF Light
    <3>4. CASE ~(activeConns[out[g][j]] <= activeConns[out[g][k]])
      <4>1. activeConns[out[g][k]] <= activeConns[out[g][j]]
        BY <3>2, <3>4
      <4> QED BY <2>1, <2>2, <2>3, <2>4, <3>1, <3>4, <4>1 DEF Light
    <3> QED BY <3>3, <3>4
  <2> QED BY <2>1, <2>5 DEF WeighedFor, LightFor
<1> QED BY <1>4, <1>5, <1>6, <1>7, <1>8, <1>9, <1>10, <1>11, <1>12

\* Every request keeps weighing the counts as they are, or is no longer calm.
LEMMA ChoiceStep ==
    ASSUME TypeOK, Shape, OutDistinct, Weighed, PicksLessLoaded, [Next]_vars
    PROVE  Weighed' /\ PicksLessLoaded'
<1> SUFFICES ASSUME NEW h \in Goroutine
             PROVE  WeighedFor(h)' /\ LightFor(h)'
  BY DEF Weighed, PicksLessLoaded, LightFor, Light
<1>1. WeighedFor(h) /\ LightFor(h)
  BY DEF Weighed, PicksLessLoaded, LightFor, Light
<1>2. ASSUME NEW g \in Goroutine,
             \/ Proxy(g) \/ RoundRobinNext(g) \/ IPHashNext(g)
             \/ LeastConnStep(g) \/ LeastConnEnd(g)
             \/ P2CNext(g) \/ P2CDraw(g) \/ P2CPanic(g) \/ Recover(g) \/ P2CCompare(g)
      PROVE  WeighedFor(h)' /\ LightFor(h)'
  <2>1. CASE h = g
    BY <1>1, <1>2, <2>1, OwnChoice
  <2>2. CASE h # g
    BY <1>1, <1>2, <2>2, OthersChoice, ChoiceFrame
  <2> QED BY <2>1, <2>2
<1>3. ASSUME NEW g \in Goroutine, Count(g)
      PROVE  WeighedFor(h)' /\ LightFor(h)'
  <2>1. CASE h = g
    BY <1>1, <1>3, <2>1, OwnChoice
  <2>2. CASE h # g
    <3>1. UNCHANGED <<pc[h], i[h], out[h], sel[h], best[h], rival[h], bestConns[h]>>
      BY <1>3, <2>2 DEF Count, Dispatch, Finish, Return, TypeOK, RequestTypeOK
    <3>2. algorithm' = algorithm /\ (h \in calm' => ~Choosing(h))
      BY <1>3, <2>2 DEF Count
    <3>3. CASE Choosing(h)
      <4>1. h \notin calm'
        BY <3>2, <3>3
      <4> QED BY <1>1, <3>1, <3>2, <4>1 DEF WeighedFor, LightFor
    <3>4. CASE ~Choosing(h)
      BY <1>1, <3>1, <3>2, <3>4, NotChoosing
    <3> QED BY <3>3, <3>4
  <2> QED BY <2>1, <2>2
<1>4. ASSUME Environment, UNCHANGED <<algorithm, counter, best, rival, bestConns, calm>>
      PROVE  WeighedFor(h)' /\ LightFor(h)'
  <2>1. UNCHANGED <<pc, i, out, sel, activeConns>>
    BY <1>4 DEF Environment, HandleAddBackend, HandleRemoveBackend, HealthWrite,
                Add, Remove, SetHealth
  <2> QED BY <1>1, <1>4, <2>1, ChoiceFrame
<1>5. CASE UNCHANGED vars
  BY <1>1, <1>5, ChoiceFrame DEF vars, proxyVars
<1> QED BY <1>2, <1>3, <1>4, <1>5 DEF Next

\* LeastConnections picks a backend with the fewest connections of its list, and
\* P2C never the busiest of all, unless a count moved during the choice: the scan
\* and the two draws compare what they loaded against what is still true.
THEOREM LessLoaded == Spec => []PicksLessLoaded
<1>1. IndInv /\ LoadInv /\ [Next]_vars => LoadInv'
  BY SliceStep, OutStep, ChoiceStep DEF IndInv, LoadInv
<1>2. LoadInv => PicksLessLoaded
  BY DEF LoadInv
<1> QED BY <1>1, <1>2, InitLoad, Invariance, PTL DEF Spec
-----------------------------------------------------------------------------
(* Counting the requests in flight *)

INSTANCE FiniteSetTheorems

\* Nothing is in flight when the server starts.
LEMMA InitConns == Init => ConnsMatchInFlight
<1>1. Init => \A b \in Backend : InFlight(b) = {}
  BY Zenon DEF Init, InitProxy, InFlight
<1>2. Init => \A b \in Backend : activeConns[b] = 0
  BY DEF Init, InitProxy, NewPool
<1> QED BY <1>1, <1>2, FS_EmptySet, Zenon DEF ConnsMatchInFlight

\* The counters follow the requests: each IncConns and DecConns moves exactly one
\* request into or out of the set that is being served.
LEMMA ConnsStep ==
    ASSUME TypeOK, ConnsMatchInFlight, [Next]_vars
    PROVE  ConnsMatchInFlight'
<1> USE DEF TypeOK, RequestTypeOK, PoolTypeOK
<1>1. \A b \in Backend : IsFiniteSet(InFlight(b)) /\ Cardinality(InFlight(b)) \in Nat
  BY ProxyAssumption, FS_Subset, FS_CardinalityType DEF InFlight
<1>2. ASSUME activeConns' = activeConns, \A b \in Backend : InFlight(b)' = InFlight(b)
      PROVE  ConnsMatchInFlight'
  BY <1>2 DEF ConnsMatchInFlight
<1>3. ASSUME NEW g \in Goroutine, pc[g] # "serve", pc'[g] # "serve",
             activeConns' = activeConns,
             \A h \in Goroutine \ {g} : pc'[h] = pc[h] /\ sel'[h] = sel[h]
      PROVE  ConnsMatchInFlight'
  <2>1. \A b \in Backend : InFlight(b)' = InFlight(b)
    BY <1>3, SMTT(40) DEF InFlight
  <2> QED BY <1>2, <1>3, <2>1, SMTT(40)
<1>4. ASSUME NEW g \in Goroutine, Proxy(g)
      PROVE  ConnsMatchInFlight'
  BY <1>3, <1>4, ZenonT(60) DEF Proxy, ServeHTTP, HealthyStep, HealthyEnd, Return
<1>5. ASSUME NEW g \in Goroutine, Dispatch(g)
      PROVE  ConnsMatchInFlight'
  <2>1. PICK b \in Backend : b = sel[g]
    BY <1>5 DEF Dispatch
  <2>2. g \notin InFlight(b) /\ InFlight(b)' = InFlight(b) \cup {g}
    BY <1>5, <2>1 DEF Dispatch, InFlight
  <2>3. \A c \in Backend \ {b} : InFlight(c)' = InFlight(c)
    BY <1>5, <2>1 DEF Dispatch, InFlight
  <2>4. Cardinality(InFlight(b)') = Cardinality(InFlight(b)) + 1
    <3>1. IsFiniteSet(InFlight(b))
      BY <1>1
    <3>2. Cardinality(InFlight(b) \cup {g}) =
             IF g \in InFlight(b) THEN Cardinality(InFlight(b)) ELSE Cardinality(InFlight(b)) + 1
      BY <3>1, FS_AddElement, Zenon
    <3> QED BY <2>2, <3>2
  <2> QED BY <1>5, <2>1, <2>3, <2>4 DEF Dispatch, IncConns, ConnsMatchInFlight
<1>6. ASSUME NEW g \in Goroutine, Finish(g)
      PROVE  ConnsMatchInFlight'
  <2>1. PICK b \in Backend : b = sel[g]
    BY <1>6 DEF Finish
  <2>2. g \in InFlight(b) /\ InFlight(b)' = InFlight(b) \ {g}
    BY <1>6, <2>1 DEF Finish, Return, InFlight
  <2>3. \A c \in Backend \ {b} : InFlight(c)' = InFlight(c)
    BY <1>6, <2>1 DEF Finish, Return, InFlight
  <2>4. Cardinality(InFlight(b)') = Cardinality(InFlight(b)) - 1
    BY <1>1, <2>2, FS_RemoveElement, ZenonT(60)
  <2> QED BY <1>6, <2>1, <2>3, <2>4, SMTT(40) DEF Finish, DecConns, ConnsMatchInFlight
<1>7. ASSUME NEW g \in Goroutine, NEW b, Chosen(g, b), pc[g] # "serve"
      PROVE  ConnsMatchInFlight'
  BY <1>3, <1>7 DEF Chosen, Selected
<1>8. ASSUME NEW g \in Goroutine,
             RoundRobinNext(g) \/ IPHashNext(g) \/ LeastConnEnd(g) \/ P2CCompare(g)
      PROVE  ConnsMatchInFlight'
  BY <1>7, <1>8, SMTT(40) DEF RoundRobinNext, IPHashNext, LeastConnEnd, P2CCompare
<1>9. ASSUME NEW g \in Goroutine, LeastConnStep(g) \/ P2CDraw(g) \/ P2CPanic(g) \/ Recover(g)
      PROVE  ConnsMatchInFlight'
  BY <1>3, <1>9, Zenon DEF LeastConnStep, P2CDraw, P2CPanic, Recover, SelectorError, Return, poolVars
<1>10. ASSUME NEW g \in Goroutine, P2CNext(g)
       PROVE  ConnsMatchInFlight'
  BY <1>3, <1>10, Zenon DEF P2CNext, Chosen, Selected
<1>11. CASE Environment
  <2>1. UNCHANGED <<activeConns, pc, sel>>
    BY <1>11 DEF Environment, HandleAddBackend, HandleRemoveBackend, HealthWrite,
                 Add, Remove, SetHealth
  <2> QED BY <1>2, <2>1 DEF InFlight
<1>12. CASE UNCHANGED vars
  BY <1>2, <1>12, SMTT(40) DEF vars, proxyVars, InFlight
<1> QED
  BY <1>4, <1>5, <1>6, <1>8, <1>9, <1>10, <1>11, <1>12, SMTT(40) DEF Next, Count

\* For any number of requests and backends, in any interleaving with the admin
\* API and the health checkers: activeConns is the number of requests that
\* ServeHTTP has in flight on that backend.
THEOREM ConnsExact == Spec => []ConnsMatchInFlight
<1>1. IndInv /\ ConnsMatchInFlight /\ [Next]_vars => ConnsMatchInFlight'
  BY ConnsStep DEF IndInv
<1> QED BY <1>1, InitConns, Invariance, PTL DEF Spec
=============================================================================
