------------------------- MODULE ListSelectorsProofs -------------------------
(***************************************************************************)
(* Proofs, for any number of requests, backends and admin calls, of what    *)
(* the proxy promises with the selectors of ListSelectors.                  *)
(*                                                                          *)
(* The inductive invariant is TypeOK and                                    *)
(*   Truthful   the histories agree with the present: an object that was    *)
(*              never healthy since the request began is not healthy now,   *)
(*              and so on;                                                  *)
(*   Listed     everything a request may still choose was healthy and in    *)
(*              the pool at some moment since it began;                     *)
(*   Shape      Next runs on a list that is not empty, and its locals hold  *)
(*              backends by the time they are returned;                     *)
(*   ScanSoFar  a scan that has collected nothing has passed no object that *)
(*              was fit all along: the read lock keeps the slice still.     *)
(***************************************************************************)
EXTENDS ListSelectors, TLAPS

Truthful ==
    \A g \in Goroutine :
        /\ \A b \in sick[g] : health[b] # "healthy"
        /\ \A b \in gone[g] : b \notin Members
        /\ \A b \in fit[g] : health[b] = "healthy" /\ b \in Members

Listed ==
    \A g \in Goroutine :
        /\ \A k \in DOMAIN out[g] : out[g][k] \notin sick[g] /\ out[g][k] \notin gone[g]
        /\ best[g] \notin sick[g] /\ best[g] \notin gone[g]
        /\ rival[g] \notin sick[g] /\ rival[g] \notin gone[g]
        /\ pc[g] = "picked" => sel[g] \notin sick[g] /\ sel[g] \notin gone[g]

Shape ==
    \A g \in Goroutine :
        /\ pc[g] \in {"next", "draw", "compare"} => Len(out[g]) > 0
        /\ pc[g] = "next" /\ algorithm = "least_connections" /\ i[g] > 1 => best[g] \in Backend
        /\ pc[g] = "compare" => best[g] \in Backend /\ rival[g] \in Backend
        /\ pc[g] # "compare" => rival[g] = NoBackend
        /\ pc[g] \notin {"next", "compare"} => best[g] = NoBackend
        /\ pc[g] = "next" /\ algorithm # "least_connections" => best[g] = NoBackend
        /\ pc[g] = "idle" => Len(out[g]) = 0 /\ i[g] = 1

ScanSoFar ==
    \A g \in Goroutine :
        pc[g] = "scan" /\ Len(out[g]) = 0 =>
            \A k \in DOMAIN backends : k < i[g] => backends[k] \notin fit[g]

IndInv ==
    TypeOK /\ Truthful /\ Listed /\ Shape /\ ScanSoFar

\* The remainder that RoundRobin and IPHash index with is one of the slice.
LEMMA IndexInRange ==
    ASSUME NEW n \in Nat \ {0}, NEW c \in Nat
    PROVE  (c % n) + 1 \in 1..n
OBVIOUS

\* What the provers know of slices: their domain, append and concatenation.
LEMMA LenProperties ==
    ASSUME NEW S, NEW s \in Seq(S)
    PROVE  Len(s) \in Nat /\ DOMAIN s = 1..Len(s)
OBVIOUS

LEMMA AppendProperties ==
    ASSUME NEW S, NEW s \in Seq(S), NEW e \in S
    PROVE  /\ Append(s, e) \in Seq(S)
           /\ Len(Append(s, e)) = Len(s) + 1
           /\ \A k \in 1..Len(s) : Append(s, e)[k] = s[k]
           /\ Append(s, e)[Len(s) + 1] = e
OBVIOUS

LEMMA ConcatProperties ==
    ASSUME NEW S, NEW s \in Seq(S), NEW z \in Seq(S)
    PROVE  /\ s \o z \in Seq(S)
           /\ Len(s \o z) = Len(s) + Len(z)
           /\ \A k \in 1..(Len(s) + Len(z)) :
                (s \o z)[k] = IF k <= Len(s) THEN s[k] ELSE z[k - Len(s)]
OBVIOUS

\* Healthy's append keeps out of a set what was out of it before.
LEMMA AppendAvoids ==
    ASSUME NEW s \in Seq(Backend), NEW e \in Backend, NEW A,
           \A k \in DOMAIN s : s[k] \notin A, e \notin A
    PROVE  \A k \in DOMAIN Append(s, e) : Append(s, e)[k] \notin A
<1>1. /\ Append(s, e) \in Seq(Backend)
      /\ Len(Append(s, e)) = Len(s) + 1
      /\ \A k \in 1..Len(s) : Append(s, e)[k] = s[k]
      /\ Append(s, e)[Len(s) + 1] = e
  BY AppendProperties
<1>2. DOMAIN Append(s, e) = 1..(Len(s) + 1) /\ DOMAIN s = 1..Len(s) /\ Len(s) \in Nat
  BY <1>1
<1> QED BY <1>1, <1>2

\* Pool.Remove's splice of the slice is again a slice of backends.
LEMMA SpliceType ==
    ASSUME NEW s \in Seq(Backend), NEW k \in DOMAIN s
    PROVE  SubSeq(s, 1, k - 1) \o SubSeq(s, k + 1, Len(s)) \in Seq(Backend)
<1>1. SubSeq(s, 1, k - 1) \in Seq(Backend) /\ SubSeq(s, k + 1, Len(s)) \in Seq(Backend)
  OBVIOUS
<1> QED BY <1>1, ConcatProperties

\* Every part holds when the server starts.
LEMMA InitInvariant == Init => IndInv
<1> SUFFICES ASSUME Init PROVE IndInv
  OBVIOUS
<1> USE DEF Init, InitProxy, NewPool
<1>1. TypeOK
  BY PoolAssumption, SelectorAssumption
     DEF TypeOK, RequestTypeOK, PoolTypeOK, Health, NewSelector
<1>2. Truthful /\ Listed /\ Shape /\ ScanSoFar
  BY SMTT(40) DEF Truthful, Listed, Shape, ScanSoFar
<1> QED BY <1>1, <1>2 DEF IndInv

\* No step leaves the types.
LEMMA TypeStep ==
    ASSUME TypeOK, Shape, [Next]_vars
    PROVE  TypeOK'
<1> USE DEF TypeOK, RequestTypeOK, PoolTypeOK, Health
<1>1. CounterMod \in Nat \ {0} /\ ClientHash \subseteq Nat
  BY SelectorAssumption
<1>2. ASSUME NEW g \in Goroutine, Proxy(g)
      PROVE  TypeOK'
  <2>1. CASE ServeHTTP(g)
    BY <1>2, <2>1 DEF Proxy, ServeHTTP, Well, Members
  <2>2. CASE HealthyStep(g)
    <3>1. i[g] \in DOMAIN backends /\ backends[i[g]] \in Backend
      BY <2>2 DEF HealthyStep
    <3>2. out' \in [Goroutine -> Seq(Backend)]
      BY <2>2, <3>1, AppendProperties DEF HealthyStep
    <3> QED BY <1>2, <2>2, <3>2, SMTT(40) DEF Proxy, HealthyStep
  <2>3. CASE HealthyEnd(g)
    <3>1. UNCHANGED <<backends, created, health, activeConns,
                      algorithm, counter, best, rival, bestConns, calm>>
      BY <1>2, <2>3 DEF Proxy, HealthyEnd
    <3>2. CASE Return(g)
      BY <3>1, <3>2 DEF Return
    <3>3. CASE /\ pc' = [pc EXCEPT ![g] = "next"]
               /\ i' = [i EXCEPT ![g] = 1]
               /\ fit' = [fit EXCEPT ![g] = {}]
               /\ UNCHANGED <<out, sel, sick, gone>>
      BY <3>1, <3>3
    <3> QED BY <2>3, <3>2, <3>3, Zenon DEF HealthyEnd
  <2> QED BY <1>2, <2>1, <2>2, <2>3 DEF Proxy
<1>3. ASSUME NEW g \in Goroutine, Count(g)
      PROVE  TypeOK'
  <2>1. CASE Dispatch(g)
    BY <1>3, <2>1, SMTT(40) DEF Count, Dispatch, IncConns
  <2>2. CASE Finish(g)
    BY <1>3, <2>2 DEF Count, Finish, DecConns, Return
  <2> QED BY <1>3, <2>1, <2>2, SMTT(40) DEF Count
<1>4. ASSUME NEW g \in Goroutine, NEW b \in Backend, Chosen(g, b),
             UNCHANGED <<algorithm, calm>>, counter' \in 0..(CounterMod - 1)
      PROVE  TypeOK'
  BY <1>4 DEF Chosen, Selected
<1>5. ASSUME NEW g \in Goroutine, RoundRobinNext(g)
      PROVE  TypeOK'
  <2>1. (counter % Len(out[g])) + 1 \in 1..Len(out[g])
    BY <1>1, <1>5, IndexInRange DEF RoundRobinNext, Shape
  <2>2. counter' \in 0..(CounterMod - 1)
    BY <1>1, <1>5 DEF RoundRobinNext
  <2>3. out[g][(counter % Len(out[g])) + 1] \in Backend
    BY <2>1
  <2> QED BY <1>4, <1>5, <2>2, <2>3, Zenon DEF RoundRobinNext
<1>6. ASSUME NEW g \in Goroutine, IPHashNext(g)
      PROVE  TypeOK'
  <2>1. PICK hash \in ClientHash : Chosen(g, out[g][(hash % Len(out[g])) + 1])
    BY <1>6 DEF IPHashNext
  <2>2. (hash % Len(out[g])) + 1 \in 1..Len(out[g])
    BY <1>1, <1>6, IndexInRange DEF IPHashNext, Shape
  <2>3. out[g][(hash % Len(out[g])) + 1] \in Backend
    BY <2>2
  <2> QED BY <1>4, <1>6, <2>1, <2>3, Zenon DEF IPHashNext
<1>7. ASSUME NEW g \in Goroutine, LeastConnStep(g)
      PROVE  TypeOK'
  <2>1. out[g][i[g]] \in Backend
    BY <1>7 DEF LeastConnStep
  <2>2. best' \in [Goroutine -> Backend \cup {NoBackend}] /\ bestConns' \in [Goroutine -> Int]
    <3>1. CASE best[g] = NoBackend \/ activeConns[out[g][i[g]]] < bestConns[g]
      <4>1. /\ best' = [best EXCEPT ![g] = out[g][i[g]]]
            /\ bestConns' = [bestConns EXCEPT ![g] = activeConns[out[g][i[g]]]]
        BY <1>7, <3>1, Zenon DEF LeastConnStep
      <4> QED BY <2>1, <4>1
    <3>2. CASE ~(best[g] = NoBackend \/ activeConns[out[g][i[g]]] < bestConns[g])
      BY <1>7, <3>2 DEF LeastConnStep
    <3> QED BY <3>1, <3>2
  <2>3. i' \in [Goroutine -> Nat \ {0}] /\ calm' \subseteq Goroutine
    BY <1>7 DEF LeastConnStep
  <2> QED BY <1>7, <2>2, <2>3, SMTT(40) DEF LeastConnStep
<1>8. ASSUME NEW g \in Goroutine, LeastConnEnd(g)
      PROVE  TypeOK'
  <2>1. best[g] \in Backend
    BY <1>8 DEF LeastConnEnd, Shape
  <2> QED BY <1>4, <1>8, <2>1, SMTT(40) DEF LeastConnEnd
<1>9. ASSUME NEW g \in Goroutine, P2CNext(g)
      PROVE  TypeOK'
  <2>1. CASE Len(out[g]) = 1
    <3>1. ~(Len(out[g]) > 1)
      BY <2>1
    <3>2. Chosen(g, out[g][1])
      BY <1>9, <3>1, Zenon DEF P2CNext
    <3>3. out[g][1] \in Backend
      <4>1. out[g] \in Seq(Backend) /\ 1 \in DOMAIN out[g]
        BY <2>1
      <4> QED BY <4>1
    <3> QED BY <1>4, <1>9, <3>2, <3>3, Zenon DEF P2CNext
  <2>2. CASE Len(out[g]) # 1
    BY <1>9, <2>2, ZenonT(60) DEF P2CNext
  <2> QED BY <2>1, <2>2, SMTT(40)
<1>10. ASSUME NEW g \in Goroutine, P2CDraw(g)
       PROVE  TypeOK'
  BY <1>10 DEF P2CDraw
<1>11. ASSUME NEW g \in Goroutine, P2CPanic(g) \/ Recover(g)
       PROVE  TypeOK'
  <2>1. CASE P2CPanic(g)
    BY <2>1 DEF P2CPanic
  <2>2. CASE Recover(g)
    BY <2>2 DEF Recover, SelectorError, Return, poolVars
  <2> QED BY <1>11, <2>1, <2>2
<1>12. ASSUME NEW g \in Goroutine, P2CCompare(g)
       PROVE  TypeOK'
  <2>1. best[g] \in Backend /\ rival[g] \in Backend
    BY <1>12 DEF P2CCompare, Shape
  <2> QED BY <1>4, <1>12, <2>1, SMTT(40) DEF P2CCompare
<1>13. ASSUME Environment, UNCHANGED <<algorithm, counter, best, rival, bestConns, calm>>
       PROVE  TypeOK'
  <2>1. ASSUME NEW b \in Backend, HandleAddBackend(b)
        PROVE  TypeOK'
    BY <1>13, <2>1, AppendProperties, SMTT(40) DEF HandleAddBackend, Add, Witness
  <2>2. ASSUME NEW b \in created, HandleRemoveBackend(BackendID[b])
        PROVE  TypeOK'
    <3>1. backends' \in Seq(Backend)
      BY <2>2, SpliceType, SMTT(40) DEF HandleRemoveBackend, Remove
    <3> QED BY <1>13, <2>2, <3>1, Zenon DEF HandleRemoveBackend, Remove, Witness
  <2>3. ASSUME NEW b \in created, NEW h \in Health, HealthWrite(b, h)
        PROVE  TypeOK'
    BY <1>13, <2>3 DEF HealthWrite, SetHealth, Witness
  <2> QED BY <1>13, <2>1, <2>2, <2>3, SMTT(40) DEF Environment
<1>14. CASE UNCHANGED vars
  BY <1>14 DEF vars, proxyVars
<1> QED BY <1>2, <1>3, <1>5, <1>6, <1>7, <1>8, <1>9, <1>10, <1>11, <1>12, <1>13, <1>14, ZenonT(60) DEF Next

\* What a step other than ServeHTTP and the environment does to the histories.
Forgets ==
    /\ UNCHANGED <<backends, health>>
    /\ \A h \in Goroutine :
          /\ sick'[h] \subseteq sick[h]
          /\ gone'[h] \subseteq gone[h]
          /\ fit'[h] \subseteq fit[h]

LEMMA StepForgets ==
    ASSUME TypeOK, NEW g \in Goroutine,
           \/ HealthyStep(g) \/ HealthyEnd(g) \/ Count(g)
           \/ RoundRobinNext(g) \/ IPHashNext(g)
           \/ LeastConnStep(g) \/ LeastConnEnd(g)
           \/ P2CNext(g) \/ P2CDraw(g) \/ P2CPanic(g) \/ Recover(g) \/ P2CCompare(g)
    PROVE  Forgets
<1> USE DEF TypeOK, RequestTypeOK, Forgets
<1>1. ASSUME NEW b, Chosen(g, b)
      PROVE  Forgets
  BY <1>1, SMTT(40) DEF Chosen, Selected
<1>2. CASE HealthyStep(g)
  BY <1>2, SMTT(40) DEF HealthyStep
<1>3. CASE HealthyEnd(g)
  BY <1>3, SMTT(40) DEF HealthyEnd, Return
<1>4. CASE Count(g)
  <2>1. CASE Dispatch(g)
    BY <2>1, SMTT(40) DEF Dispatch, IncConns
  <2>2. CASE Finish(g)
    BY <2>2, SMTT(40) DEF Finish, DecConns, Return
  <2> HIDE DEF TypeOK, RequestTypeOK, Forgets
  <2> QED BY <1>4, <2>1, <2>2, Zenon DEF Count
<1>5. CASE RoundRobinNext(g) \/ IPHashNext(g) \/ LeastConnEnd(g) \/ P2CCompare(g)
  <2> HIDE DEF TypeOK, RequestTypeOK, Forgets
  <2> QED BY <1>1, <1>5, ZenonT(60) DEF RoundRobinNext, IPHashNext, LeastConnEnd, P2CCompare
<1>6. CASE LeastConnStep(g) \/ P2CDraw(g) \/ P2CPanic(g)
  BY <1>6, ZenonT(60) DEF LeastConnStep, P2CDraw, P2CPanic
<1>7. CASE P2CNext(g)
  BY <1>1, <1>7, Zenon DEF P2CNext
<1>8. CASE Recover(g)
  BY <1>8 DEF Recover, SelectorError, Return, poolVars
<1> QED BY <1>2, <1>3, <1>4, <1>5, <1>6, <1>7, <1>8, ZenonT(60)

\* The histories keep agreeing with the pool and the healths.
LEMMA TruthfulStep ==
    ASSUME TypeOK, Truthful, [Next]_vars
    PROVE  Truthful'
<1>1. CASE Forgets
  BY <1>1, SMTT(40) DEF Forgets, Truthful, Members
<1>2. ASSUME NEW g \in Goroutine, ServeHTTP(g)
      PROVE  Truthful'
  BY <1>2 DEF ServeHTTP, Truthful, Members, Well, IsHealthy, TypeOK, RequestTypeOK
<1>3. CASE Witness
  BY <1>3 DEF Witness, Truthful, Members, TypeOK, RequestTypeOK
<1>4. CASE UNCHANGED vars
  BY <1>4 DEF vars, proxyVars, Truthful, Members
<1>5. CASE Environment
  BY <1>3, <1>5, SMTT(40) DEF Environment, HandleAddBackend, HandleRemoveBackend, HealthWrite
<1> QED BY <1>1, <1>2, <1>4, <1>5, StepForgets, SMTT(40) DEF Next, Proxy

\* Next keeps a list to choose from and has chosen by the time it returns.
LEMMA ShapeStep ==
    ASSUME TypeOK, Shape, [Next]_vars
    PROVE  Shape'
<1> USE DEF TypeOK, RequestTypeOK
<1>1. ASSUME NEW g \in Goroutine, Proxy(g)
      PROVE  Shape'
  <2>1. CASE ServeHTTP(g)
    BY <1>1, <2>1, SMTT(40) DEF Proxy, ServeHTTP, Shape
  <2>2. CASE HealthyStep(g)
    BY <1>1, <2>2, SMTT(40) DEF Proxy, HealthyStep, Shape
  <2>3. CASE HealthyEnd(g)
    BY <1>1, <2>3, SMTT(40) DEF Proxy, HealthyEnd, Return, Shape
  <2> QED BY <1>1, <2>1, <2>2, <2>3, SMTT(40) DEF Proxy
<1>2. ASSUME NEW g \in Goroutine, Count(g)
      PROVE  Shape'
  BY <1>2, SMTT(40) DEF Count, Dispatch, Finish, Return, Shape
<1>3. ASSUME NEW g \in Goroutine, NEW b, Chosen(g, b), algorithm' = algorithm
      PROVE  Shape'
  BY <1>3, SMTT(40) DEF Chosen, Selected, Shape
<1>4. ASSUME NEW g \in Goroutine,
             RoundRobinNext(g) \/ IPHashNext(g) \/ LeastConnEnd(g) \/ P2CCompare(g)
      PROVE  Shape'
  BY <1>3, <1>4, SMTT(40) DEF RoundRobinNext, IPHashNext, LeastConnEnd, P2CCompare
<1>5. ASSUME NEW g \in Goroutine, LeastConnStep(g)
      PROVE  Shape'
  <2>1. out[g][i[g]] \in Backend
    BY <1>5, SMTT(40) DEF LeastConnStep
  <2>2. best'[g] \in Backend /\ \A h \in Goroutine \ {g} : best'[h] = best[h]
    BY <1>5, <2>1 DEF LeastConnStep
  <2> QED BY <1>5, <2>2, SMTT(40) DEF LeastConnStep, Shape
<1>6. ASSUME NEW g \in Goroutine, P2CNext(g)
      PROVE  Shape'
  <2>1. CASE \E b \in Backend : Chosen(g, b)
    BY <1>3, <1>6, <2>1, SMTT(40) DEF P2CNext
  <2>2. CASE ~\E b \in Backend : Chosen(g, b)
    BY <1>6, <2>2, SMTT(40) DEF P2CNext, Shape
  <2> QED BY <2>1, <2>2
<1>7. ASSUME NEW g \in Goroutine, P2CDraw(g)
      PROVE  Shape'
  BY <1>7, SMTT(40) DEF P2CDraw, Shape
<1>8. ASSUME NEW g \in Goroutine, P2CPanic(g)
      PROVE  Shape'
  BY <1>8, SMTT(40) DEF P2CPanic, Shape
<1>9. ASSUME NEW g \in Goroutine, Recover(g)
      PROVE  Shape'
  BY <1>9 DEF Recover, SelectorError, Return, Shape
<1>10. CASE UNCHANGED <<pc, i, out, algorithm, best, rival>>
  BY <1>10 DEF Shape
<1>11. ASSUME Environment, UNCHANGED <<algorithm, counter, best, rival, bestConns, calm>>
       PROVE  Shape'
  BY <1>10, <1>11 DEF Environment, HandleAddBackend, HandleRemoveBackend, HealthWrite
<1>12. CASE UNCHANGED vars
  BY <1>10, <1>12, SMTT(40) DEF vars, proxyVars
<1> QED BY <1>1, <1>2, <1>4, <1>5, <1>6, <1>7, <1>8, <1>9, <1>11, <1>12, SMTT(40) DEF Next

\* Whatever a request may still choose was healthy, and in the pool, at some
\* moment since it began.
LEMMA ListedStep ==
    ASSUME TypeOK, Truthful, Shape, Listed, [Next]_vars
    PROVE  Listed'
<1> USE DEF TypeOK, RequestTypeOK, PoolTypeOK
<1>1. \A g \in Goroutine : NoBackend \notin sick[g] /\ NoBackend \notin gone[g]
  BY ProxyAssumption, SMTT(40)
<1>2. ASSUME NEW g \in Goroutine, NEW b, Chosen(g, b), b \notin sick[g], b \notin gone[g]
      PROVE  Listed'
  BY <1>1, <1>2, SMTT(40) DEF Chosen, Selected, Listed
<1>3. ASSUME NEW g \in Goroutine, NEW k \in 1..Len(out[g])
      PROVE  out[g][k] \notin sick[g] /\ out[g][k] \notin gone[g]
  BY DEF Listed
<1>4. ASSUME NEW g \in Goroutine, RoundRobinNext(g)
      PROVE  Listed'
  <2>1. (counter % Len(out[g])) + 1 \in 1..Len(out[g])
    BY <1>4, SelectorAssumption, IndexInRange, SMTT(40) DEF RoundRobinNext, Shape
  <2> QED BY <1>2, <1>3, <1>4, <2>1, SMTT(40) DEF RoundRobinNext
<1>5. ASSUME NEW g \in Goroutine, IPHashNext(g)
      PROVE  Listed'
  <2>1. PICK hash \in ClientHash : Chosen(g, out[g][(hash % Len(out[g])) + 1])
    BY <1>5, SMTT(40) DEF IPHashNext
  <2>2. (hash % Len(out[g])) + 1 \in 1..Len(out[g])
    BY <1>5, SelectorAssumption, IndexInRange, SMTT(40) DEF IPHashNext, Shape
  <2> QED BY <1>2, <1>3, <2>1, <2>2, SMTT(40)
<1>6. ASSUME NEW g \in Goroutine, LeastConnEnd(g) \/ P2CCompare(g)
      PROVE  Listed'
  BY <1>2, <1>6, SMTT(40) DEF LeastConnEnd, P2CCompare, Listed
<1>7. ASSUME NEW g \in Goroutine, P2CNext(g)
      PROVE  Listed'
  <2>1. CASE Len(out[g]) = 1
    <3>1. ~(Len(out[g]) > 1)
      BY <2>1
    <3>2. Chosen(g, out[g][1])
      BY <1>7, <3>1, Zenon DEF P2CNext
    <3>3. 1 \in 1..Len(out[g])
      BY <2>1, SMTT(40)
    <3> QED BY <1>2, <1>3, <3>2, <3>3, SMTT(40)
  <2>2. CASE Len(out[g]) # 1
    BY <1>7, <2>2, SMTT(40) DEF P2CNext, Listed
  <2> QED BY <2>1, <2>2, SMTT(40)
<1>8. ASSUME NEW g \in Goroutine, LeastConnStep(g)
      PROVE  Listed'
  <2>1. i[g] \in 1..Len(out[g])
    BY <1>8 DEF LeastConnStep
  <2>2. /\ best'[g] = out[g][i[g]] \/ best'[g] = best[g]
        /\ \A h \in Goroutine \ {g} : best'[h] = best[h]
    BY <1>8 DEF LeastConnStep
  <2> QED BY <1>3, <1>8, <2>1, <2>2, ZenonT(60) DEF LeastConnStep, Listed
<1>9. ASSUME NEW g \in Goroutine, P2CDraw(g)
      PROVE  Listed'
  BY <1>9, SMTT(40) DEF P2CDraw, Listed
<1>10. ASSUME NEW g \in Goroutine, P2CPanic(g)
       PROVE  Listed'
  BY <1>10, SMTT(40) DEF P2CPanic, Listed
<1>11. ASSUME NEW g \in Goroutine, Recover(g)
       PROVE  Listed'
  <2>1. sick'[g] = {} /\ gone'[g] = {} /\ Return(g) /\ UNCHANGED <<best, rival>>
    BY <1>11, SMTT(40) DEF Recover, SelectorError, Return
  <2>2. \A h \in Goroutine \ {g} :
           /\ pc'[h] = pc[h] /\ out'[h] = out[h] /\ sel'[h] = sel[h]
           /\ sick'[h] = sick[h] /\ gone'[h] = gone[h]
    BY <2>1, SMTT(40) DEF Return
  <2> QED BY <2>1, <2>2, ZenonT(60) DEF Listed
<1>12. ASSUME NEW g \in Goroutine, Count(g)
       PROVE  Listed'
  <2>1. /\ sick'[g] = {} /\ gone'[g] = {} /\ UNCHANGED <<best, rival>>
        /\ \A h \in Goroutine \ {g} :
             /\ pc'[h] = pc[h] /\ out'[h] = out[h] /\ sel'[h] = sel[h]
             /\ sick'[h] = sick[h] /\ gone'[h] = gone[h]
    BY <1>12 DEF Count, Dispatch, Finish, Return
  <2> QED BY <2>1, ZenonT(60) DEF Listed
<1>13. ASSUME NEW g \in Goroutine, HealthyEnd(g), UNCHANGED <<best, rival>>
       PROVE  Listed'
  <2>1. CASE Return(g)
    <3>1. sick'[g] = {} /\ gone'[g] = {}
      BY <2>1 DEF Return
    <3>2. \A h \in Goroutine \ {g} :
             /\ pc'[h] = pc[h] /\ out'[h] = out[h] /\ sel'[h] = sel[h]
             /\ sick'[h] = sick[h] /\ gone'[h] = gone[h]
      BY <2>1 DEF Return
    <3> QED BY <1>13, <3>1, <3>2, ZenonT(60) DEF Listed
  <2>2. CASE pc' = [pc EXCEPT ![g] = "next"] /\ UNCHANGED <<out, sel, sick, gone>>
    BY <1>13, <2>2 DEF Listed
  <2> QED BY <1>13, <2>1, <2>2 DEF HealthyEnd
<1>14. ASSUME NEW g \in Goroutine, ServeHTTP(g), UNCHANGED <<best, rival>>
       PROVE  Listed'
  <2>1. Len(out[g]) = 0 /\ best[g] = NoBackend /\ rival[g] = NoBackend
    BY <1>14 DEF ServeHTTP, Shape
  <2>2. DOMAIN out[g] = {}
    BY <2>1, SMTT(40)
  <2>3. /\ NoBackend \notin sick'[g] /\ NoBackend \notin gone'[g] /\ pc'[g] = "scan"
        /\ \A h \in Goroutine \ {g} :
             pc'[h] = pc[h] /\ sick'[h] = sick[h] /\ gone'[h] = gone[h]
    BY <1>14, ProxyAssumption, SMTT(40) DEF ServeHTTP
  <2> QED BY <1>14, <2>1, <2>2, <2>3, SMTT(40) DEF ServeHTTP, Listed
<1>15. ASSUME NEW g \in Goroutine, HealthyStep(g), UNCHANGED <<best, rival>>
       PROVE  Listed'
  <2>1. i[g] \in DOMAIN backends /\ backends[i[g]] \in Backend
    BY <1>15, SMTT(40) DEF HealthyStep
  <2>2. CASE IsHealthy(backends[i[g]])
    <3>1. backends[i[g]] \notin sick[g] /\ backends[i[g]] \notin gone[g]
      BY <2>1, <2>2 DEF IsHealthy, Truthful, Members
    <3>2. out' = [out EXCEPT ![g] = Append(out[g], backends[i[g]])]
      BY <1>15, <2>2, SMTT(40) DEF HealthyStep
    <3>3. \A k \in DOMAIN out'[g] : out'[g][k] \notin sick[g] /\ out'[g][k] \notin gone[g]
      <4>1. out'[g] = Append(out[g], backends[i[g]]) /\ out[g] \in Seq(Backend)
        BY <3>2, SMTT(40)
      <4>2. \A k \in DOMAIN out[g] : out[g][k] \notin sick[g] \cup gone[g]
        BY SMTT(40) DEF Listed
      <4>3. \A k \in DOMAIN out'[g] : out'[g][k] \notin sick[g] \cup gone[g]
        BY <2>1, <3>1, <4>1, <4>2, AppendAvoids, SMTT(40)
      <4> QED BY <4>3, SMTT(40)
    <3> QED BY <1>15, <3>2, <3>3, SMTT(40) DEF HealthyStep, Listed
  <2>3. CASE ~IsHealthy(backends[i[g]])
    BY <1>15, <2>3, SMTT(40) DEF HealthyStep, Listed
  <2> QED BY <2>2, <2>3, SMTT(40)
<1>16. ASSUME Environment, UNCHANGED <<algorithm, counter, best, rival, bestConns, calm>>
       PROVE  Listed'
  <2>1. Witness /\ UNCHANGED <<pc, out, sel>>
    BY <1>16, SMTT(40) DEF Environment, HandleAddBackend, HandleRemoveBackend, HealthWrite
  <2>2. \A g \in Goroutine : sick'[g] \subseteq sick[g] /\ gone'[g] \subseteq gone[g]
    BY <2>1, SMTT(40) DEF Witness
  <2> QED BY <1>16, <2>1, <2>2, SMTT(40) DEF Listed
<1>17. CASE UNCHANGED vars
  BY <1>17, SMTT(40) DEF vars, proxyVars, Listed
<1> QED
  BY <1>4, <1>5, <1>6, <1>7, <1>8, <1>9, <1>10, <1>11, <1>12, <1>13, <1>14, <1>15, <1>16, <1>17, SMTT(40)
     DEF Next, Proxy

\* While the read lock is held the slice stands still, so a scan that has found
\* nothing has passed only objects that were not fit all along.
LEMMA ScanStep ==
    ASSUME TypeOK, Truthful, Shape, ScanSoFar, [Next]_vars
    PROVE  ScanSoFar'
<1> USE DEF TypeOK, RequestTypeOK, PoolTypeOK
<1>1. ASSUME NEW g \in Goroutine, ServeHTTP(g)
      PROVE  ScanSoFar'
  BY <1>1, SMTT(40) DEF ServeHTTP, Shape, ScanSoFar
<1>2. ASSUME NEW g \in Goroutine, HealthyStep(g)
      PROVE  ScanSoFar'
  <2>1. i[g] \in DOMAIN backends /\ backends[i[g]] \in Backend
    BY <1>2, SMTT(40) DEF HealthyStep
  <2>2. CASE IsHealthy(backends[i[g]])
    <3>1. out' = [out EXCEPT ![g] = Append(out[g], backends[i[g]])]
      BY <1>2, <2>2 DEF HealthyStep
    <3>2. Len(out'[g]) # 0
      BY <2>1, <3>1, AppendProperties, SMTT(40)
    <3> QED BY <1>2, <3>1, <3>2, SMTT(40) DEF HealthyStep, ScanSoFar
  <2>3. CASE ~IsHealthy(backends[i[g]])
    <3>1. backends[i[g]] \notin fit[g]
      BY <2>3, SMTT(40) DEF IsHealthy, Truthful
    <3> QED BY <1>2, <2>3, <3>1, SMTT(40) DEF HealthyStep, ScanSoFar
  <2> QED BY <2>2, <2>3, SMTT(40)
<1>3. ASSUME NEW g \in Goroutine, Forgets, pc'[g] # "scan",
             \A h \in Goroutine \ {g} : pc'[h] = pc[h] /\ out'[h] = out[h] /\ i'[h] = i[h]
      PROVE  ScanSoFar'
  BY <1>3, ZenonT(60) DEF Forgets, ScanSoFar
<1>4. ASSUME NEW g \in Goroutine,
             \/ HealthyEnd(g) \/ Count(g)
             \/ RoundRobinNext(g) \/ IPHashNext(g)
             \/ LeastConnStep(g) \/ LeastConnEnd(g)
             \/ P2CNext(g) \/ P2CDraw(g) \/ P2CPanic(g) \/ Recover(g) \/ P2CCompare(g)
      PROVE  ScanSoFar'
  <2>1. Forgets
    BY <1>4, StepForgets, SMTT(40)
  <2>2. /\ pc'[g] # "scan"
        /\ \A h \in Goroutine \ {g} : pc'[h] = pc[h] /\ out'[h] = out[h] /\ i'[h] = i[h]
    <3>1. CASE HealthyEnd(g) \/ Recover(g)
      BY <3>1, SMTT(40) DEF HealthyEnd, Recover, SelectorError, Return
    <3>2. CASE Count(g)
      BY <3>2, SMTT(40) DEF Count, Dispatch, Finish, Return
    <3>3. CASE RoundRobinNext(g) \/ IPHashNext(g) \/ LeastConnEnd(g) \/ P2CCompare(g)
      BY <3>3, ZenonT(60) DEF RoundRobinNext, IPHashNext, LeastConnEnd, P2CCompare, Chosen, Selected
    <3>4. CASE P2CNext(g)
      BY <3>4, SMTT(40) DEF P2CNext, Chosen, Selected
    <3>5. CASE LeastConnStep(g) \/ P2CDraw(g) \/ P2CPanic(g)
      BY <3>5, SMTT(40) DEF LeastConnStep, P2CDraw, P2CPanic
    <3> QED BY <1>4, <3>1, <3>2, <3>3, <3>4, <3>5, ZenonT(60)
  <2> QED BY <1>3, <2>1, <2>2, Zenon
<1>5. ASSUME Environment
      PROVE  ScanSoFar'
  <2>1. UNCHANGED <<pc, out, i>> /\ \A g \in Goroutine : fit'[g] \subseteq fit[g]
    BY <1>5, ZenonT(60) DEF Environment, HandleAddBackend, HandleRemoveBackend, HealthWrite, Witness
  <2>2. UNCHANGED backends \/ \A g \in Goroutine : pc[g] # "scan"
    BY <1>5 DEF Environment, HandleAddBackend, HandleRemoveBackend, HealthWrite, SetHealth,
                NoReader
  <2> QED BY <2>1, <2>2, ZenonT(60) DEF ScanSoFar
<1>6. CASE UNCHANGED vars
  BY <1>6 DEF vars, proxyVars, ScanSoFar
<1> QED BY <1>1, <1>2, <1>4, <1>5, <1>6, SMTT(40) DEF Next, Proxy

\* The invariant is inductive.
LEMMA Inductive ==
    ASSUME IndInv, [Next]_vars
    PROVE  IndInv'
BY TypeStep, TruthfulStep, ShapeStep, ListedStep, ScanStep DEF IndInv

LEMMA Invariance == Spec => []IndInv
BY InitInvariant, Inductive, PTL DEF Spec

\* ServeHTTP never hands a request to a backend that has been unhealthy ever
\* since the request arrived.
THEOREM OnlyHealthy == Spec => []RoutesToHealthy
<1>1. IndInv => RoutesToHealthy
  BY DEF IndInv, Listed, RoutesToHealthy
<1> QED BY <1>1, Invariance, PTL

\* ServeHTTP never hands a request to a backend that has been out of the pool
\* ever since the request arrived.
THEOREM OnlyMembers == Spec => []RoutesToMembers
<1>1. IndInv => RoutesToMembers
  BY DEF IndInv, Listed, RoutesToMembers
<1> QED BY <1>1, Invariance, PTL

\* The 502 of ServeHTTP is given only when no backend was healthy and in the
\* pool throughout the scan of Pool.Healthy.
THEOREM No502WhileFit == Spec => NoSpurious502
<1>1. ASSUME TypeOK, Truthful, ScanSoFar, [Next]_vars,
             NEW g \in Goroutine, pc[g] = "scan", pc'[g] = "idle"
      PROVE  fit[g] = {}
  <2> USE DEF TypeOK, RequestTypeOK, PoolTypeOK
  <2>1. HealthyEnd(g)
    <3>1. ASSUME NEW h \in Goroutine, Proxy(h)
          PROVE  HealthyEnd(g)
      BY <1>1, <3>1, SMTT(40) DEF Proxy, ServeHTTP, HealthyStep, HealthyEnd, Return
    <3>2. ASSUME NEW h \in Goroutine, Count(h) \/ Recover(h)
          PROVE  FALSE
      BY <1>1, <3>2, ZenonT(60) DEF Count, Dispatch, Finish, Recover, SelectorError, Return
    <3>3. ASSUME NEW h \in Goroutine,
                 RoundRobinNext(h) \/ IPHashNext(h) \/ LeastConnEnd(h) \/ P2CCompare(h)
          PROVE  FALSE
      BY <1>1, <3>3, Zenon DEF RoundRobinNext, IPHashNext, LeastConnEnd, P2CCompare, Chosen, Selected
    <3>4. ASSUME NEW h \in Goroutine, LeastConnStep(h) \/ P2CNext(h) \/ P2CDraw(h) \/ P2CPanic(h)
          PROVE  FALSE
      BY <1>1, <3>4, ZenonT(60) DEF LeastConnStep, P2CNext, P2CDraw, P2CPanic, Chosen, Selected
    <3>5. CASE Environment
      BY <1>1, <3>5, SMTT(40) DEF Environment, HandleAddBackend, HandleRemoveBackend, HealthWrite
    <3>6. CASE UNCHANGED vars
      BY <1>1, <3>6, SMTT(40) DEF vars, proxyVars
    <3> QED BY <1>1, <3>1, <3>2, <3>3, <3>4, <3>5, <3>6, SMTT(40) DEF Next
  <2>2. \A k \in DOMAIN backends : backends[k] \notin fit[g]
    BY <1>1, <2>1 DEF HealthyEnd, ScanSoFar
  <2> QED BY <1>1, <2>2, SMTT(40) DEF Truthful, Members
<1>2. IndInv /\ [Next]_vars => [\A g \in Goroutine : pc[g] = "scan" /\ pc'[g] = "idle" => fit[g] = {}]_proxyVars
  BY <1>1 DEF IndInv
<1> QED BY <1>2, Invariance, PTL DEF Spec, NoSpurious502
=============================================================================
