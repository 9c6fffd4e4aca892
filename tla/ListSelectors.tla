---------------------------- MODULE ListSelectors ----------------------------
(***************************************************************************)
(* The proxy with the selectors that choose from the list they are given:   *)
(* RoundRobin, LeastConnections, P2C and IPHash (internal/balancer).  Which *)
(* one runs is fixed by NewSelector when the pool is configured.            *)
(*                                                                          *)
(* The atomics a selector touches are one step each: RoundRobin's counter   *)
(* and each ActiveConns load of LeastConnections and P2C, so that the       *)
(* connections counted may change between two loads.  P2C's rand.Rand has   *)
(* no lock; two goroutines inside it race on its position in the state      *)
(* array, which yields any draw or an index out of range, a panic that      *)
(* net/http recovers by dropping the connection.                            *)
(***************************************************************************)
EXTENDS HTTPProxy

CONSTANTS
    Algorithms,   \* the algorithm names to choose from
    ClientHash,   \* values of fnv32a(clientIP(r))
    CounterMod    \* RoundRobin's counter is kept modulo this

\* Reducing the counter changes no index: CounterMod is a multiple of every
\* length a list can have.  The counter of the code is an int64, which is taken
\* not to overflow.
ASSUME SelectorAssumption ==
    /\ Algorithms \subseteq {"round_robin", "least_connections", "p2c", "ip_hash"}
    /\ ClientHash \subseteq Nat
    /\ CounterMod \in Nat \ {0}
    /\ \A n \in 1..Cardinality(Backend) : CounterMod % n = 0

VARIABLES
    algorithm,    \* the Selector NewSelector made
    counter,      \* RoundRobin.counter
    best,         \* LeastConnections: best;  P2C: a
    rival,        \* P2C: b
    bestConns,    \* the ActiveConns loaded for best
    calm          \* history: the requests since whose Next began no count has changed

vars == <<proxyVars, algorithm, counter, best, rival, bestConns, calm>>

\* NewSelector: the names it knows; any other is an error at start-up.
NewSelector(a) == a \in Algorithms

Init ==
    /\ InitProxy
    /\ algorithm \in {a \in Algorithms : NewSelector(a)}
    /\ counter = 0
    /\ best = [g \in Goroutine |-> NoBackend]
    /\ rival = [g \in Goroutine |-> NoBackend]
    /\ bestConns = [g \in Goroutine |-> 0]
    /\ calm = Goroutine

\* Next returns b; its locals die with it.
Chosen(g, b) ==
    /\ Selected(g, b)
    /\ best' = [best EXCEPT ![g] = NoBackend]
    /\ rival' = [rival EXCEPT ![g] = NoBackend]
    /\ bestConns' = [bestConns EXCEPT ![g] = 0]
-----------------------------------------------------------------------------
RoundRobinNext(g) ==
    /\ pc[g] = "next" /\ algorithm = "round_robin"
    /\ counter' = (counter + 1) % CounterMod
    /\ Chosen(g, out[g][(counter % Len(out[g])) + 1])
    /\ UNCHANGED <<algorithm, calm>>

IPHashNext(g) ==
    /\ pc[g] = "next" /\ algorithm = "ip_hash"
    /\ \E hash \in ClientHash : Chosen(g, out[g][(hash % Len(out[g])) + 1])
    /\ UNCHANGED <<algorithm, counter, calm>>

\* The comparison turned round: the busiest object wins.
LeastConnStepMost(g) ==
    /\ pc[g] = "next" /\ algorithm = "least_connections"
    /\ i[g] <= Len(out[g])
    /\ LET b == out[g][i[g]] IN
       IF best[g] = NoBackend \/ activeConns[b] > bestConns[g]
       THEN /\ best' = [best EXCEPT ![g] = b]
            /\ bestConns' = [bestConns EXCEPT ![g] = activeConns[b]]
       ELSE UNCHANGED <<best, bestConns>>
    /\ i' = [i EXCEPT ![g] = @ + 1]
    /\ calm' = IF i[g] = 1 THEN calm \cup {g} ELSE calm
    /\ UNCHANGED <<backends, created, health, activeConns, pc, out, sel, sick, gone, fit,
                   algorithm, counter, rival>>

\* One turn of the scan.  math.MaxInt64 is above every count, so the first
\* element is always taken.
LeastConnStep(g) ==
    /\ pc[g] = "next" /\ algorithm = "least_connections"
    /\ i[g] <= Len(out[g])
    /\ LET b == out[g][i[g]] IN
       IF best[g] = NoBackend \/ activeConns[b] < bestConns[g]
       THEN /\ best' = [best EXCEPT ![g] = b]
            /\ bestConns' = [bestConns EXCEPT ![g] = activeConns[b]]
       ELSE UNCHANGED <<best, bestConns>>
    /\ i' = [i EXCEPT ![g] = @ + 1]
    /\ calm' = IF i[g] = 1 THEN calm \cup {g} ELSE calm
    /\ UNCHANGED <<backends, created, health, activeConns, pc, out, sel, sick, gone, fit,
                   algorithm, counter, rival>>

LeastConnEnd(g) ==
    /\ pc[g] = "next" /\ algorithm = "least_connections"
    /\ i[g] > Len(out[g])
    /\ Chosen(g, best[g])
    /\ UNCHANGED <<algorithm, counter, calm>>
-----------------------------------------------------------------------------
\* Next reaches the generator, or returns the only backend there is.
P2CNext(g) ==
    /\ pc[g] = "next" /\ algorithm = "p2c"
    /\ \/ /\ Len(out[g]) = 1
          /\ Chosen(g, out[g][1])
       \/ /\ Len(out[g]) > 1
          /\ pc' = [pc EXCEPT ![g] = "draw"]
          /\ UNCHANGED <<backends, created, health, activeConns, i, out, sel,
                         sick, gone, fit, best, rival, bestConns>>
    /\ UNCHANGED <<algorithm, counter, calm>>

\* The two Intn calls, with j moved past i, and the load of a's connections.
P2CDraw(g) ==
    /\ pc[g] = "draw"
    /\ \E x, y \in DOMAIN out[g] :
          /\ x # y
          /\ best' = [best EXCEPT ![g] = out[g][x]]
          /\ rival' = [rival EXCEPT ![g] = out[g][y]]
          /\ bestConns' = [bestConns EXCEPT ![g] = activeConns[out[g][x]]]
    /\ pc' = [pc EXCEPT ![g] = "compare"]
    /\ calm' = calm \cup {g}
    /\ UNCHANGED <<backends, created, health, activeConns, i, out, sel, sick, gone, fit,
                   algorithm, counter>>

\* Another goroutine inside the same rand.Rand: the race may index past its array.
P2CPanic(g) ==
    /\ pc[g] = "draw"
    /\ \E h \in Goroutine \ {g} : pc[h] = "draw"
    /\ pc' = [pc EXCEPT ![g] = "panic"]
    /\ UNCHANGED <<backends, created, health, activeConns, i, out, sel, sick, gone, fit,
                   algorithm, counter, best, rival, bestConns, calm>>

\* net/http's conn.serve recovers a handler's panic and closes the connection.
Recover(g) ==
    /\ pc[g] = "panic"
    /\ SelectorError(g)
    /\ UNCHANGED <<algorithm, counter, best, rival, bestConns, calm>>

\* The load of b's connections and the comparison.
P2CCompare(g) ==
    /\ pc[g] = "compare"
    /\ Chosen(g, IF bestConns[g] <= activeConns[rival[g]] THEN best[g] ELSE rival[g])
    /\ UNCHANGED <<algorithm, counter, calm>>
-----------------------------------------------------------------------------
Proxy(g) ==
    /\ \/ ServeHTTP(g)
       \/ HealthyStep(g)
       \/ HealthyEnd(g)
    /\ UNCHANGED <<algorithm, counter, best, rival, bestConns, calm>>

\* A choice by load has begun and is not yet dispatched.
Choosing(g) ==
    /\ algorithm \in {"least_connections", "p2c"}
    /\ \/ pc[g] \in {"compare", "picked"}
       \/ pc[g] = "next" /\ i[g] > 1

\* Counting a connection in or out disturbs the choices of the other requests.
Count(g) ==
    /\ Dispatch(g) \/ Finish(g)
    /\ calm' = {h \in Goroutine : h = g \/ ~Choosing(h)}
    /\ UNCHANGED <<algorithm, counter, best, rival, bestConns>>

Next ==
    \/ \E g \in Goroutine :
          \/ Proxy(g) \/ Count(g)
          \/ RoundRobinNext(g) \/ IPHashNext(g)
          \/ LeastConnStep(g) \/ LeastConnEnd(g)
          \/ P2CNext(g) \/ P2CDraw(g) \/ P2CPanic(g) \/ Recover(g) \/ P2CCompare(g)
    \/ Environment /\ UNCHANGED <<algorithm, counter, best, rival, bestConns, calm>>

Spec == Init /\ [][Next]_vars
-----------------------------------------------------------------------------
\* The variables have their types, and a request that is being served has a
\* backend.
TypeOK ==
    /\ RequestTypeOK
    /\ pc \in [Goroutine -> {"idle", "scan", "next", "draw", "compare", "panic",
                             "picked", "serve"}]
    /\ algorithm \in Algorithms
    /\ counter \in 0..(CounterMod - 1)
    /\ best \in [Goroutine -> Backend \cup {NoBackend}]
    /\ rival \in [Goroutine -> Backend \cup {NoBackend}]
    /\ bestConns \in [Goroutine -> Int]
    /\ calm \subseteq Goroutine
    /\ \A g \in Goroutine : pc[g] \in {"picked", "serve"} => sel[g] \in Backend

\* What the load-aware selectors are for.  When no other request's count moved
\* during the choice, LeastConnections picks a backend with the fewest
\* connections of the list, and P2C with two or more candidates never picks one
\* that is busier than all the others.
PicksLessLoaded ==
    \A g \in Goroutine : pc[g] = "picked" /\ g \in calm =>
        /\ algorithm = "least_connections" =>
             \A k \in DOMAIN out[g] : activeConns[sel[g]] <= activeConns[out[g][k]]
        /\ algorithm = "p2c" /\ Len(out[g]) > 1 =>
             \E k \in DOMAIN out[g] :
                 out[g][k] # sel[g] /\ activeConns[sel[g]] <= activeConns[out[g][k]]
=============================================================================
