---------------------------- MODULE TableSelectors ----------------------------
(***************************************************************************)
(* The proxy with the two selectors that route from a table of their own:   *)
(* WeightedRoundRobin (slots) and ConsistentHash (ring and nodeMap).  Both  *)
(* build the table from the list of the first call that finds none, and no  *)
(* other code in the repository calls Rebuild or Build.                     *)
(*                                                                          *)
(* Both have the same shape, so one variable, table, stands for w.slots or  *)
(* for ch.nodeMap (ch.ring is its sorted domain).  The counter of           *)
(* WeightedRoundRobin is abstracted: any slot may be the next one.          *)
(***************************************************************************)
EXTENDS HTTPProxy

CONSTANTS
    Algorithms,       \* "weighted_round_robin", "consistent_hash", or both
    Weights,          \* the weights a PUT may carry, zero and below included
    InitialWeight,    \* the weights of the configuration file
    MaxUpdates,       \* bound: weight updates in a run
    VirtualNodes,     \* the ring positions fnv32a gives to each ID
    ClientHash        \* values of fnv32a(clientIP(r))

ASSUME TableAssumption ==
    /\ Algorithms \subseteq {"weighted_round_robin", "consistent_hash"}
    /\ Weights \subseteq Int
    /\ InitialWeight \in [Backend -> Nat \ {0}]
    /\ MaxUpdates \in Nat
    /\ \A b \in Backend :
          VirtualNodes[BackendID[b]] \subseteq Nat /\ VirtualNodes[BackendID[b]] # {}
    /\ ClientHash \subseteq Nat

VARIABLES
    algorithm,    \* the Selector NewSelector made
    table,        \* WeightedRoundRobin.slots or ConsistentHash.nodeMap
    local,        \* slots / nodeMap, the locals of Next and of Rebuild / Build
    weight,       \* Backend.Weight
    updates       \* the weight updates so far

tableVars == <<algorithm, table, local, weight, updates>>
vars == <<proxyVars, algorithm, table, local, weight, updates>>

Init ==
    /\ InitProxy
    /\ algorithm \in Algorithms
    /\ table = <<>>
    /\ local = [g \in Goroutine |-> <<>>]
    /\ weight = InitialWeight
    /\ updates = 0

Move(g, to) ==
    /\ pc' = [pc EXCEPT ![g] = to]
    /\ UNCHANGED <<backends, created, health, activeConns, i, out, sel, sick, gone, fit>>
-----------------------------------------------------------------------------
(* The tables *)

\* The clamp of weights below one forgotten.
SlotsUnclamped(b) == IF weight[b] < 0 THEN 0 ELSE weight[b]

Slots(b) == IF weight[b] <= 0 THEN 1 ELSE weight[b]

\* Rebuild's loops: each backend as often as its weight.  A slot is named by the
\* turns of the two loops that appended it.
Expand(list) ==
    [slot \in UNION {{k} \X (1..Slots(list[k])) : k \in DOMAIN list} |-> list[slot[1]]]

Points(b) == VirtualNodes[BackendID[b]]

\* Build's loop: a key two backends share belongs to the later one.
Ring(list) ==
    [p \in UNION {Points(list[k]) : k \in DOMAIN list} |->
        LET owners == {k \in DOMAIN list : p \in Points(list[k])}
        IN  list[CHOOSE k \in owners : \A j \in owners : j <= k]]

\* sort.Search over the sorted ring: the first position at or after the hash, or
\* the very first when there is none.
Clockwise(positions, hash) ==
    LET ahead == {p \in positions : p >= hash}
        from == IF ahead = {} THEN positions ELSE ahead
    IN  CHOOSE p \in from : \A q \in from : p <= q
-----------------------------------------------------------------------------
(* Next, up to the point where it holds a table *)

\* The first read under the read lock.
LoadTable(g) ==
    /\ pc[g] = "next"
    /\ \/ /\ table = <<>>
          /\ Move(g, "build")
          /\ UNCHANGED local
       \/ /\ table # <<>>
          /\ Move(g, "lookup")
          /\ local' = [local EXCEPT ![g] = table]
    /\ UNCHANGED <<algorithm, table, weight, updates>>

\* Rebuild / Build: the new table is computed from the list without the lock ...
BuildTable(g) ==
    /\ pc[g] = "build"
    /\ local' = [local EXCEPT ![g] =
                    IF algorithm = "weighted_round_robin" THEN Expand(out[g]) ELSE Ring(out[g])]
    /\ Move(g, "publish")
    /\ UNCHANGED <<algorithm, table, weight, updates>>

\* ... and stored under it, over whatever another request stored meanwhile.
PublishTable(g) ==
    /\ pc[g] = "publish"
    /\ table' = local[g]
    /\ Move(g, "reload")
    /\ UNCHANGED <<algorithm, local, weight, updates>>

Drop(g) ==
    /\ local' = [local EXCEPT ![g] = <<>>]
    /\ UNCHANGED <<algorithm, table, weight, updates>>

\* The second read, after the rebuild; ErrNoBackends when it too finds no table.
ReloadTable(g) ==
    /\ pc[g] = "reload"
    /\ IF table = <<>>
       THEN SelectorError(g) /\ Drop(g)
       ELSE /\ local' = [local EXCEPT ![g] = table]
            /\ Move(g, "lookup")
            /\ UNCHANGED <<algorithm, table, weight, updates>>
-----------------------------------------------------------------------------
(* Next, with a table *)

\* The health check of the chosen slot forgotten.
WeightedPickUnchecked(g) ==
    /\ pc[g] = "lookup" /\ algorithm = "weighted_round_robin"
    /\ \E idx \in DOMAIN local[g] : Selected(g, local[g][idx])
    /\ Drop(g)

\* The chosen slot is used when its backend is healthy now; otherwise the loop
\* over the given list begins.
WeightedPick(g) ==
    /\ pc[g] = "lookup" /\ algorithm = "weighted_round_robin"
    /\ \E idx \in DOMAIN local[g] :
          \/ /\ IsHealthy(local[g][idx])
             /\ Selected(g, local[g][idx])
          \/ /\ ~IsHealthy(local[g][idx])
             /\ pc' = [pc EXCEPT ![g] = "fallback"]
             /\ fit' = [fit EXCEPT ![g] = {b \in Well : \E k \in DOMAIN out[g] : out[g][k] = b}]
             /\ UNCHANGED <<backends, created, health, activeConns, i, out, sel, sick, gone>>
    /\ Drop(g)

\* The fallback looks at the first element only.
FallbackStepFirst(g) ==
    /\ pc[g] = "fallback"
    /\ i[g] <= Len(out[g])
    /\ \/ /\ IsHealthy(out[g][i[g]])
          /\ Selected(g, out[g][i[g]])
       \/ /\ ~IsHealthy(out[g][i[g]])
          /\ i' = [i EXCEPT ![g] = Len(out[g]) + 1]
          /\ UNCHANGED <<backends, created, health, activeConns, pc, out, sel, sick, gone, fit>>
    /\ UNCHANGED tableVars

\* One turn of the loop over the given list: its health is loaded again.
FallbackStep(g) ==
    /\ pc[g] = "fallback"
    /\ i[g] <= Len(out[g])
    /\ \/ /\ IsHealthy(out[g][i[g]])
          /\ Selected(g, out[g][i[g]])
       \/ /\ ~IsHealthy(out[g][i[g]])
          /\ i' = [i EXCEPT ![g] = @ + 1]
          /\ UNCHANGED <<backends, created, health, activeConns, pc, out, sel, sick, gone, fit>>
    /\ UNCHANGED tableVars

\* ErrNoBackends: 503.
FallbackEnd(g) ==
    /\ pc[g] = "fallback"
    /\ i[g] > Len(out[g])
    /\ SelectorError(g)
    /\ UNCHANGED tableVars

\* The node of the ring is returned as it is: the list is not consulted.
ConsistentHashNext(g) ==
    /\ pc[g] = "lookup" /\ algorithm = "consistent_hash"
    /\ \E hash \in ClientHash :
          Selected(g, local[g][Clockwise(DOMAIN local[g], hash)])
    /\ Drop(g)
-----------------------------------------------------------------------------
\* PUT /admin/backends/{id}/weight: a plain store to the object Get finds.
HandleUpdateWeight(id, w) ==
    /\ updates < MaxUpdates
    /\ \E k \in DOMAIN backends :
          /\ First(id, k)
          /\ weight' = [weight EXCEPT ![backends[k]] = w]
    /\ updates' = updates + 1
    /\ UNCHANGED <<proxyVars, algorithm, table, local>>

Proxy(g) ==
    /\ \/ ServeHTTP(g) \/ HealthyStep(g) \/ HealthyEnd(g)
       \/ Dispatch(g) \/ Finish(g)
    /\ UNCHANGED tableVars

Request(g) ==
    \/ Proxy(g)
    \/ LoadTable(g) \/ BuildTable(g) \/ PublishTable(g) \/ ReloadTable(g)
    \/ WeightedPick(g) \/ FallbackStep(g) \/ FallbackEnd(g)
    \/ ConsistentHashNext(g)

WeightUpdate == \E b \in Backend, w \in Weights : HandleUpdateWeight(BackendID[b], w)

Next ==
    \/ \E g \in Goroutine : Request(g)
    \/ WeightUpdate
    \/ Environment /\ UNCHANGED tableVars

Spec == Init /\ [][Next]_vars
-----------------------------------------------------------------------------
\* WeightedRoundRobin hands a request only to a backend that was healthy at some
\* moment after it arrived, although its slots are never rebuilt: the check of
\* the slot and the fallback loop make up for the stale table.
WeightedRoutesToHealthy ==
    algorithm = "weighted_round_robin" => RoutesToHealthy

\* The 503 of WeightedRoundRobin (ErrNoBackends after the fallback loop) is never
\* given while a backend of the list stayed healthy and in the pool during the
\* whole loop.
NoSpurious503 ==
    [][\A g \in Goroutine : pc[g] = "fallback" /\ pc'[g] = "idle" => fit[g] = {}]_vars

\* A table once built is never empty again, so that a request which had to build
\* one finds one: the ErrNoBackends behind the rebuild never answers a request
\* for which Healthy found a backend.
TablesNeverEmpty ==
    \A g \in Goroutine :
        /\ pc[g] \in {"reload", "lookup"} => table # <<>>
        /\ pc[g] \in {"publish", "reload", "lookup"} => local[g] # <<>>
=============================================================================
