------------------------------ MODULE HTTPProxy ------------------------------
(***************************************************************************)
(* HTTPProxy.ServeHTTP (internal/proxy/http.go) over the shared pool, with  *)
(* the two writers that run beside it: the admin API (internal/admin) and   *)
(* whoever calls SetHealth.  One request is one goroutine of net/http:      *)
(*                                                                          *)
(*   idle -> scan (Pool.Healthy, under the read lock, one health load per   *)
(*   step) -> next (Selector.Next) -> picked -> serve (IncConns done, the   *)
(*   reverse proxy runs) -> idle (deferred DecConns)                        *)
(*                                                                          *)
(* The selector is the business of the modules that extend this one: they   *)
(* leave "next" with Selected, SelectorError or a panic.                    *)
(***************************************************************************)
EXTENDS Pool, FiniteSets

CONSTANTS
    Goroutine,    \* the net/http goroutines that serve requests
    NoBackend     \* the nil *Backend

ASSUME ProxyAssumption ==
    /\ IsFiniteSet(Goroutine)
    /\ NoBackend \notin Backend

VARIABLES
    pc,      \* where each request is
    i,       \* the loop index of Healthy, and of the loops in Next
    out,     \* Healthy's result, the snapshot handed to Next
    sel,     \* the backend Next returned
    sick,    \* history: objects not healthy at any moment since the request began
    gone,    \* history: objects outside the pool at every moment since
    fit      \* history: objects healthy and in the pool at every moment since

proxyVars == <<backends, created, health, activeConns, pc, i, out, sel, sick, gone, fit>>

Well == {b \in Backend : IsHealthy(b)}

InitProxy ==
    /\ NewPool
    /\ pc = [g \in Goroutine |-> "idle"]
    /\ i = [g \in Goroutine |-> 1]
    /\ out = [g \in Goroutine |-> <<>>]
    /\ sel = [g \in Goroutine |-> NoBackend]
    /\ sick = [g \in Goroutine |-> {}]
    /\ gone = [g \in Goroutine |-> {}]
    /\ fit = [g \in Goroutine |-> {}]
-----------------------------------------------------------------------------
(* Requests *)

\* A request ends: its locals and its histories are forgotten.
Return(g) ==
    /\ pc' = [pc EXCEPT ![g] = "idle"]
    /\ i' = [i EXCEPT ![g] = 1]
    /\ out' = [out EXCEPT ![g] = <<>>]
    /\ sel' = [sel EXCEPT ![g] = NoBackend]
    /\ sick' = [sick EXCEPT ![g] = {}]
    /\ gone' = [gone EXCEPT ![g] = {}]
    /\ fit' = [fit EXCEPT ![g] = {}]

\* ServeHTTP is called and Healthy takes the read lock.
ServeHTTP(g) ==
    /\ pc[g] = "idle"
    /\ pc' = [pc EXCEPT ![g] = "scan"]
    /\ sick' = [sick EXCEPT ![g] = Backend \ Well]
    /\ gone' = [gone EXCEPT ![g] = Backend \ Members]
    /\ fit' = [fit EXCEPT ![g] = Well \cap Members]
    /\ UNCHANGED <<backends, created, health, activeConns, i, out, sel>>

\* Off by one: the loop of Healthy stops before the last element.
HealthyEndEarly(g) ==
    /\ pc[g] = "scan"
    /\ i[g] >= Len(backends)
    /\ \/ /\ Len(out[g]) = 0
          /\ Return(g)
       \/ /\ Len(out[g]) > 0
          /\ pc' = [pc EXCEPT ![g] = "next"]
          /\ i' = [i EXCEPT ![g] = 1]
          /\ fit' = [fit EXCEPT ![g] = {}]
          /\ UNCHANGED <<out, sel, sick, gone>>
    /\ UNCHANGED <<backends, created, health, activeConns>>

\* The health check dropped from Healthy, as in Pool.Backends.
HealthyStepAll(g) ==
    /\ pc[g] = "scan"
    /\ i[g] <= Len(backends)
    /\ out' = [out EXCEPT ![g] = Append(@, backends[i[g]])]
    /\ i' = [i EXCEPT ![g] = @ + 1]
    /\ UNCHANGED <<backends, created, health, activeConns, pc, sel, sick, gone, fit>>

\* The loop ranges over a slice kept since start-up.
HealthyStepCached(g) ==
    /\ pc[g] = "scan"
    /\ i[g] <= Len(InitialPool)
    /\ out' = IF IsHealthy(InitialPool[i[g]])
              THEN [out EXCEPT ![g] = Append(@, InitialPool[i[g]])]
              ELSE out
    /\ i' = [i EXCEPT ![g] = @ + 1]
    /\ UNCHANGED <<backends, created, health, activeConns, pc, sel, sick, gone, fit>>

\* One turn of Healthy's loop: the element's health is loaded now.
HealthyStep(g) ==
    /\ pc[g] = "scan"
    /\ i[g] <= Len(backends)
    /\ out' = IF IsHealthy(backends[i[g]])
              THEN [out EXCEPT ![g] = Append(@, backends[i[g]])]
              ELSE out
    /\ i' = [i EXCEPT ![g] = @ + 1]
    /\ UNCHANGED <<backends, created, health, activeConns, pc, sel, sick, gone, fit>>

\* Healthy returns and drops the lock: 502 at once when nothing was healthy.
HealthyEnd(g) ==
    /\ pc[g] = "scan"
    /\ i[g] > Len(backends)
    /\ \/ /\ Len(out[g]) = 0
          /\ Return(g)
       \/ /\ Len(out[g]) > 0
          /\ pc' = [pc EXCEPT ![g] = "next"]
          /\ i' = [i EXCEPT ![g] = 1]
          /\ fit' = [fit EXCEPT ![g] = {}]
          /\ UNCHANGED <<out, sel, sick, gone>>
    /\ UNCHANGED <<backends, created, health, activeConns>>

\* Next returned b; of the histories only what they say of b matters now.
Selected(g, b) ==
    /\ pc' = [pc EXCEPT ![g] = "picked"]
    /\ sel' = [sel EXCEPT ![g] = b]
    /\ sick' = [sick EXCEPT ![g] = @ \cap {b}]
    /\ gone' = [gone EXCEPT ![g] = @ \cap {b}]
    /\ UNCHANGED <<backends, created, health, activeConns, i, out, fit>>

\* Next returned an error: 503, and no connection is counted.
SelectorError(g) ==
    /\ Return(g)
    /\ UNCHANGED poolVars

\* IncConns; the list and the histories are dead from here on.
Dispatch(g) ==
    /\ pc[g] = "picked"
    /\ IncConns(sel[g])
    /\ pc' = [pc EXCEPT ![g] = "serve"]
    /\ i' = [i EXCEPT ![g] = 1]
    /\ out' = [out EXCEPT ![g] = <<>>]
    /\ sick' = [sick EXCEPT ![g] = {}]
    /\ gone' = [gone EXCEPT ![g] = {}]
    /\ fit' = [fit EXCEPT ![g] = {}]
    /\ UNCHANGED sel

\* The deferred DecConns forgotten on the way out.
FinishNoDec(g) ==
    /\ pc[g] = "serve"
    /\ UNCHANGED poolVars
    /\ Return(g)

\* The reverse proxy returns, or fails and answers 502, or panics: DecConns is
\* deferred, so it runs in every case.
Finish(g) ==
    /\ pc[g] = "serve"
    /\ DecConns(sel[g])
    /\ Return(g)
-----------------------------------------------------------------------------
(* The writers beside the requests *)

\* What a write to the pool or to a health means for the running requests.
Witness ==
    /\ sick' = [g \in Goroutine |-> sick[g] \ {b \in Backend : health'[b] = "healthy"}]
    /\ gone' = [g \in Goroutine |-> gone[g] \ {backends'[k] : k \in DOMAIN backends'}]
    /\ fit' = [g \in Goroutine |->
                 {b \in fit[g] : /\ health'[b] = "healthy"
                                 /\ b \in {backends'[k] : k \in DOMAIN backends'}}]

\* Pool.mu is free for a writer: no Healthy holds it for reading.
NoReader == \A g \in Goroutine : pc[g] # "scan"

\* POST /admin/backends: a new object, whatever IDs the pool already holds.
HandleAddBackend(b) ==
    /\ NoReader
    /\ Add(b)
    /\ Witness
    /\ UNCHANGED <<pc, i, out, sel>>

\* DELETE /admin/backends/{id}: the handler goes straight to Pool.Remove.
HandleRemoveBackend(id) ==
    /\ NoReader
    /\ Remove(id)
    /\ Witness
    /\ UNCHANGED <<pc, i, out, sel>>

\* A health checker or a drainer stores a health.
HealthWrite(b, h) ==
    /\ SetHealth(b, h)
    /\ Witness
    /\ UNCHANGED <<pc, i, out, sel>>

Environment ==
    \/ \E b \in Backend : HandleAddBackend(b)
    \/ \E b \in created : HandleRemoveBackend(BackendID[b])
    \/ \E b \in created, h \in Health : HealthWrite(b, h)
-----------------------------------------------------------------------------
(* What the proxy promises, whatever the selector *)

RequestTypeOK ==
    /\ PoolTypeOK
    /\ i \in [Goroutine -> Nat \ {0}]
    /\ out \in [Goroutine -> Seq(Backend)]
    /\ sel \in [Goroutine -> Backend \cup {NoBackend}]
    /\ sick \in [Goroutine -> SUBSET Backend]
    /\ gone \in [Goroutine -> SUBSET Backend]
    /\ fit \in [Goroutine -> SUBSET Backend]

\* The requests whose connection is counted on b.
InFlight(b) == {g \in Goroutine : pc[g] = "serve" /\ sel[g] = b}

\* IncConns and the deferred DecConns balance on every path through ServeHTTP:
\* the counter that least-connections, P2C and the drainer read is exactly the
\* number of requests being served by that object, also after the object has
\* been removed from the pool or has turned unhealthy.
ConnsMatchInFlight ==
    \A b \in Backend : activeConns[b] = Cardinality(InFlight(b))

\* A request is only handed to a backend that was healthy at some moment after
\* the request arrived, although its health may have changed since it was read.
RoutesToHealthy ==
    \A g \in Goroutine : pc[g] = "picked" => sel[g] \notin sick[g]

\* A request is only handed to a backend that was in the pool at some moment
\* after the request arrived: Remove takes effect for all later requests.
RoutesToMembers ==
    \A g \in Goroutine : pc[g] = "picked" => sel[g] \notin gone[g]

\* The 502 "no healthy backends" (HealthyEnd with nothing collected) is never
\* given while some backend was healthy and in the pool during the whole scan,
\* however the healths of the others flap between the loads of the loop.
NoSpurious502 ==
    [][\A g \in Goroutine : pc[g] = "scan" /\ pc'[g] = "idle" => fit[g] = {}]_proxyVars
=============================================================================
