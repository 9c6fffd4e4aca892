---------------------------- MODULE ActiveChecker ----------------------------
(***************************************************************************)
(* Checker (internal/health/checker.go): Run starts one goroutine per pool  *)
(* backend at every tick; each probes, counts in the two maps the Checker   *)
(* shares between them, and moves the backend's health.                     *)
(*                                                                          *)
(* The maps have no lock.  The Go runtime marks a map while it is being     *)
(* written and ends the whole process when it meets the mark in another     *)
(* access ("concurrent map writes"); the mark is not atomic, so it may also *)
(* miss one.  A write is two steps here, and an access in between either is *)
(* the crash or goes unnoticed, both writes landing on their own keys.      *)
(* Damage to the map itself by an unnoticed race is not modelled.  The      *)
(* counters are only compared with the thresholds and saturate at Cap.      *)
(***************************************************************************)
EXTENDS Integers, FiniteSets

CONSTANTS
    Backend,             \* the backends of the pool
    Probe,               \* bound: the probe goroutines alive at once
    NoOne,               \* no goroutine, no backend
    FailureThreshold,
    SuccessThreshold

ASSUME CheckerAssumption ==
    /\ NoOne \notin Backend \cup Probe
    /\ FailureThreshold \in Nat \ {0}
    /\ SuccessThreshold \in Nat \ {0}

VARIABLES
    health,       \* Backend.health
    failures,     \* Checker.failures
    successes,    \* Checker.successes
    writing,      \* the goroutines that are writing each of the two maps
    pc,           \* where each probe goroutine is
    target,       \* the backend it probes
    ok,           \* the result of its probe
    next,         \* the health it is about to store
    up,           \* the backends that answer probes now
    running,      \* Run has not returned
    crashed,      \* the runtime has ended the process
    streak        \* history: consecutive results, successes up, failures down

vars == <<health, failures, successes, writing, pc, target, ok, next, up, running, crashed, streak>>

Health == {"healthy", "unhealthy", "probation", "disabled"}

Cap == IF FailureThreshold > SuccessThreshold THEN FailureThreshold ELSE SuccessThreshold

Plus(n) == IF n < Cap THEN n + 1 ELSE Cap

Init ==
    /\ health = [b \in Backend |-> "healthy"]
    /\ failures = [b \in Backend |-> 0]
    /\ successes = [b \in Backend |-> 0]
    /\ writing = [m \in {"failures", "successes"} |-> {}]
    /\ pc = [p \in Probe |-> "none"]
    /\ target = [p \in Probe |-> NoOne]
    /\ ok = [p \in Probe |-> FALSE]
    /\ next = [p \in Probe |-> "healthy"]
    /\ up = Backend
    /\ running = TRUE
    /\ crashed = FALSE
    /\ streak = [b \in Backend |-> 0]

Goto(p, to) == pc' = [pc EXCEPT ![p] = to]

End(p) ==
    /\ Goto(p, "none")
    /\ target' = [target EXCEPT ![p] = NoOne]
    /\ ok' = [ok EXCEPT ![p] = FALSE]
    /\ next' = [next EXCEPT ![p] = "healthy"]
-----------------------------------------------------------------------------
\* A tick of Run: one new goroutine for every backend of the pool.
Tick ==
    /\ running
    /\ \E start \in [Backend -> {p \in Probe : pc[p] = "none"}] :
          /\ \A b, c \in Backend : start[b] = start[c] => b = c
          /\ pc' = [p \in Probe |-> IF \E b \in Backend : start[b] = p THEN "probe" ELSE pc[p]]
          /\ target' = [p \in Probe |->
                          IF \E b \in Backend : start[b] = p
                          THEN CHOOSE b \in Backend : start[b] = p ELSE target[p]]
    /\ UNCHANGED <<health, failures, successes, writing, ok, next, up, running, crashed, streak>>

\* ctx is cancelled: Run returns; the probes in flight run on.
Cancel ==
    /\ running
    /\ running' = FALSE
    /\ UNCHANGED <<health, failures, successes, writing, pc, target, ok, next, up, crashed, streak>>

\* probeHTTP or probeTCP comes back.
Result(p) ==
    /\ pc[p] = "probe"
    /\ ok' = [ok EXCEPT ![p] = target[p] \in up]
    /\ streak' = [streak EXCEPT ![target[p]] =
                     IF target[p] \in up THEN (IF @ > 0 THEN Plus(@) ELSE 1)
                                        ELSE (IF @ < 0 THEN -Plus(-@) ELSE -1)]
    /\ Goto(p, "reset")
    /\ UNCHANGED <<health, failures, successes, writing, target, next, up, running, crashed>>

\* A write of map m by p starts, or is seen to meet another goroutine's write.
Enter(p, m, to) ==
    \/ /\ writing' = [writing EXCEPT ![m] = @ \cup {p}]
       /\ Goto(p, to)
       /\ UNCHANGED crashed
    \/ /\ writing[m] # {}
       /\ crashed' = TRUE
       /\ UNCHANGED <<writing, pc>>

\* The map whose counter the result sets to zero, and the one it counts in.
Zeroed(p) == IF ok[p] THEN "failures" ELSE "successes"
Counted(p) == IF ok[p] THEN "successes" ELSE "failures"

BeginReset(p) ==
    /\ pc[p] = "reset"
    /\ Enter(p, Zeroed(p), "resetting")
    /\ UNCHANGED <<health, failures, successes, target, ok, next, up, running, streak>>

EndReset(p) ==
    /\ pc[p] = "resetting"
    /\ IF ok[p]
       THEN failures' = [failures EXCEPT ![target[p]] = 0] /\ UNCHANGED successes
       ELSE successes' = [successes EXCEPT ![target[p]] = 0] /\ UNCHANGED failures
    /\ writing' = [writing EXCEPT ![Zeroed(p)] = @ \ {p}]
    /\ Goto(p, "count")
    /\ UNCHANGED <<health, target, ok, next, up, running, crashed, streak>>

BeginCount(p) ==
    /\ pc[p] = "count"
    /\ Enter(p, Counted(p), "counting")
    /\ UNCHANGED <<health, failures, successes, target, ok, next, up, running, streak>>

EndCount(p) ==
    /\ pc[p] = "counting"
    /\ IF ok[p]
       THEN successes' = [successes EXCEPT ![target[p]] = Plus(@)] /\ UNCHANGED failures
       ELSE failures' = [failures EXCEPT ![target[p]] = Plus(@)] /\ UNCHANGED successes
    /\ writing' = [writing EXCEPT ![Counted(p)] = @ \ {p}]
    /\ Goto(p, "transition")
    /\ UNCHANGED <<health, target, ok, next, up, running, crashed, streak>>
-----------------------------------------------------------------------------
\* Ejects one failure too early.
VerdictEarly(b) ==
    CASE health[b] = "healthy" /\ failures[b] >= FailureThreshold - 1 -> "unhealthy"
      [] health[b] = "unhealthy" /\ successes[b] >= SuccessThreshold -> "probation"
      [] health[b] = "probation" /\ failures[b] > 0 -> "unhealthy"
      [] health[b] = "probation" /\ failures[b] = 0
                                 /\ successes[b] >= SuccessThreshold -> "healthy"
      [] OTHER -> "none"

\* The case of the probation forgotten.
VerdictNoProbation(b) ==
    CASE health[b] = "healthy" /\ failures[b] >= FailureThreshold -> "unhealthy"
      [] health[b] = "unhealthy" /\ successes[b] >= SuccessThreshold -> "probation"
      [] OTHER -> "none"

\* The switch of transition: what it stores for the health it loaded.
Verdict(b) ==
    CASE health[b] = "healthy" /\ failures[b] >= FailureThreshold -> "unhealthy"
      [] health[b] = "unhealthy" /\ successes[b] >= SuccessThreshold -> "probation"
      [] health[b] = "probation" /\ failures[b] > 0 -> "unhealthy"
      [] health[b] = "probation" /\ failures[b] = 0
                                 /\ successes[b] >= SuccessThreshold -> "healthy"
      [] OTHER -> "none"

\* GetHealth and the map reads; a map that is being written may end the process.
Transition(p) ==
    /\ pc[p] = "transition"
    /\ \/ /\ \/ /\ Verdict(target[p]) = "none"
                /\ End(p)
             \/ /\ Verdict(target[p]) # "none"
                /\ next' = [next EXCEPT ![p] = Verdict(target[p])]
                /\ Goto(p, "store")
                /\ UNCHANGED <<target, ok>>
          /\ UNCHANGED crashed
       \/ /\ \E m \in DOMAIN writing : writing[m] # {}
          /\ crashed' = TRUE
          /\ UNCHANGED <<pc, target, ok, next>>
    /\ UNCHANGED <<health, failures, successes, writing, up, running, streak>>

Store(p) ==
    /\ pc[p] = "store"
    /\ health' = [health EXCEPT ![target[p]] = next[p]]
    /\ End(p)
    /\ UNCHANGED <<failures, successes, writing, up, running, crashed, streak>>

\* A backend goes down or comes up.
Flip(b) ==
    /\ up' = IF b \in up THEN up \ {b} ELSE up \cup {b}
    /\ UNCHANGED <<health, failures, successes, writing, pc, target, ok, next, running, crashed, streak>>

Step(p) ==
    \/ Result(p)
    \/ BeginReset(p) \/ EndReset(p) \/ BeginCount(p) \/ EndCount(p)
    \/ Transition(p) \/ Store(p)

Next ==
    /\ ~crashed
    /\ \/ Tick \/ Cancel
       \/ \E p \in Probe : Step(p)
       \/ \E b \in Backend : Flip(b)

Spec == Init /\ [][Next]_vars

\* The ticker fires again and again until ctx is cancelled; goroutines run.
FairSpec ==
    /\ Spec
    /\ WF_vars(~crashed /\ Tick)
    /\ \A p \in Probe : WF_vars(~crashed /\ Step(p))
-----------------------------------------------------------------------------
\* The unlocked maps have not ended the process.
Survives == []~crashed

\* A backend that stays up ends up healthy and stays so while Run runs.
Recovers ==
    \A b \in Backend :
        Survives /\ <>[](b \in up /\ running) => <>[](health[b] = "healthy")

\* A backend that stays down ends up unhealthy while Run runs, and is not put on
\* probation again by an old success.
Ejects ==
    \A b \in Backend :
        Survives /\ <>[](b \notin up /\ running) => <>[](health[b] = "unhealthy")

\* As long as no backend is probed twice at a time, its health moves along the
\* design's diagram only, and only when its own last probes have earned it: the
\* counters of the other backends, kept in the same maps, do not mix in.
TransitionsEarned ==
    [][\A b \in Backend : health'[b] # health[b] =>
         \/ health[b] = "healthy" /\ health'[b] = "unhealthy" /\ streak[b] <= -FailureThreshold
         \/ health[b] = "unhealthy" /\ health'[b] = "probation" /\ streak[b] >= SuccessThreshold
         \/ health[b] = "probation" /\ health'[b] = "unhealthy" /\ streak[b] < 0
         \/ health[b] = "probation" /\ health'[b] = "healthy" /\ streak[b] >= SuccessThreshold]_vars
=============================================================================
