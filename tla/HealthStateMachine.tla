------------------------- MODULE HealthStateMachine -------------------------
(***************************************************************************)
(* StateMachine.Observe (internal/health/statemachine.go) for one backend,  *)
(* called by a set of probing goroutines, with a drainer that may disable   *)
(* the backend at any moment (internal/admin/drain.go).                     *)
(*                                                                          *)
(* Each lock section of probeState.mu and each atomic access to the health  *)
(* is one step.  The counters are only compared with the thresholds, so     *)
(* they saturate at Cap; a time stamp is only compared with the backoff, so *)
(* it is kept as an age that saturates at MaxBackoff.  The zero time.Time   *)
(* is Never: time.Since of it exceeds every backoff.                        *)
(***************************************************************************)
EXTENDS Integers

CONSTANTS
    Prober,             \* the goroutines that report probe results
    FailureThreshold,
    SuccessThreshold,
    InitBackoff,        \* the 5 s of newProbeState, in ticks
    MaxBackoff          \* the 5 min of Observe, in ticks

\* DefaultConfig and the shipped configuration have positive thresholds.
ASSUME ThresholdAssumption ==
    /\ FailureThreshold \in Nat \ {0}
    /\ SuccessThreshold \in Nat \ {0}
    /\ InitBackoff \in Nat \ {0}
    /\ MaxBackoff \in Nat
    /\ InitBackoff <= MaxBackoff

Never == -1

Cap == IF FailureThreshold > SuccessThreshold THEN FailureThreshold ELSE SuccessThreshold

VARIABLES
    health,            \* Backend.health
    failures,          \* probeState.failures, consecutive
    successes,         \* probeState.successes, consecutive
    unhealthySince,    \* age of probeState.unhealthySince, or Never
    backoff,           \* probeState.backoff
    pc,                \* where each Observe is
    seen,              \* Observe's locals failures and successes
    up,                \* what a probe of the backend finds now
    relapse            \* history: age of the last ejection, if it was a probation
                       \* that failed and no two Observes have overlapped since;
                       \* otherwise Never

vars == <<health, failures, successes, unhealthySince, backoff, pc, seen, up, relapse>>

Health == {"healthy", "unhealthy", "probation", "disabled"}

Plus(n, cap) == IF n < cap THEN n + 1 ELSE cap

Older(age) == IF age = Never THEN Never ELSE Plus(age, MaxBackoff)

Shorter(a, b) == IF a < b THEN a ELSE b

Init ==
    /\ health = "healthy"
    /\ failures = 0
    /\ successes = 0
    /\ unhealthySince = Never
    /\ backoff = InitBackoff
    /\ pc = [p \in Prober |-> "idle"]
    /\ seen = [p \in Prober |-> [failures |-> 0, successes |-> 0]]
    /\ up = TRUE
    /\ relapse = Never

Busy == {p \in Prober : pc[p] # "idle"}

\* SetHealth, with the history of the last ejection.
SetHealth(h) ==
    /\ health' = h
    /\ relapse' = IF h = "unhealthy" /\ health # "unhealthy" THEN Never ELSE relapse

Goto(p, to) == pc' = [pc EXCEPT ![p] = to]

Return(p) ==
    /\ Goto(p, "idle")
    /\ seen' = [seen EXCEPT ![p] = [failures |-> 0, successes |-> 0]]
-----------------------------------------------------------------------------
\* An Observe that starts beside another one.
Overlap == relapse' = IF Busy = {} THEN relapse ELSE Never

\* The success branch of record without the reset of the failures.
RecordNoReset(p) ==
    /\ pc[p] = "idle"
    /\ IF up
       THEN /\ successes' = Plus(successes, Cap)
            /\ UNCHANGED <<failures, unhealthySince>>
       ELSE /\ successes' = 0
            /\ failures' = Plus(failures, Cap)
            /\ unhealthySince' = IF unhealthySince = Never THEN 0 ELSE unhealthySince
    /\ Goto(p, "counters")
    /\ Overlap
    /\ UNCHANGED <<health, backoff, seen, up>>

\* The failure branch of record without the reset of the successes.
RecordKeepsSuccesses(p) ==
    /\ pc[p] = "idle"
    /\ IF up
       THEN /\ failures' = 0
            /\ successes' = Plus(successes, Cap)
            /\ UNCHANGED unhealthySince
       ELSE /\ failures' = Plus(failures, Cap)
            /\ unhealthySince' = IF unhealthySince = Never THEN 0 ELSE unhealthySince
            /\ UNCHANGED successes
    /\ Goto(p, "counters")
    /\ Overlap
    /\ UNCHANGED <<health, backoff, seen, up>>

\* Observe is called with the result of a probe: state(id), then record(ok).
Record(p) ==
    /\ pc[p] = "idle"
    /\ IF up
       THEN /\ failures' = 0
            /\ successes' = Plus(successes, Cap)
            /\ UNCHANGED unhealthySince
       ELSE /\ successes' = 0
            /\ failures' = Plus(failures, Cap)
            /\ unhealthySince' = IF unhealthySince = Never THEN 0 ELSE unhealthySince
    /\ Goto(p, "counters")
    /\ Overlap
    /\ UNCHANGED <<health, backoff, seen, up>>

\* The second lock section: another Observe may have recorded in between.
ReadCounters(p) ==
    /\ pc[p] = "counters"
    /\ seen' = [seen EXCEPT ![p] = [failures |-> failures, successes |-> successes]]
    /\ Goto(p, "health")
    /\ UNCHANGED <<health, failures, successes, unhealthySince, backoff, up, relapse>>

\* GetHealth and the switch on it.
LoadHealth(p) ==
    /\ pc[p] = "health"
    /\ \/ /\ health = "healthy" /\ seen[p].failures >= FailureThreshold
          /\ Goto(p, "eject") /\ UNCHANGED seen
       \/ /\ health = "unhealthy"
          /\ Goto(p, "elapsed") /\ UNCHANGED seen
       \/ /\ health = "probation" /\ seen[p].failures > 0
          /\ Goto(p, "fail") /\ UNCHANGED seen
       \/ /\ health = "probation" /\ seen[p].failures = 0
          /\ seen[p].successes >= SuccessThreshold
          /\ Goto(p, "recover") /\ UNCHANGED seen
       \/ /\ \/ health = "healthy" /\ seen[p].failures < FailureThreshold
             \/ health = "probation" /\ seen[p].failures = 0
                                     /\ seen[p].successes < SuccessThreshold
             \/ health = "disabled"
          /\ Return(p)
    /\ UNCHANGED <<health, failures, successes, unhealthySince, backoff, up, relapse>>
-----------------------------------------------------------------------------
Eject(p) ==
    /\ pc[p] = "eject"
    /\ SetHealth("unhealthy")
    /\ Return(p)
    /\ UNCHANGED <<failures, successes, unhealthySince, backoff, up>>

\* The comparison with the backoff forgotten.
ElapsedIgnored(p) ==
    /\ pc[p] = "elapsed"
    /\ IF seen[p].successes >= SuccessThreshold
       THEN Goto(p, "probation") /\ UNCHANGED seen
       ELSE Return(p)
    /\ UNCHANGED <<health, failures, successes, unhealthySince, backoff, up, relapse>>

\* Has the backoff elapsed since unhealthySince, and are the successes enough?
Elapsed(p) ==
    /\ pc[p] = "elapsed"
    /\ IF /\ unhealthySince = Never \/ unhealthySince >= backoff
          /\ seen[p].successes >= SuccessThreshold
       THEN Goto(p, "probation") /\ UNCHANGED seen
       ELSE Return(p)
    /\ UNCHANGED <<health, failures, successes, unhealthySince, backoff, up, relapse>>

Probation(p) ==
    /\ pc[p] = "probation"
    /\ SetHealth("probation")
    /\ Goto(p, "rearm")
    /\ UNCHANGED <<failures, successes, unhealthySince, backoff, seen, up>>

\* The backoff is doubled for the next failure, the time stamp cleared.
Rearm(p) ==
    /\ pc[p] = "rearm"
    /\ backoff' = Shorter(backoff * 2, MaxBackoff)
    /\ unhealthySince' = Never
    /\ Return(p)
    /\ UNCHANGED <<health, failures, successes, up, relapse>>

FailProbation(p) ==
    /\ pc[p] = "fail"
    /\ health' = "unhealthy"
    /\ relapse' = IF Busy = {p} THEN 0 ELSE Never
    /\ Goto(p, "stamp")
    /\ UNCHANGED <<failures, successes, unhealthySince, backoff, seen, up>>

Stamp(p) ==
    /\ pc[p] = "stamp"
    /\ unhealthySince' = 0
    /\ Return(p)
    /\ UNCHANGED <<health, failures, successes, backoff, up, relapse>>

Recover(p) ==
    /\ pc[p] = "recover"
    /\ SetHealth("healthy")
    /\ Goto(p, "reset")
    /\ UNCHANGED <<failures, successes, unhealthySince, backoff, seen, up>>

ResetBackoff(p) ==
    /\ pc[p] = "reset"
    /\ backoff' = InitBackoff
    /\ Return(p)
    /\ UNCHANGED <<health, failures, successes, unhealthySince, up, relapse>>
-----------------------------------------------------------------------------
Tick ==
    /\ unhealthySince' = Older(unhealthySince)
    /\ relapse' = Older(relapse)
    /\ UNCHANGED <<health, failures, successes, backoff, pc, seen, up>>

\* The backend itself goes down or comes up.
Flip ==
    /\ up' = ~up
    /\ UNCHANGED <<health, failures, successes, unhealthySince, backoff, pc, seen, relapse>>

\* Drainer.Drain marks the backend.
Drain ==
    /\ health # "disabled"
    /\ SetHealth("disabled")
    /\ UNCHANGED <<failures, successes, unhealthySince, backoff, pc, seen, up>>

Observe(p) ==
    \/ Record(p) \/ ReadCounters(p) \/ LoadHealth(p)
    \/ Eject(p) \/ Elapsed(p) \/ Probation(p) \/ Rearm(p)
    \/ FailProbation(p) \/ Stamp(p) \/ Recover(p) \/ ResetBackoff(p)

Next == Tick \/ Flip \/ Drain \/ \E p \in Prober : Observe(p)

Spec == Init /\ [][Next]_vars

\* Probes keep being made and reported, and time passes.
FairSpec ==
    /\ Spec
    /\ WF_vars(Tick)
    /\ \A p \in Prober : WF_vars(Observe(p))
-----------------------------------------------------------------------------
\* A backend whose probation failed (FailProbation, Stamp) waits for the whole of
\* the doubled backoff before Observe puts it on probation again, as long as its
\* probes do not overlap.
RelapseWaits ==
    [][health = "unhealthy" /\ health' = "probation" /\ relapse # Never
         => relapse >= backoff]_vars

Undrained == [](health # "disabled")

\* A backend that stays up, and is not drained, ends up healthy and stays so,
\* whatever the probes that were in flight when it came back still store.
Recovers == Undrained /\ <>[]up => <>[](health = "healthy")

\* A backend that stays down, and is not drained, ends up unhealthy and stays so:
\* no stale success puts it on probation again and again.
Ejects == Undrained /\ <>[]~up => <>[](health = "unhealthy")
=============================================================================
