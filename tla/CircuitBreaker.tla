--------------------------- MODULE CircuitBreaker ---------------------------
(***************************************************************************)
(* The per-backend circuit breaker of internal/circuitbreaker/breaker.go.  *)
(*                                                                         *)
(* Each goroutine runs requests one after the other: it calls Allow, and   *)
(* when Allow returns nil it makes the upstream call and then reports it   *)
(* with RecordSuccess or RecordFailure.  One action is one atomic access   *)
(* to the fields the goroutines share (state, failures, openedAt, the      *)
(* probe channel, mu), so every interleaving of the three methods is a     *)
(* behaviour.  Statements are joined only where mu makes that              *)
(* unobservable: state is written only by the holder of mu.                *)
(*                                                                         *)
(* Time is kept as ages: sinceOpened is the time elapsed since the value   *)
(* stored in openedAt, cut off at OpenDuration, beyond which the code      *)
(* cannot tell ages apart.  The clock then needs no bound.                 *)
(***************************************************************************)
EXTENDS Integers, FiniteSets

CONSTANTS
    Goroutine,         \* the goroutines that serve requests
    NoOne,             \* the "holder" of a free mutex
    FailureThreshold,  \* cfg.FailureThreshold
    OpenDuration,      \* cfg.OpenDuration, in clock ticks
    HalfOpenProbes     \* cfg.HalfOpenProbes

ASSUME ConfigAssumption ==
    /\ FailureThreshold \in Nat
    /\ OpenDuration \in Nat
    /\ HalfOpenProbes \in Nat \ {0}

ASSUME NoOneAssumption == NoOne \notin Goroutine

VARIABLES
    state,        \* b.state
    failures,     \* b.failures
    sinceOpened,  \* age of b.openedAt, at most OpenDuration
    permits,      \* len(b.probe)
    mu,           \* holder of b.mu
    pc,           \* where each goroutine is
    seen,         \* age of the openedAt that Allow has loaded
    i,            \* loop variable of the refill loop of Allow
    overtaken     \* history: the circuit opened after this Allow began

vars == <<state, failures, sinceOpened, permits, mu, pc, seen, i, overtaken>>

State == {"closed", "open", "half-open"}

\* Positions inside Allow, and the two positions it returns nil to: "call" is
\* an upstream call admitted by a closed circuit, "probe" one that took a
\* permit.  ErrCircuitOpen returns to "idle".
AllowPC == {"openedAt", "since", "allowLock", "drain", "recv", "fill",
            "reload", "select"}
RecordPC == {"okState", "okLock", "failState", "failLock", "tripState",
             "tripReset"}
PC == {"idle", "call", "probe"} \cup AllowPC \cup RecordPC

\* Positions at which a goroutine holds mu.
Critical == {"drain", "recv", "fill", "tripState", "tripReset"}

Init ==
    /\ state = "closed"
    /\ failures = 0
    /\ sinceOpened = OpenDuration
    /\ permits = 0
    /\ mu = NoOne
    /\ pc = [g \in Goroutine |-> "idle"]
    /\ seen = [g \in Goroutine |-> 0]
    /\ i = [g \in Goroutine |-> 0]
    /\ overtaken = [g \in Goroutine |-> FALSE]

Goto(g, label) == pc' = [pc EXCEPT ![g] = label]

-----------------------------------------------------------------------------
(* Allow *)

\* switch on the state: Closed admits at once.
AllowLoad(g) ==
    /\ pc[g] = "idle"
    /\ \/ state = "closed" /\ Goto(g, "call")
       \/ state = "open" /\ Goto(g, "openedAt")
       \/ state = "half-open" /\ Goto(g, "select")
    /\ overtaken' = [overtaken EXCEPT ![g] = FALSE]
    /\ UNCHANGED <<state, failures, sinceOpened, permits, mu, seen, i>>

AllowOpenedAt(g) ==
    /\ pc[g] = "openedAt"
    /\ seen' = [seen EXCEPT ![g] = sinceOpened]
    /\ Goto(g, "since")
    /\ UNCHANGED <<state, failures, sinceOpened, permits, mu, i, overtaken>>

\* Mutant: the elapsed time is not looked at.
AllowSinceUnchecked(g) ==
    /\ pc[g] = "since"
    /\ Goto(g, "allowLock")
    /\ seen' = [seen EXCEPT ![g] = 0]
    /\ UNCHANGED <<state, failures, sinceOpened, permits, mu, i, overtaken>>

\* time.Since(openedAt) >= OpenDuration, on the copy loaded before.
AllowSince(g) ==
    /\ pc[g] = "since"
    /\ Goto(g, IF seen[g] >= OpenDuration THEN "allowLock" ELSE "reload")
    /\ seen' = [seen EXCEPT ![g] = 0]
    /\ UNCHANGED <<state, failures, sinceOpened, permits, mu, i, overtaken>>

\* Mutant: the state is not checked again under the lock.
AllowLockNoRecheck(g) ==
    /\ pc[g] = "allowLock"
    /\ mu = NoOne
    /\ mu' = g
    /\ state' = "half-open"
    /\ Goto(g, "drain")
    /\ UNCHANGED <<failures, sinceOpened, permits, seen, i, overtaken>>

\* Mutant: the transition to half-open is not stored.
AllowLockNoStore(g) ==
    /\ pc[g] = "allowLock"
    /\ mu = NoOne
    /\ Goto(g, "reload")
    /\ UNCHANGED <<state, failures, sinceOpened, permits, mu, seen, i, overtaken>>

\* Lock, check again, store half-open: state is stable while mu is held.
AllowLock(g) ==
    /\ pc[g] = "allowLock"
    /\ mu = NoOne
    /\ IF state = "open"
       THEN mu' = g /\ state' = "half-open" /\ Goto(g, "drain")
       ELSE UNCHANGED <<mu, state>> /\ Goto(g, "reload")
    /\ UNCHANGED <<failures, sinceOpened, permits, seen, i, overtaken>>

\* Mutant: the permits left from the last half-open period stay in the channel.
DrainSkipped(g) ==
    /\ pc[g] = "drain"
    /\ Goto(g, "fill")
    /\ UNCHANGED <<state, failures, sinceOpened, permits, mu, seen, i, overtaken>>

\* The condition len(b.probe) > 0 of the drain loop.
Drain(g) ==
    /\ pc[g] = "drain"
    /\ Goto(g, IF permits > 0 THEN "recv" ELSE "fill")
    /\ UNCHANGED <<state, failures, sinceOpened, permits, mu, seen, i, overtaken>>

\* The receive in the drain loop blocks while the channel is empty.
DrainRecv(g) ==
    /\ pc[g] = "recv"
    /\ permits > 0
    /\ permits' = permits - 1
    /\ Goto(g, "drain")
    /\ UNCHANGED <<state, failures, sinceOpened, mu, seen, i, overtaken>>

\* One iteration of the refill loop; the send blocks while the channel is full.
FillSend(g) ==
    /\ pc[g] = "fill"
    /\ i[g] < HalfOpenProbes
    /\ permits < HalfOpenProbes
    /\ permits' = permits + 1
    /\ i' = [i EXCEPT ![g] = @ + 1]
    /\ UNCHANGED <<state, failures, sinceOpened, mu, pc, seen, overtaken>>

FillDone(g) ==
    /\ pc[g] = "fill"
    /\ i[g] >= HalfOpenProbes
    /\ i' = [i EXCEPT ![g] = 0]
    /\ mu' = NoOne
    /\ Goto(g, "reload")
    /\ UNCHANGED <<state, failures, sinceOpened, permits, seen, overtaken>>

\* The second look at the state; ErrCircuitOpen when it is open.
AllowReload(g) ==
    /\ pc[g] = "reload"
    /\ Goto(g, IF state = "open" THEN "idle" ELSE "select")
    /\ UNCHANGED <<state, failures, sinceOpened, permits, mu, seen, i, overtaken>>

\* The non-blocking receive: a permit admits a probe, none sheds the request.
Select(g) ==
    /\ pc[g] = "select"
    /\ IF permits > 0
       THEN permits' = permits - 1 /\ Goto(g, "probe")
       ELSE permits' = permits /\ Goto(g, "idle")
    /\ UNCHANGED <<state, failures, sinceOpened, mu, seen, i, overtaken>>

-----------------------------------------------------------------------------
(* RecordSuccess *)

RecordSuccess(g) ==
    /\ pc[g] \in {"call", "probe"}
    /\ failures' = 0
    /\ Goto(g, "okState")
    /\ UNCHANGED <<state, sinceOpened, permits, mu, seen, i, overtaken>>

\* Mutant: a success in half-open does not close the circuit.
SuccessStateIgnored(g) ==
    /\ pc[g] = "okState"
    /\ Goto(g, "idle")
    /\ UNCHANGED <<state, failures, sinceOpened, permits, mu, seen, i, overtaken>>

SuccessState(g) ==
    /\ pc[g] = "okState"
    /\ Goto(g, IF state = "half-open" THEN "okLock" ELSE "idle")
    /\ UNCHANGED <<state, failures, sinceOpened, permits, mu, seen, i, overtaken>>

\* Lock, store Closed, unlock.  The state is not looked at again.
SuccessLock(g) ==
    /\ pc[g] = "okLock"
    /\ mu = NoOne
    /\ state' = "closed"
    /\ Goto(g, "idle")
    /\ UNCHANGED <<failures, sinceOpened, permits, mu, seen, i, overtaken>>

-----------------------------------------------------------------------------
(* RecordFailure *)

\* The threshold is tested first; the state is loaded only below it.
RecordFailure(g) ==
    /\ pc[g] \in {"call", "probe"}
    /\ failures' = failures + 1
    /\ Goto(g, IF failures + 1 >= FailureThreshold THEN "failLock" ELSE "failState")
    /\ UNCHANGED <<state, sinceOpened, permits, mu, seen, i, overtaken>>

FailureState(g) ==
    /\ pc[g] = "failState"
    /\ Goto(g, IF state = "half-open" THEN "failLock" ELSE "idle")
    /\ UNCHANGED <<state, failures, sinceOpened, permits, mu, seen, i, overtaken>>

\* Lock; unless the circuit is already open, store openedAt.
FailureLock(g) ==
    /\ pc[g] = "failLock"
    /\ mu = NoOne
    /\ IF state # "open"
       THEN mu' = g /\ sinceOpened' = 0 /\ Goto(g, "tripState")
       ELSE UNCHANGED <<mu, sinceOpened>> /\ Goto(g, "idle")
    /\ UNCHANGED <<state, failures, permits, seen, i, overtaken>>

\* Store Open.  Every Allow under way has now been overtaken by an opening.
Trip(g) ==
    /\ pc[g] = "tripState"
    /\ state' = "open"
    /\ Goto(g, "tripReset")
    /\ overtaken' = [h \in Goroutine |-> TRUE]
    /\ UNCHANGED <<failures, sinceOpened, permits, mu, seen, i>>

\* Store failures = 0 and unlock.
TripReset(g) ==
    /\ pc[g] = "tripReset"
    /\ failures' = 0
    /\ mu' = NoOne
    /\ Goto(g, "idle")
    /\ UNCHANGED <<state, sinceOpened, permits, seen, i, overtaken>>

-----------------------------------------------------------------------------
(* The clock *)

Older(age) == IF age < OpenDuration THEN age + 1 ELSE age

Tick ==
    /\ sinceOpened' = Older(sinceOpened)
    /\ seen' = [g \in Goroutine |->
                   IF pc[g] = "since" THEN Older(seen[g]) ELSE seen[g]]
    /\ UNCHANGED <<state, failures, permits, mu, pc, i, overtaken>>

Allow(g) ==
    \/ AllowLoad(g) \/ AllowOpenedAt(g) \/ AllowSince(g) \/ AllowLock(g)
    \/ Drain(g) \/ DrainRecv(g) \/ FillSend(g) \/ FillDone(g)
    \/ AllowReload(g) \/ Select(g)

Record(g) ==
    \/ RecordSuccess(g) \/ SuccessState(g) \/ SuccessLock(g)
    \/ RecordFailure(g) \/ FailureState(g) \/ FailureLock(g)
    \/ Trip(g) \/ TripReset(g)

Next == Tick \/ \E g \in Goroutine : Allow(g) \/ Record(g)

Spec == Init /\ [][Next]_vars

\* Every goroutine keeps running and keeps getting requests, upstream calls
\* return, time passes, and a goroutine waiting for mu is served eventually
\* (sync.Mutex hands the lock over in arrival order to a starving waiter).
Fairness ==
    /\ WF_vars(Tick)
    /\ \A g \in Goroutine :
          /\ WF_vars(Allow(g) \/ Record(g))
          /\ SF_vars(AllowLock(g) \/ SuccessLock(g) \/ FailureLock(g))

FairSpec == Spec /\ Fairness

-----------------------------------------------------------------------------
(* Properties *)

\* Every variable has its type; the channel never holds fewer than no permits
\* or more than its capacity.
TypeOK ==
    /\ state \in State
    /\ failures \in Nat
    /\ sinceOpened \in 0..OpenDuration
    /\ permits \in 0..HalfOpenProbes
    /\ mu \in Goroutine \cup {NoOne}
    /\ pc \in [Goroutine -> PC]
    /\ seen \in [Goroutine -> 0..OpenDuration]
    /\ i \in [Goroutine -> 0..HalfOpenProbes]
    /\ overtaken \in [Goroutine -> BOOLEAN]

\* The sends of the refill loop in Allow happen while mu is held, so one that
\* met a full channel would stop the breaker for good.  None ever does, however
\* the permits of earlier half-open periods were left behind.
RefillNeverBlocks ==
    \A g \in Goroutine :
        pc[g] = "fill" /\ i[g] < HalfOpenProbes => permits < HalfOpenProbes

\* A goroutine's report is still to come, or under way: it ends the half-open
\* state when it gets there.
Resolving ==
    \E g \in Goroutine : pc[g] \in {"call", "probe", "okState", "okLock",
                                    "failState", "failLock", "tripState"}

\* A goroutine is between storing HalfOpen and its first send.
Refilling ==
    \E g \in Goroutine : pc[g] \in {"drain", "recv"} \/ (pc[g] = "fill" /\ i[g] = 0)

\* There is no timeout out of half-open, so a half-open circuit without a
\* permit left must have a request in flight whose report ends the state, or
\* be in the middle of the refill.
HalfOpenHasWayOut ==
    state = "half-open" => permits > 0 \/ Resolving \/ Refilling

\* Allow may move an open circuit to half-open only OpenDuration after it
\* opened: so it is for every Allow during which the circuit did not open anew.
FreshAllowsWait ==
    \A g \in Goroutine :
        pc[g] = "allowLock" /\ ~overtaken[g] /\ state = "open"
            => sinceOpened >= OpenDuration

\* A late Allow, still waiting for mu when another goroutine has already
\* probed and closed the circuit, must not put it back to half-open: the check
\* repeated under the lock "to prevent thundering herd".
HalfOpenOnlyFromOpen ==
    [][state' = "half-open" => state \in {"open", "half-open"}]_vars

\* The receive of the drain loop waits on an empty channel, with mu held.
DrainStuck == \E g \in Goroutine : pc[g] = "recv" /\ permits = 0

\* A half-open circuit does not stay so: as long as upstream calls return, it
\* closes or opens, unless the drain loop of Allow is stuck.
HalfOpenResolves ==
    state = "half-open" ~> (state # "half-open" \/ DrainStuck)

\* An open circuit is left eventually when requests keep coming, unless the
\* drain loop of Allow is stuck.
OpenIsLeft ==
    state = "open" ~> (state # "open" \/ DrainStuck)

-----------------------------------------------------------------------------
(* What a comment says and concurrent calls break *)

\* "All methods are safe for concurrent use": every call of Allow returns.
AllowReturns ==
    \A g \in Goroutine : pc[g] \in AllowPC ~> pc[g] \notin AllowPC
=============================================================================
