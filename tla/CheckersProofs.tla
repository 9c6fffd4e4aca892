---------------------------- MODULE CheckersProofs ----------------------------
(***************************************************************************)
(* Proofs about the two health checkers: the active one, for any number of  *)
(* backends and probes and any thresholds, and the passive one, for any     *)
(* number of callers and any window and backoffs.                           *)
(***************************************************************************)
EXTENDS ActiveChecker, PassiveChecker, TLAPS
-----------------------------------------------------------------------------
(***************************************************************************)
(* ActiveChecker: every transition is earned by the results of its backend. *)
(* The invariant relates the counters of a backend to its last results      *)
(* (Tally), except between the two writes of the probe at work on it.       *)
(***************************************************************************)

\* No backend is probed by two goroutines at once, as when every probe comes back
\* (or times out) before the next tick.
OneProbe ==
    \A p, q \in Probe : target[p] \in Backend /\ target[p] = target[q] => p = q

ActiveTypeOK ==
    /\ pc \in [Probe -> {"none", "probe", "reset", "resetting", "count", "counting",
                         "transition", "store"}]
    /\ target \in [Probe -> Backend \cup {NoOne}]
    /\ ok \in [Probe -> BOOLEAN]
    /\ health \in [Backend -> Health]
    /\ failures \in [Backend -> 0..Cap] /\ successes \in [Backend -> 0..Cap]
    /\ streak \in [Backend -> Int]
    /\ next \in [Probe -> Health]
    /\ \A p \in Probe : pc[p] # "none" => target[p] \in Backend

\* p has counted its result, or has none yet.
Settled(p) == pc[p] \notin {"reset", "resetting", "count", "counting"}

\* The counters of b are its streak.
Tally(b) ==
    /\ failures[b] = IF streak[b] < 0 THEN -streak[b] ELSE 0
    /\ successes[b] = IF streak[b] > 0 THEN streak[b] ELSE 0

\* While p works on its result, the streak is one ahead of the counter that p will
\* raise, and the other counter is zero once p has reset it.
Pending(p, b) ==
    /\ ok[p] => /\ streak[b] = Plus(successes[b])
                /\ pc[p] \in {"count", "counting"} => failures[b] = 0
    /\ ~ok[p] => /\ streak[b] = -Plus(failures[b])
                 /\ pc[p] \in {"count", "counting"} => successes[b] = 0

ProbeOK(p) ==
    /\ ~Settled(p) => Pending(p, target[p])
    /\ pc[p] = "store" => next[p] = Verdict(target[p]) /\ next[p] # "none"

BackendOK(b) == (\A p \in Probe : target[p] = b => Settled(p)) => Tally(b)

ActiveInv ==
    /\ ActiveTypeOK
    /\ \A p \in Probe : ProbeOK(p)
    /\ \A b \in Backend : BackendOK(b)

\* What the switch of transition stores, and when.
LEMMA VerdictEarned ==
    ASSUME NEW b \in Backend, Verdict(b) # "none"
    PROVE  \/ health[b] = "healthy" /\ Verdict(b) = "unhealthy" /\ failures[b] >= FailureThreshold
           \/ health[b] = "unhealthy" /\ Verdict(b) = "probation" /\ successes[b] >= SuccessThreshold
           \/ health[b] = "probation" /\ Verdict(b) = "unhealthy" /\ failures[b] > 0
           \/ health[b] = "probation" /\ Verdict(b) = "healthy" /\ successes[b] >= SuccessThreshold
BY DEF Verdict

\* The counters stay below the cap.
LEMMA CapBounds ==
    /\ Cap \in Nat \ {0}
           /\ \A n \in 0..Cap : Plus(n) \in 1..Cap
BY CheckerAssumption DEF Cap, Plus

\* A goroutine that does not move, and whose backend nobody counts for.
LEMMA OtherProbe ==
    ASSUME NEW p \in Probe, ProbeOK(p), UNCHANGED <<pc[p], target[p], ok[p], next[p]>>,
           pc[p] # "none" =>
               UNCHANGED <<health[target[p]], failures[target[p]],
                           successes[target[p]], streak[target[p]]>>
    PROVE  ProbeOK(p)'
<1>1. CASE pc[p] = "none"
  BY <1>1 DEF ProbeOK, Settled
<1>2. CASE pc[p] # "none"
  <2>1. Pending(p, target[p]) => Pending(p, target[p])'
    BY <1>2 DEF Pending, Plus
  <2>2. Verdict(target[p])' = Verdict(target[p])
    BY <1>2 DEF Verdict
  <2> QED BY <2>1, <2>2 DEF ProbeOK, Settled
<1> QED BY <1>1, <1>2

\* A backend whose counters stay, and none of whose probes has just come back.
LEMMA OtherBackend ==
    ASSUME NEW b \in Backend, BackendOK(b),
           UNCHANGED <<failures[b], successes[b], streak[b]>>,
           \A p \in Probe : target[p] = b => Settled(p) \/ (target'[p] = b /\ ~Settled(p)')
    PROVE  BackendOK(b)'
BY DEF BackendOK, Tally

\* No step of the checker leaves the types.
LEMMA ActiveTypes ==
    ASSUME ActiveTypeOK, [Next]_vars
    PROVE  ActiveTypeOK'
<1> USE CapBounds DEF ActiveTypeOK
<1>1. CASE Tick
  <2>1. PICK start \in [Backend -> {p \in Probe : pc[p] = "none"}] :
          /\ pc' = [p \in Probe |-> IF \E b \in Backend : start[b] = p THEN "probe" ELSE pc[p]]
          /\ target' = [p \in Probe |->
                           IF \E b \in Backend : start[b] = p
                           THEN CHOOSE b \in Backend : start[b] = p ELSE target[p]]
    BY <1>1 DEF Tick
  <2> QED BY <1>1, <2>1 DEF Tick
<1>2. CASE Cancel \/ (\E b \in Backend : Flip(b)) \/ UNCHANGED vars
  BY <1>2 DEF Cancel, Flip, vars
<1>3. ASSUME NEW p \in Probe, Result(p) PROVE ActiveTypeOK'
  BY <1>3 DEF Result, Goto, Plus
<1>4. ASSUME NEW p \in Probe, BeginReset(p) \/ BeginCount(p) PROVE ActiveTypeOK'
  BY <1>4 DEF BeginReset, BeginCount, Enter, Goto
<1>5. ASSUME NEW p \in Probe, EndReset(p) PROVE ActiveTypeOK'
  BY <1>5 DEF EndReset, Goto
<1>6. ASSUME NEW p \in Probe, EndCount(p) PROVE ActiveTypeOK'
  BY <1>6 DEF EndCount, Goto
<1>7. ASSUME NEW p \in Probe, Transition(p) PROVE ActiveTypeOK'
  <2>1. Verdict(target[p]) # "none" => Verdict(target[p]) \in Health
    BY <1>7, VerdictEarned DEF Transition, Health
  <2> QED BY <1>7, <2>1, Zenon DEF Transition, End, Goto, Health
<1>8. ASSUME NEW p \in Probe, Store(p) PROVE ActiveTypeOK'
  BY <1>8 DEF Store, End, Goto, Health
<1> QED BY <1>1, <1>2, <1>3, <1>4, <1>5, <1>6, <1>7, <1>8 DEF Next, Step

\* A step of the goroutine p touches no other goroutine and no other backend.
LEMMA ProbeFrame ==
    ASSUME ActiveTypeOK, OneProbe, NEW p \in Probe, Step(p)
    PROVE  /\ target[p] \in Backend
           /\ \A q \in Probe \ {p} :
                /\ UNCHANGED <<pc[q], target[q], ok[q], next[q]>>
                /\ target[q] # target[p]
           /\ \A b \in Backend \ {target[p]} :
                UNCHANGED <<health[b], failures[b], successes[b], streak[b]>>
<1> USE DEF ActiveTypeOK
<1>1. target[p] \in Backend
  BY DEF Step, Result, BeginReset, EndReset, BeginCount, EndCount, Transition, Store
<1>2. CASE Result(p)
  BY <1>1, <1>2 DEF Result, Goto, OneProbe
<1>3. CASE BeginReset(p) \/ BeginCount(p)
  BY <1>1, <1>3 DEF BeginReset, BeginCount, Enter, Goto, OneProbe
<1>4. CASE EndReset(p) \/ EndCount(p)
  BY <1>1, <1>4 DEF EndReset, EndCount, Goto, OneProbe
<1>5. CASE Transition(p)
  BY <1>1, <1>5 DEF Transition, End, Goto, OneProbe
<1>6. CASE Store(p)
  BY <1>1, <1>6 DEF Store, End, Goto, OneProbe
<1> QED BY <1>2, <1>3, <1>4, <1>5, <1>6 DEF Step

\* p's own part of the invariant, and its backend's.
LEMMA OwnProbe ==
    ASSUME ActiveTypeOK, OneProbe,
           NEW p \in Probe, NEW b \in Backend, b = target[p], Step(p), ProbeOK(p), BackendOK(b)
    PROVE  ProbeOK(p)' /\ BackendOK(b)'
<1>1. /\ failures[b] \in 0..Cap /\ successes[b] \in 0..Cap
      /\ streak[b] \in Int /\ Cap \in Nat \ {0}
      /\ \A n \in 0..Cap : Plus(n) \in 1..Cap
      /\ ok[p] \in BOOLEAN
  BY CapBounds DEF ActiveTypeOK
<1>2. /\ DOMAIN pc = Probe /\ DOMAIN target = Probe /\ DOMAIN ok = Probe /\ DOMAIN next = Probe
      /\ DOMAIN failures = Backend /\ DOMAIN successes = Backend /\ DOMAIN streak = Backend
      /\ DOMAIN health = Backend
  BY DEF ActiveTypeOK
<1>3. Settled(p) => Tally(b)
  BY DEF BackendOK, OneProbe
<1>4. CASE Result(p)
  <2>1. Tally(b)
    BY <1>3, <1>4 DEF Result, Settled
  <2>2. /\ pc'[p] = "reset" /\ target'[p] = b /\ failures' = failures /\ successes' = successes
        /\ ok'[p] = (b \in up)
        /\ streak'[b] = IF b \in up THEN (IF streak[b] > 0 THEN Plus(streak[b]) ELSE 1)
                                   ELSE (IF streak[b] < 0 THEN -Plus(-streak[b]) ELSE -1)
    BY <1>4, <1>2 DEF Result, Goto
  <2>3. Plus(0) = 1
    BY <1>1 DEF Plus
  <2>4. Pending(p, b)'
    BY <1>1, <2>1, <2>2, <2>3, Zenon DEF Tally, Pending, Plus
  <2> QED BY <2>2, <2>4 DEF ProbeOK, BackendOK, Settled
<1>5. CASE BeginReset(p) \/ BeginCount(p)
  <2>1. /\ UNCHANGED <<target[p], ok[p], health, failures, successes, streak>>
        /\ ~Settled(p) /\ ~Settled(p)' /\ pc'[p] # "store"
        /\ pc'[p] \in {"count", "counting"} => pc[p] \in {"count", "counting"}
    BY <1>5, <1>2 DEF BeginReset, BeginCount, Enter, Goto, Settled
  <2> QED BY <2>1 DEF ProbeOK, BackendOK, Pending, Plus
<1>6. CASE EndReset(p)
  <2>1. /\ UNCHANGED <<target[p], ok[p], streak>> /\ pc[p] = "resetting" /\ pc'[p] = "count"
        /\ ok[p] => failures'[b] = 0 /\ successes' = successes
        /\ ~ok[p] => successes'[b] = 0 /\ failures' = failures
    BY <1>6, <1>2 DEF EndReset, Goto
  <2> QED BY <2>1 DEF ProbeOK, BackendOK, Pending, Settled, Plus
<1>7. CASE EndCount(p)
  <2>1. /\ UNCHANGED <<target[p], ok[p], streak>> /\ pc[p] = "counting" /\ pc'[p] = "transition"
        /\ ok[p] => successes'[b] = Plus(successes[b]) /\ failures' = failures
        /\ ~ok[p] => failures'[b] = Plus(failures[b]) /\ successes' = successes
    BY <1>7, <1>2 DEF EndCount, Goto
  <2>2. Pending(p, b)
    BY <2>1 DEF ProbeOK, Settled
  <2>3. Tally(b)'
    BY <1>1, <2>1, <2>2 DEF Pending, Tally
  <2> QED BY <2>1, <2>3 DEF ProbeOK, BackendOK, Settled
<1>8. CASE Transition(p) \/ Store(p)
  <2>1. UNCHANGED <<failures, successes, streak>> /\ Settled(p) /\ Settled(p)'
    BY <1>8, <1>2 DEF Transition, Store, End, Goto, Settled
  <2>2. pc'[p] = "store" =>
          health' = health /\ target'[p] = b /\ next'[p] = Verdict(b) /\ Verdict(b) # "none"
    BY <1>8, <1>2 DEF Transition, Store, End, Goto
  <2>3. pc'[p] = "store" => Verdict(b)' = Verdict(b)
    BY <2>1, <2>2 DEF Verdict
  <2> QED BY <1>3, <2>1, <2>2, <2>3 DEF ProbeOK, BackendOK, Tally
<1> QED BY <1>4, <1>5, <1>6, <1>7, <1>8 DEF Step

LEMMA ActiveStep ==
    ASSUME OneProbe, ActiveInv, [Next]_vars
    PROVE  ActiveInv'
<1> USE DEF ActiveInv
<1>1. ASSUME NEW p \in Probe, Step(p)
      PROVE  (\A q \in Probe : ProbeOK(q)') /\ (\A b \in Backend : BackendOK(b)')
  <2>1. PICK c \in Backend : c = target[p]
    BY <1>1, ProbeFrame
  <2>2. ProbeOK(p)' /\ BackendOK(c)'
    BY <1>1, <2>1, OwnProbe
  <2>3. ASSUME NEW q \in Probe \ {p} PROVE ProbeOK(q)'
    <3>1. UNCHANGED <<pc[q], target[q], ok[q], next[q]>> /\ target[q] # c
      BY <1>1, <2>1, ProbeFrame
    <3>2. pc[q] # "none" =>
            UNCHANGED <<health[target[q]], failures[target[q]],
                        successes[target[q]], streak[target[q]]>>
      BY <1>1, <2>1, <3>1, ProbeFrame DEF ActiveTypeOK
    <3> QED BY <3>1, <3>2, OtherProbe
  <2>4. ASSUME NEW b \in Backend \ {c} PROVE BackendOK(b)'
    <3>1. UNCHANGED <<failures[b], successes[b], streak[b]>>
      BY <1>1, <2>1, ProbeFrame
    <3>2. \A q \in Probe : target[q] = b => target'[q] = b /\ pc'[q] = pc[q]
      BY <1>1, <2>1, ProbeFrame
    <3> QED BY <3>1, <3>2, OtherBackend DEF Settled
  <2> QED BY <2>2, <2>3, <2>4
<1>2. CASE Tick
  <2>1. PICK start \in [Backend -> {p \in Probe : pc[p] = "none"}] :
          /\ pc' = [p \in Probe |-> IF \E b \in Backend : start[b] = p THEN "probe" ELSE pc[p]]
          /\ target' = [p \in Probe |->
                           IF \E b \in Backend : start[b] = p
                           THEN CHOOSE b \in Backend : start[b] = p ELSE target[p]]
    BY <1>2 DEF Tick
  <2>2. UNCHANGED <<health, failures, successes, ok, next, streak>>
    BY <1>2 DEF Tick
  <2>3. ASSUME NEW p \in Probe
        PROVE  \/ pc[p] = "none" /\ pc'[p] = "probe"
               \/ pc'[p] = pc[p] /\ target'[p] = target[p]
    BY <2>1
  <2>4. ASSUME NEW p \in Probe PROVE ProbeOK(p)'
    <3>1. CASE pc'[p] = "probe"
      BY <3>1 DEF ProbeOK, Settled
    <3>2. CASE pc'[p] = pc[p] /\ target'[p] = target[p]
      BY <2>2, <3>2, OtherProbe
    <3> QED BY <2>3, <3>1, <3>2
  <2>5. ASSUME NEW b \in Backend PROVE BackendOK(b)'
    BY <2>2, <2>3, OtherBackend DEF Settled
  <2> QED BY <2>4, <2>5, ActiveTypes
<1>3. CASE Cancel \/ (\E b \in Backend : Flip(b)) \/ UNCHANGED vars
  <2>1. UNCHANGED <<health, failures, successes, pc, target, ok, next, streak>>
    BY <1>3 DEF Cancel, Flip, vars
  <2> QED BY <2>1, OtherProbe, OtherBackend, ActiveTypes DEF Settled
<1> QED BY <1>1, <1>2, <1>3, ActiveTypes DEF Next

\* As long as no backend is probed twice at a time, transition moves its health along
\* the design's diagram only, and only when its own last results have earned it: the
\* maps shared by all the backends do not mix their counters, for any number of them.
THEOREM EarnedTransitions == Spec /\ []OneProbe => TransitionsEarned
<1>1. Init => ActiveInv
  BY CapBounds DEF Init, ActiveInv, ActiveTypeOK, ProbeOK, BackendOK, Settled, Tally, Health
<1>2. OneProbe /\ ActiveInv /\ [Next]_vars => ActiveInv'
  BY ActiveStep
<1> DEFINE Earned ==
      \A b \in Backend : health'[b] # health[b] =>
         \/ health[b] = "healthy" /\ health'[b] = "unhealthy" /\ streak[b] <= -FailureThreshold
         \/ health[b] = "unhealthy" /\ health'[b] = "probation" /\ streak[b] >= SuccessThreshold
         \/ health[b] = "probation" /\ health'[b] = "unhealthy" /\ streak[b] < 0
         \/ health[b] = "probation" /\ health'[b] = "healthy" /\ streak[b] >= SuccessThreshold
<1>3. OneProbe /\ ActiveInv /\ [Next]_vars => [Earned]_vars
  <2> SUFFICES ASSUME OneProbe, ActiveInv, Next, NEW b \in Backend, health'[b] # health[b]
               PROVE  \/ health[b] = "healthy" /\ health'[b] = "unhealthy"
                                              /\ streak[b] <= -FailureThreshold
                      \/ health[b] = "unhealthy" /\ health'[b] = "probation"
                                                /\ streak[b] >= SuccessThreshold
                      \/ health[b] = "probation" /\ health'[b] = "unhealthy" /\ streak[b] < 0
                      \/ health[b] = "probation" /\ health'[b] = "healthy"
                                                /\ streak[b] >= SuccessThreshold
    OBVIOUS
  <2>1. PICK p \in Probe : Store(p)
    BY DEF Next, Step, Tick, Cancel, Flip, Result, BeginReset, EndReset,
           BeginCount, EndCount, Transition
  <2>2. target[p] = b /\ pc[p] = "store" /\ health'[b] = next[p]
    BY <2>1 DEF Store, ActiveInv, ActiveTypeOK
  <2>3. health'[b] = Verdict(b) /\ Verdict(b) # "none"
    BY <2>2 DEF ActiveInv, ProbeOK
  <2>4. Tally(b)
    BY <2>2 DEF ActiveInv, BackendOK, OneProbe, Settled
  <2>5. streak[b] \in Int /\ FailureThreshold \in Nat \ {0} /\ SuccessThreshold \in Nat \ {0}
    BY CheckerAssumption DEF ActiveInv, ActiveTypeOK
  <2> QED BY <2>3, <2>4, <2>5, VerdictEarned DEF Tally
<1> QED BY <1>1, <1>2, <1>3, PTL DEF Spec, TransitionsEarned
-----------------------------------------------------------------------------
(***************************************************************************)
(* PassiveChecker: the rate that ejects is the one of the sliding window     *)
(* (Trimmed), and an ejection lasts for its backoff (EntryNotOlder).        *)
(***************************************************************************)

Event == [age : 0..Horizon, err : BOOLEAN]

LEMMA HorizonFar ==
    /\ Horizon \in Nat /\ PassiveWindow \in Nat /\ MaxBackoff \in Nat
    /\ Horizon > PassiveWindow /\ Horizon >= MaxBackoff
BY PassiveAssumption DEF Horizon

\* What the provers need to know of the events, and of a slice of them.
LEMMA EventAge ==
    ASSUME NEW e \in Event
    PROVE  e.age \in Nat /\ e.age <= Horizon /\ PassiveWindow \in Nat
<1>1. e.age \in 0..Horizon
  BY DEF Event
<1> QED BY <1>1, HorizonFar

LEMMA AppendEvent ==
    ASSUME NEW s \in Seq(Event), NEW e \in Event
    PROVE  /\ Append(s, e) \in Seq(Event) /\ Len(Append(s, e)) = Len(s) + 1
           /\ \A k \in 1..Len(s) : Append(s, e)[k] = s[k]
           /\ Append(s, e)[Len(s) + 1] = e
OBVIOUS

LEMMA EqualEvents ==
    ASSUME NEW s \in Seq(Event), NEW z \in Seq(Event), Len(s) = Len(z),
           \A k \in 1..Len(s) : s[k] = z[k]
    PROVE  s = z
<1>1. DOMAIN s = 1..Len(s) /\ DOMAIN z = 1..Len(s)
  OBVIOUS
<1>2. s = [k \in 1..Len(s) |-> s[k]] /\ z = [k \in 1..Len(s) |-> z[k]]
  BY <1>1
<1> QED BY <1>2, Zenon

\* s is z without its first n elements.
Suffix(s, z, n) ==
    /\ n \in 0..Len(z) /\ Len(s) = Len(z) - n
    /\ \A k \in 1..Len(s) : s[k] = z[n + k]

\* The events are in the order of their ages, and what the trim loop has dropped is
\* older than the window; what is left is not, when the last event is of this tick.
Trimmed ==
    /\ window \in Seq(Event) /\ log \in Seq(Event)
    /\ \A j, k \in 1..Len(log) : j <= k => log[j].age >= log[k].age
    /\ \E n \in 0..Len(log) :
          /\ Suffix(window, log, n)
          /\ \A k \in 1..n : log[k].age > PassiveWindow
          /\ Len(log) > 0 /\ log[Len(log)].age = 0 =>
               \A k \in 1..Len(log) : k > n => log[k].age <= PassiveWindow

\* A tick ages every event.
LEMMA AgedEvents ==
    ASSUME NEW s \in Seq(Event)
    PROVE  /\ Aged(s) \in Seq(Event) /\ Len(Aged(s)) = Len(s)
           /\ \A k \in 1..Len(s) :
                /\ Aged(s)[k] = [s[k] EXCEPT !.age = Bump(@, Horizon)]
                /\ Aged(s)[k].age = IF s[k].age < Horizon THEN s[k].age + 1
                                                                  ELSE Horizon
<1> DEFINE old(e) == [e EXCEPT !.age = Bump(@, Horizon)]
<1>1. \A e \in Event :
        /\ old(e) \in Event
        /\ old(e).age = IF e.age < Horizon THEN e.age + 1 ELSE Horizon
  <2> SUFFICES ASSUME NEW e \in Event
               PROVE  /\ old(e) \in Event
                      /\ old(e).age = IF e.age < Horizon THEN e.age + 1
                                                                  ELSE Horizon
    OBVIOUS
  <2>1. PICK x \in Nat : x = e.age /\ x <= Horizon
    BY EventAge
  <2>2. Horizon \in Nat
    BY HorizonFar
  <2>3. Bump(x, Horizon) \in 0..Horizon
    BY <2>1, <2>2 DEF Bump
  <2>4. old(e) = [e EXCEPT !.age = Bump(x, Horizon)]
    BY <2>1
  <2> QED BY <2>1, <2>2, <2>3, <2>4 DEF Event, Bump
<1>2. \A k \in 1..Len(s) : s[k] \in Event
  OBVIOUS
<1>3. Aged(s) = [k \in 1..Len(s) |-> old(s[k])]
  BY DEF Aged
<1> HIDE DEF old
<1>4. Aged(s) \in Seq(Event) /\ Len(Aged(s)) = Len(s)
  BY <1>1, <1>2, <1>3
<1>5. \A k \in 1..Len(s) : Aged(s)[k] = old(s[k])
  BY <1>3
<1> QED BY <1>1, <1>2, <1>4, <1>5, Zenon DEF old

LEMMA TrimmedTick ==
    ASSUME Trimmed, PassiveTick
    PROVE  Trimmed'
<1>1. window \in Seq(Event) /\ log \in Seq(Event)
  BY DEF Trimmed
<1>2. PICK n \in 0..Len(log) :
          /\ Suffix(window, log, n)
          /\ \A k \in 1..n : log[k].age > PassiveWindow
  BY DEF Trimmed
<1>3. window' = Aged(window) /\ log' = Aged(log)
  BY DEF PassiveTick
<1>4. /\ window' \in Seq(Event) /\ log' \in Seq(Event)
      /\ Len(window') = Len(window) /\ Len(log') = Len(log)
  BY <1>1, <1>3, AgedEvents
<1>5. /\ PassiveWindow \in Nat /\ Horizon \in Nat /\ Horizon > PassiveWindow
      /\ \A k \in 1..Len(log) :
           /\ log[k].age \in Nat /\ log[k].age <= Horizon
           /\ log'[k].age = IF log[k].age < Horizon THEN log[k].age + 1
                                                            ELSE Horizon
  <2>1. \A k \in 1..Len(log) : log[k] \in Event
    BY <1>1
  <2> QED BY <1>1, <1>3, <2>1, AgedEvents, EventAge, HorizonFar, Zenon
<1>6. Suffix(window', log', n)
  <2>1. ASSUME NEW k \in 1..Len(window)
        PROVE  window'[k] = log'[n + k]
    <3>1. window[k] = log[n + k] /\ n + k \in 1..Len(log)
      BY <1>1, <1>2 DEF Suffix
    <3>2. window'[k] = [window[k] EXCEPT !.age = Bump(@, Horizon)]
      BY <1>1, <1>3, AgedEvents
    <3>3. log'[n + k] = [log[n + k] EXCEPT !.age = Bump(@, Horizon)]
      BY <1>1, <1>3, <3>1, AgedEvents, Zenon
    <3> QED BY <3>1, <3>2, <3>3
  <2> QED BY <1>2, <1>4, <2>1 DEF Suffix
<1>7. ASSUME NEW j \in 1..Len(log'), NEW k \in 1..Len(log'), j <= k
      PROVE  log'[j].age >= log'[k].age
  <2>1. log[j].age >= log[k].age
    BY <1>4, <1>7 DEF Trimmed
  <2>2. j \in 1..Len(log) /\ k \in 1..Len(log)
    BY <1>4
  <2>3. PICK x \in Nat, y \in Nat : x = log[j].age /\ y = log[k].age
    BY <1>5, <2>2, Zenon
  <2>4. /\ log'[j].age = IF x < Horizon THEN x + 1 ELSE Horizon
        /\ log'[k].age = IF y < Horizon THEN y + 1 ELSE Horizon
        /\ x >= y /\ Horizon \in Nat
    BY <1>5, <2>1, <2>2, <2>3, Zenon
  <2> QED BY <2>4
<1>8. /\ \A k \in 1..n : log'[k].age > PassiveWindow
      /\ \A k \in 1..Len(log') : log'[k].age # 0
  <2>1. \A k \in 1..n : k \in 1..Len(log)
    BY <1>1, <1>2
  <2>2. \A k \in 1..Len(log) : log'[k].age # 0
    BY <1>5
  <2>3. ASSUME NEW k \in 1..n PROVE log'[k].age > PassiveWindow
    BY <1>2, <1>5, <2>1
  <2> QED BY <1>4, <2>2, <2>3
<1>9. Len(log') > 0 => Len(log') \in 1..Len(log')
  BY <1>4
<1> QED BY <1>2, <1>4, <1>6, <1>7, <1>8, <1>9, Zenon DEF Trimmed

\* s[k] is the first event of s inside the window, or k is behind the last one.
StartOf(s, k) ==
    /\ k \in 1..(Len(s) + 1)
    /\ \A j \in 1..(k - 1) : s[j].age > PassiveWindow
    /\ k <= Len(s) => s[k].age <= PassiveWindow

\* Observe drops the events in front of the first one inside the window, and appends
\* the new one.
LEMMA TrimmedObserve ==
    ASSUME Trimmed, StartOf(window, Start(window)),
           NEW c, NEW isError \in BOOLEAN, Observe(c, isError)
    PROVE  Trimmed'
<1>1. window \in Seq(Event) /\ log \in Seq(Event)
  BY DEF Trimmed
<1>2. PICK L \in Nat, W \in Nat : L = Len(log) /\ W = Len(window)
  BY <1>1
<1>3. PICK n \in 0..L :
          /\ W = L - n
          /\ \A k \in 1..W : window[k] = log[n + k]
          /\ \A k \in 1..n : log[k].age > PassiveWindow
  BY <1>2, Zenon DEF Trimmed, Suffix
<1>4. PICK e \in Event : e = [age |-> 0, err |-> isError] /\ e.age = 0
  <2>1. 0 \in 0..Horizon
    BY HorizonFar
  <2>2. [age |-> 0, err |-> isError] \in Event
    BY <2>1 DEF Event
  <2>3. [age |-> 0, err |-> isError].age = 0
    OBVIOUS
  <2> QED BY <2>2, <2>3
<1>5. PICK s \in 1..(W + 1) :
          /\ s = Start(window)
          /\ \A j \in 1..(s - 1) : window[j].age > PassiveWindow
          /\ s <= W => window[s].age <= PassiveWindow
  BY <1>2 DEF StartOf
<1>6. PICK kept \in Seq(Event), K \in Nat :
          /\ kept = SubSeq(window, s, Len(window))
          /\ K = Len(kept) /\ K = W - (s - 1)
          /\ \A k \in 1..K : kept[k] = window[(s - 1) + k]
  <2>1. SubSeq(window, s, Len(window)) \in Seq(Event)
    BY <1>1, <1>2
  <2>2. Len(SubSeq(window, s, Len(window))) = W - (s - 1)
    BY <1>1, <1>2
  <2>3. \A k \in 1..(W - (s - 1)) :
          SubSeq(window, s, Len(window))[k] = window[(s - 1) + k]
    BY <1>1, <1>2
  <2>4. W - (s - 1) \in Nat
    OBVIOUS
  <2> QED BY <2>1, <2>2, <2>3, <2>4, Zenon
<1>7. window' = Append(kept, e) /\ log' = Append(log, e)
  BY <1>4, <1>5, <1>6 DEF Observe
<1>8. /\ window' \in Seq(Event) /\ Len(window') = K + 1
      /\ \A k \in 1..K : window'[k] = kept[k]
      /\ window'[K + 1] = e
  <2>1. /\ Append(kept, e) \in Seq(Event) /\ Len(Append(kept, e)) = Len(kept) + 1
        /\ \A k \in 1..Len(kept) : Append(kept, e)[k] = kept[k]
        /\ Append(kept, e)[Len(kept) + 1] = e
    BY AppendEvent, Zenon
  <2> QED BY <1>6, <1>7, <2>1, Zenon
<1>9. /\ log' \in Seq(Event) /\ Len(log') = L + 1
      /\ \A k \in 1..L : log'[k] = log[k]
      /\ log'[L + 1] = e
  BY <1>1, <1>2, <1>7, AppendEvent
<1>10. PICK m \in 0..L : m = n + (s - 1) /\ K = L - m
  <2>1. n + (s - 1) \in 0..L /\ K = L - (n + (s - 1))
    BY <1>3, <1>6
  <2> QED BY <2>1
<1>11. ASSUME NEW k \in 1..(K + 1) PROVE window'[k] = log'[m + k]
  <2>1. CASE k = K + 1
    <3>1. m + k = L + 1
      BY <1>10, <2>1
    <3> QED BY <1>8, <1>9, <2>1, <3>1
  <2>2. CASE k # K + 1
    <3>1. k \in 1..K /\ (s - 1) + k \in 1..W /\ m + k \in 1..L /\ n + ((s - 1) + k) = m + k
      <4>1. W = L - n /\ K = W - (s - 1) /\ m = n + (s - 1)
        BY <1>3, <1>6, <1>10
      <4> QED BY <2>2, <4>1
    <3>2. window'[k] = window[(s - 1) + k]
      BY <1>6, <1>8, <3>1, Zenon
    <3>3. window[(s - 1) + k] = log[n + ((s - 1) + k)]
      BY <1>3, <3>1, Zenon
    <3> QED BY <1>9, <3>1, <3>2, <3>3
  <2> QED BY <2>1, <2>2
<1>12. m \in 0..Len(log') /\ Len(window') = Len(log') - m
  <2>1. m \in 0..(L + 1) /\ K + 1 = (L + 1) - m
    BY <1>10
  <2> QED BY <1>8, <1>9, <2>1, Zenon
<1>13. ASSUME NEW k \in 1..m PROVE log'[k].age > PassiveWindow
  <2>1. k \in 1..L
    BY <1>10
  <2>2. CASE k <= n
    BY <1>3, <1>9, <2>1, <2>2
  <2>3. CASE ~(k <= n)
    <3>1. k - n \in 1..(s - 1) /\ k - n \in 1..W /\ n + (k - n) = k
      BY <1>3, <1>5, <1>10, <2>3
    <3>2. window[k - n] = log[n + (k - n)]
      BY <1>3, <3>1, Zenon
    <3> QED BY <1>5, <1>9, <2>1, <3>1, <3>2
  <2> QED BY <2>2, <2>3
<1>14. PassiveWindow \in Nat /\ \A k \in 1..L : log[k].age \in Nat
  <2>1. \A k \in 1..L : log[k] \in Event
    BY <1>1, <1>2
  <2> QED BY <2>1, EventAge, HorizonFar
<1>15. ASSUME NEW j \in 1..(L + 1), NEW k \in 1..(L + 1), j <= k
       PROVE  log'[j].age >= log'[k].age
  <2>1. CASE k = L + 1
    <3>1. log'[k].age = 0
      BY <1>4, <1>9, <2>1
    <3>2. CASE j = L + 1
      BY <2>1, <3>1, <3>2
    <3>3. CASE j # L + 1
      <4>1. j \in 1..L
        BY <3>3
      <4>2. PICK x \in Nat : x = log'[j].age
        BY <1>9, <1>14, <4>1
      <4> QED BY <3>1, <4>2
    <3> QED BY <3>2, <3>3
  <2>2. CASE k # L + 1
    <3>1. j \in 1..L /\ k \in 1..L
      BY <1>15, <2>2
    <3> QED BY <1>2, <1>9, <1>15, <3>1 DEF Trimmed
  <2> QED BY <2>1, <2>2
<1>16. ASSUME NEW k \in 1..(L + 1), k > m PROVE log'[k].age <= PassiveWindow
  <2>1. CASE k = L + 1
    BY <1>4, <1>9, <1>14, <2>1
  <2>2. CASE k # L + 1
    <3>1. /\ k \in 1..L /\ m + 1 \in 1..L /\ m + 1 <= k
          /\ s \in 1..W /\ s <= W /\ n + s = m + 1
      BY <1>3, <1>6, <1>10, <1>16, <2>2
    <3>2. window[s] = log[m + 1]
      BY <1>3, <3>1
    <3>3. log[m + 1].age >= log[k].age
      BY <1>2, <3>1 DEF Trimmed
    <3>4. log[m + 1].age <= PassiveWindow
      BY <1>5, <3>1, <3>2
    <3>5. PICK x \in Nat, y \in Nat : x = log[m + 1].age /\ y = log[k].age
      BY <1>14, <3>1
    <3> QED BY <1>9, <1>14, <3>1, <3>3, <3>4, <3>5
  <2> QED BY <2>1, <2>2
<1> QED BY <1>8, <1>9, <1>11, <1>12, <1>13, <1>15, <1>16, Zenon DEF Trimmed, Suffix

INSTANCE WellFoundedInduction

LEMMA LessIsWellFounded ==
    \E R : /\ IsWellFoundedOn(R, Nat)
           /\ \A x, y \in Nat : x < y => <<x, y>> \in R
<1>1. \A x, y \in Nat : x < y => <<x, y>> \in OpToRel(<, Nat)
  BY DEF OpToRel
<1> QED BY <1>1, NatLessThanWellFounded, Zenon

LEMMA LeastNat ==
    ASSUME NEW T, T \subseteq Nat, T # {}
    PROVE  \E x \in T : \A y \in T : x <= y
<1>1. PICK R : /\ IsWellFoundedOn(R, Nat)
               /\ \A x, y \in Nat : x < y => <<x, y>> \in R
  BY LessIsWellFounded
<1>2. IsWellFoundedOn(R, Nat)
  BY <1>1
<1>3. \E x \in T : \A y \in T : ~(<<y, x>> \in R)
  BY <1>2, WFMin, Zenon
<1>4. PICK x \in T : \A y \in T : ~(<<y, x>> \in R)
  BY <1>3
<1>5. ASSUME NEW y \in T PROVE x <= y
  <2>1. x \in Nat /\ y \in Nat
    OBVIOUS
  <2>2. ~(y < x)
    BY <1>1, <1>4, <2>1, Zenon
  <2> QED BY <2>1, <2>2
<1> QED BY <1>5

\* The trim loop stops at the first event inside the window, or behind the last.
LEMMA StartFound ==
    ASSUME NEW s \in Seq(Event)
    PROVE  StartOf(s, Start(s))
<1> DEFINE In == {k \in 1..Len(s) : s[k].age <= PassiveWindow}
<1>1. PassiveWindow \in Nat /\ \A k \in 1..Len(s) : s[k].age \in Nat
  <2>1. \A k \in 1..Len(s) : s[k] \in Event
    OBVIOUS
  <2> QED BY <2>1, EventAge, HorizonFar
<1>2. \E k \in 1..(Len(s) + 1) :
        /\ \A j \in 1..(k - 1) : s[j].age > PassiveWindow
        /\ k <= Len(s) => s[k].age <= PassiveWindow
  <2>1. CASE In = {}
    <3>1. Len(s) + 1 \in 1..(Len(s) + 1) /\ (Len(s) + 1) - 1 = Len(s) /\ ~(Len(s) + 1 <= Len(s))
      OBVIOUS
    <3>2. \A j \in 1..Len(s) : s[j].age > PassiveWindow
      BY <1>1, <2>1
    <3> QED BY <3>1, <3>2
  <2>2. CASE In # {}
    <3>1. PICK k \in In : \A j \in In : k <= j
      <4>1. In \subseteq Nat
        OBVIOUS
      <4> HIDE DEF In
      <4> QED BY <2>2, <4>1, LeastNat, Zenon
    <3>2. k \in 1..(Len(s) + 1) /\ k \in 1..Len(s) /\ s[k].age <= PassiveWindow
      OBVIOUS
    <3>3. \A j \in 1..(k - 1) : s[j].age > PassiveWindow
      BY <1>1, <3>1, <3>2
    <3> QED BY <3>2, <3>3
  <2> QED BY <2>1, <2>2
<1> QED BY <1>2, Zenon DEF Start, StartOf

\* The other steps leave the window alone, or forget it with the log.
LEMMA TrimmedStep ==
    ASSUME Trimmed, [PassiveNext]_passiveVars
    PROVE  Trimmed'
<1>1. CASE UNCHANGED <<window, log>>
  BY <1>1, Zenon DEF Trimmed, Suffix
<1>2. CASE window' = <<>> /\ log' = <<>>
  BY <1>2 DEF Trimmed, Suffix
<1>3. CASE PassiveTick
  BY <1>3, TrimmedTick
<1>4. ASSUME NEW c \in Caller, Passive(c) PROVE Trimmed'
  <2>1. ASSUME NEW isError \in BOOLEAN, Observe(c, isError) PROVE Trimmed'
    <3>1. StartOf(window, Start(window))
      BY StartFound DEF Trimmed
    <3> QED BY <2>1, <3>1, TrimmedObserve
  <2>2. CASE Eject(c) \/ TryReadmit(c) \/ Readmit(c) \/ Forget(c)
    BY <1>1, <1>2, <2>2 DEF Eject, TryReadmit, Readmit, Forget
  <2> QED BY <1>4, <2>1, <2>2 DEF Passive
<1>5. CASE ActiveCheck \/ Drain \/ UNCHANGED passiveVars
  BY <1>1, <1>5 DEF ActiveCheck, Drain, passiveVars
<1> QED BY <1>3, <1>4, <1>5 DEF PassiveNext

LEMMA InitTrimmed ==
    ASSUME PassiveInit
    PROVE  Trimmed
BY DEF PassiveInit, Trimmed, Suffix

\* Observe's trim of a prefix, followed by the append, leaves exactly the events of
\* the last PassiveWindow: the error rate it compares is the sliding one, for any
\* window and however calls and ticks alternate.
THEOREM RateIsSliding == PassiveSpec => []WindowSlides
<1>1. PassiveInit => Trimmed
  BY InitTrimmed
<1>2. Trimmed /\ [PassiveNext]_passiveVars => Trimmed'
  BY TrimmedStep
<1>3. Trimmed => WindowSlides
  <2> SUFFICES ASSUME Trimmed, window # <<>>, window[Len(window)].age = 0
               PROVE  \E n \in 0..Len(log) :
                          /\ window = SubSeq(log, n + 1, Len(log))
                          /\ \A k \in 1..Len(log) : log[k].age <= PassiveWindow <=> k > n
    BY DEF WindowSlides
  <2>1. window \in Seq(Event) /\ log \in Seq(Event)
    BY DEF Trimmed
  <2>2. PICK L \in Nat, W \in Nat : L = Len(log) /\ W = Len(window)
    BY <2>1
  <2>3. PICK n \in 0..L :
            /\ W = L - n
            /\ \A k \in 1..W : window[k] = log[n + k]
            /\ \A k \in 1..n : log[k].age > PassiveWindow
            /\ L > 0 /\ log[L].age = 0 =>
                 \A k \in 1..L : k > n => log[k].age <= PassiveWindow
    BY <2>2, Zenon DEF Trimmed, Suffix
  <2>4. W \in 1..W /\ n + W = L /\ L > 0
    <3>1. W # 0
      BY <2>1, <2>2, EqualEvents
    <3> QED BY <2>3, <3>1
  <2>5. log[L].age = 0
    BY <2>2, <2>3, <2>4
  <2>6. PassiveWindow \in Nat /\ \A k \in 1..L : log[k].age \in Nat
    <3>1. \A k \in 1..L : log[k] \in Event
      BY <2>1, <2>2
    <3> QED BY <3>1, EventAge, HorizonFar
  <2>7. ASSUME NEW k \in 1..L PROVE log[k].age <= PassiveWindow <=> k > n
    <3>1. CASE k > n
      BY <2>3, <2>4, <2>5, <3>1
    <3>2. CASE ~(k > n)
      <4>1. k \in 1..n
        BY <3>2
      <4>2. PICK x \in Nat : x = log[k].age
        BY <2>6
      <4> QED BY <2>3, <2>6, <3>2, <4>1, <4>2
    <3> QED BY <3>1, <3>2
  <2>8. /\ SubSeq(log, n + 1, L) \in Seq(Event) /\ Len(SubSeq(log, n + 1, L)) = W
        /\ \A k \in 1..W : SubSeq(log, n + 1, L)[k] = log[n + k]
    <3>1. SubSeq(log, n + 1, L) \in Seq(Event)
      BY <2>1, <2>2
    <3>2. Len(SubSeq(log, n + 1, L)) = L - n
      BY <2>1, <2>2
    <3>3. \A k \in 1..(L - n) : SubSeq(log, n + 1, L)[k] = log[n + k]
      BY <2>1, <2>2
    <3> QED BY <2>3, <3>1, <3>2, <3>3
  <2>9. window = SubSeq(log, n + 1, L)
    <3>1. PICK z \in Seq(Event) :
              z = SubSeq(log, n + 1, L) /\ Len(z) = W /\ \A k \in 1..W : z[k] = log[n + k]
      BY <2>8, Zenon
    <3>2. Len(window) = Len(z) /\ \A k \in 1..Len(window) : window[k] = z[k]
      BY <2>2, <2>3, <3>1, Zenon
    <3> QED BY <2>1, <3>1, <3>2, EqualEvents, Zenon
  <2> QED BY <2>2, <2>7, <2>9
<1> QED BY <1>1, <1>2, <1>3, PTL DEF PassiveSpec

\* A method that is not back yet holds the lock; one that is about to eject has
\* appended its event, and nobody has dropped it since.
Holds ==
    /\ at \in [Caller -> {"idle", "eject", "readmit", "forget"}]
    /\ \A c \in Caller : at[c] # "idle" => mu = c
    /\ \A c \in Caller : at[c] = "eject" => Len(window) > 0

LEMMA InitHolds ==
    ASSUME PassiveInit
    PROVE  Holds
BY DEF PassiveInit, Holds

LEMMA HoldsStep ==
    ASSUME Holds, Trimmed, [PassiveNext]_passiveVars
    PROVE  Holds'
<1> USE DEF Holds
<1>1. window \in Seq(Event)
  BY DEF Trimmed
<1>2. CASE PassiveTick
  <2>1. Len(window') = Len(window)
    BY <1>1, <1>2, AgedEvents DEF PassiveTick
  <2> QED BY <1>2, <2>1 DEF PassiveTick
<1>3. CASE ActiveCheck \/ Drain \/ UNCHANGED passiveVars
  BY <1>3 DEF ActiveCheck, Drain, passiveVars
<1>4. ASSUME NEW c \in Caller, Passive(c) PROVE Holds'
  <2>1. ASSUME NEW isError \in BOOLEAN, Observe(c, isError) PROVE Holds'
    <3>1. Len(window') > 0
      <4>1. SubSeq(window, Start(window), Len(window)) \in Seq(Event)
        BY <1>1, StartFound DEF StartOf
      <4>2. PICK s \in Seq(Event) : window' = Append(s, [age |-> 0, err |-> isError])
        BY <2>1, <4>1 DEF Observe
      <4> QED BY <4>2
    <3>2. \A d \in Caller : at[d] = "idle"
      BY <2>1, PassiveAssumption DEF Observe
    <3>3. \/ mu' = c /\ at' = [at EXCEPT ![c] = "eject"]
          \/ UNCHANGED <<mu, at>>
      BY <2>1 DEF Observe
    <3> QED BY <3>1, <3>2, <3>3
  <2>2. CASE TryReadmit(c)
    <3>1. \A d \in Caller : at[d] = "idle"
      BY <2>2, PassiveAssumption DEF TryReadmit
    <3> QED BY <2>2, <3>1 DEF TryReadmit
  <2>3. CASE Readmit(c)
    BY <2>3 DEF Readmit
  <2>4. CASE Eject(c) \/ Forget(c)
    <3>1. at[c] # "idle" /\ Release(c)
      BY <2>4 DEF Eject, Forget
    <3>2. \A d \in Caller : d # c => at[d] = "idle"
      BY <3>1
    <3> QED BY <3>1, <3>2 DEF Release
  <2> QED BY <1>4, <2>1, <2>2, <2>3, <2>4 DEF Passive
<1> QED BY <1>2, <1>3, <1>4 DEF PassiveNext

\* The age of the entry in pc.ejected is never above the time the backend has
\* really been out, plus the age its time had when the health was stored, as long as
\* the passive checker is the one that took it out.  An entry that survived a
\* recovery is overwritten by the next ejection.
EntryNotOlder ==
    /\ ejected \in Int /\ backoff \in Int
    /\ ejected # Never => ejected \in 0..MaxBackoff
    /\ out \in 0..MaxBackoff /\ lag \in 0..MaxBackoff
    /\ culprit = "passive" /\ ejected # Never => out + lag >= ejected

LEMMA InitEntry ==
    ASSUME PassiveInit
    PROVE  EntryNotOlder
BY PassiveAssumption DEF PassiveInit, EntryNotOlder, Never

LEMMA EntryStep ==
    ASSUME EntryNotOlder, Trimmed, Holds, [PassiveNext]_passiveVars
    PROVE  EntryNotOlder'
<1> USE PassiveAssumption DEF EntryNotOlder, Never
<1>1. CASE PassiveTick
  BY <1>1 DEF PassiveTick, Older, Bump
<1>2. CASE ActiveCheck \/ Drain
  BY <1>2 DEF ActiveCheck, Drain, SetHealth
<1>3. ASSUME NEW c \in Caller, Passive(c) PROVE EntryNotOlder'
  <2>1. ASSUME NEW isError \in BOOLEAN, Observe(c, isError) PROVE EntryNotOlder'
    BY <2>1 DEF Observe
  <2>2. CASE Eject(c)
    <3>1. Now \in 0..MaxBackoff
      <4>1. window \in Seq(Event) /\ Len(window) > 0
        BY <2>2 DEF Trimmed, Holds, Eject
      <4>2. window[Len(window)] \in Event
        BY <4>1
      <4>3. PICK x \in Nat : x = window[Len(window)].age
        BY <4>2, EventAge
      <4> QED BY <4>3 DEF Now
    <3>2. PICK n \in 0..MaxBackoff : n = Now
      BY <3>1
    <3>3. ejected' = n /\ lag' = n
      BY <2>2, <3>2 DEF Eject
    <3> QED BY <2>2, <3>3 DEF Eject, SetHealth
  <2>3. CASE TryReadmit(c)
    BY <2>3 DEF TryReadmit
  <2>4. CASE Readmit(c)
    BY <2>4 DEF Readmit, SetHealth
  <2>5. CASE Forget(c)
    BY <2>5 DEF Forget
  <2> QED
    BY <1>3, <2>1, <2>2, <2>3, <2>4, <2>5 DEF Passive
<1>4. CASE UNCHANGED passiveVars
  BY <1>4 DEF passiveVars
<1> QED
  BY <1>1, <1>2, <1>3, <1>4 DEF PassiveNext

\* TryReadmit lets a backend that Observe ejected back only after the whole backoff,
\* less what passed between Observe's reading of the clock and its store, whatever
\* the active checker and the drainer store in between.
THEOREM BackoffServed == PassiveSpec => ReadmitWaits
<1> DEFINE Waits == \A c \in Caller : at[c] = "idle" /\ at'[c] = "readmit"
                                      /\ culprit = "passive" => out + lag >= backoff
<1>1. EntryNotOlder /\ [PassiveNext]_passiveVars => [Waits]_passiveVars
  <2> SUFFICES ASSUME EntryNotOlder, PassiveNext, NEW c \in Caller,
                      at[c] = "idle", at'[c] = "readmit", culprit = "passive"
               PROVE  out + lag >= backoff
    OBVIOUS
  <2>1. ASSUME NEW d \in Caller, Passive(d) PROVE TryReadmit(d)
    <3>1. \/ at' = [at EXCEPT ![d] = "eject"] \/ at' = at
          \/ at' = [at EXCEPT ![d] = "idle"] \/ at' = [at EXCEPT ![d] = "forget"]
          => FALSE
      <4>1. at'[c] # at[c] /\ at'[c] # "eject" /\ at'[c] # "idle" /\ at'[c] # "forget"
        OBVIOUS
      <4>2. \A v : at' = [at EXCEPT ![d] = v] => at'[c] = at[c] \/ at'[c] = v
        OBVIOUS
      <4> QED
        BY <4>1, <4>2
    <3> QED
      BY <2>1, <3>1, Zenon DEF Passive, Observe, Eject, Readmit, Forget, Release
  <2>2. PICK d \in Caller : TryReadmit(d)
    BY <2>1 DEF PassiveNext, PassiveTick, ActiveCheck, Drain
  <2> QED
    BY <2>2 DEF TryReadmit, EntryNotOlder, Never
<1>2. Holds /\ Trimmed /\ [PassiveNext]_passiveVars => Holds'
  BY HoldsStep
<1>3. EntryNotOlder /\ Trimmed /\ Holds /\ [PassiveNext]_passiveVars => EntryNotOlder'
  BY EntryStep
<1>4. Trimmed /\ [PassiveNext]_passiveVars => Trimmed'
  BY TrimmedStep
<1> QED
  BY InitEntry, InitHolds, InitTrimmed, <1>1, <1>2, <1>3, <1>4, PTL
     DEF PassiveSpec, ReadmitWaits
=============================================================================
