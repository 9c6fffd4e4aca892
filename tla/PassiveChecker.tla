---------------------------- MODULE PassiveChecker ----------------------------
(***************************************************************************)
(* PassiveChecker (internal/health/passive.go) for one backend: Observe is  *)
(* called with the outcome of each proxied response, TryReadmit            *)
(* periodically.  Both hold pc.mu from start to end, but the health they    *)
(* load and store is an atomic that the active checker and the drainer      *)
(* write without that lock, so the load and the store are steps apart.      *)
(*                                                                          *)
(* Times are ages.  The age of an ejection is only compared with the        *)
(* backoff, so it stops growing at MaxBackoff.  An event's age is compared  *)
(* with the window, and becomes the age of an ejection, so it stops at      *)
(* Horizon.                                                                 *)
(***************************************************************************)
EXTENDS Integers, Sequences, FiniteSets

CONSTANTS
    Caller,           \* the goroutines that call Observe and TryReadmit
    Unlocked,         \* pc.mu is free
    PassiveWindow,    \* cfg.PassiveWindow, in ticks
    RateNum, RateDen, \* cfg.PassiveErrorRate as a fraction
    InitBackoff,      \* the 5 s of Observe, in ticks
    MaxBackoff,       \* the 5 min of TryReadmit, in ticks
    MaxEvents         \* bound: events between two resets of the window

ASSUME PassiveAssumption ==
    /\ Unlocked \notin Caller
    /\ PassiveWindow \in Nat
    /\ RateNum \in Nat /\ RateDen \in Nat \ {0}
    /\ InitBackoff \in Nat \ {0}
    /\ MaxBackoff \in Nat /\ InitBackoff <= MaxBackoff
    /\ MaxEvents \in Nat \ {0}

Never == -1

VARIABLES
    backendHealth, \* Backend.health
    window,        \* pc.windows[id]: events, oldest first
    backoff,       \* pc.backoffs[id]; 0 when absent
    ejected,       \* age of pc.ejected[id], or Never when absent
    mu,            \* holder of pc.mu
    at,            \* where each caller is
    log,           \* history: every event since the window was last reset, none trimmed
    culprit,       \* history: who stored "unhealthy" last
    out,           \* history: age of the last step to unhealthy
    lag            \* history: age that now had when Observe stored "unhealthy" last

passiveVars == <<backendHealth, window, backoff, ejected, mu, at, log, culprit, out, lag>>

HealthState == {"healthy", "unhealthy", "probation", "disabled"}

Horizon == IF PassiveWindow + 1 < MaxBackoff THEN MaxBackoff ELSE PassiveWindow + 1

Bump(n, cap) == IF n < cap THEN n + 1 ELSE cap

Older(age) == IF age = Never THEN Never ELSE Bump(age, MaxBackoff)

Aged(events) ==
    [k \in DOMAIN events |->
        [events[k] EXCEPT !.age = Bump(@, Horizon)]]

PassiveInit ==
    /\ backendHealth = "healthy"
    /\ window = <<>>
    /\ backoff = 0
    /\ ejected = Never
    /\ mu = Unlocked
    /\ at = [c \in Caller |-> "idle"]
    /\ log = <<>>
    /\ culprit = "nobody"
    /\ out = MaxBackoff
    /\ lag = 0

SetHealth(h, who) ==
    /\ backendHealth' = h
    /\ culprit' = IF h = "unhealthy" THEN who ELSE culprit
    /\ out' = IF h = "unhealthy" /\ backendHealth # "unhealthy" THEN 0 ELSE out

Release(c) ==
    /\ mu' = Unlocked
    /\ at' = [at EXCEPT ![c] = "idle"]
-----------------------------------------------------------------------------
(* Observe *)

\* The index of the first event inside the window, as the trim loop finds it.
Start(events) ==
    CHOOSE k \in 1..(Len(events) + 1) :
        /\ \A j \in 1..(k - 1) : events[j].age > PassiveWindow
        /\ k <= Len(events) => events[k].age <= PassiveWindow

Errors(events) == Cardinality({k \in DOMAIN events : events[k].err})

TooMany(events) == Errors(events) * RateDen >= RateNum * Len(events)

\* The trim forgotten: old events keep counting.
ObserveUntrimmed(c, isError) ==
    /\ at[c] = "idle" /\ mu = Unlocked
    /\ LET evts == Append(window, [age |-> 0, err |-> isError])
       IN  /\ Len(log) < MaxEvents
           /\ window' = evts
           /\ log' = Append(log, [age |-> 0, err |-> isError])
           /\ IF TooMany(evts) /\ backendHealth = "healthy"
              THEN mu' = c /\ at' = [at EXCEPT ![c] = "eject"]
              ELSE UNCHANGED <<mu, at>>
    /\ UNCHANGED <<backendHealth, backoff, ejected, culprit, out, lag>>

\* Lock, trim, append, rate, and the load of the health.
Observe(c, isError) ==
    /\ at[c] = "idle" /\ mu = Unlocked
    /\ LET evts == Append(SubSeq(window, Start(window), Len(window)),
                          [age |-> 0, err |-> isError])
       IN  /\ Len(log) < MaxEvents
           /\ window' = evts
           /\ log' = Append(log, [age |-> 0, err |-> isError])
           /\ IF TooMany(evts) /\ backendHealth = "healthy"
              THEN mu' = c /\ at' = [at EXCEPT ![c] = "eject"]
              ELSE UNCHANGED <<mu, at>>
    /\ UNCHANGED <<backendHealth, backoff, ejected, culprit, out, lag>>

\* The age of now, which Observe has read before the event was appended.
Now == LET age == window[Len(window)].age IN IF age < MaxBackoff THEN age ELSE MaxBackoff

\* Only the first ejection recorded, as the backoff is only set the first time.
EjectFirstOnly(c) ==
    /\ at[c] = "eject"
    /\ SetHealth("unhealthy", "passive")
    /\ backoff' = IF backoff = 0 THEN InitBackoff ELSE backoff
    /\ ejected' = IF ejected = Never THEN Now ELSE ejected
    /\ lag' = Now
    /\ Release(c)
    /\ UNCHANGED <<window, log>>

\* SetHealth, the backoff's default, and now as the time of the ejection, which may
\* be long past.  Nobody else sees the maps before the lock is released.
Eject(c) ==
    /\ at[c] = "eject"
    /\ SetHealth("unhealthy", "passive")
    /\ backoff' = IF backoff = 0 THEN InitBackoff ELSE backoff
    /\ ejected' = Now
    /\ lag' = Now
    /\ Release(c)
    /\ UNCHANGED <<window, log>>
-----------------------------------------------------------------------------
(* TryReadmit *)

\* Lock and the three early returns.
TryReadmit(c) ==
    /\ at[c] = "idle" /\ mu = Unlocked
    /\ backendHealth = "unhealthy" /\ ejected # Never /\ ejected >= backoff
    /\ mu' = c
    /\ at' = [at EXCEPT ![c] = "readmit"]
    /\ UNCHANGED <<backendHealth, window, backoff, ejected, log, culprit, out, lag>>

\* The store of the health forgotten.
ReadmitUnstored(c) ==
    /\ at[c] = "readmit"
    /\ at' = [at EXCEPT ![c] = "forget"]
    /\ UNCHANGED <<backendHealth, window, backoff, ejected, mu, log, culprit, out, lag>>

\* SetHealth
Readmit(c) ==
    /\ at[c] = "readmit"
    /\ SetHealth("probation", "passive")
    /\ at' = [at EXCEPT ![c] = "forget"]
    /\ UNCHANGED <<window, backoff, ejected, mu, log, lag>>

\* The doubled backoff, and the ejection and the window forgotten.
Forget(c) ==
    /\ at[c] = "forget"
    /\ backoff' = IF backoff * 2 < MaxBackoff THEN backoff * 2 ELSE MaxBackoff
    /\ ejected' = Never
    /\ window' = <<>>
    /\ log' = <<>>
    /\ lag' = 0
    /\ Release(c)
    /\ UNCHANGED <<backendHealth, culprit, out>>
-----------------------------------------------------------------------------
(* Beside it *)

\* The active checker moves the backend along its diagram (Checker.transition).
ActiveCheck ==
    /\ \/ backendHealth \in {"healthy", "probation"} /\ SetHealth("unhealthy", "active")
       \/ backendHealth = "unhealthy" /\ SetHealth("probation", "active")
       \/ backendHealth = "probation" /\ SetHealth("healthy", "active")
    /\ UNCHANGED <<window, backoff, ejected, mu, at, log, lag>>

Drain ==
    /\ backendHealth # "disabled"
    /\ SetHealth("disabled", "drainer")
    /\ UNCHANGED <<window, backoff, ejected, mu, at, log, lag>>

PassiveTick ==
    /\ window' = Aged(window)
    /\ log' = Aged(log)
    /\ ejected' = Older(ejected)
    /\ out' = Older(out)
    /\ UNCHANGED <<backendHealth, backoff, mu, at, culprit, lag>>

Passive(c) ==
    \/ \E isError \in BOOLEAN : Observe(c, isError)
    \/ Eject(c) \/ TryReadmit(c) \/ Readmit(c) \/ Forget(c)

PassiveNext == PassiveTick \/ ActiveCheck \/ Drain \/ \E c \in Caller : Passive(c)

PassiveSpec == PassiveInit /\ [][PassiveNext]_passiveVars

\* Time passes, a method that holds the lock returns, and TryReadmit is called
\* periodically, as its comment asks, between calls of Observe that may be many.
PassiveFairSpec ==
    /\ PassiveSpec
    /\ WF_passiveVars(PassiveTick)
    /\ \A c \in Caller : /\ WF_passiveVars(Eject(c) \/ Readmit(c) \/ Forget(c))
                         /\ SF_passiveVars(TryReadmit(c))
-----------------------------------------------------------------------------
\* Trimming a prefix is enough: right after an Observe the window holds exactly
\* the events of the last PassiveWindow, so the error rate is the sliding one.
WindowSlides ==
    window # <<>> /\ window[Len(window)].age = 0 =>
        \E n \in 0..Len(log) :
            /\ window = SubSeq(log, n + 1, Len(log))
            /\ \A k \in 1..Len(log) : log[k].age <= PassiveWindow <=> k > n

\* When the passive checker made the backend unhealthy, TryReadmit lets it back
\* only after the whole backoff, also when an older ejection was never cleared
\* because the active checker had readmitted the backend.  The backoff is counted
\* from the time Observe read, so what passed between that and its store is lost.
ReadmitWaits ==
    [][\A c \in Caller :
         at[c] = "idle" /\ at'[c] = "readmit" /\ culprit = "passive"
           => out + lag >= backoff]_passiveVars

\* A backend with an ejection on record does not stay unhealthy: it is let back
\* in the end, however the active checker and the drainer interfere.  An ejection
\* that TryReadmit has served and is about to delete does not count: a backend the
\* active checker takes out at that moment is left to the active checker.
EjectedReadmitted ==
    (/\ backendHealth = "unhealthy" /\ ejected # Never
     /\ \A c \in Caller : at[c] # "forget")
      ~> backendHealth # "unhealthy"
=============================================================================
