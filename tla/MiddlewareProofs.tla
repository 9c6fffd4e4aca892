------------------------- MODULE MiddlewareProofs -------------------------
(***************************************************************************)
(* Proofs about the chain of middlewares, for any request and any order the *)
(* chain can be built in, and about HealthStateMachine, for any number of   *)
(* probers and any thresholds and backoffs.                                 *)
(***************************************************************************)
EXTENDS Middleware, HealthStateMachine, TLAPS
-----------------------------------------------------------------------------
(***************************************************************************)
(* HealthStateMachine: how long a backend that failed its probation waits.  *)
(* The invariant follows the Observe that failed it through its two lock    *)
(* sections (Relapsed).                                                     *)
(***************************************************************************)

Ages ==
    /\ pc \in [Prober -> {"idle", "counters", "health", "eject", "elapsed", "probation",
                          "rearm", "fail", "stamp", "recover", "reset"}]
    /\ backoff \in InitBackoff..MaxBackoff
    /\ unhealthySince = Never \/ unhealthySince \in 0..MaxBackoff
    /\ relapse = Never \/ relapse \in 0..MaxBackoff

\* While a relapse is on record one Observe runs at a time.  The time stamp is
\* either still to be written by it or not older than the relapse, and it is not
\* cleared, nor the backoff changed, before the backend leaves unhealthy.
Relapsed ==
    /\ \A p, q \in Prober : pc[p] # "idle" /\ pc[q] # "idle" => p = q
    /\ \A p \in Prober : pc[p] \in {"rearm", "reset"} => health # "unhealthy"
    /\ health = "unhealthy" =>
         \/ \E p \in Prober : pc[p] = "stamp"
         \/ unhealthySince # Never /\ unhealthySince <= relapse
    /\ \A p \in Prober : health = "unhealthy" /\ pc[p] = "probation" => relapse >= backoff

MachineInv == Ages /\ (relapse # Never => Relapsed)

LEMMA InitMachine ==
    ASSUME Init
    PROVE  MachineInv
BY ThresholdAssumption DEF Init, MachineInv, Ages, Never

LEMMA AgesStep ==
    ASSUME Ages, [Next]_vars
    PROVE  Ages'
<1> USE ThresholdAssumption DEF Ages, Never
<1>1. CASE Tick \/ Flip \/ Drain
  BY <1>1 DEF Tick, Flip, Drain, SetHealth, Older, Plus
<1>2. ASSUME NEW p \in Prober, Record(p) \/ ReadCounters(p) \/ LoadHealth(p) PROVE Ages'
  BY <1>2 DEF Record, ReadCounters, LoadHealth, Overlap, Goto, Return
<1>3. ASSUME NEW p \in Prober, Eject(p) \/ Elapsed(p) \/ Probation(p) \/ Rearm(p) PROVE Ages'
  BY <1>3 DEF Eject, Elapsed, Probation, Rearm, SetHealth, Goto, Return, Shorter
<1>4. ASSUME NEW p \in Prober, FailProbation(p) \/ Stamp(p) \/ Recover(p) \/ ResetBackoff(p)
      PROVE  Ages'
  BY <1>4 DEF FailProbation, Stamp, Recover, ResetBackoff, SetHealth, Goto, Return
<1>5. CASE UNCHANGED vars
  BY <1>5 DEF vars
<1> QED
  BY <1>1, <1>2, <1>3, <1>4, <1>5 DEF Next, Observe

LEMMA RelapsedStep ==
    ASSUME MachineInv, [Next]_vars, relapse' # Never
    PROVE  Relapsed'
<1> USE ThresholdAssumption DEF MachineInv, Ages, Never
<1>1. CASE Tick
  BY <1>1 DEF Tick, Older, Plus, Relapsed
<1>2. CASE Flip \/ UNCHANGED vars
  BY <1>2 DEF Flip, vars, Relapsed
<1>3. CASE Drain
  BY <1>3 DEF Drain, SetHealth, Relapsed
<1>4. ASSUME NEW p \in Prober, Record(p) PROVE Relapsed'
  <2>1. Busy = {} /\ relapse' = relapse
    BY <1>4 DEF Record, Overlap
  <2>2. \A q \in Prober : pc[q] = "idle"
    BY <2>1 DEF Busy
  <2> QED
    BY <1>4, <2>1, <2>2 DEF Record, Goto, Relapsed
<1>5. ASSUME NEW p \in Prober, ReadCounters(p) PROVE Relapsed'
  BY <1>5 DEF ReadCounters, Goto, Relapsed
<1>6. ASSUME NEW p \in Prober, LoadHealth(p) PROVE Relapsed'
  BY <1>6 DEF LoadHealth, Goto, Return, Relapsed
<1>7. ASSUME NEW p \in Prober, Eject(p) PROVE Relapsed'
  BY <1>7 DEF Eject, SetHealth, Goto, Return, Relapsed
<1>8. ASSUME NEW p \in Prober, Elapsed(p) PROVE Relapsed'
  BY <1>8 DEF Elapsed, Goto, Return, Relapsed
<1>9. ASSUME NEW p \in Prober, Probation(p) PROVE Relapsed'
  BY <1>9 DEF Probation, SetHealth, Goto, Relapsed
<1>10. ASSUME NEW p \in Prober, Rearm(p) PROVE Relapsed'
  BY <1>10 DEF Rearm, Goto, Return, Relapsed
<1>11. ASSUME NEW p \in Prober, FailProbation(p) PROVE Relapsed'
  <2>1. \A q \in Prober : q # p => pc[q] = "idle"
    BY <1>11 DEF FailProbation, Busy
  <2> QED
    BY <1>11, <2>1 DEF FailProbation, Goto, Relapsed
<1>12. ASSUME NEW p \in Prober, Stamp(p) PROVE Relapsed'
  BY <1>12 DEF Stamp, Goto, Return, Relapsed
<1>13. ASSUME NEW p \in Prober, Recover(p) PROVE Relapsed'
  BY <1>13 DEF Recover, SetHealth, Goto, Relapsed
<1>14. ASSUME NEW p \in Prober, ResetBackoff(p) PROVE Relapsed'
  BY <1>14 DEF ResetBackoff, Goto, Return, Relapsed
<1> QED
  BY <1>1, <1>2, <1>3, <1>4, <1>5, <1>6, <1>7, <1>8, <1>9, <1>10, <1>11, <1>12, <1>13, <1>14
  DEF Next, Observe

\* Observe puts a backend whose probation failed on probation again only after the
\* whole of the doubled backoff, while its probes do not overlap.
THEOREM RelapseServed == Spec => RelapseWaits
<1>1. MachineInv /\ [Next]_vars => MachineInv'
  BY AgesStep, RelapsedStep DEF MachineInv
<1>2. MachineInv /\ [Next]_vars =>
        [health = "unhealthy" /\ health' = "probation" /\ relapse # Never
           => relapse >= backoff]_vars
  <2> SUFFICES ASSUME MachineInv, Next, health = "unhealthy", health' = "probation", relapse # Never
               PROVE  relapse >= backoff
    OBVIOUS
  <2>1. PICK p \in Prober : Probation(p)
    BY DEF Next, Tick, Flip, Drain, SetHealth, Observe, Record, ReadCounters,
           LoadHealth, Eject, Elapsed, Rearm, FailProbation, Stamp, Recover, ResetBackoff
  <2> QED
    BY <2>1 DEF Probation, MachineInv, Relapsed
<1> QED
  BY InitMachine, <1>1, <1>2, PTL DEF Spec, RelapseWaits
-----------------------------------------------------------------------------
(***************************************************************************)
(* Middleware.  The chain is built by prepending, so no middleware is in it *)
(* twice (Once).  A request is one walk down the chain and back up, two     *)
(* loops: each property is carried from the proxy outwards by an invariant  *)
(* of the second loop (Recording, Honest, Coded, Ruled), over what a        *)
(* middleware does before (Entered) and after (Passed, TimedOut) the        *)
(* handler it wraps.                                                        *)
(***************************************************************************)
-----------------------------------------------------------------------------
(* Induction over the naturals, as the existence of a least element, and loops.*)

INSTANCE WellFoundedInduction

LEMMA LessIsWellFounded ==
    \E R : /\ IsWellFoundedOn(R, Nat)
           /\ \A x, y \in Nat : x < y => <<x, y>> \in R
<1>1. \A x, y \in Nat : x < y => <<x, y>> \in OpToRel(<, Nat)
  BY DEF OpToRel
<1> QED BY <1>1, NatLessThanWellFounded, Zenon

LEMMA LeastNat ==
    ASSUME NEW T, T \subseteq Nat, T # {}
    PROVE  \E x \in T : \A y \in T : x <= y
<1>1. PICK R : /\ IsWellFoundedOn(R, Nat)
               /\ \A x, y \in Nat : x < y => <<x, y>> \in R
  BY LessIsWellFounded
<1>2. IsWellFoundedOn(R, Nat)
  BY <1>1
<1>3. \E x \in T : \A y \in T : ~(<<y, x>> \in R)
  BY <1>2, WFMin, Zenon
<1>4. PICK x \in T : \A y \in T : ~(<<y, x>> \in R)
  BY <1>3
<1>5. ASSUME NEW y \in T PROVE x <= y
  <2>1. x \in Nat /\ y \in Nat
    OBVIOUS
  <2>2. ~(y < x)
    BY <1>1, <1>4, <2>1, Zenon
  <2> QED BY <2>1, <2>2
<1> QED BY <1>5

\* Induction up to a bound.
LEMMA UpTo ==
    ASSUME NEW n \in Nat, NEW P, 0 \in P, \A k \in 1..n : k - 1 \in P => k \in P
    PROVE  \A k \in 0..n : k \in P
<1> DEFINE Bad == {k \in 0..n : k \notin P}
<1>1. Bad # {} => \E k \in Bad : \A j \in Bad : k <= j
  <2>1. Bad \subseteq Nat
    OBVIOUS
  <2> HIDE DEF Bad
  <2> QED BY <2>1, LeastNat, Zenon
<1>2. ASSUME NEW k \in Bad, \A j \in Bad : k <= j PROVE FALSE
  <2>1. k # 0
    OBVIOUS
  <2>2. k \in 1..n /\ k - 1 \in 0..n /\ ~(k <= k - 1)
    BY <2>1
  <2> QED BY <1>2, <2>2
<1> QED BY <1>1, <1>2, Zenon
\* f is what a loop from 1 to m computes that starts at s0.
Loop(f, m, s0, Step) == f[0] = s0 /\ \A k \in 1..m : f[k] = Step[k][f[k - 1]]

\* Such a loop ends, in S when its steps stay in S.
LEMMA LoopEnds ==
    ASSUME NEW S, NEW s0 \in S, NEW n \in Nat, NEW Step,
           \A k \in 1..n : \A x \in S : Step[k][x] \in S
    PROVE  \E f \in [0..n -> S] : Loop(f, n, s0, Step)
<1> DEFINE Ends(m) == \E f \in [0..m -> S] : Loop(f, m, s0, Step)
           P == {m \in 0..n : Ends(m)}
<1>1. 0 \in P
  <2>1. Loop([k \in 0..0 |-> s0], 0, s0, Step)
    BY DEF Loop
  <2>2. [k \in 0..0 |-> s0] \in [0..0 -> S] /\ 0 \in 0..n
    OBVIOUS
  <2> QED BY <2>1, <2>2, Zenon
<1>2. ASSUME NEW m \in 1..n, m - 1 \in P PROVE m \in P
  <2>1. PICK f \in [0..(m - 1) -> S] : Loop(f, m - 1, s0, Step)
    BY <1>2, Zenon
  <2> DEFINE g == [k \in 0..m |-> IF k = m THEN Step[m][f[m - 1]] ELSE f[k]]
  <2>2. m \in Int /\ m > 0 /\ m \in 0..n
    OBVIOUS
  <2>3. f[m - 1] \in S /\ Step[m][f[m - 1]] \in S
    BY <2>2
  <2>4. g \in [0..m -> S]
    BY <2>2, <2>3
  <2>5. g[0] = s0
    BY <2>1, <2>2 DEF Loop
  <2>6. ASSUME NEW k \in 1..m PROVE g[k] = Step[k][g[k - 1]]
    <3>1. CASE k = m
      BY <2>2, <3>1
    <3>2. CASE k # m
      <4>1. k \in 1..(m - 1) /\ k \in 0..m /\ k - 1 \in 0..m /\ k - 1 # m
        BY <2>2, <3>2
      <4>2. f[k] = Step[k][f[k - 1]]
        BY <2>1, <4>1 DEF Loop
      <4> QED BY <3>2, <4>1, <4>2
    <3> QED BY <3>1, <3>2
  <2>7. Loop(g, m, s0, Step)
    <3> HIDE DEF g
    <3> QED BY <2>5, <2>6 DEF Loop
  <2> QED BY <2>2, <2>4, <2>7, Zenon
<1>3. n \in 0..n
  OBVIOUS
<1>4. n \in P
  <2> HIDE DEF P
  <2> QED BY <1>1, <1>2, <1>3, UpTo
<1> QED BY <1>4, Zenon

LEMMA SeqElements ==
    ASSUME NEW W, NEW s \in Seq(W)
    PROVE  Len(s) \in Nat /\ \A k \in 1..Len(s) : s[k] \in W
  OBVIOUS
-----------------------------------------------------------------------------
(* What one middleware does on the way in and on the way out.                 *)

\* The headers that some middleware, or the upstream, may set.
HeaderName == {"X-Request-ID", "Content-Length", "Server", "Via", "Cache-Control",
               "X-Frame-Options"}

Response == [status : Nat, header : SUBSET HeaderName, encoding : Nat, coded : Nat]

\* What Serve threads through the chain.
Exchange ==
    [header : SUBSET HeaderName, encoding : Nat, status : Nat, sent : Response,
     coders : Nat, bare : BOOLEAN, panics : BOOLEAN, mirrored : BOOLEAN,
     raced : BOOLEAN, logged : Seq(Nat), counted : Seq(Nat), active : Int]

\* No middleware is in the chain twice.
Once == /\ stack \in Seq(Names)
        /\ \A j, k \in 1..Len(stack) : stack[j] = stack[k] => j = k

\* Chain puts no middleware into a chain that has it.
LEMMA ChainOnce == ChainSpec => []Once
<1>1. NewChain => Once
  BY DEF NewChain, Once
<1>2. ASSUME Once, \E name \in Names : Chain(name)
      PROVE  Once'
  <2>1. PICK name \in Names : Chain(name)
    BY <1>2
  <2>2. stack \in Seq(Names) /\ stack' = <<name>> \o stack
    BY <1>2, <2>1 DEF Once, Chain
  <2>3. /\ stack' \in Seq(Names) /\ Len(stack') = Len(stack) + 1
        /\ \A k \in 1..Len(stack') : stack'[k] = IF k = 1 THEN name ELSE stack[k - 1]
    BY <2>2
  <2>4. ASSUME NEW j \in 1..Len(stack'), NEW k \in 1..Len(stack'), stack'[j] = stack'[k]
        PROVE  j = k
    <3>1. \A m \in 1..Len(stack) : stack[m] # name
      BY <2>1 DEF Chain, Wraps
    <3>2. CASE j = 1 \/ k = 1
      BY <2>2, <2>3, <2>4, <3>1, <3>2
    <3>3. CASE j # 1 /\ k # 1
      BY <1>2, <2>2, <2>3, <2>4, <3>3 DEF Once
    <3> QED BY <3>2, <3>3
  <2> QED BY <2>3, <2>4 DEF Once
<1>3. Once /\ UNCHANGED stack => Once'
  BY DEF Once
<1> QED BY <1>1, <1>2, <1>3, PTL DEF ChainSpec

LEMMA FreshExchange == Fresh \in Exchange /\ NotSent \in Response
<1>1. NotSent \in Response
  BY DEF NotSent, Response
<1>2. <<>> \in Seq(Nat)
  OBVIOUS
<1> QED BY <1>1, <1>2 DEF Fresh, Exchange

\* y is x after a write of code, with a body that is encoded n times already.
Written(x, code, n, y) ==
    /\ y \in Exchange
    /\ y.status = code
    /\ y.header = IF x.coders = 0 THEN x.header ELSE x.header \ {"Content-Length"}
    /\ x.sent = NotSent =>
         /\ y.sent.status = code /\ y.sent.header = y.header
         /\ y.sent.encoding = x.encoding /\ y.sent.coded = n + x.coders
    /\ y.encoding = x.encoding
    /\ y.panics => x.panics
    /\ y.raced => x.raced
    /\ y.logged = x.logged /\ y.counted = x.counted /\ y.active = x.active

LEMMA WriteDoes ==
    ASSUME NEW x \in Exchange, NEW code \in Nat, NEW n \in Nat
    PROVE  Written(x, code, n, Write(x, code, n))
<1> DEFINE y == DelLength(x)
           s == [status |-> code, header |-> y.header, encoding |-> y.encoding,
                 coded |-> n + y.coders]
<1>1. /\ y \in Exchange
      /\ y.header = IF x.coders = 0 THEN x.header ELSE x.header \ {"Content-Length"}
      /\ y.sent = x.sent /\ y.encoding = x.encoding /\ y.panics = x.panics
      /\ y.raced = x.raced /\ y.logged = x.logged /\ y.counted = x.counted
      /\ y.active = x.active /\ y.coders = x.coders
  BY DEF DelLength, Exchange
<1>2. s \in Response
  BY <1>1 DEF Response, Exchange
<1>3. Write(x, code, n) = [y EXCEPT !.status = code, !.sent = IF y.sent # NotSent THEN y.sent ELSE s]
  BY DEF Write
<1> HIDE DEF y
<1>4. s.status = code /\ s.header = y.header /\ s.encoding = y.encoding /\ s.coded = n + y.coders
  OBVIOUS
<1> HIDE DEF s
<1> QED BY <1>1, <1>2, <1>3, <1>4 DEF Exchange, Written

\* z is what a handler that got x hands on.
Entered(name, r, x, z) ==
    /\ z \in Exchange
    /\ name \notin {"Gzip", "Timeout"} =>
         /\ z.encoding = x.encoding /\ z.coders = x.coders
         /\ z.header = IF name = "RequestID" THEN x.header \cup {"X-Request-ID"} ELSE x.header
    /\ name = "Gzip" =>
         \/ z = x
         \/ /\ z.encoding = 1 /\ z.coders = x.coders + 1
            /\ z.header = x.header \ {"Content-Length"}
    /\ name = "Timeout" => z.encoding = 0 /\ z.coders = 0 /\ z.header = {}
    /\ z.sent = IF name = "Timeout" THEN NotSent ELSE x.sent
    /\ z.panics => x.panics
    /\ z.logged = x.logged /\ z.counted = x.counted
    /\ z.active = IF name = "Instrument" THEN x.active + 1 ELSE x.active
    /\ z.mirrored => x.mirrored \/ name = "Shadow"
    /\ z.raced => x.raced \/ (name = "RequestID" /\ x.mirrored)

LEMMA InDoes ==
    ASSUME NEW name \in Names, NEW r \in Request, NEW x \in Exchange
    PROVE  Entered(name, r, x, In(name, r, x))
<1>1. CASE name = "RequestID"
  <2>1. In(name, r, x) = RequestID(x)
    BY <1>1 DEF In
  <2>2. PICK h \in SUBSET HeaderName : h = x.header \cup {"X-Request-ID"}
    BY DEF Exchange, HeaderName
  <2>3. PICK v \in BOOLEAN : v = (x.raced \/ x.mirrored)
    BY Zenon
  <2>4. In(name, r, x) = [x EXCEPT !.header = h, !.raced = v]
    BY <2>1, <2>2, <2>3 DEF RequestID, Exchange
  <2> QED BY <1>1, <2>2, <2>3, <2>4 DEF Exchange, Entered
<1>2. CASE name = "Shadow"
  <2>1. In(name, r, x) = Shadow(x)
    BY <1>2 DEF In
  <2> QED BY <1>2, <2>1 DEF Shadow, Exchange, Entered
<1>3. CASE name = "AccessLogger"
  <2>1. In(name, r, x) = newResponseRecorder(x)
    BY <1>3 DEF In
  <2> QED BY <1>3, <2>1 DEF newResponseRecorder, Exchange, Entered
<1>4. CASE name = "Instrument"
  <2>1. In(name, r, x) = InstrumentIn(x)
    BY <1>4 DEF In
  <2>2. PICK v \in Int : v = x.active + 1
    BY DEF Exchange
  <2>3. In(name, r, x) = [x EXCEPT !.bare = FALSE, !.active = v]
    BY <2>1, <2>2 DEF InstrumentIn, Exchange
  <2> QED BY <1>4, <2>2, <2>3 DEF Exchange, Entered
<1>5. CASE name = "Gzip"
  <2>1. In(name, r, x) = GzipMiddleware(r, x)
    BY <1>5 DEF In
  <2>2. PICK v \in Nat : v = x.coders + 1
    BY DEF Exchange
  <2>3. PICK h \in SUBSET HeaderName : h = x.header \ {"Content-Length"}
    BY DEF Exchange
  <2>4. CASE r.gzip
    <3>1. In(name, r, x) =
            [x EXCEPT !.encoding = 1, !.header = h, !.coders = v, !.bare = FALSE]
      BY <2>1, <2>2, <2>3, <2>4 DEF GzipMiddleware, Exchange
    <3> DEFINE y == In(name, r, x)
    <3>2. /\ y \in Exchange /\ y.encoding = 1 /\ y.coders = v /\ y.header = h
          /\ y.sent = x.sent /\ y.panics = x.panics /\ y.logged = x.logged
          /\ y.counted = x.counted /\ y.active = x.active
          /\ y.mirrored = x.mirrored /\ y.raced = x.raced
      <4>1. PICK w : w = [x EXCEPT !.encoding = 1, !.header = h]
        OBVIOUS
      <4>2. /\ w \in Exchange /\ w.encoding = 1 /\ w.coders = x.coders /\ w.header = h
            /\ w.sent = x.sent /\ w.panics = x.panics /\ w.logged = x.logged
            /\ w.counted = x.counted /\ w.active = x.active
            /\ w.mirrored = x.mirrored /\ w.raced = x.raced
        BY <4>1 DEF Exchange
      <4>3. y = [w EXCEPT !.coders = v, !.bare = FALSE]
        BY <3>1, <4>1 DEF Exchange
      <4> HIDE DEF y
      <4> QED BY <4>2, <4>3 DEF Exchange
    <3> HIDE DEF y
    <3> QED BY <1>5, <2>2, <2>3, <2>4, <3>2 DEF y, Entered
  <2>5. CASE ~r.gzip
    BY <1>5, <2>1, <2>5 DEF GzipMiddleware, Exchange, Entered
  <2> QED BY <2>4, <2>5
<1>6. CASE name = "Timeout"
  <2>1. In(name, r, x) = TimeoutMiddleware(x)
    BY <1>6 DEF In
  <2>2. /\ Fresh.encoding = 0 /\ Fresh.coders = 0 /\ Fresh.header = {}
        /\ Fresh.sent = NotSent /\ Fresh.panics = FALSE /\ Fresh.raced = FALSE
    BY DEF Fresh
  <2> QED BY <1>6, <2>1, <2>2, FreshExchange DEF TimeoutMiddleware, Exchange, Entered
<1>7. CASE name = "HeaderRewriter" \/ name = "SecurityHeaders"
  <2>1. In(name, r, x) = x
    BY <1>7 DEF In
  <2> QED BY <1>7, <2>1 DEF Exchange, Entered
<1> QED BY <1>1, <1>2, <1>3, <1>4, <1>5, <1>6, <1>7, Zenon DEF Names

\* The response of the upstream comes to its end.
Whole(r) ==
    /\ r.upstream \in {"answers", "late", "streams"}
    /\ Wraps("Timeout") => r.upstream = "answers"

\* y is x after a response of HTTPProxy, when nobody has written to x before.
Responded(r, x, y) ==
    /\ y \in Exchange
    /\ y.status \in Nat \ {0}
    /\ y.raced => x.raced
    /\ y.logged = x.logged /\ y.counted = x.counted /\ y.active = x.active
    /\ y.sent.status = y.status /\ y.sent.header = y.header
    /\ y.sent.encoding = y.encoding
    /\ \/ /\ y.encoding = x.encoding /\ y.sent.coded = x.coders
          /\ "Content-Length" \in y.header => "Content-Length" \in x.header
       \/ /\ y.encoding = x.encoding + r.encoded /\ y.sent.coded = r.encoded + x.coders
          /\ "Content-Length" \in y.header => x.coders = 0

\* y is what HTTPProxy leaves of x, which nobody has written to.
Proxied(r, x, y) ==
    /\ Responded(r, x, y)
    /\ y.panics => x.panics \/ Breaks(r)
    /\ ~y.panics /\ y.status = 200 => Whole(r)

LEMMA ProxyDoes ==
    ASSUME NEW r \in Request, NEW x \in Exchange, x.sent = NotSent
    PROVE  Proxied(r, x, Proxy(r, x))
<1> DEFINE z == [x EXCEPT !.header = @ \cup {"Content-Length", "Server"},
                          !.encoding = @ + r.encoded]
           answer == Write(z, 200, r.encoded)
<1>1. r.encoded \in Nat
  BY DEF Request
<1>2. x.encoding \in Nat /\ x.coders \in Nat /\ x.header \in SUBSET HeaderName
  BY DEF Exchange
<1>3. /\ z \in Exchange
      /\ z.sent = x.sent /\ z.raced = x.raced /\ z.logged = x.logged
      /\ z.counted = x.counted /\ z.active = x.active /\ z.panics = x.panics
      /\ z.coders = x.coders /\ z.encoding = x.encoding + r.encoded
  <2>1. PICK h \in SUBSET HeaderName : h = x.header \cup {"Content-Length", "Server"}
    BY <1>2 DEF HeaderName
  <2>2. PICK v \in Nat : v = x.encoding + r.encoded
    BY <1>1, <1>2
  <2>3. z = [x EXCEPT !.header = h, !.encoding = v]
    BY <2>1, <2>2 DEF Exchange
  <2> HIDE DEF z
  <2> QED BY <2>2, <2>3 DEF Exchange
<1> HIDE DEF z
<1>4. Written(z, 200, r.encoded, answer)
  BY <1>1, <1>3, WriteDoes
<1>5. Responded(r, x, answer) /\ (answer.panics => x.panics)
  <2> HIDE DEF answer
  <2> QED BY <1>1, <1>2, <1>3, <1>4 DEF Responded, Written
<1>6. ASSUME NEW code \in {101, 502} PROVE Proxied(r, x, Write(x, code, 0))
  <2>1. PICK y : y = Write(x, code, 0)
    OBVIOUS
  <2>2. Written(x, code, 0, y)
    BY <2>1, WriteDoes
  <2>3. Responded(r, x, y)
    BY <1>2, <2>2 DEF Responded, Written
  <2>4. (y.panics => x.panics) /\ y.status # 200
    BY <2>2 DEF Written
  <2> QED BY <2>1, <2>3, <2>4, Zenon DEF Proxied
<1>7. CASE Breaks(r)
  <2> DEFINE y == [answer EXCEPT !.panics = TRUE]
  <2>1. Proxy(r, x) = y
    BY <1>7 DEF Proxy, Breaks, z
  <2>2. answer \in Exchange
    BY <1>4 DEF Written
  <2> HIDE DEF answer
  <2>3. /\ y \in Exchange /\ y.status = answer.status /\ y.raced = answer.raced
        /\ y.logged = answer.logged /\ y.counted = answer.counted
        /\ y.active = answer.active /\ y.sent = answer.sent
        /\ y.encoding = answer.encoding /\ y.header = answer.header
        /\ y.panics = TRUE
    BY <2>2 DEF Exchange
  <2> HIDE DEF y
  <2>4. Responded(r, x, y)
    BY <1>5, <2>3 DEF Responded
  <2> QED BY <1>7, <2>1, <2>3, <2>4, Zenon DEF Proxied
<1>8. CASE ~Breaks(r)
  <2>1. \/ Proxy(r, x) = answer /\ Whole(r)
        \/ \E code \in {101, 502} : Proxy(r, x) = Write(x, code, 0)
    BY <1>8 DEF Proxy, Breaks, Whole, z
  <2>2. \A code \in {101, 502} : Proxied(r, x, Write(x, code, 0))
    BY <1>6
  <2> HIDE DEF answer
  <2>3. Whole(r) => Proxied(r, x, answer)
    BY <1>5, Zenon DEF Proxied
  <2> QED BY <2>1, <2>2, <2>3
<1> QED BY <1>7, <1>8

\* z is what a middleware other than TimeoutMiddleware leaves of y.
Passed(name, y, z) ==
    /\ z \in Exchange
    /\ z.status = y.status /\ z.sent = y.sent /\ z.encoding = y.encoding
    /\ z.raced = y.raced /\ z.panics = y.panics
    /\ z.active = IF name = "Instrument" THEN y.active - 1 ELSE y.active
    /\ y.panics => z.logged = y.logged /\ z.counted = y.counted
    /\ ~y.panics =>
         /\ z.logged = IF name = "AccessLogger" THEN Append(y.logged, Recorded(y))
                       ELSE y.logged
         /\ z.counted = IF name = "Instrument" THEN Append(y.counted, Recorded(y))
                        ELSE y.counted
         /\ z.header = CASE name = "HeaderRewriter" -> ((y.header \cup Adds) \ Removes) \cup Sets
                         [] name = "SecurityHeaders" -> y.header \cup {"X-Frame-Options"}
                         [] OTHER -> y.header

LEMMA OutPasses ==
    ASSUME NEW name \in Names \ {"Timeout"}, NEW r \in Request, NEW x, NEW y \in Exchange
    PROVE  Passed(name, y, Out(name, r, x, y))
<1>1. /\ Recorded(y) \in Nat /\ y.active - 1 \in Int /\ y.panics \in BOOLEAN
      /\ y.logged \in Seq(Nat) /\ y.counted \in Seq(Nat) /\ y.header \in SUBSET HeaderName
  BY DEF Recorded, Exchange
<1>2. PICK c \in Nat, a \in Int : c = Recorded(y) /\ a = y.active - 1
  BY <1>1
<1>3. PICK l \in Seq(Nat), m \in Seq(Nat) : l = Append(y.logged, c) /\ m = Append(y.counted, c)
  <2>1. Append(y.logged, c) \in Seq(Nat) /\ Append(y.counted, c) \in Seq(Nat)
    BY <1>1
  <2> QED BY <2>1, Zenon
<1>4. CASE name = "Instrument"
  <2>1. CASE y.panics
    <3>1. Out(name, r, x, y) = [y EXCEPT !.active = a]
      BY <1>2, <1>4, <2>1 DEF Out, InstrumentOut
    <3> QED BY <1>2, <1>4, <2>1, <3>1 DEF Passed, Exchange
  <2>2. CASE ~y.panics
    <3>1. Out(name, r, x, y) = [y EXCEPT !.active = a, !.counted = m]
      BY <1>2, <1>3, <1>4, <2>2 DEF Out, InstrumentOut, Exchange
    <3> QED BY <1>2, <1>3, <1>4, <2>2, <3>1 DEF Passed, Exchange
  <2> QED BY <2>1, <2>2
<1>5. CASE name = "AccessLogger" /\ ~y.panics
  <2>1. Out(name, r, x, y) = [y EXCEPT !.logged = l]
    BY <1>2, <1>3, <1>5 DEF Out, AccessLogger, Exchange
  <2> QED BY <1>2, <1>3, <1>5, <2>1 DEF Passed, Exchange
<1>6. CASE name = "HeaderRewriter" /\ ~y.panics
  <2>1. PICK h \in SUBSET HeaderName : h = ((y.header \cup Adds) \ Removes) \cup Sets
    BY <1>1 DEF Adds, Sets, HeaderName
  <2>2. Out(name, r, x, y) = [y EXCEPT !.header = h]
    BY <1>6, <2>1 DEF Out, Rewrite, Exchange
  <2> QED BY <1>6, <2>1, <2>2 DEF Passed, Exchange
<1>7. CASE name = "SecurityHeaders" /\ ~y.panics
  <2>1. PICK h \in SUBSET HeaderName : h = y.header \cup {"X-Frame-Options"}
    BY <1>1 DEF HeaderName
  <2>2. Out(name, r, x, y) = [y EXCEPT !.header = h]
    BY <1>7, <2>1 DEF Out, SecurityHeaders, Exchange
  <2> QED BY <1>7, <2>1, <2>2 DEF Passed, Exchange
<1>8. CASE /\ name # "Instrument"
           /\ name \in {"AccessLogger", "HeaderRewriter", "SecurityHeaders"} => y.panics
  <2>1. Out(name, r, x, y) = y
    BY <1>8 DEF Out
  <2> QED BY <1>8, <2>1 DEF Passed
<1> QED BY <1>4, <1>5, <1>6, <1>7, <1>8

\* z is what a TimeoutMiddleware that got x leaves when y comes back to it.
TimedOut(x, y, expires, z) ==
    /\ z \in Exchange
    /\ z.active = y.active /\ z.logged = y.logged /\ z.counted = y.counted
    /\ z.raced => x.raced \/ y.raced
    /\ z.panics => y.panics /\ ~expires
    /\ ~z.panics =>
         /\ z.sent.status = z.status /\ z.sent.header = z.header
         /\ z.sent.encoding = z.encoding
         /\ x.coders # 0 => "Content-Length" \notin z.header
         /\ expires => /\ z.status = 503 /\ z.encoding = x.encoding
                       /\ z.sent.coded = x.coders /\ z.header \subseteq x.header
         /\ ~expires => /\ ~y.panics /\ z.status = y.sent.status
                        /\ z.encoding = IF y.encoding = 0 THEN x.encoding ELSE y.encoding
                        /\ z.sent.coded = y.sent.coded + x.coders
                        /\ z.header \subseteq x.header \cup y.header
                        /\ (x.header \cup y.header) \ {"Content-Length"} \subseteq z.header

LEMMA TimeoutDoes ==
    ASSUME NEW r \in Request, NEW x \in Exchange, NEW y \in Exchange,
           x.sent = NotSent, ~x.panics
    PROVE  TimedOut(x, y, r.expires, Out("Timeout", r, x, y))
<1> DEFINE late == r.expires
           kept == [x EXCEPT !.logged = y.logged, !.counted = y.counted,
                             !.active = y.active, !.raced = @ \/ y.raced]
<1>1. Out("Timeout", r, x, y) = Timeout(x, y, late)
  BY DEF Out
<1>2. PICK v \in BOOLEAN : v = (x.raced \/ y.raced)
  BY Zenon
<1>3. /\ y.logged \in Seq(Nat) /\ y.counted \in Seq(Nat) /\ y.active \in Int
      /\ y.header \in SUBSET HeaderName /\ x.header \in SUBSET HeaderName
      /\ x.encoding \in Nat /\ y.encoding \in Nat /\ x.coders \in Nat
      /\ y.sent.status \in Nat /\ y.sent.coded \in Nat
  BY DEF Exchange, Response
<1>4. /\ kept \in Exchange /\ kept.logged = y.logged /\ kept.counted = y.counted
      /\ kept.active = y.active /\ kept.raced = v /\ kept.panics = x.panics
      /\ kept.header = x.header /\ kept.encoding = x.encoding
      /\ kept.coders = x.coders /\ kept.sent = x.sent
  <2>1. kept = [x EXCEPT !.logged = y.logged, !.counted = y.counted,
                         !.active = y.active, !.raced = v]
    BY <1>2 DEF Exchange
  <2> HIDE DEF kept
  <2> QED BY <1>3, <2>1 DEF Exchange
<1>5. CASE late
  <2>1. PICK z : z = Write(kept, 503, 0)
    OBVIOUS
  <2>2. Timeout(x, y, late) = z
    BY <1>5, <2>1 DEF Timeout
  <2> HIDE DEF kept
  <2>3. Written(kept, 503, 0, z)
    BY <1>4, <2>1, WriteDoes
  <2> HIDE DEF late
  <2>4. TimedOut(x, y, TRUE, z)
    <3>1. /\ z.sent.status = 503 /\ z.sent.header = z.header
          /\ z.sent.encoding = x.encoding /\ z.sent.coded = x.coders
      BY <1>3, <1>4, <2>3 DEF Written
    <3>2. /\ z \in Exchange /\ z.status = 503 /\ z.encoding = x.encoding
          /\ z.active = y.active /\ z.logged = y.logged /\ z.counted = y.counted
          /\ z.header \subseteq x.header
          /\ x.coders # 0 => "Content-Length" \notin z.header
      BY <1>4, <2>3 DEF Written
    <3>3. (z.raced => x.raced \/ y.raced) /\ ~z.panics
      BY <1>2, <1>4, <2>3 DEF Written
    <3> QED BY <3>1, <3>2, <3>3 DEF TimedOut
  <2> QED BY <1>1, <1>5, <2>2, <2>4 DEF late
<1>6. CASE ~late /\ y.panics
  <2>1. PICK z : z = [kept EXCEPT !.panics = TRUE]
    OBVIOUS
  <2>2. Timeout(x, y, late) = z
    BY <1>6, <2>1 DEF Timeout
  <2> HIDE DEF kept
  <2>3. TimedOut(x, y, FALSE, z)
    BY <1>2, <1>4, <1>6, <2>1 DEF TimedOut, Exchange
  <2>4. late = FALSE
    BY <1>6 DEF Request
  <2> QED BY <1>1, <2>2, <2>3, <2>4, Zenon
<1>7. CASE ~late /\ ~y.panics
  <2>1. PICK h \in SUBSET HeaderName : h = x.header \cup y.header
    BY <1>3
  <2>2. PICK e \in Nat : e = IF y.encoding = 0 THEN x.encoding ELSE y.encoding
    BY <1>3
  <2> DEFINE full == [kept EXCEPT !.header = @ \cup y.header,
                                  !.encoding = IF y.encoding = 0 THEN @ ELSE y.encoding]
  <2>3. Timeout(x, y, late) = Write(full, y.sent.status, y.sent.coded)
    BY <1>7 DEF Timeout
  <2> HIDE DEF kept
  <2>4. full = [kept EXCEPT !.header = h, !.encoding = e]
    BY <1>4, <2>1, <2>2 DEF Exchange
  <2> HIDE DEF full
  <2>5. /\ full \in Exchange /\ full.logged = y.logged /\ full.counted = y.counted
        /\ full.active = y.active /\ full.raced = v /\ full.panics = x.panics
        /\ full.header = h /\ full.encoding = e
        /\ full.coders = x.coders /\ full.sent = x.sent
    BY <1>4, <2>4 DEF Exchange
  <2>6. PICK z : z = Write(full, y.sent.status, y.sent.coded)
    OBVIOUS
  <2>7. Written(full, y.sent.status, y.sent.coded, z)
    BY <1>3, <2>5, <2>6, WriteDoes
  <2>8. TimedOut(x, y, FALSE, z)
    BY <1>2, <1>3, <1>7, <2>1, <2>2, <2>5, <2>7 DEF Written, TimedOut
  <2>9. late = FALSE
    BY <1>7 DEF Request
  <2> QED BY <1>1, <2>3, <2>6, <2>8, <2>9, Zenon
<1> QED BY <1>5, <1>6, <1>7

\* Nobody has written the response, or panicked.
Unwritten == {x \in Exchange : x.sent = NotSent /\ ~x.panics}

\* What comes back from HTTPProxy; it panics only for a body that breaks off.
Returned(r) == {y \in Exchange : y.panics => Breaks(r)}

\* e[k] is what the first k handlers hand on, y[k] what the others make of it.
Run(r, e, y) ==
    /\ e \in [0..Len(stack) -> Unwritten] /\ y \in [0..Len(stack) -> Returned(r)]
    /\ e[0] = Fresh
    /\ \A k \in 1..Len(stack) : e[k] = In(stack[k], r, e[k - 1])
    /\ y[Len(stack)] = Proxy(r, e[Len(stack)])
    /\ \A k \in 1..Len(stack) : y[k - 1] = Out(stack[k], r, e[k - 1], y[k])
    /\ Serve(r) = y[0]

LEMMA InUnwritten ==
    ASSUME NEW name \in Names, NEW r \in Request, NEW x \in Unwritten
    PROVE  In(name, r, x) \in Unwritten
<1>1. x \in Exchange /\ x.sent = NotSent /\ ~x.panics
  BY DEF Unwritten
<1>2. /\ In(name, r, x) \in Exchange
      /\ In(name, r, x).sent = IF name = "Timeout" THEN NotSent ELSE x.sent
      /\ In(name, r, x).panics => x.panics
  <2>1. Entered(name, r, x, In(name, r, x))
    BY <1>1, InDoes, Zenon
  <2> QED BY <2>1, Zenon DEF Entered
<1> QED BY <1>1, <1>2 DEF Unwritten

LEMMA OutReturned ==
    ASSUME NEW name \in Names, NEW r \in Request, NEW x \in Unwritten, NEW y \in Returned(r)
    PROVE  /\ name = "Timeout" => TimedOut(x, y, r.expires, Out(name, r, x, y))
           /\ name # "Timeout" => Passed(name, y, Out(name, r, x, y))
           /\ Out(name, r, x, y) \in Returned(r)
<1>1. /\ x \in Exchange /\ x.sent = NotSent /\ ~x.panics
      /\ y \in Exchange /\ (y.panics => Breaks(r))
  BY DEF Unwritten, Returned
<1>2. CASE name = "Timeout"
  <2>1. TimedOut(x, y, r.expires, Out(name, r, x, y))
    BY <1>1, <1>2, TimeoutDoes, Zenon
  <2>2. /\ Out(name, r, x, y) \in Exchange
        /\ Out(name, r, x, y).panics => y.panics
    BY <2>1, Zenon DEF TimedOut
  <2> QED BY <1>1, <1>2, <2>1, <2>2, Zenon DEF Returned
<1>3. CASE name # "Timeout"
  <2>1. Passed(name, y, Out(name, r, x, y))
    BY <1>1, <1>3, OutPasses, Zenon
  <2>2. Out(name, r, x, y) \in Exchange /\ Out(name, r, x, y).panics = y.panics
    BY <2>1, Zenon DEF Passed
  <2> QED BY <1>1, <1>3, <2>1, <2>2, Zenon DEF Returned
<1> QED BY <1>2, <1>3

\* The two recursive functions of Serve, as facts about each of their values.
LEMMA Runs ==
    ASSUME Once, NEW r \in Request
    PROVE  \E e, y : Run(r, e, y)
<1>1. PICK n \in Nat : n = Len(stack)
  BY DEF Once
<1>2. \A k \in 1..n : stack[k] \in Names
  BY <1>1, SeqElements DEF Once
<1> DEFINE entered[k \in 0..Len(stack)] ==
             IF k = 0 THEN Fresh ELSE In(stack[k], r, entered[k - 1])
           EStep == [k \in 1..n |-> [x \in Unwritten |-> In(stack[k], r, x)]]
<1>3. ASSUME NEW k \in 1..n, NEW x \in Unwritten PROVE EStep[k][x] \in Unwritten
  BY <1>2, InUnwritten, Zenon
<1>4. Fresh \in Unwritten
  BY FreshExchange DEF Unwritten, Fresh
<1>5. PICK e \in [0..n -> Unwritten] : Loop(e, n, Fresh, EStep)
  <2> HIDE DEF EStep
  <2> QED BY <1>3, <1>4, LoopEnds, Zenon
<1>6. e[0] = Fresh
  BY <1>5, Zenon DEF Loop
<1>7. ASSUME NEW k \in 1..n PROVE e[k] = In(stack[k], r, e[k - 1])
  <2>1. e[k - 1] \in Unwritten
    OBVIOUS
  <2> QED BY <1>5, <2>1, Zenon DEF Loop
<1>8. \A k \in 0..n : k = 0 \/ k \in 1..n
  OBVIOUS
<1>9. \E f : f = [k \in 0..Len(stack) |->
                    IF k = 0 THEN Fresh ELSE In(stack[k], r, f[k - 1])]
  <2>1. e = [k \in 0..n |-> e[k]]
    BY <1>5
  <2>2. e = [k \in 0..Len(stack) |-> IF k = 0 THEN Fresh ELSE In(stack[k], r, e[k - 1])]
    BY <1>1, <1>6, <1>7, <1>8, <2>1, Zenon
  <2> QED BY <2>2, Zenon
<1>10. entered = [k \in 0..Len(stack) |->
                    IF k = 0 THEN Fresh ELSE In(stack[k], r, entered[k - 1])]
  BY <1>9, Zenon
<1> HIDE DEF entered, EStep
<1>11. /\ entered[0] = Fresh
       /\ \A k \in 1..n : entered[k] = In(stack[k], r, entered[k - 1])
  <2>1. 0 \in 0..n /\ \A k \in 1..n : k \in 0..n /\ k # 0
    OBVIOUS
  <2> QED BY <1>1, <1>10, <2>1, Zenon
<1>12. entered \in [0..n -> Unwritten]
  <2> DEFINE P == {k \in 0..n : entered[k] \in Unwritten}
  <2>1. 0 \in P
    BY <1>4, <1>11
  <2>2. ASSUME NEW k \in 1..n, k - 1 \in P PROVE k \in P
    <3>1. k \in 0..n /\ entered[k - 1] \in Unwritten
      BY <2>2
    <3>2. entered[k] \in Unwritten
      BY <1>2, <1>11, <3>1, InUnwritten, Zenon
    <3> QED BY <3>1, <3>2
  <2>3. \A k \in 0..n : k \in P
    <3> HIDE DEF P
    <3> QED BY <2>1, <2>2, UpTo, Zenon
  <2>4. \A k \in 0..n : entered[k] \in Unwritten
    BY <2>3
  <2> QED BY <1>1, <1>10, <2>4, Zenon
<1> DEFINE left[k \in 0..Len(stack)] ==
             IF k = 0 THEN Proxy(r, entered[Len(stack)])
             ELSE Out(stack[Len(stack) - k + 1], r, entered[Len(stack) - k], left[k - 1])
           LStep == [k \in 1..n |-> [y \in Returned(r) |->
                       Out(stack[n - k + 1], r, entered[n - k], y)]]
<1>13. ASSUME NEW k \in 1..n, NEW y \in Returned(r)
       PROVE  Out(stack[n - k + 1], r, entered[n - k], y) \in Returned(r)
  <2>1. n - k \in 0..n /\ n - k + 1 \in 1..n
    OBVIOUS
  <2>2. stack[n - k + 1] \in Names /\ entered[n - k] \in Unwritten
    BY <1>2, <1>12, <2>1, Zenon
  <2> QED BY <2>2, OutReturned, Zenon
<1>14. Proxy(r, entered[n]) \in Returned(r)
  <2>1. entered[n] \in Exchange /\ entered[n].sent = NotSent /\ ~entered[n].panics
    <3>1. n \in 0..n
      OBVIOUS
    <3> QED BY <1>12, <3>1, Zenon DEF Unwritten
  <2>2. Proxied(r, entered[n], Proxy(r, entered[n]))
    BY <2>1, ProxyDoes, Zenon
  <2> QED BY <2>1, <2>2 DEF Proxied, Responded, Returned
<1>15. PICK l \in [0..n -> Returned(r)] : Loop(l, n, Proxy(r, entered[n]), LStep)
  <2>1. \A k \in 1..n : \A y \in Returned(r) : LStep[k][y] \in Returned(r)
    BY <1>13, Zenon
  <2> HIDE DEF LStep
  <2> QED BY <1>14, <2>1, LoopEnds, Zenon
<1>16. ASSUME NEW k \in 1..n
       PROVE  l[k] = Out(stack[n - k + 1], r, entered[n - k], l[k - 1])
  <2>1. l[k - 1] \in Returned(r)
    OBVIOUS
  <2> QED BY <1>15, <2>1, Zenon DEF Loop
<1>17. \E f : f = [k \in 0..Len(stack) |->
                     IF k = 0 THEN Proxy(r, entered[Len(stack)])
                     ELSE Out(stack[Len(stack) - k + 1], r, entered[Len(stack) - k], f[k - 1])]
  <2>1. l = [k \in 0..n |-> l[k]] /\ l[0] = Proxy(r, entered[n])
    BY <1>15 DEF Loop
  <2>2. l = [k \in 0..Len(stack) |->
               IF k = 0 THEN Proxy(r, entered[Len(stack)])
               ELSE Out(stack[Len(stack) - k + 1], r, entered[Len(stack) - k], l[k - 1])]
    BY <1>1, <1>8, <1>16, <2>1, Zenon
  <2> QED BY <2>2, Zenon
<1>18. left = [k \in 0..Len(stack) |->
                 IF k = 0 THEN Proxy(r, entered[Len(stack)])
                 ELSE Out(stack[Len(stack) - k + 1], r, entered[Len(stack) - k], left[k - 1])]
  BY <1>17, Zenon
<1>19. Serve(r) = left[Len(stack)]
  BY Zenon DEF Serve, left, entered
<1> HIDE DEF left, LStep
<1>20. /\ left[0] = Proxy(r, entered[n])
       /\ \A k \in 1..n : left[k] = Out(stack[n - k + 1], r, entered[n - k], left[k - 1])
  <2>1. 0 \in 0..n /\ \A k \in 1..n : k \in 0..n /\ k # 0
    OBVIOUS
  <2> QED BY <1>1, <1>18, <2>1, Zenon
<1>21. \A k \in 0..n : left[k] \in Returned(r)
  <2> DEFINE P == {k \in 0..n : left[k] \in Returned(r)}
  <2>1. 0 \in P
    BY <1>14, <1>20
  <2>2. ASSUME NEW k \in 1..n, k - 1 \in P PROVE k \in P
    <3>1. k \in 0..n /\ left[k - 1] \in Returned(r)
      BY <2>2
    <3>2. left[k] \in Returned(r)
      BY <1>13, <1>20, <3>1, Zenon
    <3> QED BY <3>1, <3>2
  <2>3. \A k \in 0..n : k \in P
    <3> HIDE DEF P
    <3> QED BY <2>1, <2>2, UpTo, Zenon
  <2> QED BY <2>3
<1> DEFINE y == [k \in 0..n |-> left[n - k]]
<1>22. y \in [0..n -> Returned(r)] /\ y[n] = left[0] /\ y[0] = left[n]
  BY <1>21
<1>23. ASSUME NEW k \in 1..n PROVE y[k - 1] = Out(stack[k], r, entered[k - 1], y[k])
  <2>1. PICK m \in 1..n : m = n - k + 1
    OBVIOUS
  <2>2. k - 1 \in 0..n /\ k \in 0..n /\ n - (k - 1) = m /\ n - k = m - 1
        /\ n - m + 1 = k /\ n - m = k - 1
    BY <2>1
  <2>3. y[k - 1] = left[m] /\ y[k] = left[m - 1]
    BY <2>2, Zenon
  <2>4. left[m] = Out(stack[n - m + 1], r, entered[n - m], left[m - 1])
    BY <1>20, Zenon
  <2> QED BY <2>2, <2>3, <2>4, Zenon
<1> HIDE DEF y
<1>24. Run(r, entered, y)
  BY <1>1, <1>11, <1>12, <1>19, <1>20, <1>22, <1>23, Zenon DEF Run
<1> QED BY <1>24, Zenon

Reached(name, k) == \E j \in 1..k : stack[j] = name
Behind(name, k) == \E j \in (k + 1)..Len(stack) : stack[j] = name

\* Where a middleware is, as seen from the k-th.
LEMMA Places ==
    ASSUME Once, NEW name \in Names, NEW k \in 1..Len(stack)
    PROVE  /\ Reached(name, k) <=> Reached(name, k - 1) \/ stack[k] = name
           /\ Behind(name, k - 1) <=> Behind(name, k) \/ stack[k] = name
           /\ stack[k] = name => ~Reached(name, k - 1) /\ ~Behind(name, k)
           /\ ~Reached(name, k - 1) \/ ~Behind(name, k - 1)
<1>1. PICK n \in Nat : n = Len(stack)
  BY DEF Once
<1>2. /\ \A j \in 1..k : j \in 1..(k - 1) \/ j = k
      /\ \A j \in 1..(k - 1) : j \in 1..k /\ j \in 1..n /\ j # k /\ j \notin k..n
      /\ \A j \in (k - 1 + 1)..n : j = k \/ j \in (k + 1)..n
      /\ \A j \in (k + 1)..n : j \in (k - 1 + 1)..n /\ j # k /\ j \in 1..n
      /\ k \in 1..k /\ k \in (k - 1 + 1)..n
  BY <1>1
<1>3. Reached(name, k) <=> Reached(name, k - 1) \/ stack[k] = name
  BY <1>2, Zenon DEF Reached
<1>4. Behind(name, k - 1) <=> Behind(name, k) \/ stack[k] = name
  BY <1>1, <1>2, Zenon DEF Behind
<1>5. stack[k] = name => ~Reached(name, k - 1) /\ ~Behind(name, k)
  BY <1>1, <1>2, Zenon DEF Reached, Behind, Once
<1>6. ~Reached(name, k - 1) \/ ~Behind(name, k - 1)
  <2>1. \A i \in 1..(k - 1), j \in (k - 1 + 1)..n : i \in 1..n /\ j \in 1..n /\ i # j
    BY <1>1
  <2> QED BY <1>1, <2>1, Zenon DEF Reached, Behind, Once
<1> QED BY <1>3, <1>4, <1>5, <1>6

LEMMA Ends ==
    ASSUME Once, NEW name
    PROVE  /\ ~Reached(name, 0) /\ ~Behind(name, Len(stack))
           /\ Wraps(name) <=> Behind(name, 0)
<1>1. PICK n \in Nat : n = Len(stack)
  BY DEF Once
<1>2. (\A j : j \notin 1..0) /\ (\A j : j \notin (n + 1)..n) /\ (0 + 1)..n = 1..n
  BY <1>1
<1> QED BY <1>1, <1>2, Zenon DEF Reached, Behind, Wraps

LEMMA Enclosing ==
    ASSUME Once, NEW outer, NEW inner, NEW k \in 1..Len(stack)
    PROVE  /\ Reached(outer, k - 1) /\ stack[k] = inner => Encloses(outer, inner)
           /\ stack[k] = outer /\ Behind(inner, k) => Encloses(outer, inner)
           /\ Encloses(outer, inner) => Wraps(outer)
<1>1. PICK n \in Nat : n = Len(stack)
  BY DEF Once
<1>2. /\ \A j \in 1..(k - 1) : j \in 1..n /\ j < k
      /\ \A j \in (k + 1)..n : j \in 1..n /\ k < j
      /\ k \in 1..n
  BY <1>1
<1> QED BY <1>1, <1>2, Zenon DEF Reached, Behind, Encloses, Wraps

\* On the way in nothing is recorded yet, and a coder has announced itself.
Going(k, x) ==
    /\ x.logged = <<>> /\ x.counted = <<>>
    /\ x.active = IF Reached("Instrument", k) THEN 1 ELSE 0
    /\ x.mirrored => Reached("Shadow", k)
    /\ x.raced => Encloses("Shadow", "RequestID")
    /\ x.encoding = x.coders
    /\ x.coders = 0 \/ (x.coders = 1 /\ Reached("Gzip", k))
    /\ x.header \subseteq {"X-Request-ID"}

\* The way in, handler by handler.
LEMMA GoesIn ==
    ASSUME Once, NEW r \in Request, NEW e, NEW y, Run(r, e, y)
    PROVE  \A k \in 0..Len(stack) : Going(k, e[k])
<1>1. PICK n \in Nat : n = Len(stack)
  BY DEF Once
<1> DEFINE P == {k \in 0..n : Going(k, e[k])}
<1>2. 0 \in P
  <2>1. e[0] = Fresh /\ ~Reached("Instrument", 0)
    BY Ends DEF Run
  <2>2. /\ Fresh.logged = <<>> /\ Fresh.counted = <<>> /\ Fresh.active = 0
        /\ Fresh.mirrored = FALSE /\ Fresh.raced = FALSE /\ Fresh.encoding = 0
        /\ Fresh.coders = 0 /\ Fresh.header = {}
    BY DEF Fresh
  <2> QED BY <2>1, <2>2 DEF Going
<1>3. ASSUME NEW k \in 1..n, k - 1 \in P PROVE k \in P
  <2>1. Going(k - 1, e[k - 1]) /\ k - 1 \in 0..n /\ k \in 0..n
    BY <1>3
  <2>2. PICK x \in Exchange : x = e[k - 1]
    BY <1>1, <2>1, Zenon DEF Run, Unwritten
  <2>3. PICK name \in Names : name = stack[k]
    BY <1>1, SeqElements, Zenon DEF Once
  <2>4. PICK z : z = In(name, r, x) /\ Entered(name, r, x, z)
    BY InDoes, Zenon
  <2>5. e[k] = z
    BY <1>1, <2>2, <2>3, <2>4, Zenon DEF Run
  <2>6. Reached(name, k) /\ ~Reached(name, k - 1)
    BY <1>1, <2>3, Places, Zenon
  <2>7. \A other \in Names : Reached(other, k - 1) => Reached(other, k)
    BY <1>1, Places, Zenon
  <2>8. Reached("Instrument", k) <=> Reached("Instrument", k - 1) \/ name = "Instrument"
    BY <1>1, <2>3, Places, Zenon DEF Names
  <2>9. Reached("Shadow", k - 1) /\ name = "RequestID" => Encloses("Shadow", "RequestID")
    BY <1>1, <2>3, Enclosing, Zenon
  <2>10. Going(k - 1, x)
    BY <2>1, <2>2
  <2>11. z.logged = <<>> /\ z.counted = <<>>
    BY <2>4, <2>10, Zenon DEF Entered, Going
  <2>12. z.active = IF Reached("Instrument", k) THEN 1 ELSE 0
    <3>1. z.active = IF name = "Instrument" THEN x.active + 1 ELSE x.active
      BY <2>4, Zenon DEF Entered
    <3> QED BY <2>6, <2>8, <2>10, <3>1 DEF Going
  <2>13. (z.mirrored => Reached("Shadow", k)) /\ (z.raced => Encloses("Shadow", "RequestID"))
    <3>1. /\ z.mirrored => x.mirrored \/ name = "Shadow"
          /\ z.raced => x.raced \/ (name = "RequestID" /\ x.mirrored)
      BY <2>4, Zenon DEF Entered
    <3> QED BY <2>6, <2>7, <2>9, <2>10, <3>1, Zenon DEF Going, Names
  <2>14. /\ z.encoding = z.coders /\ z.header \subseteq {"X-Request-ID"}
         /\ z.coders = 0 \/ (z.coders = 1 /\ Reached("Gzip", k))
    <3>1. CASE name = "Gzip"
      <4>1. x.coders = 0 /\ x.encoding = 0 /\ x.header \subseteq {"X-Request-ID"}
        BY <2>6, <2>10, <3>1 DEF Going
      <4>2. \/ z = x
            \/ z.encoding = 1 /\ z.coders = x.coders + 1 /\ z.header = x.header \ {"Content-Length"}
        BY <2>4, <3>1, Zenon DEF Entered
      <4> QED BY <2>6, <3>1, <4>1, <4>2
    <3>2. CASE name = "Timeout"
      <4>1. z.encoding = 0 /\ z.coders = 0 /\ z.header = {}
        BY <2>4, <3>2, Zenon DEF Entered
      <4> QED BY <4>1
    <3>3. CASE name \notin {"Gzip", "Timeout"}
      <4>1. /\ z.encoding = x.encoding /\ z.coders = x.coders
            /\ z.header = IF name = "RequestID" THEN x.header \cup {"X-Request-ID"} ELSE x.header
        BY <2>4, <3>3, Zenon DEF Entered
      <4>2. Reached("Gzip", k - 1) => Reached("Gzip", k)
        BY <2>7, Zenon DEF Names
      <4> QED BY <2>10, <4>1, <4>2 DEF Going
    <3> QED BY <3>1, <3>2, <3>3
  <2>15. Going(k, z)
    BY <2>11, <2>12, <2>13, <2>14, Zenon DEF Going
  <2> QED BY <2>1, <2>5, <2>15
<1>4. \A k \in 0..n : k \in P
  <2> HIDE DEF P
  <2> QED BY <1>2, <1>3, UpTo, Zenon
<1> QED BY <1>1, <1>4

\* Down from n in steps of one.
LEMMA DownTo ==
    ASSUME NEW n \in Nat, NEW T, n \in T, \A k \in 1..n : k \in T => k - 1 \in T
    PROVE  0 \in T
<1> DEFINE P == {k \in 0..n : n - k \in T}
<1>1. 0 \in P
  <2>1. 0 \in 0..n /\ n - 0 = n
    OBVIOUS
  <2> QED BY <2>1
<1>2. ASSUME NEW k \in 1..n, k - 1 \in P PROVE k \in P
  <2>1. PICK m \in 1..n : m = n - (k - 1)
    OBVIOUS
  <2>2. m - 1 = n - k /\ k \in 0..n /\ m \in T
    BY <1>2, <2>1
  <2> QED BY <2>2
<1>3. n \in P
  <2>1. n \in 0..n
    OBVIOUS
  <2> HIDE DEF P
  <2> QED BY <1>1, <1>2, <2>1, UpTo, Zenon
<1>4. n - n = 0
  OBVIOUS
<1> QED BY <1>3, <1>4

\* A run at HTTPProxy, and at the k-th middleware.
LEMMA AtProxy ==
    ASSUME Once, NEW r \in Request, NEW e, NEW y, Run(r, e, y)
    PROVE  LET n == Len(stack)
           IN  /\ e[n] \in Unwritten /\ Going(n, e[n]) /\ Proxied(r, e[n], y[n])
               /\ \A name : ~Behind(name, n)
<1>1. PICK n \in Nat : n = Len(stack)
  BY DEF Once
<1>2. n \in 0..n
  OBVIOUS
<1>3. PICK x \in Unwritten : x = e[n] /\ y[n] = Proxy(r, x)
  BY <1>1, <1>2, Zenon DEF Run
<1>4. Proxied(r, x, y[n])
  BY <1>3, ProxyDoes DEF Unwritten
<1>5. Going(n, x)
  BY <1>1, <1>2, <1>3, GoesIn, Zenon
<1>6. \A name : ~Behind(name, n)
  BY <1>1, Ends, Zenon
<1> QED BY <1>1, <1>3, <1>4, <1>5, <1>6, Zenon

\* The k-th handler gets x and hands w on; what is behind it leaves v, and it z.
Turn(r, k, name, x, w, v, z) ==
    /\ name = stack[k] /\ x \in Unwritten /\ w \in Exchange /\ v \in Returned(r)
    /\ Going(k - 1, x) /\ Going(k, w) /\ Entered(name, r, x, w)
    /\ name = "Timeout" => TimedOut(x, v, r.expires, z)
    /\ name # "Timeout" => Passed(name, v, z)

LEMMA AtMiddleware ==
    ASSUME Once, NEW r \in Request, NEW e, NEW y, Run(r, e, y), NEW k \in 1..Len(stack)
    PROVE  \E name \in Names : Turn(r, k, name, e[k - 1], e[k], y[k], y[k - 1])
<1>1. PICK n \in Nat : n = Len(stack)
  BY DEF Once
<1>2. k - 1 \in 0..n /\ k \in 0..n
  BY <1>1
<1>3. PICK name \in Names : name = stack[k]
  BY <1>1, SeqElements, Zenon DEF Once
<1>4. PICK x \in Unwritten, w \in Unwritten, v \in Returned(r) :
        x = e[k - 1] /\ w = e[k] /\ v = y[k]
  BY <1>1, <1>2, Zenon DEF Run
<1>5. y[k - 1] = Out(name, r, x, v) /\ w = In(name, r, x)
  BY <1>1, <1>3, <1>4, Zenon DEF Run
<1>6. x \in Exchange /\ w \in Exchange
  BY Zenon DEF Unwritten
<1>7. Entered(name, r, x, w)
  BY <1>5, <1>6, InDoes, Zenon
<1>8. Going(k - 1, x) /\ Going(k, w)
  BY <1>1, <1>2, <1>4, GoesIn, Zenon
<1>9. /\ name = "Timeout" => TimedOut(x, v, r.expires, y[k - 1])
      /\ name # "Timeout" => Passed(name, v, y[k - 1])
  BY <1>5, OutReturned, Zenon
<1> QED BY <1>3, <1>4, <1>6, <1>7, <1>8, <1>9, Zenon DEF Turn
-----------------------------------------------------------------------------
(* Middleware: who records a request.                                         *)

\* A recorder behind the k-th handler that no panic passed has seen one status, the one
\* that was sent unless a timeout around the recorder has answered instead.
SeenOnce(r, name, k, record, status) ==
    /\ ~Behind(name, k) => record = <<>>
    /\ Behind(name, k) /\ ~PanicPasses(r, name) =>
         /\ Len(record) = 1
         /\ record[1] = status \/ (r.expires /\ Encloses("Timeout", name))

\* A panic at the k-th handler has met no timeout that answered.
Unended(r, k) == Breaks(r) /\ ~(r.expires /\ Behind("Timeout", k))

\* The way out behind the k-th handler, for RequestsAccounted.
Recording(r, k, y) ==
    /\ y.active = IF Reached("Instrument", k) THEN 1 ELSE 0
    /\ y.raced => Encloses("Shadow", "RequestID")
    /\ y.panics => Unended(r, k)
    /\ ~y.panics => y.status \in Nat \ {0} /\ y.sent.status = y.status
    /\ SeenOnce(r, "AccessLogger", k, y.logged, y.status)
    /\ SeenOnce(r, "Instrument", k, y.counted, y.status)

\* Such a panic has passed everyone behind the k-th handler.
LEMMA PanicHits ==
    ASSUME Once, NEW r, NEW who, NEW k \in 0..Len(stack), Unended(r, k), Behind(who, k)
    PROVE  PanicPasses(r, who)
<1>1. PICK n \in Nat : n = Len(stack)
  BY DEF Once
<1>2. ASSUME Encloses(who, "Timeout") PROVE Behind("Timeout", k)
  <2>1. PICK i \in 1..n, j \in 1..n : i < j /\ stack[i] = who /\ stack[j] = "Timeout"
    BY <1>1, <1>2, Zenon DEF Encloses
  <2>2. PICK m \in (k + 1)..n : stack[m] = who
    BY <1>1, Zenon DEF Behind
  <2>3. m \in 1..n
    BY <1>1
  <2>4. m = i
    BY <1>1, <2>1, <2>2, <2>3 DEF Once
  <2>5. j \in (k + 1)..n
    BY <1>1, <2>1, <2>4
  <2> QED BY <1>1, <2>1, <2>5, Zenon DEF Behind
<1> QED BY <1>2, Zenon DEF Unended, PanicPasses

\* Passing a handler keeps the record of another, or makes the one it is for.
LEMMA SeenStep ==
    ASSUME Once, NEW r \in Request, NEW k \in 1..Len(stack), NEW who \in Names,
           NEW record \in Seq(Nat), NEW after, NEW status \in Nat, NEW new \in Nat,
           SeenOnce(r, who, k, record, status),
           after = IF stack[k] = who THEN Append(record, status) ELSE record,
           new = status \/ (stack[k] = "Timeout" /\ r.expires),
           who # "Timeout"
    PROVE  SeenOnce(r, who, k - 1, after, new)
<1>1. Behind(who, k - 1) <=> Behind(who, k) \/ stack[k] = who
  BY Places
<1>2. stack[k] = who => ~Behind(who, k)
  BY Places
<1>3. CASE stack[k] = who
  <2>1. record = <<>> /\ after = Append(record, status) /\ new = status
    BY <1>2, <1>3 DEF SeenOnce
  <2>2. Len(after) = 1 /\ after[1] = status
    BY <2>1
  <2> QED BY <1>1, <1>3, <2>1, <2>2 DEF SeenOnce
<1>4. CASE stack[k] # who
  <2>1. stack[k] = "Timeout" /\ Behind(who, k) => Encloses("Timeout", who)
    BY Enclosing
  <2>2. after = record
    BY <1>4
  <2> QED BY <1>1, <1>4, <2>1, <2>2 DEF SeenOnce
<1> QED BY <1>3, <1>4

\* A panic that passes a handler makes no record.
LEMMA SeenPanic ==
    ASSUME Once, NEW r \in Request, NEW k \in 1..Len(stack), NEW who \in Names,
           NEW record, NEW status, NEW new, SeenOnce(r, who, k, record, status),
           Unended(r, k - 1)
    PROVE  SeenOnce(r, who, k - 1, record, new)
<1>1. Behind(who, k) => Behind(who, k - 1)
  BY Places
<1>2. k - 1 \in 0..Len(stack)
  BY DEF Once
<1>3. Behind(who, k - 1) => PanicPasses(r, who)
  BY <1>2, PanicHits, Zenon
<1> QED BY <1>1, <1>3, Zenon DEF SeenOnce

\* A handler keeps Recording on the way out.
LEMMA RecordsOut ==
    ASSUME Once, NEW r \in Request, NEW k \in 1..Len(stack), NEW name \in Names,
           NEW x, NEW w, NEW v, NEW z, Turn(r, k, name, x, w, v, z), Recording(r, k, v)
    PROVE  Recording(r, k - 1, z)
<1>1. name = stack[k] /\ Going(k - 1, x)
  BY Zenon DEF Turn
<1>2. /\ name = "Timeout" => TimedOut(x, v, r.expires, z)
      /\ name # "Timeout" => Passed(name, v, z)
  BY Zenon DEF Turn
<1>3. /\ x \in Exchange /\ v \in Exchange /\ ~x.panics
      /\ v.logged \in Seq(Nat) /\ v.counted \in Seq(Nat) /\ v.status \in Nat
  BY DEF Turn, Unwritten, Returned, Exchange
<1>4. /\ Reached("Instrument", k) <=> Reached("Instrument", k - 1) \/ name = "Instrument"
      /\ name = "Instrument" => ~Reached("Instrument", k - 1)
  BY <1>1, Places, Zenon DEF Names
<1>5. z.active = IF Reached("Instrument", k - 1) THEN 1 ELSE 0
  <2>1. z.active = IF name = "Instrument" THEN v.active - 1 ELSE v.active
    BY <1>2 DEF TimedOut, Passed
  <2>2. v.active = IF Reached("Instrument", k) THEN 1 ELSE 0
    BY DEF Recording
  <2> QED BY <1>4, <2>1, <2>2
<1>6. z.raced => Encloses("Shadow", "RequestID")
  <2>1. z.raced => x.raced \/ v.raced
    BY <1>2 DEF TimedOut, Passed
  <2> QED BY <1>1, <2>1 DEF Recording, Going
<1>7. /\ SeenOnce(r, "AccessLogger", k, v.logged, v.status)
      /\ SeenOnce(r, "Instrument", k, v.counted, v.status)
      /\ v.panics => Unended(r, k)
      /\ ~v.panics => v.status \in Nat \ {0} /\ v.sent.status = v.status
  BY Zenon DEF Recording
<1>8. /\ "AccessLogger" \in Names /\ "AccessLogger" # "Timeout"
      /\ "Instrument" \in Names /\ "Instrument" # "Timeout" /\ "Timeout" \in Names
  BY DEF Names
<1>9. ASSUME z.panics
      PROVE  /\ Unended(r, k - 1)
             /\ SeenOnce(r, "AccessLogger", k - 1, z.logged, z.status)
             /\ SeenOnce(r, "Instrument", k - 1, z.counted, z.status)
  <2>1. /\ v.panics /\ (name = "Timeout" => ~r.expires)
        /\ z.logged = v.logged /\ z.counted = v.counted
    BY <1>2, <1>9, Zenon DEF TimedOut, Passed
  <2>2. Behind("Timeout", k - 1) <=> Behind("Timeout", k) \/ name = "Timeout"
    BY <1>1, <1>8, Places, Zenon
  <2>3. Unended(r, k - 1)
    BY <1>7, <2>1, <2>2, Zenon DEF Unended
  <2>4. SeenOnce(r, "AccessLogger", k - 1, v.logged, z.status)
    BY <1>7, <1>8, <2>3, SeenPanic, Zenon
  <2>5. SeenOnce(r, "Instrument", k - 1, v.counted, z.status)
    BY <1>7, <1>8, <2>3, SeenPanic, Zenon
  <2> QED BY <2>1, <2>3, <2>4, <2>5, Zenon
<1>10. ASSUME ~z.panics
       PROVE  /\ z.status \in Nat \ {0} /\ z.sent.status = z.status
              /\ SeenOnce(r, "AccessLogger", k - 1, z.logged, z.status)
              /\ SeenOnce(r, "Instrument", k - 1, z.counted, z.status)
  <2>1. /\ z.sent.status = z.status /\ z.status \in Nat \ {0}
        /\ z.status = v.status \/ (name = "Timeout" /\ r.expires)
    <3>1. CASE name = "Timeout" /\ r.expires
      <4>1. z.sent.status = z.status /\ z.status = 503
        BY <1>2, <1>10, <3>1, Zenon DEF TimedOut
      <4> QED BY <3>1, <4>1
    <3>2. CASE ~(name = "Timeout" /\ r.expires)
      <4>1. ~v.panics /\ z.sent.status = z.status /\ z.status = v.status
        BY <1>2, <1>7, <1>10, <3>2, Zenon DEF TimedOut, Passed
      <4> QED BY <1>7, <4>1, Zenon
    <3> QED BY <3>1, <3>2
  <2>2. /\ z.logged = IF name = "AccessLogger" THEN Append(v.logged, v.status) ELSE v.logged
        /\ z.counted = IF name = "Instrument" THEN Append(v.counted, v.status) ELSE v.counted
    <3>1. CASE name = "Timeout"
      BY <1>2, <3>1 DEF TimedOut
    <3>2. CASE name # "Timeout"
      <4>1. /\ ~v.panics
            /\ z.logged = IF name = "AccessLogger" THEN Append(v.logged, Recorded(v))
                         ELSE v.logged
            /\ z.counted = IF name = "Instrument" THEN Append(v.counted, Recorded(v))
                          ELSE v.counted
        BY <1>2, <1>10, <3>2, Zenon DEF Passed
      <4>2. Recorded(v) = v.status
        BY <1>7, <4>1 DEF Recorded
      <4> QED BY <4>1, <4>2, Zenon
    <3> QED BY <3>1, <3>2
  <2>3. /\ v.status \in Nat /\ z.status \in Nat
        /\ z.status = v.status \/ (stack[k] = "Timeout" /\ r.expires)
    BY <1>1, <1>3, <2>1, Zenon
  <2>4. SeenOnce(r, "AccessLogger", k - 1, z.logged, z.status)
    <3>1. z.logged = IF stack[k] = "AccessLogger" THEN Append(v.logged, v.status) ELSE v.logged
      BY <1>1, <2>2, Zenon
    <3> QED BY <1>3, <1>7, <1>8, <2>3, <3>1, SeenStep, Zenon
  <2>5. SeenOnce(r, "Instrument", k - 1, z.counted, z.status)
    <3>1. z.counted = IF stack[k] = "Instrument" THEN Append(v.counted, v.status) ELSE v.counted
      BY <1>1, <2>2, Zenon
    <3> QED BY <1>3, <1>7, <1>8, <2>3, <3>1, SeenStep, Zenon
  <2> QED BY <2>1, <2>4, <2>5
<1> QED BY <1>5, <1>6, <1>9, <1>10, Zenon DEF Recording

\* However the middlewares are ordered, whatever the upstream does and whenever a
\* deadline passes, a request leaves the gauge at zero, races with a mirror only when
\* RequestID is inside ShadowMiddleware, and is logged once and counted once by the
\* recorders that no panic of ReverseProxy passes, with the status the client gets or
\* before a timeout around the recorder answered.
THEOREM RequestsRecorded == ChainSpec => []RequestsAccounted
<1>1. ASSUME Once PROVE RequestsAccounted
  <2> SUFFICES ASSUME NEW r \in Request
               PROVE  LET y == Serve(r)
                          Right(name, record) ==
                            Wraps(name) /\ ~PanicPasses(r, name) =>
                              /\ Len(record) = 1
                              /\ \/ record[1] = y.sent.status
                                 \/ r.expires /\ Encloses("Timeout", name)
                      IN  /\ y.active = 0
                          /\ y.raced => Encloses("Shadow", "RequestID")
                          /\ Right("AccessLogger", y.logged)
                          /\ Right("Instrument", y.counted)
    BY DEF RequestsAccounted
  <2>1. PICK n \in Nat : n = Len(stack)
    BY <1>1 DEF Once
  <2>2. PICK e, y : Run(r, e, y)
    BY <1>1, Runs
  <2> DEFINE T == {k \in 0..n : Recording(r, k, y[k])}
  <2>3. n \in T
    <3>1. PICK x : x \in Unwritten /\ Going(n, x) /\ Proxied(r, x, y[n])
      BY <1>1, <2>1, <2>2, AtProxy, Zenon
    <3>2. \A name : ~Behind(name, n)
      BY <1>1, <2>1, Ends, Zenon
    <3>3. Recording(r, n, y[n])
      BY <3>1, <3>2 DEF Proxied, Responded, Going, Recording, SeenOnce, Unwritten, Unended
    <3> QED BY <3>3
  <2>4. ASSUME NEW k \in 1..n, k \in T PROVE k - 1 \in T
    <3>1. PICK name \in Names : Turn(r, k, name, e[k - 1], e[k], y[k], y[k - 1])
      BY <1>1, <2>1, <2>2, AtMiddleware, Zenon
    <3>2. Recording(r, k - 1, y[k - 1])
      BY <1>1, <2>1, <2>4, <3>1, RecordsOut, Zenon
    <3> QED BY <3>2
  <2>5. 0 \in T
    <3> HIDE DEF T
    <3> QED BY <2>3, <2>4, DownTo, Zenon
  <2>6. PICK z : z = Serve(r) /\ Recording(r, 0, z)
    BY <2>2, <2>5 DEF Run
  <2>7. z.active = 0 /\ (z.raced => Encloses("Shadow", "RequestID"))
    BY <1>1, <2>6, Ends DEF Recording
  <2>8. ASSUME NEW name, NEW record, SeenOnce(r, name, 0, record, z.status),
               Wraps(name), ~PanicPasses(r, name)
        PROVE  /\ Len(record) = 1
               /\ record[1] = z.sent.status \/ (r.expires /\ Encloses("Timeout", name))
    <3>1. Behind(name, 0) /\ 0 \in 0..Len(stack)
      BY <1>1, <2>1, <2>8, Ends
    <3>2. ~z.panics
      BY <1>1, <2>6, <2>8, <3>1, PanicHits, Zenon DEF Recording
    <3>3. z.status = z.sent.status
      BY <2>6, <3>2, Zenon DEF Recording
    <3> QED BY <2>8, <3>1, <3>3, Zenon DEF SeenOnce
  <2>9. /\ SeenOnce(r, "AccessLogger", 0, z.logged, z.status)
        /\ SeenOnce(r, "Instrument", 0, z.counted, z.status)
    BY <2>6, Zenon DEF Recording
  <2> QED BY <2>6, <2>7, <2>8, <2>9, Zenon
<1> QED BY <1>1, ChainOnce, PTL
-----------------------------------------------------------------------------
(* Middleware: what a 200 is worth.                                           *)

\* A 200 behind the k-th handler is the upstream's whole response, and no timeout has
\* answered instead.
Honest(r, k, y) ==
    ~y.panics /\ y.sent.status = 200 => Whole(r) /\ ~(r.expires /\ Behind("Timeout", k))

LEMMA HonestOut ==
    ASSUME Once, NEW r \in Request, NEW k \in 1..Len(stack), NEW name \in Names,
           NEW x, NEW w, NEW v, NEW z, Turn(r, k, name, x, w, v, z), Honest(r, k, v)
    PROVE  Honest(r, k - 1, z)
<1>1. SUFFICES ASSUME ~z.panics, z.sent.status = 200
               PROVE  Whole(r) /\ ~(r.expires /\ Behind("Timeout", k - 1))
  BY Zenon DEF Honest
<1>2. Behind("Timeout", k - 1) <=> Behind("Timeout", k) \/ name = "Timeout"
  BY Places, Zenon DEF Turn, Names
<1>3. CASE name = "Timeout"
  <2>1. TimedOut(x, v, r.expires, z)
    BY <1>3, Zenon DEF Turn
  <2>2. ~r.expires
    <3>1. z.sent.status = z.status /\ (r.expires => z.status = 503)
      BY <1>1, <2>1, Zenon DEF TimedOut
    <3> QED BY <1>1, <3>1
  <2>3. ~v.panics /\ v.sent.status = 200
    BY <1>1, <2>1, <2>2, Zenon DEF TimedOut
  <2> QED BY <2>2, <2>3, Zenon DEF Honest
<1>4. CASE name # "Timeout"
  <2>1. ~v.panics /\ v.sent.status = 200
    BY <1>1, <1>4, Zenon DEF Turn, Passed
  <2> QED BY <1>2, <1>4, <2>1, Zenon DEF Honest
<1> QED BY <1>3, <1>4

\* However the middlewares are ordered, a response with status 200 that ends without a
\* panic is the whole one of the upstream: neither an upstream that breaks off nor a
\* deadline that cuts a body or drops a late answer leaves a 200 that looks complete.
THEOREM WholeOrBroken == ChainSpec => []NoTruncated200
<1>1. ASSUME Once PROVE NoTruncated200
  <2> SUFFICES ASSUME NEW r \in Request
               PROVE  LET y == Serve(r)
                      IN  ~y.panics /\ y.sent.status = 200 =>
                            /\ r.upstream \in {"answers", "late", "streams"}
                            /\ Wraps("Timeout") => r.upstream = "answers" /\ ~r.expires
    BY Zenon DEF NoTruncated200
  <2>1. PICK n \in Nat : n = Len(stack)
    BY <1>1 DEF Once
  <2>2. PICK e, y : Run(r, e, y)
    BY <1>1, Runs
  <2> DEFINE T == {k \in 0..n : Honest(r, k, y[k])}
  <2>3. n \in T
    <3>1. PICK x : Proxied(r, x, y[n])
      BY <1>1, <2>1, <2>2, AtProxy, Zenon
    <3>2. ~Behind("Timeout", n)
      BY <1>1, <2>1, Ends, Zenon
    <3>3. Honest(r, n, y[n])
      BY <3>1, <3>2, Zenon DEF Proxied, Responded, Honest
    <3> QED BY <3>3
  <2>4. ASSUME NEW k \in 1..n, k \in T PROVE k - 1 \in T
    <3>1. PICK name \in Names : Turn(r, k, name, e[k - 1], e[k], y[k], y[k - 1])
      BY <1>1, <2>1, <2>2, AtMiddleware, Zenon
    <3>2. Honest(r, k - 1, y[k - 1])
      BY <1>1, <2>1, <2>4, <3>1, HonestOut, Zenon
    <3> QED BY <3>2
  <2>5. 0 \in T
    <3> HIDE DEF T
    <3> QED BY <2>3, <2>4, DownTo, Zenon
  <2>6. y[0] = Serve(r) /\ Honest(r, 0, y[0])
    BY <2>2, <2>5, Zenon DEF Run
  <2>7. Wraps("Timeout") <=> Behind("Timeout", 0)
    BY <1>1, Ends, Zenon
  <2> QED BY <2>6, <2>7, Zenon DEF Honest, Whole
<1> QED BY <1>1, ChainOnce, PTL
-----------------------------------------------------------------------------
(* Middleware: how the body is encoded.                                       *)

\* The map that the handlers behind the k-th leave agrees with what was sent, and
\* without a coder at work or to come the body is as HTTPProxy wrote it.
Coded(r, k, w, v) ==
    ~v.panics =>
      /\ v.sent.encoding = v.sent.coded /\ v.encoding = v.sent.encoding
      /\ "Content-Length" \in v.header \cup v.sent.header => v.sent.coded = r.encoded
      /\ r.encoded = 0 /\ w.coders = 0 /\ ~Behind("Gzip", k) => v.sent.coded = 0

LEMMA ProxyCodes ==
    ASSUME NEW r \in Request, NEW k, NEW w \in Unwritten, NEW v,
           Going(k, w), Proxied(r, w, v)
    PROVE  Coded(r, k, w, v)
<1>1. /\ w.encoding \in Nat /\ w.coders \in Nat /\ r.encoded \in Nat
      /\ w.encoding = w.coders /\ "Content-Length" \notin w.header
  BY DEF Unwritten, Exchange, Request, Going
<1> QED BY <1>1 DEF Proxied, Responded, Coded

\* A handler keeps Coded on the way out, in every order but the excepted one.
LEMMA CodesOut ==
    ASSUME Once, NEW r \in Request, NEW k \in 1..Len(stack), NEW name \in Names,
           NEW x, NEW w, NEW v, NEW z, Turn(r, k, name, x, w, v, z),
           Coded(r, k, w, v), ~(Encloses("Gzip", "Timeout") /\ r.encoded = 1)
    PROVE  Coded(r, k - 1, x, z)
<1>1. name = stack[k] /\ Going(k - 1, x) /\ Going(k, w) /\ Entered(name, r, x, w)
  BY Zenon DEF Turn
<1>2. /\ x.encoding = x.coders /\ x.coders \in {0, 1} /\ "Content-Length" \notin x.header
      /\ x.coders = 1 => Reached("Gzip", k - 1)
  BY <1>1 DEF Going
<1>3. /\ Behind("Gzip", k - 1) <=> Behind("Gzip", k) \/ name = "Gzip"
      /\ ~Reached("Gzip", k - 1) \/ ~Behind("Gzip", k - 1)
  BY <1>1, Places, Zenon DEF Names
<1>4. /\ v.encoding \in Nat /\ v.sent.encoding \in Nat /\ v.sent.coded \in Nat
      /\ r.encoded \in {0, 1}
  <2>1. v \in Exchange
    BY Zenon DEF Turn, Returned
  <2>2. v.encoding \in Nat /\ v.sent \in Response
    BY <2>1 DEF Exchange
  <2>3. v.sent.encoding \in Nat /\ v.sent.coded \in Nat
    BY <2>2 DEF Response
  <2>4. r.encoded \in {0, 1}
    BY DEF Request
  <2> QED BY <2>2, <2>3, <2>4
<1>5. CASE name # "Timeout"
  <2>1. /\ z.sent = v.sent /\ z.encoding = v.encoding /\ z.panics = v.panics
        /\ ~v.panics => z.header \subseteq v.header \cup Adds \cup Sets \cup {"X-Frame-Options"}
    BY <1>5 DEF Turn, Passed
  <2>2. ~Behind("Gzip", k - 1) => ~Behind("Gzip", k) /\ w.coders = x.coders
    BY <1>1, <1>3, <1>5 DEF Entered
  <2>3. "Content-Length" \notin Adds \cup Sets \cup {"X-Frame-Options"}
    BY DEF Adds, Sets
  <2> QED BY <2>1, <2>2, <2>3 DEF Coded
<1>6. CASE name = "Timeout"
  <2>1. TimedOut(x, v, r.expires, z) /\ w.coders = 0
    BY <1>1, <1>6, Zenon DEF Turn, Entered
  <2>2. SUFFICES ASSUME ~z.panics
                 PROVE  /\ z.sent.encoding = z.sent.coded /\ z.encoding = z.sent.encoding
                        /\ "Content-Length" \in z.header \cup z.sent.header =>
                             z.sent.coded = r.encoded
                        /\ r.encoded = 0 /\ x.coders = 0 /\ ~Behind("Gzip", k - 1) =>
                             z.sent.coded = 0
    BY Zenon DEF Coded
  <2>3. /\ z.sent.header = z.header /\ z.sent.encoding = z.encoding
        /\ x.coders # 0 => "Content-Length" \notin z.header
    BY <2>1, <2>2, Zenon DEF TimedOut
  <2>4. CASE r.expires
    <3>1. z.encoding = x.encoding /\ z.sent.coded = x.coders /\ z.header \subseteq x.header
      BY <2>1, <2>2, <2>4, Zenon DEF TimedOut
    <3> QED BY <1>2, <2>3, <3>1
  <2>5. CASE ~r.expires
    <3>1. /\ z.encoding = IF v.encoding = 0 THEN x.encoding ELSE v.encoding
          /\ z.sent.coded = v.sent.coded + x.coders
          /\ z.header \subseteq x.header \cup v.header /\ ~v.panics
      BY <2>1, <2>2, <2>5, Zenon DEF TimedOut
    <3>2. /\ v.encoding = v.sent.coded
          /\ "Content-Length" \in v.header => v.sent.coded = r.encoded
          /\ r.encoded = 0 /\ ~Behind("Gzip", k) => v.sent.coded = 0
      BY <2>1, <3>1 DEF Coded
    <3>3. CASE x.coders = 0
      BY <1>2, <1>3, <1>4, <2>3, <3>1, <3>2, <3>3
    <3>4. CASE x.coders = 1
      <4>1. Encloses("Gzip", "Timeout")
        BY <1>1, <1>2, <1>6, <3>4, Enclosing, Zenon
      <4>2. r.encoded = 0 /\ ~Behind("Gzip", k)
        BY <1>2, <1>3, <1>4, <3>4, <4>1
      <4> QED BY <1>2, <2>3, <3>1, <3>2, <3>4, <4>2
    <3> QED BY <1>2, <3>3, <3>4
  <2> QED BY <2>4, <2>5
<1> QED BY <1>5, <1>6

\* However the middlewares are ordered, the response declares as many encodings as
\* its body has, and no length once it was encoded on the way; except for a
\* TimeoutMiddleware inside GzipMiddleware and a body the upstream encoded.
THEOREM EncodingsMatch == ChainSpec => []EncodingDeclared
<1>1. ASSUME Once PROVE EncodingDeclared
  <2> SUFFICES ASSUME NEW r \in Request, ~Serve(r).panics,
                      ~(Encloses("Gzip", "Timeout") /\ r.encoded = 1)
               PROVE  LET y == Serve(r)
                          sent == y.sent
                      IN  /\ sent.encoding = sent.coded
                          /\ "Content-Length" \in sent.header => sent.coded = r.encoded
    BY Zenon DEF EncodingDeclared
  <2>1. PICK n \in Nat : n = Len(stack)
    BY <1>1 DEF Once
  <2>2. PICK e, y : Run(r, e, y)
    BY <1>1, Runs
  <2> DEFINE T == {k \in 0..n : Coded(r, k, e[k], y[k])}
  <2>3. n \in T
    <3>1. e[n] \in Unwritten /\ Going(n, e[n]) /\ Proxied(r, e[n], y[n])
      BY <1>1, <2>1, <2>2, AtProxy, Zenon
    <3>2. Coded(r, n, e[n], y[n])
      BY <3>1, ProxyCodes, Zenon
    <3> QED BY <3>2
  <2>4. ASSUME NEW k \in 1..n, k \in T PROVE k - 1 \in T
    <3>1. PICK name \in Names : Turn(r, k, name, e[k - 1], e[k], y[k], y[k - 1])
      BY <1>1, <2>1, <2>2, AtMiddleware, Zenon
    <3>2. Coded(r, k - 1, e[k - 1], y[k - 1])
      BY <1>1, <2>1, <2>4, <3>1, CodesOut, Zenon
    <3> QED BY <3>2
  <2>5. 0 \in T
    <3> HIDE DEF T
    <3> QED BY <2>3, <2>4, DownTo, Zenon
  <2>6. y[0] = Serve(r) /\ Coded(r, 0, e[0], y[0])
    BY <2>2, <2>5, Zenon DEF Run
  <2> QED BY <2>6, Zenon DEF Coded
<1> QED BY <1>1, ChainOnce, PTL
-----------------------------------------------------------------------------
(* Middleware: the rules of the header middlewares.                           *)

\* The rules of HeaderRewriter have had their effect.
Rewritten(header) == Adds \cup Sets \subseteq header /\ header \cap Removes \subseteq Sets

\* A TimeoutMiddleware behind the k-th handler encloses inner.
Held(inner, k) ==
    \E i, j \in (k + 1)..Len(stack) : i < j /\ stack[i] = "Timeout" /\ stack[j] = inner

\* The rules behind the k-th handler are in the header map, and those a timeout
\* behind it has let go are in what was sent.
Ruled(k, v) ==
    ~v.panics =>
      /\ Behind("HeaderRewriter", k) => Rewritten(v.header)
      /\ Behind("SecurityHeaders", k) => "X-Frame-Options" \in v.header
      /\ Held("HeaderRewriter", k) => Rewritten(v.sent.header)
      /\ Held("SecurityHeaders", k) => "X-Frame-Options" \in v.sent.header

LEMMA HeldPlaces ==
    ASSUME Once, NEW inner, NEW k \in 1..Len(stack)
    PROVE  /\ Held(inner, k - 1) => Held(inner, k) \/ (stack[k] = "Timeout" /\ Behind(inner, k))
           /\ Held(inner, k) => Behind("Timeout", k)
<1>1. PICK n \in Nat : n = Len(stack)
  BY DEF Once
<1>2. /\ \A i \in (k - 1 + 1)..n : i = k \/ i \in (k + 1)..n
      /\ \A i \in (k - 1 + 1)..n : \A j \in (k - 1 + 1)..n : i < j => j \in (k + 1)..n
  BY <1>1
<1> QED BY <1>1, <1>2, Zenon DEF Held, Behind

\* A handler keeps Ruled on the way out.
LEMMA RulesOut ==
    ASSUME Once, NEW r \in Request, NEW k \in 1..Len(stack), NEW name \in Names,
           NEW x, NEW w, NEW v, NEW z, Turn(r, k, name, x, w, v, z),
           Ruled(k, v), ~Expired(r)
    PROVE  Ruled(k - 1, z)
<1>1. name = stack[k] /\ Going(k - 1, x)
  BY Zenon DEF Turn
<1>2. \A inner \in Names : Behind(inner, k - 1) <=> Behind(inner, k) \/ name = inner
  BY <1>1, Places, Zenon
<1>3. \A inner : Held(inner, k - 1) => Held(inner, k) \/ (name = "Timeout" /\ Behind(inner, k))
  BY <1>1, HeldPlaces, Zenon
<1>4. "HeaderRewriter" \in Names /\ "SecurityHeaders" \in Names /\ "Timeout" \in Names
  BY DEF Names
<1>5. CASE name # "Timeout"
  <2>1. Passed(name, v, z)
    BY <1>5, Zenon DEF Turn
  <2>2. SUFFICES ASSUME ~z.panics
                 PROVE  /\ Behind("HeaderRewriter", k - 1) => Rewritten(z.header)
                        /\ Behind("SecurityHeaders", k - 1) => "X-Frame-Options" \in z.header
                        /\ Held("HeaderRewriter", k - 1) => Rewritten(z.sent.header)
                        /\ Held("SecurityHeaders", k - 1) => "X-Frame-Options" \in z.sent.header
    BY Zenon DEF Ruled
  <2>3. /\ ~v.panics /\ z.sent = v.sent
        /\ z.header = CASE name = "HeaderRewriter" -> ((v.header \cup Adds) \ Removes) \cup Sets
                        [] name = "SecurityHeaders" -> v.header \cup {"X-Frame-Options"}
                        [] OTHER -> v.header
    BY <2>1, <2>2, Zenon DEF Passed
  <2>4. /\ Behind("HeaderRewriter", k) => Rewritten(v.header)
        /\ Behind("SecurityHeaders", k) => "X-Frame-Options" \in v.header
        /\ Held("HeaderRewriter", k) => Rewritten(v.sent.header)
        /\ Held("SecurityHeaders", k) => "X-Frame-Options" \in v.sent.header
    BY <2>3, Zenon DEF Ruled
  <2>5. /\ name = "HeaderRewriter" => Rewritten(z.header)
        /\ Rewritten(v.header) => Rewritten(z.header)
    BY <2>3 DEF Rewritten, Adds, Sets, Removes
  <2>6. /\ name = "SecurityHeaders" => "X-Frame-Options" \in z.header
        /\ "X-Frame-Options" \in v.header => "X-Frame-Options" \in z.header
    BY <2>3 DEF Adds, Sets, Removes
  <2> QED BY <1>2, <1>3, <1>4, <1>5, <2>3, <2>4, <2>5, <2>6, Zenon
<1>6. CASE name = "Timeout"
  <2>1. Wraps("Timeout")
    BY <1>1, <1>6, Zenon DEF Wraps
  <2>2. TimedOut(x, v, FALSE, z)
    <3>1. r.expires = FALSE
      BY <2>1 DEF Expired, Request
    <3> QED BY <1>6, <3>1, Zenon DEF Turn
  <2>3. SUFFICES ASSUME ~z.panics
                 PROVE  /\ Behind("HeaderRewriter", k - 1) => Rewritten(z.header)
                        /\ Behind("SecurityHeaders", k - 1) => "X-Frame-Options" \in z.header
                        /\ Held("HeaderRewriter", k - 1) => Rewritten(z.sent.header)
                        /\ Held("SecurityHeaders", k - 1) => "X-Frame-Options" \in z.sent.header
    BY Zenon DEF Ruled
  <2>4. /\ ~v.panics /\ z.sent.header = z.header
        /\ z.header \subseteq x.header \cup v.header
        /\ (x.header \cup v.header) \ {"Content-Length"} \subseteq z.header
    BY <2>2, <2>3, Zenon DEF TimedOut
  <2>5. x.header \subseteq {"X-Request-ID"}
    BY <1>1, Zenon DEF Going
  <2>6. /\ Behind("HeaderRewriter", k) => Rewritten(v.header)
        /\ Behind("SecurityHeaders", k) => "X-Frame-Options" \in v.header
    BY <2>4, Zenon DEF Ruled
  <2>7. Rewritten(v.header) => Rewritten(z.header)
    BY <2>4, <2>5 DEF Rewritten, Adds, Sets, Removes
  <2>8. "X-Frame-Options" \in v.header => "X-Frame-Options" \in z.header
    BY <2>4
  <2>9. \A inner : ~Held(inner, k)
    BY <1>1, <1>4, <1>6, HeldPlaces, Places, Zenon
  <2> QED BY <1>2, <1>3, <1>4, <1>6, <2>4, <2>6, <2>7, <2>8, <2>9, Zenon
<1> QED BY <1>5, <1>6

\* However the other middlewares are ordered, a TimeoutMiddleware around
\* HeaderRewriter or SecurityHeaders makes their rules reach the client.
THEOREM RulesReachClient == ChainSpec => []RulesArriveBehindTimeout
<1>1. ASSUME Once PROVE RulesArriveBehindTimeout
  <2> SUFFICES ASSUME NEW r \in Request, ~Serve(r).panics, ~Expired(r)
               PROVE  LET y == Serve(r)
                          header == y.sent.header
                      IN  /\ Encloses("Timeout", "HeaderRewriter") =>
                               Adds \cup Sets \subseteq header /\ header \cap Removes \subseteq Sets
                          /\ Encloses("Timeout", "SecurityHeaders") => "X-Frame-Options" \in header
    BY Zenon DEF RulesArriveBehindTimeout
  <2>1. PICK n \in Nat : n = Len(stack)
    BY <1>1 DEF Once
  <2>2. PICK e, y : Run(r, e, y)
    BY <1>1, Runs
  <2>3. ~Serve(r).panics /\ ~Expired(r)
    OBVIOUS
  <2> DEFINE T == {k \in 0..n : Ruled(k, y[k])}
  <2>4. n \in T
    <3>1. \A name : ~Behind(name, n)
      BY <1>1, <2>1, Ends, Zenon
    <3>2. \A inner : ~Held(inner, n)
      <4>1. \A i : i \notin (n + 1)..n
        OBVIOUS
      <4> QED BY <2>1, <4>1, Zenon DEF Held
    <3>3. Ruled(n, y[n])
      BY <3>1, <3>2, Zenon DEF Ruled
    <3> QED BY <3>3
  <2>5. ASSUME NEW k \in 1..n, k \in T PROVE k - 1 \in T
    <3>1. PICK name \in Names : Turn(r, k, name, e[k - 1], e[k], y[k], y[k - 1])
      BY <1>1, <2>1, <2>2, AtMiddleware, Zenon
    <3>2. Ruled(k - 1, y[k - 1])
      BY <1>1, <2>1, <2>3, <2>5, <3>1, RulesOut, Zenon
    <3> QED BY <3>2
  <2>6. 0 \in T
    <3> HIDE DEF T
    <3> QED BY <2>4, <2>5, DownTo, Zenon
  <2>7. y[0] = Serve(r) /\ Ruled(0, y[0])
    BY <2>2, <2>6, Zenon DEF Run
  <2>8. \A inner : Encloses("Timeout", inner) => Held(inner, 0)
    <3>1. (0 + 1)..n = 1..n
      OBVIOUS
    <3> QED BY <2>1, <3>1, Zenon DEF Encloses, Held
  <2> QED BY <2>3, <2>7, <2>8, Zenon DEF Ruled, Rewritten
<1> QED BY <1>1, ChainOnce, PTL
=============================================================================
