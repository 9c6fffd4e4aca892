---------------------------- MODULE ServersProofs ----------------------------
(***************************************************************************)
(* For any number of connections and backends: the counts of the TCP proxy  *)
(* are exact, and every step of the four servers is one that                *)
(* GracefulShutdown allows.                                                 *)
(*                                                                          *)
(* The inductive invariant is                                               *)
(*   Phases   which places of the function, of ListenAndServe and of        *)
(*            Shutdown go together;                                         *)
(*   Counted  the WaitGroup counts the live connections, and each backend   *)
(*            those that are its own.                                       *)
(***************************************************************************)
EXTENDS Servers, FiniteSetTheorems, TLAPS

Phases ==
    /\ kind \in {"tcp", "main", "library", "admin"}
    /\ serve \in {"accept", "wait", "returned", "failed"}
    /\ loop \in {"running", "closed", "failed"}
    /\ shutdown \in {"no", "waiting", "done"}
    /\ kind # "tcp" /\ listening => serve = "accept" /\ shutdown = "no" /\ loop = "running"
    /\ loop = "closed" => shutdown # "no"
    /\ kind \in {"main", "library"} /\ shutdown # "no" => serve # "accept"
    /\ kind = "admin" =>
         /\ serve # "wait"
         /\ serve = "failed" => loop = "failed"
         /\ loop = "running" => serve = "accept"
    /\ timeUp => kind = "main"

Counted ==
    /\ at \in [Conn -> {"new", "handle", "dial", "tunnel", "closed", "hijacked"}]
    /\ DOMAIN b = Conn
    /\ activeConns \in [Backend -> Int]
    /\ kind = "tcp" => wg = Cardinality(Live)
    /\ ConnsMatchInFlight

IndInv == Phases /\ Counted

LEMMA InitInv == ServersInit => IndInv
<1> SUFFICES ASSUME ServersInit PROVE IndInv
  OBVIOUS
<1>1. Phases
  BY DEF ServersInit, Init, Phases
<1>2. Live = {} /\ \A x \in Backend : InFlight(x) = {}
  BY DEF ServersInit, Init, Live, InFlight
<1>3. Cardinality({}) = 0
  BY FS_EmptySet
<1>4. activeConns = [x \in Backend |-> 0] /\ wg = 0
  BY DEF ServersInit, Init, NewPool
<1>5. ConnsMatchInFlight
  <2>1. \A x \in Backend : activeConns[x] = 0
    BY <1>4
  <2> QED
    BY <2>1, <1>2, <1>3, Zenon DEF ConnsMatchInFlight
<1>6. wg = Cardinality(Live)
  BY <1>2, <1>3, <1>4
<1> QED
  BY <1>1, <1>4, <1>5, <1>6 DEF IndInv, Counted, ServersInit, Init

LEMMA PhasesStep == Phases /\ [ServersNext]_svars => Phases'
<1> SUFFICES ASSUME Phases, [ServersNext]_svars PROVE Phases'
  OBVIOUS
<1> USE DEF Phases
<1>1. CASE kind = "tcp" /\ Next /\ UNCHANGED httpVars
  <2>1. UNCHANGED httpVars /\ kind = "tcp"
    BY <1>1
  <2>2. serve' \in {"accept", "wait", "returned", "failed"}
    BY <1>1 DEF Next, Cancel, CloseListener, AcceptFails, Wait, Accept, Handler, HandleNone,
                Handle, DialFails, Dial, TunnelEnds, CopyEnds, HealthWrite
  <2> QED
    BY <2>1, <2>2 DEF httpVars
<1>2. ASSUME NEW c \in Conn, HTTPAccept(c) \/ HTTPUpgrade(c) \/ HTTPFinish(c) PROVE Phases'
  BY <1>2 DEF HTTPAccept, HTTPUpgrade, HTTPFinish, httpVars
<1>3. CASE ListenFails \/ LoopCloses
  BY <1>3 DEF ListenFails, LoopCloses, vars
<1>4. CASE SelectDone \/ SelectErr
  BY <1>4 DEF SelectDone, SelectErr, Selecting, Shutdown, httpVars
<1>5. CASE Drained \/ Timeout \/ (kind # "tcp" /\ Expired)
  BY <1>5 DEF Drained, Timeout, Expired, ShutdownReturns, vars, httpVars
<1>6. CASE AdminShutdown \/ AdminDrained \/ AdminReturns
  BY <1>6 DEF AdminShutdown, AdminDrained, AdminReturns, Shutdown, ShutdownReturns,
              vars, httpVars
<1>7. CASE Cancel /\ UNCHANGED httpVars
  BY <1>7 DEF Cancel, httpVars
<1>8. CASE UNCHANGED svars
  BY <1>8 DEF svars, vars, httpVars
<1> QED
  BY <1>1, <1>2, <1>3, <1>4, <1>5, <1>6, <1>7, <1>8 DEF ServersNext, HTTPNext

LEMMA FiniteSets ==
    /\ IsFiniteSet(Live) /\ Cardinality(Live) \in Nat
    /\ \A x : IsFiniteSet(InFlight(x)) /\ Cardinality(InFlight(x)) \in Nat
BY TCPAssumption, FS_Subset, FS_CardinalityType DEF Live, InFlight

\* A connection more, or one less.
LEMMA OneMore ==
    ASSUME NEW S, IsFiniteSet(S), NEW c, c \notin S
    PROVE  Cardinality(S \cup {c}) = Cardinality(S) + 1
BY FS_AddElement, Zenon

LEMMA OneLess ==
    ASSUME NEW S, IsFiniteSet(S), NEW c, c \in S
    PROVE  Cardinality(S \ {c}) = Cardinality(S) - 1
BY FS_RemoveElement, Zenon

\* A step that moves no connection to or from a backend.
LEMMA SameBackends ==
    ASSUME Counted, activeConns' = activeConns, \A x : InFlight(x)' = InFlight(x)
    PROVE  ConnsMatchInFlight'
BY DEF Counted, ConnsMatchInFlight

LEMMA AcceptCounts ==
    ASSUME Counted, NEW c \in Conn, Accept(c), UNCHANGED httpVars
    PROVE  Counted' /\ Live' = Live \cup {c} /\ c \notin Live
<1> USE DEF Counted
<1>1. /\ at' = [at EXCEPT ![c] = "handle"] /\ at[c] = "new" /\ wg' = wg + 1
      /\ UNCHANGED <<b, activeConns, kind>>
  BY DEF Accept, poolVars, httpVars
<1>2. Live' = Live \cup {c} /\ c \notin Live
  BY <1>1 DEF Live
<1>3. \A x : InFlight(x)' = InFlight(x)
  BY <1>1 DEF InFlight
<1>4. ConnsMatchInFlight'
  BY <1>1, <1>3, SameBackends
<1>5. kind' = "tcp" => wg' = Cardinality(Live')
  BY <1>1, <1>2, FiniteSets, OneMore
<1> QED
  BY <1>1, <1>2, <1>4, <1>5

\* A connection is given to a backend and counted there.
LEMMA HandleCounts ==
    ASSUME Counted, NEW c \in Conn, Handle(c), UNCHANGED httpVars
    PROVE  Counted' /\ Live' = Live
<1> USE DEF Counted
<1>1. PICK y : y = Healthy[1]
  OBVIOUS
<1>2. /\ at' = [at EXCEPT ![c] = "dial"] /\ at[c] = "handle" /\ b' = [b EXCEPT ![c] = y]
      /\ activeConns' = [activeConns EXCEPT ![y] = @ + 1] /\ UNCHANGED <<wg, kind>>
  BY <1>1 DEF Handle, IncConns, httpVars
<1>3. Live' = Live
  BY <1>2 DEF Live
<1>4. c \notin InFlight(y) /\ InFlight(y)' = InFlight(y) \cup {c}
  BY <1>2 DEF InFlight
<1>5. ASSUME NEW x, x # y PROVE InFlight(x)' = InFlight(x)
  <2>1. \A d \in Conn : (at'[d] \in {"dial", "tunnel"} /\ b'[d] = x)
                          <=> (at[d] \in {"dial", "tunnel"} /\ b[d] = x)
    BY <1>2, <1>5, TCPAssumption
  <2> QED
    BY <2>1, Zenon DEF InFlight
<1>6. Cardinality(InFlight(y)') = Cardinality(InFlight(y)) + 1
  BY <1>4, FiniteSets, OneMore
<1>7. ASSUME NEW x \in Backend PROVE activeConns'[x] = Cardinality(InFlight(x)')
  <2> activeConns[x] = Cardinality(InFlight(x))
    BY Zenon DEF ConnsMatchInFlight
  <2>1. CASE x = y
    <3>1. activeConns'[x] = activeConns[x] + 1
      BY <1>2, <2>1
    <3> QED
      BY <1>6, <2>1, <3>1
  <2>2. CASE x # y
    BY <1>2, <1>5, <2>2 DEF ConnsMatchInFlight
  <2> QED
    BY <2>1, <2>2
<1>8. ConnsMatchInFlight'
  BY <1>7 DEF ConnsMatchInFlight
<1>9. activeConns' \in [Backend -> Int]
  <2>1. \A x \in Backend : activeConns'[x] \in Int
    BY <1>2
  <2> QED
    BY <1>2, <2>1
<1> QED
  BY <1>2, <1>3, <1>8, <1>9

\* The end of a handler that had no backend yet.
LEMMA HandleNoneCounts ==
    ASSUME Counted, NEW c \in Conn, HandleNone(c), UNCHANGED httpVars
    PROVE  Counted' /\ Live' = Live \ {c} /\ c \in Live
<1> USE DEF Counted
<1>1. /\ at' = [at EXCEPT ![c] = "closed"] /\ at[c] = "handle" /\ wg' = wg - 1
      /\ b' = [b EXCEPT ![c] = NoBackend] /\ UNCHANGED <<activeConns, kind>>
  BY DEF HandleNone, Exit, poolVars, httpVars
<1>2. Live' = Live \ {c} /\ c \in Live
  BY <1>1 DEF Live
<1>3. \A x : InFlight(x)' = InFlight(x)
  BY <1>1 DEF InFlight
<1>4. ConnsMatchInFlight'
  BY <1>1, <1>3, SameBackends
<1>5. kind' = "tcp" => wg' = Cardinality(Live')
  BY <1>1, <1>2, FiniteSets, OneLess
<1> QED
  BY <1>1, <1>2, <1>4, <1>5

\* The end of a handler, by a failed dial or at the end of its tunnel.
LEMMA ExitCounts ==
    ASSUME Counted, NEW c \in Conn, DialFails(c) \/ TunnelEnds(c), UNCHANGED httpVars
    PROVE  Counted' /\ Live' = Live \ {c} /\ c \in Live
<1> USE DEF Counted
<1>1. PICK y : y = b[c]
  OBVIOUS
<1>2. /\ at' = [at EXCEPT ![c] = "closed"] /\ at[c] \in {"dial", "tunnel"} /\ wg' = wg - 1
      /\ b' = [b EXCEPT ![c] = NoBackend]
      /\ activeConns' = [activeConns EXCEPT ![y] = @ - 1] /\ UNCHANGED kind
  BY <1>1 DEF DialFails, TunnelEnds, Exit, DecConns, httpVars
<1>3. Live' = Live \ {c} /\ c \in Live
  BY <1>2 DEF Live
<1>4. c \in InFlight(y) /\ InFlight(y)' = InFlight(y) \ {c}
  BY <1>1, <1>2 DEF InFlight
<1>5. ASSUME NEW x, x # y PROVE InFlight(x)' = InFlight(x)
  <2>1. \A d \in Conn : (at'[d] \in {"dial", "tunnel"} /\ b'[d] = x)
                          <=> (at[d] \in {"dial", "tunnel"} /\ b[d] = x)
    BY <1>1, <1>2, <1>5, TCPAssumption
  <2> QED
    BY <2>1, Zenon DEF InFlight
<1>6. Cardinality(InFlight(y)') = Cardinality(InFlight(y)) - 1
  BY <1>4, FiniteSets, OneLess
<1>7. ASSUME NEW x \in Backend PROVE activeConns'[x] = Cardinality(InFlight(x)')
  <2> activeConns[x] = Cardinality(InFlight(x))
    BY Zenon DEF ConnsMatchInFlight
  <2>1. CASE x = y
    <3>1. activeConns'[x] = activeConns[x] - 1
      BY <1>2, <2>1
    <3> QED
      BY <1>6, <2>1, <3>1
  <2>2. CASE x # y
    BY <1>2, <1>5, <2>2 DEF ConnsMatchInFlight
  <2> QED
    BY <2>1, <2>2
<1>8. ConnsMatchInFlight'
  BY <1>7 DEF ConnsMatchInFlight
<1>9. kind' = "tcp" => wg' = Cardinality(Live')
  BY <1>2, <1>3, FiniteSets, OneLess
<1>10. activeConns' \in [Backend -> Int]
  <2>1. \A x \in Backend : activeConns'[x] \in Int
    BY <1>2
  <2> QED
    BY <1>2, <2>1
<1> QED
  BY <1>2, <1>3, <1>8, <1>10, <1>9

\* Connections of an http.Server, which neither wg nor the backends count here.
LEMMA HTTPCounts ==
    ASSUME Counted, kind # "tcp", NEW c \in Conn,
           HTTPAccept(c) \/ HTTPUpgrade(c) \/ HTTPFinish(c)
    PROVE  Counted'
<1> USE DEF Counted
<1>1. /\ UNCHANGED <<b, activeConns, kind>>
      /\ at[c] \in {"new", "handle", "hijacked"}
      /\ \E p \in {"handle", "hijacked", "closed"} : at' = [at EXCEPT ![c] = p]
  BY DEF HTTPAccept, HTTPUpgrade, HTTPFinish, poolVars, httpVars
<1>2. \A x : InFlight(x)' = InFlight(x)
  BY <1>1 DEF InFlight
<1>3. ConnsMatchInFlight'
  BY <1>1, <1>2, SameBackends
<1> QED
  BY <1>1, <1>3

LEMMA StillCounts ==
    ASSUME Counted, UNCHANGED <<at, b, wg, activeConns, kind>>
    PROVE  Counted' /\ Live' = Live
BY DEF Counted, ConnsMatchInFlight, Live, InFlight

\* The steps that move no connection.
Still ==
    \/ Cancel \/ CloseListener \/ AcceptFails \/ Wait
    \/ ListenFails \/ LoopCloses
    \/ SelectDone \/ SelectErr \/ Drained \/ Timeout \/ Expired
    \/ AdminShutdown \/ AdminDrained \/ AdminReturns
    \/ \E c \in Conn, side \in Sides : CopyEnds(c, side)
    \/ \E x \in created, h \in Health : HealthWrite(x, h)

LEMMA StillStands ==
    ASSUME Still, kind' = kind
    PROVE  UNCHANGED <<at, b, wg, activeConns>>
BY DEF Still, Cancel, CloseListener, AcceptFails, Wait, ListenFails, LoopCloses, SelectDone,
       SelectErr, Drained, Timeout, Expired, AdminShutdown, AdminDrained, AdminReturns,
       CopyEnds, HealthWrite, SetHealth, Shutdown, ShutdownReturns, vars, poolVars, httpVars

LEMMA KindStays == [ServersNext]_svars => kind' = kind
BY DEF ServersNext, HTTPNext, HTTPAccept, HTTPUpgrade, HTTPFinish, ListenFails, LoopCloses,
       SelectDone, SelectErr, Drained, Timeout, Expired, AdminShutdown, AdminDrained,
       AdminReturns, Shutdown, ShutdownReturns, svars, httpVars

\* Every step is one of these.
LEMMA StepKinds ==
    ASSUME ServersNext
    PROVE  \/ Still
           \/ /\ UNCHANGED httpVars /\ kind = "tcp"
              /\ \E c \in Conn : Accept(c) \/ Handler(c)
           \/ /\ kind # "tcp"
              /\ \E c \in Conn : HTTPAccept(c) \/ HTTPUpgrade(c) \/ HTTPFinish(c)
BY DEF ServersNext, Next, HTTPNext, Still

LEMMA DialCounts ==
    ASSUME Counted, NEW c \in Conn, Dial(c), UNCHANGED httpVars
    PROVE  Counted' /\ Live' = Live
<1> USE DEF Counted
<1>1. /\ at' = [at EXCEPT ![c] = "tunnel"] /\ at[c] = "dial"
      /\ UNCHANGED <<b, wg, activeConns, kind>>
  BY DEF Dial, poolVars, httpVars
<1>2. Live' = Live
  BY <1>1 DEF Live
<1>3. \A x : InFlight(x)' = InFlight(x)
  BY <1>1 DEF InFlight
<1>4. ConnsMatchInFlight'
  BY <1>1, <1>3, SameBackends
<1> QED
  BY <1>1, <1>2, <1>4

LEMMA CountedStep == IndInv /\ [ServersNext]_svars => Counted'
<1> SUFFICES ASSUME IndInv, [ServersNext]_svars PROVE Counted'
  OBVIOUS
<1>1. Counted /\ kind' = kind
  BY KindStays DEF IndInv
<1>2. CASE Still
  BY <1>1, <1>2, StillStands, StillCounts
<1>3. ASSUME NEW c \in Conn, Accept(c) \/ Handler(c), UNCHANGED httpVars PROVE Counted'
  BY <1>1, <1>3, AcceptCounts, HandleNoneCounts, HandleCounts, DialCounts, ExitCounts DEF Handler
<1>4. ASSUME NEW c \in Conn, kind # "tcp", HTTPAccept(c) \/ HTTPUpgrade(c) \/ HTTPFinish(c)
      PROVE  Counted'
  BY <1>1, <1>4, HTTPCounts
<1>5. CASE UNCHANGED svars
  BY <1>1, <1>5, StillCounts DEF svars, vars
<1> QED
  BY <1>2, <1>3, <1>4, <1>5, StepKinds

LEMMA Inductive == ServersSpec => []IndInv
<1>1. IndInv /\ [ServersNext]_svars => IndInv'
  BY PhasesStep, CountedStep DEF IndInv
<1> QED
  BY InitInv, <1>1, PTL DEF ServersSpec

\* Each backend's ActiveConns is the number of TCP connections it serves, on every
\* path through handleConn, for any number of connections and backends.
THEOREM TCPConnsExact == ServersSpec => []ConnsMatchInFlight
BY Inductive, PTL DEF IndInv, Counted
-----------------------------------------------------------------------------
(* The end *)

\* The arms of Outcome exclude one another.
LEMMA OutcomeIs ==
    ASSUME Phases
    PROVE  Outcome =
             IF serve = "failed" \/ (kind = "admin" /\ loop = "failed") THEN "error"
             ELSE IF (kind = "admin" /\ shutdown = "done") \/ (kind # "admin" /\ serve = "returned")
                  THEN "clean" ELSE "serving"
BY DEF Outcome, Phases

LEMMA OutcomeIsNext ==
    ASSUME Phases'
    PROVE  Outcome' =
             IF serve' = "failed" \/ (kind' = "admin" /\ loop' = "failed") THEN "error"
             ELSE IF \/ kind' = "admin" /\ shutdown' = "done"
                     \/ kind' # "admin" /\ serve' = "returned"
                  THEN "clean" ELSE "serving"
BY DEF Outcome, Phases

\* A connection is taken, or is over, while the functions stand where they are.
LEMMA ConnSimulates ==
    ASSUME Phases, Phases', NEW c \in Conn,
           UNCHANGED <<listening, serve, kind, loop, shutdown>>,
           \/ Live' = Live
           \/ Live' = Live \ {c} /\ c \in Live
           \/ Live' = Live \cup {c} /\ c \notin Live /\ listening /\ serve = "accept"
    PROVE  [Promise!Next]_(Promise!vars)
<1>1. Outcome' = Outcome
  BY OutcomeIs, OutcomeIsNext
<1>2. CASE Live' = Live
  BY <1>1, <1>2 DEF Promise!vars
<1>3. CASE Live' = Live \ {c} /\ c \in Live
  BY <1>1, <1>3 DEF Promise!Next, Promise!Finish
<1>4. CASE Live' = Live \cup {c} /\ c \notin Live /\ listening /\ serve = "accept"
  BY <1>1, <1>4 DEF Promise!Next, Promise!Arrive
<1> QED
  BY <1>2, <1>3, <1>4

LEMMA TCPConnSimulates ==
    ASSUME IndInv, Phases', NEW c \in Conn, Accept(c) \/ Handler(c), UNCHANGED httpVars
    PROVE  [Promise!Next]_(Promise!vars)
<1>1. UNCHANGED <<listening, serve, kind, loop, shutdown>>
  BY DEF Accept, Handler, HandleNone, Handle, DialFails, Dial, TunnelEnds, httpVars
<1>2. \/ Live' = Live
      \/ Live' = Live \ {c} /\ c \in Live
      \/ Live' = Live \cup {c} /\ c \notin Live /\ listening /\ serve = "accept"
  <2>1. CASE Accept(c)
    BY <2>1, AcceptCounts DEF IndInv, Accept
  <2>2. CASE Handler(c)
    BY <2>2, HandleNoneCounts, HandleCounts, DialCounts, ExitCounts DEF Handler, IndInv
  <2> QED
    BY <2>1, <2>2
<1> QED
  BY <1>1, <1>2, ConnSimulates DEF IndInv

LEMMA HTTPConnSimulates ==
    ASSUME IndInv, Phases', kind # "tcp", NEW c \in Conn,
           HTTPAccept(c) \/ HTTPUpgrade(c) \/ HTTPFinish(c)
    PROVE  [Promise!Next]_(Promise!vars)
<1>1. UNCHANGED <<listening, serve, kind, loop, shutdown>>
  BY DEF HTTPAccept, HTTPUpgrade, HTTPFinish, httpVars
<1>2. CASE HTTPAccept(c)
  <2>1. Live' = Live \cup {c} /\ c \notin Live
    BY <1>2 DEF HTTPAccept, Live, IndInv, Counted
  <2>2. listening /\ serve = "accept"
    BY <1>2 DEF HTTPAccept, IndInv, Phases
  <2> QED
    BY <1>1, <2>1, <2>2, ConnSimulates DEF IndInv
<1>3. CASE HTTPUpgrade(c) \/ HTTPFinish(c)
  <2>1. Live' = Live \/ (Live' = Live \ {c} /\ c \in Live)
    BY <1>3 DEF HTTPUpgrade, HTTPFinish, Live, IndInv, Counted
  <2> QED
    BY <1>1, <2>1, ConnSimulates DEF IndInv
<1> QED
  BY <1>2, <1>3

\* The steps of the functions: each stands still, stops taking connections, or ends
\* the server, cleanly only when no connection is left.
LEMMA StillSimulates ==
    ASSUME IndInv, Phases', ServersNext, Still
    PROVE  [Promise!Next]_(Promise!vars)
<1> DEFINE stop == ~listening \/ serve # "accept"
<1>1. kind' = kind /\ Live' = Live
  BY KindStays, StillStands, StillCounts DEF IndInv
<1>2. SUFFICES \/ UNCHANGED <<stop, Outcome>>
               \/ ~stop /\ stop' /\ Outcome' = Outcome
               \/ Outcome = "serving" /\ Outcome' = "clean" /\ stop /\ stop' /\ Live = {}
               \/ Outcome = "serving" /\ Outcome' = "error" /\ stop'
  <2>1. CASE UNCHANGED <<stop, Outcome>>
    BY <1>1, <2>1 DEF Promise!vars
  <2>2. CASE ~stop /\ stop' /\ Outcome' = Outcome
    BY <1>1, <2>2 DEF Promise!Next, Promise!Stop
  <2>3. CASE Outcome = "serving" /\ Outcome' = "clean" /\ stop /\ stop' /\ Live = {}
    BY <1>1, <2>3 DEF Promise!Next, Promise!EndClean
  <2>4. CASE Outcome = "serving" /\ Outcome' = "error" /\ stop'
    BY <1>1, <2>4 DEF Promise!Next, Promise!EndError
  <2> QED
    BY <1>2, <2>1, <2>2, <2>3, <2>4
<1> USE <1>1, OutcomeIs, OutcomeIsNext DEF IndInv, Phases
<1>3. CASE kind = "tcp"
  <2>1. CASE Wait
    <3>1. Live = {}
      BY <1>3, <2>1, FiniteSets, FS_EmptySet DEF Wait, Counted
    <3> QED
      BY <1>3, <2>1, <3>1 DEF Wait
  <2>2. CASE AcceptFails
    BY <1>3, <2>2 DEF AcceptFails
  <2>3. CASE CloseListener
    BY <1>3, <2>3 DEF CloseListener
  <2>4. CASE ~(Wait \/ AcceptFails \/ CloseListener)
    <3>1. UNCHANGED <<listening, serve>>
      BY <1>3, <2>4 DEF ServersNext, Next, Cancel, Accept, Handler, HandleNone, Handle,
                        DialFails, Dial, TunnelEnds, CopyEnds, HealthWrite
    <3> QED
      BY <1>3, <3>1
  <2> QED
    BY <2>1, <2>2, <2>3, <2>4
<1>4. CASE kind # "tcp"
  <2>1. HTTPNext
    BY <1>4 DEF ServersNext
  <2>2. CASE ListenFails \/ LoopCloses
    BY <1>4, <2>2 DEF ListenFails, LoopCloses, vars
  <2>3. CASE SelectDone \/ SelectErr
    BY <1>4, <2>3 DEF SelectDone, SelectErr, Selecting, Shutdown, httpVars
  <2>4. CASE Drained
    BY <1>4, <2>4 DEF Drained, ShutdownReturns
  <2>5. CASE Timeout \/ Expired
    BY <1>4, <2>5 DEF Timeout, Expired, vars, httpVars
  <2>6. CASE AdminShutdown
    BY <2>6 DEF AdminShutdown, Shutdown
  <2>7. CASE AdminDrained
    BY <2>7 DEF AdminDrained, ShutdownReturns, vars
  <2>8. CASE AdminReturns
    BY <2>8 DEF AdminReturns, httpVars
  <2>9. CASE UNCHANGED <<listening, serve, loop, shutdown>>
    BY <2>9
  <2> QED
    BY <2>1, <2>2, <2>3, <2>4, <2>5, <2>6, <2>7, <2>8, <2>9
    DEF HTTPNext, HTTPAccept, HTTPUpgrade, HTTPFinish, Cancel, httpVars
<1> QED
  BY <1>3, <1>4

\* What EndsGracefully says of the steps, without its fairness.
EndsOnlyGracefully == Promise!Init /\ [][Promise!Next]_(Promise!vars)

\* TCPProxy.Serve, main, proxy.ListenAndServe and the admin server take no connection
\* once they stop and report a clean end only when none is in flight, for any number
\* of connections.
THEOREM RefinesGraceful == ServersSpec => EndsOnlyGracefully
<1>1. ServersInit => Promise!Init
  <2> SUFFICES ASSUME ServersInit PROVE Promise!Init
    OBVIOUS
  <2>1. Live = {}
    BY DEF ServersInit, Init, Live
  <2>2. Outcome = "serving"
    BY InitInv, OutcomeIs DEF IndInv, ServersInit, Init
  <2> QED
    BY <2>1, <2>2 DEF ServersInit, Init, Promise!Init
<1>2. IndInv /\ [ServersNext]_svars => [Promise!Next]_(Promise!vars)
  <2> SUFFICES ASSUME IndInv, [ServersNext]_svars PROVE [Promise!Next]_(Promise!vars)
    OBVIOUS
  <2>1. Phases'
    BY PhasesStep DEF IndInv
  <2>2. CASE ServersNext
    BY <2>1, <2>2, StepKinds, StillSimulates, TCPConnSimulates, HTTPConnSimulates
  <2>3. CASE UNCHANGED svars
    BY <2>3 DEF svars, vars, httpVars, Live, Outcome, Promise!vars
  <2> QED
    BY <2>2, <2>3
<1> QED
  BY <1>1, <1>2, Inductive, PTL DEF ServersSpec, EndsOnlyGracefully
=============================================================================
