------------------------------ MODULE TCPProxy ------------------------------
(***************************************************************************)
(* TCPProxy (internal/proxy/tcp.go): the accept loop of Serve with its      *)
(* WaitGroup and its shutdown, handleConn, and the two copying goroutines   *)
(* of tunnel, over the shared pool.                                         *)
(*                                                                          *)
(* The pool is scanned in one step here; its scan is taken apart in         *)
(* HTTPProxy.  A direction of a tunnel ends when the side it reads from     *)
(* closes or fails; CloseWrite then tells the other side.                   *)
(***************************************************************************)
EXTENDS Pool, FiniteSets

CONSTANTS
    Conn,       \* the client connections that may arrive, once each
    NoBackend   \* the nil *Backend

ASSUME TCPAssumption ==
    /\ IsFiniteSet(Conn)
    /\ NoBackend \notin Backend

VARIABLES
    ctxDone,    \* the context is cancelled
    listening,  \* the listener is open
    serve,      \* where Serve is: its loop, wg.Wait, or returned
    wg,         \* TCPProxy.wg
    at,         \* where the handler of each connection is
    b,          \* the backend it picked
    done        \* tunnel: the sides whose data has been copied to the end

vars == <<backends, created, health, activeConns,
          ctxDone, listening, serve, wg, at, b, done>>

Sides == {"client", "upstream"}

Init ==
    /\ NewPool
    /\ ctxDone = FALSE
    /\ listening = TRUE
    /\ serve = "accept"
    /\ wg = 0
    /\ at = [c \in Conn |-> "new"]
    /\ b = [c \in Conn |-> NoBackend]
    /\ done = [c \in Conn |-> {}]

\* Pool.Healthy
Healthy == SelectSeq(backends, IsHealthy)
-----------------------------------------------------------------------------
(* Serve *)

\* Accept returns a connection; wg.Add(1) and the go statement.  The listener
\* may be open still after the context was cancelled.
Accept(c) ==
    /\ serve = "accept" /\ listening
    /\ at[c] = "new"
    /\ wg' = wg + 1
    /\ at' = [at EXCEPT ![c] = "handle"]
    /\ UNCHANGED <<poolVars, ctxDone, listening, serve, b, done>>

Cancel ==
    /\ ~ctxDone
    /\ ctxDone' = TRUE
    /\ UNCHANGED <<poolVars, listening, serve, wg, at, b, done>>

\* The goroutine that waits for the context closes the listener.
CloseListener ==
    /\ ctxDone /\ listening
    /\ listening' = FALSE
    /\ UNCHANGED <<poolVars, ctxDone, serve, wg, at, b, done>>

\* Accept fails: after a cancellation Serve goes on to wait for the handlers,
\* otherwise it returns the error at once.
AcceptFails ==
    /\ serve = "accept"
    /\ serve' = IF ctxDone THEN "wait" ELSE "failed"
    /\ UNCHANGED <<poolVars, ctxDone, listening, wg, at, b, done>>

\* The Wait dropped.
WaitSkipped ==
    /\ serve = "wait"
    /\ serve' = "returned"
    /\ UNCHANGED <<poolVars, ctxDone, listening, wg, at, b, done>>

Wait ==
    /\ serve = "wait" /\ wg = 0
    /\ serve' = "returned"
    /\ UNCHANGED <<poolVars, ctxDone, listening, wg, at, b, done>>
-----------------------------------------------------------------------------
(* handleConn *)

\* The wg.Done forgotten.
ExitNoDone(c) ==
    /\ at' = [at EXCEPT ![c] = "closed"]
    /\ wg' = wg
    /\ b' = [b EXCEPT ![c] = NoBackend]
    /\ done' = [done EXCEPT ![c] = {}]

\* The deferred client.Close and wg.Done.
Exit(c) ==
    /\ at' = [at EXCEPT ![c] = "closed"]
    /\ wg' = wg - 1
    /\ b' = [b EXCEPT ![c] = NoBackend]
    /\ done' = [done EXCEPT ![c] = {}]

\* No healthy backend: the connection is closed.
HandleNone(c) ==
    /\ at[c] = "handle" /\ Healthy = <<>>
    /\ Exit(c)
    /\ UNCHANGED <<poolVars, ctxDone, listening, serve>>

\* The first healthy backend is taken and its connection counted.
Handle(c) ==
    /\ at[c] = "handle" /\ Healthy # <<>>
    /\ b' = [b EXCEPT ![c] = Healthy[1]]
    /\ IncConns(Healthy[1])
    /\ at' = [at EXCEPT ![c] = "dial"]
    /\ UNCHANGED <<ctxDone, listening, serve, wg, done>>

\* DecConns moved behind the dial's early return.
DialFailsNoDec(c) ==
    /\ at[c] = "dial"
    /\ Exit(c)
    /\ UNCHANGED <<poolVars, ctxDone, listening, serve>>

DialFails(c) ==
    /\ at[c] = "dial"
    /\ DecConns(b[c])
    /\ Exit(c)
    /\ UNCHANGED <<ctxDone, listening, serve>>

Dial(c) ==
    /\ at[c] = "dial"
    /\ at' = [at EXCEPT ![c] = "tunnel"]
    /\ UNCHANGED <<poolVars, ctxDone, listening, serve, wg, b, done>>

\* One side of the tunnel ends: its copy returns, CloseWrite, done <- struct{}{}.
CopyEnds(c, side) ==
    /\ at[c] = "tunnel" /\ side \notin done[c]
    /\ done' = [done EXCEPT ![c] = @ \cup {side}]
    /\ UNCHANGED <<poolVars, ctxDone, listening, serve, wg, at, b>>

\* Both receives from done: the handler returns.
TunnelEnds(c) ==
    /\ at[c] = "tunnel" /\ done[c] = Sides
    /\ DecConns(b[c])
    /\ Exit(c)
    /\ UNCHANGED <<ctxDone, listening, serve>>

HealthWrite(x, h) ==
    /\ SetHealth(x, h)
    /\ UNCHANGED <<ctxDone, listening, serve, wg, at, b, done>>
-----------------------------------------------------------------------------
Handler(c) ==
    HandleNone(c) \/ Handle(c) \/ DialFails(c) \/ Dial(c) \/ TunnelEnds(c)

Next ==
    \/ Cancel \/ CloseListener \/ AcceptFails \/ Wait
    \/ \E c \in Conn : Accept(c) \/ Handler(c) \/ \E side \in Sides : CopyEnds(c, side)
    \/ \E x \in created, h \in Health : HealthWrite(x, h)

Spec == Init /\ [][Next]_vars

-----------------------------------------------------------------------------
Live == {c \in Conn : at[c] \in {"handle", "dial", "tunnel"}}

InFlight(x) == {c \in Conn : at[c] \in {"dial", "tunnel"} /\ b[c] = x}

\* Each connection is counted on its backend from the pick to the end of the
\* handler, on every path through handleConn.
ConnsMatchInFlight ==
    \A x \in Backend : activeConns[x] = Cardinality(InFlight(x))
=============================================================================
