------------------------------- MODULE Servers -------------------------------
(***************************************************************************)
(* The four ways in which the repository runs a server until a context is   *)
(* cancelled, one per behaviour:                                            *)
(*   "tcp"      TCPProxy.Serve (module TCPProxy);                            *)
(*   "main"     func main around its http.Server (cmd/gobalancer/main.go);   *)
(*   "library"  proxy.ListenAndServe (internal/proxy/http.go);               *)
(*   "admin"    Server.Start (internal/admin/server.go).                     *)
(* The last three share http.Server, which is external: ListenAndServe takes *)
(* connections until it fails or Shutdown is called, and then returns at     *)
(* once; Shutdown closes the listener and waits for the requests in flight,  *)
(* or until its context ends.                                                *)
(*                                                                           *)
(* serve is where the function under test is; at[c] = "handle" while an       *)
(* http.Server tracks the connection, idle ones being closed by Shutdown.    *)
(***************************************************************************)
EXTENDS TCPProxy

VARIABLES
    kind,       \* the function under test
    loop,       \* srv.ListenAndServe: "running", "closed" (ErrServerClosed) or "failed"
    shutdown,   \* srv.Shutdown: "no", "waiting" or "done"
    timeUp      \* the 30 seconds of main's shutCtx are over

httpVars == <<kind, loop, shutdown, timeUp>>
svars == <<vars, httpVars>>

ServersInit ==
    /\ Init
    /\ kind \in {"tcp", "main", "library", "admin"}
    /\ loop = "running" /\ shutdown = "no" /\ timeUp = FALSE

\* The function returned, with an error or without; main ends the process.
Over == serve \in {"returned", "failed"}
Exited == kind = "main" /\ Over
-----------------------------------------------------------------------------
(* http.Server *)

\* A connection that came in before the listener was closed.
HTTPAccept(c) ==
    /\ loop = "running" /\ listening /\ at[c] = "new"
    /\ at' = [at EXCEPT ![c] = "handle"]
    /\ UNCHANGED <<poolVars, ctxDone, listening, serve, wg, b, done, httpVars>>

\* ReverseProxy answers an upgrade by taking the connection out of the hands of
\* the server, which no longer waits for it.
HTTPUpgrade(c) ==
    /\ kind # "admin" /\ at[c] = "handle"
    /\ at' = [at EXCEPT ![c] = "hijacked"]
    /\ UNCHANGED <<poolVars, ctxDone, listening, serve, wg, b, done, httpVars>>

HTTPFinish(c) ==
    /\ at[c] \in {"handle", "hijacked"}
    /\ at' = [at EXCEPT ![c] = "closed"]
    /\ UNCHANGED <<poolVars, ctxDone, listening, serve, wg, b, done, httpVars>>

\* The address is taken, or Accept fails for good; handlers that run go on.
ListenFails ==
    /\ loop = "running" /\ shutdown = "no"
    /\ loop' = "failed" /\ listening' = FALSE
    /\ UNCHANGED <<poolVars, ctxDone, serve, wg, at, b, done, kind, shutdown, timeUp>>

LoopCloses ==
    /\ loop = "running" /\ shutdown # "no"
    /\ loop' = "closed"
    /\ UNCHANGED <<vars, kind, shutdown, timeUp>>

Shutdown ==
    /\ shutdown = "no"
    /\ shutdown' = "waiting" /\ listening' = FALSE
    /\ UNCHANGED <<poolVars, ctxDone, wg, at, b, done, kind, loop, timeUp>>

ShutdownReturns ==
    /\ shutdown = "waiting" /\ Live = {}
    /\ shutdown' = "done"
-----------------------------------------------------------------------------
(* main and proxy.ListenAndServe *)

Selecting == kind \in {"main", "library"} /\ serve = "accept"

\* case <-ctx.Done(): both call Shutdown, main with a timeout.
SelectDone ==
    /\ Selecting /\ ctxDone
    /\ serve' = "wait"
    /\ Shutdown

\* case err := <-errC: the error of a failed ListenAndServe is passed on.
SelectErr ==
    /\ Selecting /\ loop # "running"
    /\ serve' = IF loop = "failed" THEN "failed" ELSE "returned"
    /\ UNCHANGED <<poolVars, ctxDone, listening, wg, at, b, done, httpVars>>

Drained ==
    /\ kind \in {"main", "library"} /\ serve = "wait"
    /\ ShutdownReturns
    /\ serve' = "returned"
    /\ UNCHANGED <<poolVars, ctxDone, listening, wg, at, b, done, kind, loop, timeUp>>

\* context.Background() in main, as in proxy.ListenAndServe.
NoTimeout == FALSE

\* context.WithTimeout(context.Background(), 30*time.Second)
Timeout ==
    /\ kind = "main" /\ serve = "wait" /\ ~timeUp
    /\ timeUp' = TRUE
    /\ UNCHANGED <<vars, kind, loop, shutdown>>

\* Shutdown returns the error of its context; main exits with status 1.
Expired ==
    /\ serve = "wait" /\ timeUp
    /\ serve' = "failed"
    /\ UNCHANGED <<poolVars, ctxDone, listening, wg, at, b, done, httpVars>>
-----------------------------------------------------------------------------
(* Server.Start *)

\* The goroutine that waits for the context, also behind a failed Start.
AdminShutdown ==
    /\ kind = "admin" /\ ctxDone
    /\ Shutdown
    /\ UNCHANGED serve

AdminDrained ==
    /\ kind = "admin"
    /\ ShutdownReturns
    /\ UNCHANGED <<vars, kind, loop, timeUp>>

\* Start returns with its ListenAndServe, whether or not Shutdown has.
AdminReturns ==
    /\ kind = "admin" /\ serve = "accept" /\ loop # "running"
    /\ serve' = IF loop = "failed" THEN "failed" ELSE "returned"
    /\ UNCHANGED <<poolVars, ctxDone, listening, wg, at, b, done, httpVars>>
-----------------------------------------------------------------------------
HTTPNext ==
    \/ \E c \in Conn : HTTPAccept(c) \/ HTTPUpgrade(c) \/ HTTPFinish(c)
    \/ ListenFails \/ LoopCloses
    \/ SelectDone \/ SelectErr \/ Drained \/ Timeout \/ Expired
    \/ AdminShutdown \/ AdminDrained \/ AdminReturns
    \/ Cancel /\ UNCHANGED httpVars

ServersNext ==
    \/ kind = "tcp" /\ Next /\ UNCHANGED httpVars
    \/ kind # "tcp" /\ ~Exited /\ HTTPNext

\* The goroutines run and timers fire.  Whether a tunnel or a handler ever ends
\* is up to its peers.
ServersSpec ==
    /\ ServersInit /\ [][ServersNext]_svars
    /\ WF_svars(kind = "tcp" /\ (CloseListener \/ Wait \/ (~listening /\ AcceptFails))
                /\ UNCHANGED httpVars)
    /\ \A c \in Conn : WF_svars(kind = "tcp" /\ Handler(c) /\ UNCHANGED httpVars)
    /\ WF_svars(~Exited /\ LoopCloses)
    /\ WF_svars(SelectDone \/ SelectErr \/ Drained \/ Timeout \/ Expired)
    /\ WF_svars(AdminShutdown \/ AdminDrained)
    /\ WF_svars(AdminReturns)
-----------------------------------------------------------------------------
Outcome ==
    CASE serve = "failed" \/ (kind = "admin" /\ loop = "failed") -> "error"
      [] kind = "admin" /\ loop # "failed" /\ shutdown = "done" -> "clean"
      [] kind # "admin" /\ serve = "returned" -> "clean"
      [] OTHER -> "serving"

Promise == INSTANCE GracefulShutdown WITH
    stopping <- ~listening \/ serve # "accept",
    inFlight <- Live,
    outcome <- Outcome

\* Serve, main and proxy.ListenAndServe keep the promise of GracefulShutdown:
\* nil, and exit status 0, mean that every connection taken, also one accepted
\* while the context was being cancelled, has been handled to its end or was
\* upgraded.  For the admin server its Shutdown keeps it: Start returns before.
EndsGracefully == Promise!Spec

RequestsEnd == \A c \in Conn : c \in Live ~> c \notin Live

\* A cancelled server returns, provided its connections end some day: but for
\* main no wait has a timeout, and nothing but its peers ends a connection.
ShutdownCompletes == RequestsEnd => (ctxDone ~> Over)

\* main ends after a signal whatever its requests do.
MainExits == kind = "main" /\ ctxDone ~> Over
=============================================================================
