----------------------------- MODULE Middleware -----------------------------
(***************************************************************************)
(* The middleware chain: Chain and TimeoutMiddleware                        *)
(* (internal/proxy/middleware.go), AccessLogger, RequestID, HeaderRewriter, *)
(* SecurityHeaders and GzipMiddleware (internal/middleware),                *)
(* InstrumentHandler (internal/metrics/middleware.go) and ShadowMiddleware  *)
(* (internal/routing/shadow.go), around HTTPProxy, in any order.            *)
(*                                                                          *)
(* One request is one evaluation of Serve.  It threads an exchange through  *)
(* the chain: on the way in a middleware changes what the inner ones see,   *)
(* on the way out it sees what they left.  http.TimeoutHandler, external,   *)
(* gives the inner handlers a writer of their own and copies that to the    *)
(* outer one when they return in time.                                      *)
(***************************************************************************)
EXTENDS Integers, Sequences, FiniteSets

CONSTANT MaxChain   \* bound: middlewares in a chain

VARIABLE stack      \* the middlewares around HTTPProxy, outermost first

Names == {"AccessLogger", "RequestID", "HeaderRewriter", "SecurityHeaders",
          "Gzip", "Instrument", "Timeout", "Shadow"}

Wraps(name) == \E k \in 1..Len(stack) : stack[k] = name

NewChain == stack = <<>>

\* One turn of Chain's loop, which goes from the last middleware to the first.
Chain(name) ==
    /\ ~Wraps(name) /\ Len(stack) < MaxChain
    /\ stack' = <<name>> \o stack

ChainSpec == NewChain /\ [][\E name \in Names : Chain(name)]_stack
-----------------------------------------------------------------------------
(* Requests, rules and exchanges *)

\* What the upstream does: answers, fails, breaks off in the middle of the body,
\* begins to answer only after the deadline of a timeout, has begun but not finished
\* by then, or agrees to an upgrade.  A TimeoutHandler may find its deadline passed
\* before it finds the inner handlers back, whatever the upstream did; or the other
\* way round.
Request ==
    {r \in [upstream : {"answers", "fails", "aborts", "late", "streams", "upgrades"},
            expires : BOOLEAN,    \* the TimeoutHandler, if any, sees its deadline first
            gzip : BOOLEAN,       \* Accept-Encoding: gzip, which goes upstream too
            encoded : 0..1] :     \* the upstream's own Content-Encoding
        r.encoded = 1 => r.gzip}

\* The rules of one HeaderRewriter; the upstream sends a Server header.
Adds == {"Via"}
Removes == {"Server", "Cache-Control"}
Sets == {"Cache-Control"}

NotSent == [status |-> 0, header |-> {}, encoding |-> 0, coded |-> 0]

\* An exchange at the writer of net/http or of a TimeoutHandler.
Fresh == [header |-> {},        \* the header map, but for Content-Encoding:
          encoding |-> 0,       \* the number of its values
          status |-> 0,         \* the last code that passed the recorders
          sent |-> NotSent,     \* the first response written
          coders |-> 0,         \* gzip writers around the handler
          bare |-> TRUE,        \* the handler sees the writer of net/http itself
          panics |-> FALSE,
          mirrored |-> FALSE,   \* a Shadow goroutine may be reading the request's headers
          raced |-> FALSE,      \* they were written meanwhile
          logged |-> <<>>,      \* status of each line of AccessLogger
          counted |-> <<>>,     \* class counted by InstrumentHandler, by status
          active |-> 0]         \* the ActiveConns gauge

\* The length left in place.
DelLengthSkipped(x) == x

\* gzipResponseWriter.WriteHeader
DelLength(x) ==
    IF x.coders = 0 THEN x ELSE [x EXCEPT !.header = @ \ {"Content-Length"}]

\* WriteHeader(code), with the code kept by every recorder on the way out, and
\* Write of a body that is encoded already n times.
Write(x, code, n) ==
    LET y == DelLength(x)
    IN  [y EXCEPT !.status = code,
                  !.sent = IF @ # NotSent THEN @ ELSE
                             [status |-> code, header |-> y.header,
                              encoding |-> y.encoding, coded |-> n + y.coders]]

\* The body breaks off, by itself or because a deadline ends the request's context.
Breaks(r) == r.upstream = "aborts" \/ (r.upstream = "streams" /\ Wraps("Timeout"))

\* ReverseProxy copies the upstream's headers, adding its values, and writes; an
\* error, also the end of the context at a timeout, goes to ErrorHandler.  A body
\* that breaks off makes it panic.  To upgrade it needs the writer of net/http.
Proxy(r, x) ==
    LET answer == Write([x EXCEPT !.header = @ \cup {"Content-Length", "Server"},
                                  !.encoding = @ + r.encoded], 200, r.encoded)
    IN  CASE Breaks(r) -> [answer EXCEPT !.panics = TRUE]
          [] r.upstream = "answers" -> answer
          [] r.upstream \in {"late", "streams"} /\ ~Wraps("Timeout") -> answer
          [] r.upstream = "upgrades" /\ x.bare -> Write(x, 101, 0)
          [] OTHER -> Write(x, 502, 0)

\* The code a recorder ends up with: 200 unless one was written.
Recorded(y) == IF y.status = 0 THEN 200 ELSE y.status

\* TimeoutHandler: the inner exchange is dropped at the timeout, but goes on, and a
\* panic ends with it; else a panic goes on outwards, or the header entries replace
\* the outer ones and the response is written.
Timeout(x, y, expires) ==
    LET kept == [x EXCEPT !.logged = y.logged, !.counted = y.counted, !.active = y.active,
                          !.raced = @ \/ y.raced]
    IN  CASE expires -> Write(kept, 503, 0)
          [] ~expires /\ y.panics -> [kept EXCEPT !.panics = TRUE]
          [] OTHER -> Write([kept EXCEPT !.header = @ \cup y.header,
                                         !.encoding = IF y.encoding = 0 THEN @ ELSE y.encoding],
                            y.sent.status, y.sent.coded)
-----------------------------------------------------------------------------
(* The middlewares: In on the way to the next handler, Out on the way back *)

\* r.Header.Set goes to the map that r.WithContext shares with its original.
RequestID(x) ==
    [x EXCEPT !.header = @ \cup {"X-Request-ID"}, !.raced = @ \/ x.mirrored]

\* The goroutine is on its way, with the request's header map, when next is called.
Shadow(x) == [x EXCEPT !.mirrored = TRUE]

\* The writer handed on hides all but the three methods of a ResponseWriter.
newResponseRecorder(x) == [x EXCEPT !.bare = FALSE]

InstrumentIn(x) == [x EXCEPT !.bare = FALSE, !.active = @ + 1]

\* minBytes is not looked at.
GzipMiddleware(r, x) ==
    IF ~r.gzip THEN x
    ELSE [x EXCEPT !.encoding = 1, !.header = @ \ {"Content-Length"},
                   !.coders = @ + 1, !.bare = FALSE]

\* The writer a TimeoutHandler gives to the inner handlers.
TimeoutMiddleware(x) ==
    [Fresh EXCEPT !.bare = FALSE, !.logged = x.logged, !.counted = x.counted,
                  !.active = x.active, !.mirrored = x.mirrored]

In(name, r, x) ==
    CASE name = "RequestID" -> RequestID(x)
      [] name = "Shadow" -> Shadow(x)
      [] name = "AccessLogger" -> newResponseRecorder(x)
      [] name = "Instrument" -> InstrumentIn(x)
      [] name = "Gzip" -> GzipMiddleware(r, x)
      [] name = "Timeout" -> TimeoutMiddleware(x)
      [] OTHER -> x

\* The sets before the removes.
RewriteSetsFirst(y) == [y EXCEPT !.header = (@ \cup Adds \cup Sets) \ Removes]

\* HeaderRewriter.Middleware, after next.ServeHTTP
Rewrite(y) == [y EXCEPT !.header = ((@ \cup Adds) \ Removes) \cup Sets]

\* The Dec of the gauge after ServeHTTP instead of deferred.
InstrumentUndeferred(y) ==
    IF y.panics THEN y
    ELSE [y EXCEPT !.active = @ - 1, !.counted = Append(@, Recorded(y))]

\* The counters deferred too, in a function that recovers.
InstrumentRecovers(y) ==
    [y EXCEPT !.active = @ - 1, !.counted = Append(@, Recorded(y)), !.panics = FALSE]

\* InstrumentHandler: the Dec is deferred; the counters are not.
InstrumentOut(y) ==
    IF y.panics THEN [y EXCEPT !.active = @ - 1]
    ELSE [y EXCEPT !.active = @ - 1, !.counted = Append(@, Recorded(y))]

AccessLogger(y) == [y EXCEPT !.logged = Append(@, Recorded(y))]

\* One of the four headers stands for all.
SecurityHeaders(y) == [y EXCEPT !.header = @ \cup {"X-Frame-Options"}]

\* x is the exchange before In, y the one the next handler left.
Out(name, r, x, y) ==
    CASE name = "Instrument" -> InstrumentOut(y)
      [] name = "Timeout" -> Timeout(x, y, r.expires)
      [] name = "AccessLogger" /\ ~y.panics -> AccessLogger(y)
      [] name = "HeaderRewriter" /\ ~y.panics -> Rewrite(y)
      [] name = "SecurityHeaders" /\ ~y.panics -> SecurityHeaders(y)
      [] OTHER -> y

\* What the handlers get, from the outermost to HTTPProxy, and what they leave, from
\* HTTPProxy to the outermost.
Serve(r) ==
    LET n == Len(stack)
        entered[k \in 0..n] ==
          IF k = 0 THEN Fresh ELSE In(stack[k], r, entered[k - 1])
        left[k \in 0..n] ==
          IF k = 0 THEN Proxy(r, entered[n])
          ELSE Out(stack[n - k + 1], r, entered[n - k], left[k - 1])
    IN  left[n]
-----------------------------------------------------------------------------
\* outer is somewhere outside inner.
Encloses(outer, inner) ==
    \E j, k \in 1..Len(stack) : j < k /\ stack[j] = outer /\ stack[k] = inner

\* A TimeoutHandler answered instead of the handlers inside it.
Expired(r) == r.expires /\ Wraps("Timeout")

\* The rules of HeaderRewriter and SecurityHeaders run when the next handler has
\* written.  They reach the client behind a TimeoutMiddleware, which holds the
\* headers back: then every rule has its effect, a set winning over a remove.
RulesArriveBehindTimeout ==
    \A r \in Request :
        LET y == Serve(r)
            header == y.sent.header
        IN  ~y.panics /\ ~Expired(r) =>
              /\ Encloses("Timeout", "HeaderRewriter") =>
                   Adds \cup Sets \subseteq header /\ header \cap Removes \subseteq Sets
              /\ Encloses("Timeout", "SecurityHeaders") => "X-Frame-Options" \in header

\* The response says how its body is encoded, and gives a length only when nobody
\* encoded it on the way; except that a TimeoutHandler inside GzipMiddleware puts
\* the upstream's Content-Encoding in the place of the outer one.
EncodingDeclared ==
    \A r \in Request :
        LET y == Serve(r)
            sent == y.sent
        IN  \/ y.panics
            \/ /\ sent.encoding = sent.coded
               /\ "Content-Length" \in sent.header => sent.coded = r.encoded
            \/ Encloses("Gzip", "Timeout") /\ r.encoded = 1

\* A panic of ReverseProxy passes the middleware, not ended by a timeout inside it.
PanicPasses(r, name) == Breaks(r) /\ ~(r.expires /\ Encloses(name, "Timeout"))

\* Whatever becomes of a request, the gauge goes back to zero, and nobody writes
\* the header map that a Shadow goroutine reads, which would end the process; a
\* RequestID inside ShadowMiddleware does.  A recorder that no panic passes logs or
\* counts the request once, with the status the client gets, unless a timeout
\* around the recorder answered first.
RequestsAccounted ==
    \A r \in Request :
        LET y == Serve(r)
            Right(name, seen) ==
              Wraps(name) /\ ~PanicPasses(r, name) =>
                /\ Len(seen) = 1
                /\ seen[1] = y.sent.status \/ (r.expires /\ Encloses("Timeout", name))
        IN  /\ y.active = 0
            /\ y.raced => Encloses("Shadow", "RequestID")
            /\ Right("AccessLogger", y.logged)
            /\ Right("Instrument", y.counted)

\* A 200 that is not broken off by a panic carries the whole body of the upstream: one
\* that the upstream or a deadline cut short never ends as if it were complete, in
\* whatever order the middlewares and the panic meet, and behind a timeout that
\* answered there is no 200 at all.
NoTruncated200 ==
    \A r \in Request :
        LET y == Serve(r)
        IN  ~y.panics /\ y.sent.status = 200 =>
              /\ r.upstream \in {"answers", "late", "streams"}
              /\ Wraps("Timeout") => r.upstream = "answers" /\ ~r.expires
=============================================================================
