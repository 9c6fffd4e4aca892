-------------------------- MODULE GracefulShutdown --------------------------
(***************************************************************************)
(* What a server promises about its end, whatever it is made of: it takes   *)
(* requests until it stops, none afterwards; it reports a clean end only    *)
(* when nothing is in flight any more; and a stopped server with nothing    *)
(* left in flight does end.  Requests still in flight may finish behind an  *)
(* end with an error.                                                       *)
(***************************************************************************)
CONSTANT Conn

VARIABLES
    stopping,   \* no request is taken any more
    inFlight,   \* the requests taken and not finished
    outcome     \* "serving", then "clean" or "error"

vars == <<stopping, inFlight, outcome>>

Init ==
    /\ stopping = FALSE
    /\ inFlight = {}
    /\ outcome = "serving"

Arrive(c) ==
    /\ ~stopping /\ c \notin inFlight
    /\ inFlight' = inFlight \cup {c}
    /\ UNCHANGED <<stopping, outcome>>

Finish(c) ==
    /\ c \in inFlight
    /\ inFlight' = inFlight \ {c}
    /\ UNCHANGED <<stopping, outcome>>

Stop ==
    /\ ~stopping
    /\ stopping' = TRUE
    /\ UNCHANGED <<inFlight, outcome>>

EndClean ==
    /\ outcome = "serving" /\ stopping /\ inFlight = {}
    /\ outcome' = "clean"
    /\ UNCHANGED <<stopping, inFlight>>

EndError ==
    /\ outcome = "serving"
    /\ outcome' = "error"
    /\ stopping' = TRUE
    /\ UNCHANGED inFlight

Next ==
    \/ \E c \in Conn : Arrive(c) \/ Finish(c)
    \/ Stop \/ EndClean \/ EndError

\* Nothing makes a request finish; once all have, the end is due.
Spec == Init /\ [][Next]_vars /\ WF_vars(EndClean \/ (stopping /\ inFlight = {} /\ EndError))
=============================================================================
