----------------------------- MODULE MCServers -----------------------------
(* Small instances of Servers:  two backends, three connections.             *)
EXTENDS Servers, TLC

CONSTANTS b1, b2

TwoConfigured == <<b1, b2>>
OwnID == b1 :> "x" @@ b2 :> "y"
=============================================================================
