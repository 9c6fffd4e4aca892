---------------------------- MODULE AtomicRegistry ----------------------------
(***************************************************************************)
(* What a registry promises: a Get is one indivisible step, which returns   *)
(* the object of the ID and makes one, used for no other ID, if there is    *)
(* none yet.                                                                *)
(***************************************************************************)
CONSTANTS BackendID, Breaker, Nil

VARIABLES
    breakers,   \* ID -> its object, or Nil
    got         \* every pair <<ID, object>> that a Get returned

vars == <<breakers, got>>

Init ==
    /\ breakers = [id \in BackendID |-> Nil]
    /\ got = {}

Unused(b) == \A id \in BackendID : breakers[id] # b

Get(id) ==
    /\ \/ breakers[id] # Nil /\ breakers' = breakers
       \/ /\ breakers[id] = Nil
          /\ \E b \in Breaker : Unused(b) /\ breakers' = [breakers EXCEPT ![id] = b]
    /\ got' = got \cup {<<id, breakers'[id]>>}

Next == \E id \in BackendID : Get(id)

Spec == Init /\ [][Next]_vars
=============================================================================
