----------------------------- MODULE MCFrontend -----------------------------
(* The three routers and the middleware chain.  Nothing relates the four, so   *)
(* one behaviour fills one of them.                                           *)
EXTENDS RuleRouters, Middleware

FrontendInit == RouterInit /\ NewChain

Filled ==
    {c \in 1..4 : CASE c = 1 -> rules # <<>>
                    [] c = 2 -> headerRules # <<>>
                    [] c = 3 -> DOMAIN hostRules # {}
                    [] c = 4 -> stack # <<>>}

FrontendNext ==
    /\ \/ RouterNext /\ UNCHANGED stack
       \/ (\E name \in Names : Chain(name)) /\ UNCHANGED routerVars
    /\ Cardinality(Filled') <= 1

FrontendSpec == FrontendInit /\ [][FrontendNext]_<<routerVars, stack>>
=============================================================================
