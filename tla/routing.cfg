SPECIFICATION FrontendSpec
CONSTANTS
    Segment = {"a", "b"}
    PoolName = {"p", "q"}
    MaxLen = 2
    MaxRules = 3
    MaxChain = 5
    Header = {"h", "k"}
    Value = {"u"}
    HostName = {"n", "m"}
    Port = {"80"}
CHECK_DEADLOCK FALSE
INVARIANTS
    MatchIsDeepest
    RulesArriveBehindTimeout
    EncodingDeclared
    RequestsAccounted
    NoTruncated200

    
