\* Two calls at a time in one session, with text for two processes.
SPECIFICATION FairSpec
CONSTANTS
    k1 = k1  k2 = k2  s1 = s1  p1 = p1  p2 = p2
    NoPid = NoPid
    Calls <- TwoCalls
    Sessions <- OneSession
    Pids <- TwoPids
INVARIANTS
    TypeOK
    GuardsAgree
    PromptIsNeeded
PROPERTY
    EveryCallReturns
