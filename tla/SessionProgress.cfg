\* Liveness of the ends and of the sweep over two sessions; hooks that succeed.
SPECIFICATION FairSpec
CONSTANTS
    s1 = s1  s2 = s2  o1 = o1  o2 = o2  c1 = c1  c2 = c2  sweeper = sweeper
    Sweeper <- sweeper
    Sessions <- TwoSessions
    Owners <- OneOwner
    Callers <- OneCaller
    Hooks <- OneHook
    MayFail <- NoHook
    Policies <- NoPolicy
PROPERTIES
    IdleSessionIsReclaimed
    PendingEndIsCarriedOut
    CleanupFinishes
