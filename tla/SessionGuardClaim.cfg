\* Does a dispatch guard keep its session alive?
SPECIFICATION Spec
CONSTANTS
    s1 = s1  s2 = s2  o1 = o1  o2 = o2  c1 = c1  c2 = c2  sweeper = sweeper
    Sweeper <- sweeper
    Sessions <- OneSession
    Owners <- OneOwner
    Callers <- TwoCallers
    Hooks <- OneHook
    MayFail <- NoHook
    Policies <- NoPolicy
INVARIANT
    GuardKeepsSession
