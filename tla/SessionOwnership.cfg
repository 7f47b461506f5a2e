\* One id, two transports that both use it, two calls at a time and the sweep; two
\* cleanup hooks, one of which may fail.
SPECIFICATION Spec
CONSTANTS
    s1 = s1  s2 = s2  o1 = o1  o2 = o2  c1 = c1  c2 = c2  sweeper = sweeper
    Sweeper <- sweeper
    Sessions <- OneSession
    Owners <- TwoOwners
    Callers <- TwoCallers
    Hooks <- TwoHooks
    MayFail <- OneHook
    Policies <- LegacyAuto
SYMMETRY CallersAndOwners
INVARIANTS
    TypeOK
    TablesAgree
    PolicyDiesWithSession
    OnlyHolderEndsOrCleans
PROPERTY
    ImplementsEpisode
