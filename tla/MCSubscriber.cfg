CONSTANTS
    Sub = {s1, s2}
    r1 = r1
    r2 = r2
    r3 = r3
    Managers <- MCManagers
    MaxCrashes = 2
SPECIFICATION Spec
INVARIANT SubscribedTopicExists
INVARIANT LeakOnlyOnFault
PROPERTY RunEnds
CHECK_DEADLOCK FALSE
