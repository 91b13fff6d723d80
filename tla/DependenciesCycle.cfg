SPECIFICATION DependenciesSpec
CONSTANTS
    t1 = t1
    t2 = t2
    t3 = t3
    r1 = r1
    r2 = r2
    None = None
    Tasks = {t1, t2, t3}
    Editors = {r1, r2}
INVARIANTS DependenciesAcyclic
CHECK_DEADLOCK FALSE
