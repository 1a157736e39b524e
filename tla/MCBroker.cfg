CONSTANTS
    fan = fan
    ann = ann
    bob = bob
    grp = grp
    sick = sick
    m1 = m1
    m2 = m2
    None = None
    Subs = {fan, ann, bob, sick}
    Queues = {grp}
    Queue <- MCGroup
    Pattern <- MCPattern
    Subject <- MCSubjects
    Calls = {m1, m2}
    MaxDeliver = 2
    FailureThreshold = 2
    Cooldown = 1
    MaxTime = 1
SPECIFICATION FairSpec
INVARIANTS
    TypeOK
    NothingVanishes
    HalfOpenHasTrial
PROPERTIES
    PublishReturns
    RefusedOnlyWithReason
    ReachesTheEntitled
CHECK_DEADLOCK FALSE
