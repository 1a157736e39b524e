CONSTANTS
    fan = fan
    ann = ann
    bob = bob
    grp = grp
    sick = sick
    m1 = m1
    m2 = m2
    None = None
    Subs = {fan}
    Queues = {}
    Queue <- MCFanout
    Pattern <- MCFanoutPattern
    Subject <- MCSubject
    Calls = {m1, m2}
    MaxDeliver = 2
    FailureThreshold = 1
    Cooldown = 1
    MaxTime = 2
SPECIFICATION Spec
INVARIANTS
    OneTrial
CHECK_DEADLOCK FALSE
