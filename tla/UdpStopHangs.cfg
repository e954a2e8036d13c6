SPECIFICATION FairSpec
CONSTANTS
    m1 = m1
    m2 = m2
    near1 = near1
    near2 = near2
    far = far
    s1 = s1
    s2 = s2
    Mountpoints = {m1, m2}
    Sids = {s1}
    ANY = ANY
    NEAREST = NEAREST
    NoPlace = NoPlace
    Places = {near1}
    Preference <- PreferenceMap
    Beyond <- BeyondMap
    TTL = 0
    MaxBacklog = 1
PROPERTY
    StopReturns
CHECK_DEADLOCK FALSE
