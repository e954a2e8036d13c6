SPECIFICATION Spec
CONSTANTS
    m1 = m1
    m2 = m2
    m3 = m3
    other = other
    Absent = Absent
    OutOfRange = OutOfRange
    None = None
    Mountpoints = {m1, m2, m3}
    Names = {m1, m2, m3, other}
    Countries = {"BEL", "BE1"}
    AlphaCountries = {"BEL"}
    Degrees = {0, 50}
    Distance <- Distances
    Headers <- SomeHeaders
INVARIANTS
    TypeOK
    NearestIsFirstClosest
