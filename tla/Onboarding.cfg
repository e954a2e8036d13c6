SPECIFICATION Spec
CONSTANTS
    u1 = u1
    u2 = u2
    alice = alice
    bob = bob
    r1 = r1
    r2 = r2
    Users = {u1, u2}
    People = {alice, bob}
    Runs = {r1, r2}
    MaxStarts = 3
    None = None
SYMMETRY BotSymmetry
INVARIANTS
    PasswordsReachOwners
PROPERTIES
    OwnersPinned
    OnboardedMeansStored
CHECK_DEADLOCK FALSE
