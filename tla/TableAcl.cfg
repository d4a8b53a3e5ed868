SPECIFICATION Spec
CONSTANTS
    Words = {"", "a", "b", "$s"}
    Reserved = {"$s"}
    EmptyWord = ""
    MaxLevels = 3
    MaxDepth = 4
    UserNames = {u1, u2}
    Passwords = {w1, w2}
    Roles = {r1, r2}
    MaxUsers = 2
    MaxRules = 2
    FewPatterns <- MCFewPatterns
    FewSubjects <- MCFewSubjects
SYMMETRY MCSymmetry
INVARIANTS
    CoversComplete
    DecidedByRules
    GrantHolds
