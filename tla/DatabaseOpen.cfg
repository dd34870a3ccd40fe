SPECIFICATION Spec
CONSTANTS
    i1 = i1
    i2 = i2
    i3 = i3
    i4 = i4
    i5 = i5
    i6 = i6
    p1 = p1
    p2 = p2
    Process = {p1, p2}
    Inode = {i1, i2, i3, i4, i5, i6}
    Absent = Absent
    NoDb = NoDb
    NumMigrations = 3
    Repeatable <- MCRepeatable
    LegacyVersion = 1
    MaxFaults = 2
INVARIANTS
    TypeOK
    OnlyAStaleLookLoses
    TriageLostOnlyToAMove
    OnlyRaceOrMisreadBreaksOpen
CHECK_DEADLOCK FALSE
