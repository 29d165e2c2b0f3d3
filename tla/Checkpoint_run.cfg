SPECIFICATION CheckpointSpec
CONSTANTS
    w1 = w1  w2 = w2  a = a  b = b
    Writers = {w1, w2}
    NumFiles = 2
    Bytes = {a, b}
    Versions <- MCVersions
    None = None
    MaxSaves = 2
    MaxWrites = 3
    MaxDamages = 1
SYMMETRY Alike
INVARIANTS TypeOK SnapshotsFaithful OneWriter RestoreExact
CHECK_DEADLOCK FALSE
