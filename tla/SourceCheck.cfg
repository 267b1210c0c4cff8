SPECIFICATION Spec
CONSTANTS
    Inode = {f, g}
    x = x
    y = y
    Block <- MCBlock
    Content <- MCContent
    NoFile = NoFile
    MaxTime = 2
    MaxWrites = 3
INVARIANTS
    TypeOK
    Consistent
    NoFalseAlarm
PROPERTIES
    ReadingEnds
CHECK_DEADLOCK FALSE
