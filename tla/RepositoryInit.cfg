SPECIFICATION Spec
CONSTANTS
    Initer = {i1, i2, i3}
    Opener = {o1}
    None = None
INVARIANTS
    TypeOK
    LoneInitSucceeds
    Usable
    WinnerExists
    OpenComplete
CHECK_DEADLOCK FALSE
