SPECIFICATION Spec
CONSTANTS
    Players = {p1}
    Period = 2
    MaxGap = 3
    Horizon = 4
    NoStamp = none
    MaxRows = 2
    Replays = {1}
INVARIANTS
    LockNowIsOpen
    MarksAsPrinted
    RepeatIsMarked
    FreshIsLive
    PushedIsWritten
PROPERTIES
    GapIsReported
CHECK_DEADLOCK FALSE
