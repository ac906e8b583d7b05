SPECIFICATION Spec
CONSTANTS
    Games = {g1, g2}
    Teams = {A, B}
    AllStars = STR
    NDays = 3
    MaxUpsets = 1
    MaxIngests = 2
INVARIANTS
    ObservedIsPlayed
    NothingPlayedIsLost
    HeldUpByHisOwn
SYMMETRY Alike
