SPECIFICATION Spec
CONSTANTS
    Games = {g1}
    Teams = {A}
    AllStars = STR
    NDays = 3
    MaxUpsets = 1
    MaxIngests = 2
INVARIANTS DeadlineIsHisTip
