CONSTANTS
    f1 = f1
    f2 = f2
    f3 = f3
    Frames = {f1, f2, f3}
    Configs <- MCConfigs
    Sizes = {0, 1, 3, 5, 7}
    SizeMax = 7
    MaxLoans = 4
SPECIFICATION Spec
SYMMETRY FrameSymmetry
CHECK_DEADLOCK FALSE
INVARIANTS
    BytesBalanced
    BudgetHeld
