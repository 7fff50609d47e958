SPECIFICATION Spec
CONSTANTS
    Lane = {l1, l2, l3}
    Depth = 2
    PC = {0, 1}
PROPERTY CycleAccurate
