SPECIFICATION FairSpec
CONSTANTS
    Lane = {l1, l2, l3, l4}
    Depth = 2
    PC = {0}
INVARIANTS
    TypeOK
    PathsAreDisjoint
    LanesConserved
    StackBelowLanes
PROPERTY LanesComeBack
