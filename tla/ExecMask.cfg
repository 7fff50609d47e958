SPECIFICATION Spec
CONSTANTS
    Lane = {l1, l2}
    Half = 4
    BitAnd <- WordAnd
    BitOr <- WordOr
    BitXor <- WordXor
INVARIANTS
    TypeOK
    SidesPartitionMask
    FlagsTellResult
    ComparesAgree
SYMMETRY LaneSymmetry
