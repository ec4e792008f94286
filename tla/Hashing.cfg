SPECIFICATION HashSpec
CONSTANTS
    Names <- AllNames
    Lengths <- TheLengths
    Alignments = {0, 1, 2, 3}
INVARIANTS SameAtEveryAlignment DigestsMessage
