\* All programs of three instructions.
CONSTANTS
    Length = 3
    Insns <- MCInsns
    Depths = {0, 1, 2, 5}
    Fusions <- MCFusions
SPECIFICATION Spec
INVARIANTS TypeOK NoStaleRead
