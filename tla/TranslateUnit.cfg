SPECIFICATION Spec
CONSTANTS
    Word = {0, 1, 2, 3}
    Program <- MCProgram
    Branches = {"bra", "bsr", "bcc", "dbcc"}
    Depth = 8
    LoopCount = 3
    InlineRange = 4
    AutoRange = 3
    InlineFrom = 2
    StackSize = 2
    Nowhere = nowhere
INVARIANTS TypeOK SpanCoversStraightCode ReturnStackIsSuffix LoopsBackWhole LoopCopiesBounded
CHECK_DEADLOCK FALSE
