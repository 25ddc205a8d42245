SPECIFICATION Spec
CONSTANTS
    Addr = {a1, a2, a3, a4, a5, a6, b1}
    Rival = {a1, a2, a3, a4, a5, a6}
    SetOf <- MCSetOf
    Arm = {x1, x2}
    SetCount = 2
    WayCount = 4
    Bits = 32
    Shift = 28
    NoArm = noarm
    NoAddr = noaddr
SYMMETRY MCSymmetry
INVARIANTS TypeOK VictimInSet OneEntryPerAddress RecentSurvives
PROPERTY ImplementsTable
