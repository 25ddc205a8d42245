SPECIFICATION Spec
CONSTANTS
    Addr = {a1, a2, a3, a4, a5}
    SetOf <- MCSetOf
    Arm = {x1}
    SetCount = 2
    WayCount = 4
    Bits = 32
    NoArm = noarm
    NoAddr = noaddr
PROPERTY InsertedIsFound
