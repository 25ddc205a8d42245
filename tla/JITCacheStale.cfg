SPECIFICATION Spec
CONSTANTS
    a = a
    b = b
    r = r
    Addr = {a, b, r}
    Rom = {r}
    Val = {0, 1}
    Low = {r}
    Mapped = {}
    Span <- MCSpan
    FpSpan <- MCFpSpan
    Slot = {s1, s2}
    Ctl = {c0}
    EvictBatch = 1
    SetOf <- MCSetOf
    WayCount = 2
    BootIE = FALSE
    MaxEpoch = 1
    NoAddr = noaddr
    NoSlot = noslot
    NoVal = noval
INVARIANT LastPCCoherent
