SPECIFICATION Spec
CONSTANTS
    a = a
    b = b
    r = r
    Addr = {a, r}
    Rom = {r}
    Val = {0, 1}
    Low = {r}
    Mapped = {}
    Span <- MCSpan
    FpSpan <- MCFpSpan
    Slot = {s1, s2}
    Ctl = {c0, c1}
    EvictBatch = 1
    SetOf <- MCSetOf
    WayCount = 1
    BootIE = FALSE
    MaxEpoch = 2
    NoAddr = noaddr
    NoSlot = noslot
    NoVal = noval
SYMMETRY SlotSymmetry
INVARIANTS TypeOK OneUnitPerAddress QuickCoherent LastPCCoherent RunningIsLive
PROPERTIES RunsGuestCode DisablingEmptiesCache
