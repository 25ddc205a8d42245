SPECIFICATION Spec
CONSTANTS
    ChipLevel = {0, 3}
    Mask = {0, 7}
    MaxErrors = 1
    MaxFrames = 1
INVARIANTS TypeOK DeviceLevelIsJustified
PROPERTIES PendingEndsWait DeviceLevelIsTaken
