SPECIFICATION Spec
CONSTANTS
    Line = {0, 1, 2}
    Level <- MCLevel
    MaxSkew = 1
INVARIANTS TypeOK NoFalseLevel OwnResetIgnored
PROPERTY LevelArrives
