SPECIFICATION Spec
CONSTANTS
    Channels = {"H", "S"}
    Levels = {0, 1}
    Width = 3
    Height = 2
    Images <- MCImages
    MaxChanges = 2
    None = None
INVARIANTS
    TypeOK
    VerdictOfOneSetting
