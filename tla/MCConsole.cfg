CONSTANTS
    Consoles = {c1, c2}
    Modes = {"write"}
    Keep = 1
    MaxOps = 2
    MaxSaves = 2
    MaxEdits = 1
    MaxKills = 1
    NoOne = NoOne
SPECIFICATION Spec
SYMMETRY Symmetry
INVARIANTS
    OneTracker
    NoneLeftBehind
PROPERTIES
    SavesSurvive
