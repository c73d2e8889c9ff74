CONSTANTS
    Consoles = {c1, c2}
    Modes = {"write"}
    Keep = 1
    MaxOps = 1
    MaxSaves = 0
    MaxEdits = 0
    MaxKills = 0
    NoOne = NoOne
    Tabs = {t1}
    Profiles = {p1, p2}
    ReadOnly = {p2}
    MaxRequests = 1
    MaxActions = 2
    MaxChanges = 1
    MaxBreaks = 1
    NoServer = NoServer
SPECIFICATION RemotesFairSpec
INVARIANTS
    OwnAnswers
    NoForgottenBridge
PROPERTIES
    DisconnectSpares
    EditsSurvive
    HelperLeaves
