CONSTANTS
    MaxMatches = 2
    Ends <- MCEnds
    Lines <- MCLines
    Replies <- MCReplies
    Criteria = {"none", "sound", "broken"}
    ModelUses = {TRUE, FALSE}
    MaxAttempts = 2
    MaxChanges = 3
    MaxFaults = 1
    NoItem = NoItem
SPECIFICATION FairSpec
INVARIANTS
    HardFailureOnce
    RepeatsAreSilent
    VerdictsReported
    OnlyFindingsCount
PROPERTIES
    EventuallyReported
