CONSTANTS
    MaxMatches = 2
    Ends <- MCFailed
    Lines <- MCLines
    Replies <- MCReplies
    Criteria = {"broken"}
    ModelUses = {FALSE}
    MaxAttempts = 3
    MaxChanges = 0
    MaxFaults = 0
    NoItem = NoItem
SPECIFICATION FairSpec
PROPERTIES
    EveryEndIsReported
