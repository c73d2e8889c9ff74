CONSTANTS
    Callers = {c1, c2}
    Unattended = {c1}
    Kinds = {"submission", "question"}
    Revisions <- MCRevisions
    Replies <- MCReplies
    Retries = 1
    MaxTasks = 3
    Copiers = {b1}
    Paths = {p1, p2}
    Database = Database
    m1 = m1
    m2 = m2
SPECIFICATION FairSpec
INVARIANTS
    SummaryMatchesEvent
    BackupsAgree
    ChatsEndRight
PROPERTIES
    BackupsStand
    RunsEnd
