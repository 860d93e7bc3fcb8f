CONSTANTS
    a = a
    b = b
    c = c
    Channels = {a, b, c}
    q1 = q1
    Requests = {q1}
    NGroups = 2
    GroupsOf <- MCGroupsOf
    Priority <- MCPriority
    RetryTimes = 1
    MaxEvents = 1
    None = None
SPECIFICATION FairSpec
INVARIANTS TypeOK AttemptsBounded NothingSkipped
PROPERTY ListFollowsRows
CHECK_DEADLOCK FALSE
