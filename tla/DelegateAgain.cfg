CONSTANTS
    FirstLists <- TwoSelf
    FollowLists <- OneSelf
    MaxLists = 2
    Unreachable = {}
SPECIFICATION FairSpec
PROPERTY EventuallyCompleted
CHECK_DEADLOCK FALSE
