CONSTANTS
    FirstLists <- TwoUrls
    FollowLists <- OneUrl
    MaxLists = 1
    Unreachable <- TwoUrls
SPECIFICATION Spec
INVARIANT OneResponse
CHECK_DEADLOCK FALSE
