CONSTANTS
    FirstLists <- UrlLists
    FollowLists <- PairLists
    MaxLists = 4
    Unreachable <- LateUnreachable
SPECIFICATION FairSpec
INVARIANTS TypeOK OneResponse CounterIsMissing
PROPERTIES LateAnswersDropped ImplementsDelegated
CHECK_DEADLOCK FALSE
