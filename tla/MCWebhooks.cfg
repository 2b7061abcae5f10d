SPECIFICATION GitSpec
CONSTANTS
    Nothing = Nothing
    main = main
    dev = dev
    p1 = p1
    MaxCommit = 2
    Branches = {main, dev}
    Default = main
    Pulls = {p1}
    MaxEvents = 2
INVARIANT RowsFollowEvents
PROPERTIES MergedIsFinal PullsConverge
CHECK_DEADLOCK FALSE
