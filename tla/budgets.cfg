\* Two jobs, three assets, one resource.
CONSTANTS
    Jobs = {"j1", "j2"}
    Resources = {"ram"}
    Needs <- OneNeed
    Usages <- LowAndHigh
    Limits <- TwoLimits
    FirstLimits <- Tight
    Assets = {"s1", "s2", "large"}
    Size <- Sizes
    Targets = {0, 1, 2, 3}
    Pollers = {"p1", "p2"}
    MaxTimes <- TwiceAndOnce
    Together = FALSE
SPECIFICATION LiveBudgetsSpec
INVARIANTS QueuesSound QueueWithinCapacity
PROPERTIES EvictsOldestUntilFreed PromotedWhenCalm
