CONSTANTS
    Setups <- MCSetups
    Collectors = {c1}
    Processes = {unit, manual}
    Unit = unit
    Plans <- ThreePlans
    Provider <- Providers
    Api <- Apis
    Calls <- CallCounts
    Repeats <- Refreshed
    Attempts = 2
    AccountLimit = 3
    ProviderLimit = 2
    ApiLimit = 2
    OnDemand = {}
    MaxCrashes = 0
    Nobody = Nobody
SPECIFICATION ScheduleSpec
INVARIANTS ExhaustionIsNoFailure
