\* A fan-out whose last day is done has nothing left to do: no deadlock check.
CONSTANTS
    Setups <- MCSetups
    Collectors = {c1}
    Processes = {unit, manual}
    Unit = unit
    Plans <- ThreePlans
    Provider <- Providers
    Api <- Apis
    Calls <- CallCounts
    Repeats <- Refreshed
    Attempts = 2
    AccountLimit = 3
    ProviderLimit = 2
    ApiLimit = 2
    OnDemand = {b1}
    MaxCrashes = 1
    Nobody = Nobody
SPECIFICATION EitherSpec
CHECK_DEADLOCK FALSE
INVARIANTS ReceiptsAreFollowed WorkIsBounded
PROPERTIES BatchesAdvance EveryPlanCollected
