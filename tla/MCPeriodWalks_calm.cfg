SPECIFICATION Spec
CONSTANTS
    Zones <- AllZones
    MonthStarts <- FirstDays
    Targets <- Instants
    MaxSteps = 6
INVARIANTS
    TypeOK
    PeriodIsUnit
    ClearMeansNone
    ListedAll
CHECK_DEADLOCK FALSE
