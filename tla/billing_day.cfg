\* A session that lasts into its second day.
SPECIFICATION Spec
CONSTANTS
    Mode = 4
    Fees <- LargeFee
    Delay = 0
    Steps <- EveryMinute
    MaxAge = 90000
    MaxBalance = 6000
INVARIANTS
    BilledByTheRule
