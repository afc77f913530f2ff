SPECIFICATION Spec
CONSTANTS
    Config <- MCConfig
    Defaults <- MCDefaults
    Environ <- MCEnviron
    Refused <- MCRefused
    Startup <- MCStartup
    Available <- MCAvailable
    MaxHotReloadWorkers = 1
    Permits <- MCPermits
    BadCommands <- MCBad
    MaxWrites = 2
INVARIANTS
    MixIsReported
    TimersAreOwned
PROPERTIES
    SaveIsAnswered
    NoWriteAfterStop
    ReportMovesForward
