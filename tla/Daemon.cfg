\* A queue of two events, a critical injection and three commands: an injection, a
\* reset and its retry, or any others.
CONSTANTS
    Protection <- Defaults
    Capacity = 2
    baseline_ <- Baseline
    Injections <- MCInjections
    NoSample = NoSample
    MaxCommands = 3
SPECIFICATION FairSpec
INVARIANTS HandlerHasRuntime PromiseKept
PROPERTIES DaemonEnds InjectionActs ResetRecovers
\* The daemon exits.
CHECK_DEADLOCK FALSE
