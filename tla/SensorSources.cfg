CONSTANTS
    UartFrames <- MCUartFrames
    CanFrames <- MCCanFrames
    Registers <- MCRegisters
    BusCapacity = 2
    Protection <- DefaultConfig
SPECIFICATION FairSpec
INVARIANT OfflineMeansUnheard
PROPERTY SilenceLatches
