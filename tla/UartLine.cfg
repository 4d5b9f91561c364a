SPECIFICATION LineSpec
CONSTANTS
    Crc16 <- crc16_ccitt
    NoFrame = NoFrame
    CounterModulus = 2
    Frames <- MCFrames
    Inserted <- MCNoise
    Damaged <- MCDamage
    MaxFaults = 2
INVARIANTS MissesAtMostOne ReturnsSentFrames
