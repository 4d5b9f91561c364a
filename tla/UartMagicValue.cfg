SPECIFICATION FairLineSpec
CONSTANTS
    Crc16 <- crc16_ccitt
    NoFrame = NoFrame
    CounterModulus = 2
    Frames <- MCMagicFrames
    Inserted <- MCNoise
    Damaged <- MCNoise
    MaxFaults = 1
PROPERTY Resynchronizes
