SPECIFICATION StreamSpec
CONSTANTS
    Byte <- MCByte
    Packets <- MCPackets
    OutSize = 3
    MaxTaken = 12
    MaxNoise = 7
    MaxFrames = 3
    MaxGiveUps = 2
INVARIANTS
    TypeOK
    ReturnsFirstFrame
    NoFrameMissed
    OnlyTornFramesLost
PROPERTIES
    ImplementsLine
