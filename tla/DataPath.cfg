\* Blocks of 6 words, requests of up to 13, words of two bits.
SPECIFICATION PathSpec
CONSTANTS
    BlockWords = 6
    DiagWords = 3
    MaxRead = 13
    MaxAddr = 14
    ValueWords = 3
    Word = 4
    MaxItems = 2
    MaxReg = 2
    Readings <- MCReadings
INVARIANTS ReadWhole RequestsFit ValuesArrive
CHECK_DEADLOCK FALSE
