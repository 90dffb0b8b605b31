SPECIFICATION LoggerSpec
CONSTANTS
    SIZE = 60
    kMaxNumericSize = 8
    Bits = 12
    Magnitudes = {0, 10, 2048, 4095}
    TextLens = {0, 1, 30}
    DoubleLens = {1, 7}
    Seconds = {1, 2}
    MaxOffered = 66
INVARIANTS WithinBuffer LineFaithful ConvertIsDecimal
CHECK_DEADLOCK FALSE
