CONSTANTS
    Magnitudes = {0, 1, 127, 128, 129, 255, 256, 257, 300, 32767, 32768, 32769,
                  131204, 4194304, 4194305, 5000000, 6291455, 6291456, 8356095,
                  8388351, 8388352, 8388353, 8388607, 8388608, 8388609, 8388736,
                  16777216}

SPECIFICATION PathSpec

INVARIANTS
    ConversionInv
    HeardAsSent
