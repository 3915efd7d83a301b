\* Numbers that do not fit six bits.
CONSTANTS
    Modulus = 64
    MaxLength = 4
SPECIFICATION ParserSpec
INVARIANT AcceptedAsWritten
CHECK_DEADLOCK FALSE
