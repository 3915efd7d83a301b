\* Texts of at most six symbols behind a start line, against a counter of six
\* bits.
CONSTANTS
    Modulus = 64
    MaxLength = 9
    MaxBlock = 6
    Messages <- MCMessages
    Bodies <- MCBodies
SPECIFICATION RtspSpec
INVARIANTS
    ExactInRange
    ReadAsWritten
    RoundTrip
\* A text is read, written and read again, once.
CHECK_DEADLOCK FALSE
