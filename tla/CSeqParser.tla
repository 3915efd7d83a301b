----------------------------- MODULE CSeqParser -----------------------------
(***************************************************************************)
(* ParseCSeq (RtspParser/RtspParser.cpp) reading a token one character at  *)
(* a time into an unsigned that wraps.                                     *)
(***************************************************************************)
EXTENDS Naturals

CONSTANTS
    Modulus,    \* how many values a CSeq (unsigned) has: 2^32 in the build
    MaxLength   \* bound: characters of a token

ASSUME ModulusAssumption == Modulus \in Nat /\ Modulus >= 10
ASSUME MaxLengthAssumption == MaxLength \in Nat

VARIABLES
    written,    \* history: the number the digits read so far write
    length,     \* history: how many characters have been read
    tmpOut,     \* the number read so far
    outcome     \* "reading", "accepted", or which return false was taken

parserVars == <<written, length, tmpOut, outcome>>

Digit == 0..9

CSeq == 0..(Modulus - 1)

-----------------------------------------------------------------------------
ReadOther ==
    /\ outcome = "reading"
    /\ length < MaxLength
    /\ length' = length + 1
    /\ outcome' = "not a digit"
    /\ UNCHANGED <<written, tmpOut>>

\* Slip: the overflow check takes an equal number for a smaller one.
ReadDigitStrictly(digit) ==
    LET next == (tmpOut * 10 + digit) % Modulus IN
    /\ outcome = "reading"
    /\ length < MaxLength
    /\ length' = length + 1
    /\ written' = written * 10 + digit
    /\ IF tmpOut >= next
       THEN outcome' = "overflow" /\ UNCHANGED tmpOut
       ELSE tmpOut' = next /\ UNCHANGED outcome

ReadDigit(digit) ==
    LET next == (tmpOut * 10 + digit) % Modulus IN
    /\ outcome = "reading"
    /\ length < MaxLength
    /\ length' = length + 1
    /\ written' = written * 10 + digit
    /\ IF tmpOut > next
       THEN outcome' = "overflow" /\ UNCHANGED tmpOut
       ELSE tmpOut' = next /\ UNCHANGED outcome

TokenEnd ==
    /\ outcome = "reading"
    /\ outcome' = IF tmpOut = 0 THEN "zero" ELSE "accepted"
    /\ UNCHANGED <<written, length, tmpOut>>

-----------------------------------------------------------------------------
ParserInit ==
    /\ written = 0
    /\ length = 0
    /\ tmpOut = 0
    /\ outcome = "reading"

ParserNext ==
    \/ ReadOther
    \/ \E digit \in Digit : ReadDigit(digit)
    \/ TokenEnd

ParserSpec == ParserInit /\ [][ParserNext]_parserVars

-----------------------------------------------------------------------------
ParserTypeOK ==
    /\ written \in Nat
    /\ length \in 0..MaxLength
    /\ tmpOut \in CSeq
    /\ outcome \in {"reading", "accepted", "not a digit", "overflow", "zero"}

\* A number that fits is read as it is written, leading zeros or not: the
\* overflow check (335) never refuses it, and only zero itself is refused as
\* zero (343).
ExactInRange ==
    written < Modulus =>
        /\ outcome # "overflow"
        /\ tmpOut = written
        /\ outcome = "zero" => written = 0

\* What the check at 335 is there for: a number that does not fit is refused.
AcceptedAsWritten == outcome = "accepted" => tmpOut = written
=============================================================================
