-------------------------- MODULE RtspParserProofs --------------------------
(***************************************************************************)
(* A message is read as its lines say, whatever the text: the scan from    *)
(* left to right meets the reference by line ends. ParseCSeq reads every   *)
(* number that fits, whatever the width of a CSeq. And what RtspSerialize  *)
(* writes of what has been read is read again as the same.                 *)
(***************************************************************************)
EXTENDS RtspParserProps, SequenceTheorems, FiniteSetTheorems, WellFoundedInduction, TLAPS

-----------------------------------------------------------------------------
(* ParseCSeq by itself.                                                    *)

\* Below the modulus the unsigned arithmetic is the arithmetic of numbers.
LEMMA ModOfSmall ==
    ASSUME NEW x \in Nat, x < Modulus
    PROVE  x % Modulus = x
BY ModulusAssumption

\* The remainder is a CSeq.
LEMMA ModInRange ==
    ASSUME NEW x \in Nat
    PROVE  x % Modulus \in CSeq
BY ModulusAssumption DEF CSeq

\* A token that is not at its bound may grow by one character.
LEMMA OneMore ==
    ASSUME NEW n \in 0..MaxLength, n < MaxLength
    PROVE  n + 1 \in 0..MaxLength
BY MaxLengthAssumption

\* Nothing has been read of a number yet.
LEMMA ParserTypeInit == ParserInit => ParserTypeOK
BY ModulusAssumption, MaxLengthAssumption DEF ParserInit, ParserTypeOK, CSeq

\* A step keeps the invariant: only ReadDigit changes the number.
LEMMA ParserStep ==
    ASSUME ParserTypeOK, ExactInRange, [ParserNext]_parserVars
    PROVE  ParserTypeOK' /\ ExactInRange'
<1>0. length \in 0..MaxLength /\ tmpOut \in CSeq /\ written \in Nat
  BY DEF ParserTypeOK
<1>1. CASE ReadOther
  <2>1. /\ outcome = "reading" /\ length < MaxLength /\ length' = length + 1
        /\ outcome' = "not a digit" /\ written' = written /\ tmpOut' = tmpOut
    BY <1>1 DEF ReadOther
  <2>2. length' \in 0..MaxLength
    BY <1>0, <2>1, OneMore
  <2>3. ParserTypeOK'
    BY <2>1, <2>2 DEF ParserTypeOK
  <2>4. ExactInRange'
    BY <2>1 DEF ExactInRange
  <2> QED
    BY <2>3, <2>4
<1>2. ASSUME NEW digit \in Digit, ReadDigit(digit)
      PROVE  ParserTypeOK' /\ ExactInRange'
  <2>1. tmpOut \in Nat /\ digit \in Nat /\ written \in Nat
    BY <1>0, ModulusAssumption DEF CSeq, Digit
  <2> DEFINE next == (tmpOut * 10 + digit) % Modulus
  <2>2. tmpOut * 10 + digit \in Nat
    BY <2>1
  <2>3. next \in CSeq
    BY <2>2, ModInRange
  <2>4. /\ outcome = "reading" /\ length < MaxLength /\ length' = length + 1
        /\ written' = written * 10 + digit
        /\ IF tmpOut > next THEN outcome' = "overflow" /\ tmpOut' = tmpOut
                            ELSE tmpOut' = next /\ outcome' = outcome
    BY <1>2 DEF ReadDigit
  <2>5. written < Modulus /\ tmpOut * 10 + digit < Modulus => next = tmpOut * 10 + digit
    BY <2>2, ModOfSmall
  <2> HIDE DEF next
  <2>6. ParserTypeOK'
    <3>1. length' \in 0..MaxLength
      BY <1>0, <2>4, OneMore
    <3>2. written' \in Nat
      BY <2>1, <2>4
    <3>3. tmpOut' \in CSeq
      BY <1>0, <2>3, <2>4
    <3> QED
      BY <2>4, <3>1, <3>2, <3>3 DEF ParserTypeOK
  <2>7. ASSUME written' < Modulus
        PROVE  outcome' = "reading" /\ tmpOut' = written'
    <3>1. written < Modulus
      BY <2>1, <2>4, <2>7, ModulusAssumption
    <3>2. tmpOut = written
      BY <3>1 DEF ExactInRange
    <3>3. next = written'
      BY <2>4, <2>5, <2>7, <3>1, <3>2
    <3> QED
      BY <2>1, <2>4, <3>2, <3>3
  <2> QED
    BY <2>6, <2>7 DEF ExactInRange
<1>3. CASE TokenEnd
  BY <1>3 DEF TokenEnd, ParserTypeOK, ExactInRange
<1>4. CASE UNCHANGED parserVars
  BY <1>4 DEF parserVars, ParserTypeOK, ExactInRange
<1> QED
  BY <1>1, <1>2, <1>3, <1>4 DEF ParserNext

\* Every variable keeps its shape: tmpOut stays a CSeq through every wrap
\* of the loop in ParseCSeq.
THEOREM ParserTypeCorrect == ParserSpec => []ParserTypeOK
<1>1. ParserInit => ParserTypeOK /\ ExactInRange
  BY ParserTypeInit DEF ParserInit, ExactInRange
<1>2. ParserTypeOK /\ ExactInRange /\ [ParserNext]_parserVars
        => (ParserTypeOK /\ ExactInRange)'
  BY ParserStep
<1> QED
  BY <1>1, <1>2, PTL DEF ParserSpec

\* ParseCSeq never refuses a number that fits an unsigned, and reads it
\* exactly: its overflow check has no false alarms.
THEOREM ExactWhateverTheWidth == ParserSpec => []ExactInRange
<1>1. ParserInit => ParserTypeOK /\ ExactInRange
  BY ParserTypeInit DEF ParserInit, ExactInRange
<1>2. ParserTypeOK /\ ExactInRange /\ [ParserNext]_parserVars
        => (ParserTypeOK /\ ExactInRange)'
  BY ParserStep
<1> QED
  BY <1>1, <1>2, PTL DEF ParserSpec

-----------------------------------------------------------------------------
(* The least number of a set, and induction.                               *)

\* A set of naturals has a least one.
LEMMA Least ==
    ASSUME NEW S \in SUBSET Nat, S # {}
    PROVE  /\ Min(S) \in S
           /\ \A x \in S : Min(S) <= x
<1>1. IsWellFoundedOn(OpToRel(<, Nat), Nat)
  BY NatLessThanWellFounded
<1>2. PICK x \in S : \A y \in S : ~(<<y, x>> \in OpToRel(<, Nat))
  BY <1>1, WFMin
<1>3. \A y \in S : ~(y < x)
  BY <1>2 DEF OpToRel
<1>4. \A y \in S : x <= y
  <2>1. x \in Nat /\ \A y \in S : y \in Nat
    OBVIOUS
  <2> QED
    BY <1>3, <2>1
<1> QED
  BY <1>4 DEF Min

\* The least is named by what it is.
LEMMA LeastIs ==
    ASSUME NEW S \in SUBSET Nat, NEW x \in S, \A y \in S : x <= y
    PROVE  Min(S) = x
<1>1. Min(S) \in S /\ Min(S) <= x
  BY Least
<1>2. Min(S) \in Nat /\ x \in Nat /\ x <= Min(S)
  BY <1>1
<1> QED
  BY <1>1, <1>2

\* Induction over the naturals, for a set instead of a predicate.
LEMMA Induction ==
    ASSUME NEW S, 0 \in S, \A n \in Nat : n \in S => n + 1 \in S
    PROVE  Nat \subseteq S
<1> DEFINE T == Nat \ S
<1>1. SUFFICES ASSUME T # {}
               PROVE  FALSE
  OBVIOUS
<1>2. PICK x \in T : \A y \in T : x <= y
  <2> HIDE DEF T
  <2>1. T \subseteq Nat
    BY DEF T
  <2> QED
    BY <1>1, <2>1, Least
<1>3. x - 1 \in Nat /\ x - 1 \in T
  OBVIOUS
<1> QED
  BY <1>2, <1>3

-----------------------------------------------------------------------------
(* The scanning functions.                                                 *)

\* Inside a text there are symbols, behind it there is its end.
LEMMA AtText ==
    ASSUME text \in Seq(Symbols), NEW p \in Nat
    PROVE  /\ p \in 1..Len(text) => At(p) = text[p] /\ At(p) \in Symbols
           /\ p \notin 1..Len(text) => At(p) = "eos"
           /\ "eos" \notin Symbols
BY DEF At, Symbols, TokenSymbols, Blank, DigitSymbols, ToSet

\* What one finds by scanning from p for the first place that is not in S.
LEMMA Scan ==
    ASSUME text \in Seq(Symbols), NEW p \in 1..(Len(text) + 1), NEW symbols \in SUBSET Symbols
    PROVE  /\ SkipAll(p, symbols) \in p..(Len(text) + 1)
           /\ At(SkipAll(p, symbols)) \notin symbols
           /\ \A r \in p..(SkipAll(p, symbols) - 1) : At(r) \in symbols
<1> DEFINE S == {q \in p..(Len(text) + 1) : At(q) \notin symbols}
<1>1. Len(text) + 1 \in S
  BY AtText
<1>2. S \in SUBSET Nat /\ S # {}
  BY <1>1
<1>3. PICK q \in S : \A r \in S : q <= r
  <2> HIDE DEF S
  <2> QED
    BY <1>2, Least
<1>4. q \in p..(Len(text) + 1) /\ At(q) \notin symbols /\ \A r \in p..(q - 1) : At(r) \in symbols
  BY <1>3
<1> QED
  BY <1>4 DEF SkipAll

\* There is only one such place.
LEMMA ScanIs ==
    ASSUME text \in Seq(Symbols), NEW p \in 1..(Len(text) + 1), NEW symbols \in SUBSET Symbols,
           NEW q \in p..(Len(text) + 1), At(q) \notin symbols,
           \A r \in p..(q - 1) : At(r) \in symbols
    PROVE  SkipAll(p, symbols) = q
<1> DEFINE s == SkipAll(p, symbols)
<1>1. /\ s \in p..(Len(text) + 1) /\ At(s) \notin symbols
      /\ \A r \in p..(s - 1) : At(r) \in symbols
  BY Scan
<1> HIDE DEF s
<1>0. Len(text) \in Nat
  OBVIOUS
<1>2. p \in Int /\ q \in Int /\ s \in Int /\ p <= s /\ p <= q
  BY <1>0, <1>1
<1>3. ~(s < q)
  BY <1>1, <1>2
<1>4. ~(q < s)
  BY <1>1, <1>2
<1>5. s = q
  BY <1>2, <1>3, <1>4
<1> QED
  BY <1>5 DEF s

\* White space in front of a value, with one line end at most before it.
LEMMA WhiteSpace ==
    ASSUME text \in Seq(Symbols), NEW p \in 1..(Len(text) + 1)
    PROVE  /\ SkipLWS(p) \in p..(Len(text) + 1)
           /\ At(SkipLWS(p)) \notin Blank
           /\ \A r \in p..(SkipLWS(p) - 1) :
                \/ At(r) \in Blank
                \/ r = p /\ At(r) = "crlf" /\ At(r + 1) \in Blank /\ r + 1 < SkipLWS(p)
<1>0. Len(text) \in Nat
  OBVIOUS
<1> DEFINE s == SkipEOL(p)
<1>1. Blank \in SUBSET Symbols /\ "crlf" \notin Blank /\ "eos" \notin Blank
  BY DEF Blank, Symbols
<1>2. CASE At(s) \notin Blank
  <2>1. SkipLWS(p) = p
    BY <1>2 DEF SkipLWS
  <2>2. At(p) \notin Blank
    BY <1>1, <1>2 DEF SkipEOL
  <2> QED
    BY <2>1, <2>2
<1>3. CASE At(s) \in Blank
  <2>1. SkipLWS(p) = SkipAll(s, Blank)
    BY <1>3 DEF SkipLWS, SkipWSP
  <2>2. (s = p \/ (s = p + 1 /\ At(p) = "crlf")) /\ s \in 1..(Len(text) + 1)
    <3>1. At(p) = "crlf" => p <= Len(text)
      BY AtText
    <3> QED
      BY <1>0, <3>1 DEF SkipEOL
  <2> DEFINE v == SkipAll(s, Blank)
  <2>3. /\ v \in s..(Len(text) + 1) /\ At(v) \notin Blank
        /\ \A r \in s..(v - 1) : At(r) \in Blank
    BY <1>1, <2>2, Scan
  <2> HIDE DEF v, s
  <2>4. v # s
    BY <1>3, <2>3
  <2>5. ASSUME NEW r \in p..(v - 1)
        PROVE  \/ At(r) \in Blank
               \/ r = p /\ At(r) = "crlf" /\ At(r + 1) \in Blank /\ r + 1 < v
    <3>0. p \in Int /\ v \in Int /\ r \in Int /\ p <= r /\ r <= v - 1
      BY <1>0, <2>2, <2>3
    <3>1. CASE s = p
      <4>1. r \in s..(v - 1)
        BY <3>0, <3>1
      <4> QED
        BY <2>3, <4>1
    <3>2. CASE s = p + 1 /\ At(p) = "crlf"
      <4>1. CASE r = p
        BY <1>3, <2>3, <2>4, <3>2, <4>1
      <4>2. CASE r # p
        <5>1. r \in s..(v - 1)
          BY <3>0, <3>2, <4>2
        <5> QED
          BY <2>3, <5>1
      <4> QED
        BY <4>1, <4>2
    <3> QED
      BY <2>2, <3>1, <3>2
  <2>6. SkipLWS(p) = v
    BY <2>1 DEF v
  <2> QED
    BY <2>2, <2>3, <2>5, <2>6
<1> QED
  BY <1>2, <1>3

\* What is inside the value that begins at p.
Inside(p, r) == Folded(p, r) \/ At(r) \in Symbols \ Control

\* What is folded is white space, or a line end that white space follows.
LEMMA FoldedIs ==
    ASSUME text \in Seq(Symbols), NEW p \in 1..(Len(text) + 1), NEW r \in p..(Len(text) + 1)
    PROVE  /\ Folded(p, r) => At(r) \in Blank \/ (At(r) = "crlf" /\ At(r + 1) \in Blank)
           /\ Folded(p, r) => r <= Len(text)
           /\ At(r) = "crlf" /\ At(r + 1) \in Blank => Folded(p, r)
<1>1. ASSUME Folded(p, r)
      PROVE  At(r) \in Blank \/ (At(r) = "crlf" /\ At(r + 1) \in Blank)
  <2>1. PICK f \in p..r : /\ At(f) = "crlf" /\ At(f + 1) \in Blank
                          /\ \A g \in (f + 1)..r : At(g) \in Blank
    BY <1>1 DEF Folded
  <2>2. CASE f = r
    BY <2>1, <2>2
  <2>3. CASE f # r
    <3>1. r \in (f + 1)..r
      BY <2>3
    <3> QED
      BY <2>1, <3>1
  <2> QED
    BY <2>2, <2>3
<1>2. ASSUME Folded(p, r)
      PROVE  r <= Len(text)
  BY <1>1, <1>2, AtText DEF Blank
<1>3. ASSUME At(r) = "crlf", At(r + 1) \in Blank
      PROVE  Folded(p, r)
  BY <1>3 DEF Folded
<1> QED
  BY <1>1, <1>2, <1>3

\* Where the value ends.
LEMMA ValueScan ==
    ASSUME text \in Seq(Symbols), NEW p \in 1..(Len(text) + 1)
    PROVE  /\ ValueEnd(p) \in p..(Len(text) + 1)
           /\ ~Inside(p, ValueEnd(p))
           /\ \A r \in p..(ValueEnd(p) - 1) : Inside(p, r)
<1> DEFINE S == {q \in p..(Len(text) + 1) : ~Inside(p, q)}
<1>1. Len(text) + 1 \in S
  <2>1. ~Folded(p, Len(text) + 1)
    BY FoldedIs
  <2> QED
    BY <2>1, AtText DEF Inside
<1>2. S \in SUBSET Nat /\ S # {}
  BY <1>1
<1>3. PICK q \in S : \A r \in S : q <= r
  <2> HIDE DEF S
  <2> QED
    BY <1>2, Least
<1>4. q \in p..(Len(text) + 1) /\ ~Inside(p, q) /\ \A r \in p..(q - 1) : Inside(p, r)
  BY <1>3
<1> QED
  BY <1>4 DEF ValueEnd, Inside

\* And there is only one such place.
LEMMA ValueScanIs ==
    ASSUME text \in Seq(Symbols), NEW p \in 1..(Len(text) + 1),
           NEW q \in p..(Len(text) + 1), ~Inside(p, q), \A r \in p..(q - 1) : Inside(p, r)
    PROVE  ValueEnd(p) = q
<1> DEFINE s == ValueEnd(p)
<1>1. s \in p..(Len(text) + 1) /\ ~Inside(p, s) /\ \A r \in p..(s - 1) : Inside(p, r)
  BY ValueScan
<1> HIDE DEF s
<1>0. Len(text) \in Nat
  OBVIOUS
<1>2. p \in Int /\ q \in Int /\ s \in Int /\ p <= s /\ p <= q
  BY <1>0, <1>1
<1>3. ~(s < q)
  BY <1>1, <1>2
<1>4. ~(q < s)
  BY <1>1, <1>2
<1>5. s = q
  BY <1>2, <1>3, <1>4
<1> QED
  BY <1>5 DEF s

-----------------------------------------------------------------------------
(* One header line.                                                        *)

\* The start line ends at the first line end, or with the text.
LEMMA FirstLine ==
    ASSUME text \in Seq(Symbols)
    PROVE  /\ FirstLineEnd \in 1..(Len(text) + 1)
           /\ \A p \in 1..(FirstLineEnd - 1) : At(p) # "crlf"
           /\ At(FirstLineEnd) = "crlf" => FirstLineEnd <= Len(text)
           /\ FirstLineEnd <= Len(text) => At(FirstLineEnd) = "crlf"
<1> DEFINE S == {p \in 1..Len(text) : text[p] = "crlf"} \cup {Len(text) + 1}
<1>1. Min(S) \in S /\ \A p \in S : Min(S) <= p
  <2>1. S \in SUBSET Nat /\ S # {}
    OBVIOUS
  <2> HIDE DEF S
  <2> QED
    BY <2>1, Least
<1>2. FirstLineEnd = Min(S)
  BY DEF FirstLineEnd
<1>3. FirstLineEnd \in 1..(Len(text) + 1)
  BY <1>1, <1>2
<1>4. \A p \in 1..(FirstLineEnd - 1) : At(p) # "crlf"
  <2>1. \A p \in 1..(FirstLineEnd - 1) : p \in 1..Len(text) /\ p \notin S
    BY <1>1, <1>2, <1>3
  <2> QED
    BY <2>1, AtText
<1>5. At(FirstLineEnd) = "crlf" => FirstLineEnd <= Len(text)
  BY <1>3, AtText
<1>6. FirstLineEnd <= Len(text) => At(FirstLineEnd) = "crlf"
  BY <1>1, <1>2, <1>3, AtText
<1> QED
  BY <1>3, <1>4, <1>5, <1>6

\* The scan is where a line begins.
AtLine(q) ==
    /\ q \in 1..(Len(text) + 1)
    /\ FieldsStart <= q
    /\ q = FieldsStart \/ q - 1 \in LineEnds

\* The line that begins at q ends there.
LineFrom(q, end) ==
    /\ end \in LineEnds
    /\ q <= end
    /\ \A e \in LineEnds : e < q \/ end <= e

\* A line begins where the one before it ends.
LEMMA LineStartIs ==
    ASSUME text \in Seq(Symbols), NEW q, AtLine(q), NEW end, LineFrom(q, end)
    PROVE  LineStart(end) = q
<1> DEFINE S == {FieldsStart - 1} \cup {p \in LineEnds : p < end}
<1>1. FieldsStart \in Nat /\ q \in Nat /\ end \in Nat /\ LineEnds \subseteq Nat
  BY FirstLine DEF FieldsStart, LineEnds, AtLine, LineFrom
<1>2. q - 1 \in S
  BY <1>1 DEF AtLine, LineFrom
<1>3. \A p \in S : p <= q - 1
  BY <1>1 DEF AtLine, LineFrom
<1>4. S \subseteq Int
  <2>1. \A p \in S : p = FieldsStart - 1 \/ p \in LineEnds
    OBVIOUS
  <2>2. FieldsStart - 1 \in Int /\ \A p \in LineEnds : p \in Int
    BY <1>1
  <2> HIDE DEF S
  <2> QED
    BY <2>1, <2>2
<1> HIDE DEF S
<1>5. Max(S) \in S /\ \A p \in S : Max(S) >= p
  <2>1. q - 1 \in Int /\ \A p \in S : q - 1 >= p
    BY <1>1, <1>3, <1>4
  <2>2. \E x \in S : \A y \in S : x >= y
    BY <1>2, <2>1
  <2> QED
    BY <2>2 DEF Max
<1>6. Max(S) = q - 1
  <2>1. Max(S) \in Int /\ Max(S) <= q - 1 /\ Max(S) >= q - 1
    BY <1>2, <1>3, <1>4, <1>5
  <2> QED
    BY <1>1, <2>1
<1>7. LineStart(end) = 1 + Max(S)
  BY DEF LineStart, S
<1> QED
  BY <1>1, <1>6, <1>7

\* The colon of a line is its first ...
LEMMA ColonIs ==
    ASSUME NEW end \in Nat, LineStart(end) \in Nat, NEW c \in LineStart(end)..(end - 1),
           At(c) = ":", \A p \in LineStart(end)..(c - 1) : At(p) # ":"
    PROVE  Colon(end) = c
<1> DEFINE S == {p \in LineStart(end)..(end - 1) : At(p) = ":"} \cup {end}
<1>1. S \in SUBSET Nat /\ c \in S /\ \A p \in S : c <= p
  OBVIOUS
<1> HIDE DEF S
<1>2. Min(S) = c
  BY <1>1, LeastIs
<1> QED
  BY <1>2 DEF Colon, S

\* ... if there is one.
LEMMA ColonThere ==
    ASSUME NEW end \in Nat, LineStart(end) \in Nat, Colon(end) < end
    PROVE  /\ Colon(end) \in LineStart(end)..(end - 1) /\ At(Colon(end)) = ":"
<1> DEFINE S == {p \in LineStart(end)..(end - 1) : At(p) = ":"} \cup {end}
<1>1. S \in SUBSET Nat /\ S # {}
  OBVIOUS
<1>2. Min(S) \in S
  <2> HIDE DEF S
  <2> QED
    BY <1>1, Least
<1>3. Colon(end) = Min(S)
  BY DEF Colon
<1> QED
  BY <1>2, <1>3

\* What ParseHeaderField finds from q on.
NameEnd(q) == GetToken(q)
ValueStart(q) == SkipLWS(NameEnd(q) + 1)
FieldEnd(q) == ValueEnd(ValueStart(q))
FieldFound(q) == q < NameEnd(q) /\ At(NameEnd(q)) = ":" /\ At(FieldEnd(q)) = "crlf"

\* The classes of symbols that the scanning functions tell apart.
LEMMA Classes ==
    /\ TokenSymbols \in SUBSET Symbols /\ Blank \in SUBSET Symbols
    /\ "crlf" \notin TokenSymbols /\ ":" \notin TokenSymbols /\ "ctl" \notin TokenSymbols
    /\ "tab" \notin TokenSymbols /\ "sp" \notin TokenSymbols /\ "eos" \notin Symbols
    /\ "crlf" \notin Blank /\ ":" \notin Blank /\ "ctl" \notin Blank /\ "tab" \in Blank
    /\ "crlf" \in Symbols /\ ":" \in Symbols
    /\ Control = {"tab", "crlf", "ctl"}
    /\ CSeqName = <<"cseq">> /\ "cseq" \in TokenSymbols
BY DEF Symbols, TokenSymbols, Blank, Control, DigitSymbols, ToSet, CSeqName

\* Where things are in a line whose name and colon have been found.
LEMMA NameFound ==
    ASSUME text \in Seq(Symbols), NEW q \in 1..(Len(text) + 1), At(NameEnd(q)) = ":"
    PROVE  LET n == NameEnd(q)  v == ValueStart(q)  e == FieldEnd(q) IN
           /\ n \in q..Len(text) /\ \A r \in q..(n - 1) : At(r) \in TokenSymbols
           /\ v \in (n + 1)..(Len(text) + 1) /\ At(v) \notin Blank
           /\ \A r \in (n + 1)..(v - 1) :
                \/ At(r) \in Blank
                \/ r = n + 1 /\ At(r) = "crlf" /\ At(r + 1) \in Blank /\ r + 1 < v
           /\ e \in v..(Len(text) + 1) /\ ~Inside(v, e)
           /\ \A r \in v..(e - 1) : Inside(v, r)
<1> DEFINE n == NameEnd(q)
           v == ValueStart(q)
           e == FieldEnd(q)
<1>0. Len(text) \in Nat
  OBVIOUS
<1>1. n \in q..(Len(text) + 1) /\ \A r \in q..(n - 1) : At(r) \in TokenSymbols
  BY Classes, Scan DEF NameEnd, GetToken
<1> HIDE DEF n, v, e
<1>2. At(n) = ":"
  BY DEF n
<1>3. n <= Len(text)
  <2>1. n \in Nat
    BY <1>0, <1>1
  <2> QED
    BY <1>2, <2>1, AtText
<1>4. n + 1 \in 1..(Len(text) + 1)
  BY <1>0, <1>1, <1>3
<1>5. v = SkipLWS(n + 1)
  BY DEF v, n, ValueStart
<1>6. /\ v \in (n + 1)..(Len(text) + 1) /\ At(v) \notin Blank
      /\ \A r \in (n + 1)..(v - 1) :
           \/ At(r) \in Blank
           \/ r = n + 1 /\ At(r) = "crlf" /\ At(r + 1) \in Blank /\ r + 1 < v
  BY <1>4, <1>5, WhiteSpace
<1>7. v \in 1..(Len(text) + 1)
  BY <1>0, <1>4, <1>6
<1>8. /\ e \in v..(Len(text) + 1) /\ ~Inside(v, e)
      /\ \A r \in v..(e - 1) : Inside(v, r)
  BY <1>7, ValueScan DEF e, v, FieldEnd
<1>9. n \in q..Len(text)
  BY <1>0, <1>1, <1>3
<1> QED
  BY <1>1, <1>6, <1>8, <1>9 DEF n, v, e

\* The field that the scan finds is the line.
LEMMA FieldIsLine ==
    ASSUME text \in Seq(Symbols), NEW q, AtLine(q), FieldFound(q)
    PROVE  /\ LineFrom(q, FieldEnd(q))
           /\ IsField(FieldEnd(q))
           /\ NameOf(FieldEnd(q)) = Part(q, NameEnd(q))
           /\ IsValueOf(Part(ValueStart(q), FieldEnd(q)), FieldEnd(q))
           /\ FieldEnd(q) <= Len(text)
<1> DEFINE n == NameEnd(q)
           v == ValueStart(q)
           e == FieldEnd(q)
<1>0. Len(text) \in Nat /\ q \in 1..(Len(text) + 1) /\ FieldsStart \in Nat /\ FieldsStart <= q
  BY FirstLine DEF AtLine, FieldsStart
<1>1. /\ n \in q..Len(text) /\ \A r \in q..(n - 1) : At(r) \in TokenSymbols
      /\ v \in (n + 1)..(Len(text) + 1) /\ At(v) \notin Blank
      /\ \A r \in (n + 1)..(v - 1) :
           \/ At(r) \in Blank
           \/ r = n + 1 /\ At(r) = "crlf" /\ At(r + 1) \in Blank /\ r + 1 < v
      /\ e \in v..(Len(text) + 1) /\ ~Inside(v, e)
      /\ \A r \in v..(e - 1) : Inside(v, r)
  BY <1>0, NameFound DEF FieldFound
<1> HIDE DEF n, v, e
<1>2. q < n /\ At(n) = ":" /\ At(e) = "crlf"
  BY DEF n, v, e, FieldFound
<1>3. /\ q \in Nat /\ n \in Nat /\ v \in Nat /\ e \in Nat
      /\ q < n /\ n < v /\ v <= e /\ e <= Len(text)
  <2>1. q \in Nat /\ n \in Nat /\ v \in Nat /\ e \in Nat
    BY <1>0, <1>1
  <2>2. e <= Len(text)
    BY <1>2, <2>1, AtText
  <2> QED
    BY <1>0, <1>1, <1>2, <2>1, <2>2
<1>4. ASSUME NEW r \in v..(e - 1)
      PROVE  /\ r \in 1..Len(text)
             /\ At(r) \in Blank \/ (At(r) = "crlf" /\ At(r + 1) \in Blank) \/ At(r) \in Symbols \ Control
  <2>1. v \in 1..(Len(text) + 1) /\ r \in v..(Len(text) + 1) /\ r \in 1..Len(text)
    BY <1>0, <1>3
  <2>2. Folded(v, r) => At(r) \in Blank \/ (At(r) = "crlf" /\ At(r + 1) \in Blank)
    BY <2>1, FoldedIs
  <2> QED
    BY <1>1, <2>1, <2>2 DEF Inside
<1>5. e \in LineEnds
  <2>1. At(e + 1) \notin Blank
    <3>1. v \in 1..(Len(text) + 1) /\ e \in v..(Len(text) + 1)
      BY <1>0, <1>3
    <3> QED
      BY <1>1, <1>2, <3>1, FoldedIs DEF Inside
  <2>2. e \in FieldsStart..Len(text)
    BY <1>0, <1>3
  <2> QED
    BY <1>2, <2>1, <2>2 DEF LineEnds
<1>6. ASSUME NEW r \in q..(e - 1)
      PROVE  r \notin LineEnds
  <2>1. r \in Nat /\ q <= r /\ r < e
    BY <1>3
  <2>2. CASE r < n
    <3>1. At(r) \in TokenSymbols
      BY <1>1, <1>3, <2>1, <2>2
    <3> QED
      BY <3>1, Classes DEF LineEnds
  <2>3. CASE r = n
    BY <1>2, <2>3 DEF LineEnds
  <2>4. CASE n < r /\ r < v
    <3>1. r \in (n + 1)..(v - 1)
      BY <1>3, <2>1, <2>4
    <3>2. At(r) \in Blank \/ At(r + 1) \in Blank
      BY <1>1, <3>1
    <3> QED
      BY <3>2, Classes DEF LineEnds
  <2>5. CASE v <= r
    <3>1. r \in v..(e - 1)
      BY <1>3, <2>1, <2>5
    <3> QED
      BY <1>4, <3>1, Classes DEF LineEnds
  <2> QED
    BY <1>3, <2>1, <2>2, <2>3, <2>4, <2>5
<1>7. LineFrom(q, e)
  <2>1. \A d \in LineEnds : d \in Nat
    BY <1>0 DEF LineEnds
  <2>2. ASSUME NEW d \in LineEnds
        PROVE  d < q \/ e <= d
    BY <1>3, <1>6, <2>1
  <2> QED
    BY <1>3, <1>5, <2>2 DEF LineFrom
<1>8. LineStart(e) = q
  BY <1>7, LineStartIs
<1>9. Colon(e) = n
  <2>1. n \in LineStart(e)..(e - 1)
    BY <1>3, <1>8
  <2>2. \A p \in LineStart(e)..(n - 1) : At(p) # ":"
    BY <1>1, <1>8, Classes
  <2> QED
    BY <1>2, <1>3, <1>8, <2>1, <2>2, ColonIs
<1>10. ASSUME NEW p \in n..(e - 1)
       PROVE  /\ At(p) # "ctl"
              /\ At(p) = "tab" =>
                    \E before \in n..(p - 1) : /\ before = n \/ At(before) = "crlf"
                                               /\ BlankBetween(before + 1, p + 1)
  <2>1. p \in Nat /\ n <= p /\ p < e
    BY <1>3
  <2>2. CASE p = n
    BY <1>2, <2>2
  <2>3. CASE n < p /\ p < v
    <3>1. p \in (n + 1)..(v - 1)
      BY <1>3, <2>1, <2>3
    <3>2. At(p) # "ctl"
      BY <1>1, <3>1, Classes
    <3>3. CASE At(n + 1) # "crlf"
      <4>1. \A r \in (n + 1)..((p + 1) - 1) : At(r) \in Blank
        BY <1>1, <1>3, <2>1, <2>3, <3>3
      <4>2. BlankBetween(n + 1, p + 1)
        BY <1>3, <2>1, <2>3, <4>1 DEF BlankBetween
      <4>3. n \in n..(p - 1)
        BY <1>3, <2>1, <2>3
      <4> QED
        BY <3>2, <4>2, <4>3
    <3>4. CASE At(n + 1) = "crlf" /\ p # n + 1
      <4>1. \A r \in (n + 2)..((p + 1) - 1) : At(r) \in Blank
        BY <1>1, <1>3, <2>1, <2>3, <3>4
      <4>2. BlankBetween((n + 1) + 1, p + 1)
        BY <1>3, <2>1, <2>3, <3>4, <4>1 DEF BlankBetween
      <4>3. n + 1 \in n..(p - 1)
        BY <1>3, <2>1, <2>3, <3>4
      <4> QED
        BY <3>2, <3>4, <4>2, <4>3
    <3> QED
      BY <3>2, <3>3, <3>4
  <2>4. CASE v <= p
    <3>1. p \in v..(e - 1)
      BY <1>3, <2>1, <2>4
    <3>2. At(p) # "ctl"
      BY <1>4, <3>1, Classes
    <3>3. ASSUME At(p) = "tab"
          PROVE  \E before \in n..(p - 1) : /\ before = n \/ At(before) = "crlf"
                                            /\ BlankBetween(before + 1, p + 1)
      <4>1. Folded(v, p)
        BY <1>1, <3>1, <3>3, Classes DEF Inside
      <4>2. PICK f \in v..p : /\ At(f) = "crlf" /\ At(f + 1) \in Blank
                              /\ \A g \in (f + 1)..p : At(g) \in Blank
        BY <4>1 DEF Folded
      <4>3. f # p
        BY <3>3, <4>2
      <4>4. f \in n..(p - 1) /\ f + 1 < p + 1 /\ (p + 1) - 1 = p
        BY <1>3, <2>1, <4>3
      <4>5. BlankBetween(f + 1, p + 1)
        BY <4>2, <4>4 DEF BlankBetween
      <4> QED
        BY <4>2, <4>4, <4>5
    <3> QED
      BY <3>2, <3>3
  <2> QED
    BY <1>3, <2>1, <2>2, <2>3, <2>4
<1>11. IsField(e)
  <2>1. LineStart(e) < Colon(e) /\ Colon(e) < e
    BY <1>3, <1>8, <1>9
  <2>2. \A p \in LineStart(e)..(Colon(e) - 1) : At(p) \in TokenSymbols
    BY <1>1, <1>8, <1>9
  <2> QED
    BY <1>9, <1>10, <2>1, <2>2 DEF IsField
<1>12. IsValueOf(Part(v, e), e)
  <2>1. v \in (Colon(e) + 1)..e
    BY <1>3, <1>9
  <2>2. \A p \in (Colon(e) + 1)..(v - 1) : At(p) \in Blank \cup {"crlf"}
    BY <1>1, <1>9
  <2> QED
    BY <1>1, <2>1, <2>2 DEF IsValueOf
<1>13. NameOf(e) = Part(q, n)
  BY <1>8, <1>9 DEF NameOf
<1> QED
  BY <1>3, <1>7, <1>11, <1>12, <1>13 DEF n, v, e

\* A line that is a field is found by the scan.
LEMMA LineIsField ==
    ASSUME text \in Seq(Symbols), NEW q, AtLine(q), NEW e, LineFrom(q, e), IsField(e)
    PROVE  FieldFound(q)
<1> DEFINE n == Colon(e)
<1>0. /\ Len(text) \in Nat /\ q \in 1..(Len(text) + 1) /\ FieldsStart \in Nat /\ FieldsStart <= q
      /\ q \in Nat /\ e \in Nat /\ q <= e /\ e <= Len(text)
      /\ At(e) = "crlf" /\ At(e + 1) \notin Blank
  BY FirstLine DEF AtLine, FieldsStart, LineFrom, LineEnds
<1>1. LineStart(e) = q
  BY LineStartIs
<1>2. q < n /\ n < e
  BY <1>1 DEF IsField
<1>3. n \in q..(e - 1) /\ At(n) = ":"
  BY <1>0, <1>1, <1>2, ColonThere
<1>4. \A p \in q..(n - 1) : At(p) \in TokenSymbols
  BY <1>1 DEF IsField
<1>5. \A p \in n..(e - 1) :
          /\ At(p) # "ctl"
          /\ At(p) = "tab" => \E before \in n..(p - 1) : /\ before = n \/ At(before) = "crlf"
                                                         /\ BlankBetween(before + 1, p + 1)
  BY DEF IsField
<1> HIDE DEF n
<1>6. n \in Nat /\ n \in q..(Len(text) + 1)
  BY <1>0, <1>3
<1>7. NameEnd(q) = n
  BY <1>0, <1>3, <1>4, <1>6, Classes, ScanIs DEF NameEnd, GetToken
<1> DEFINE v == ValueStart(q)
<1>8. /\ v \in (n + 1)..(Len(text) + 1) /\ At(v) \notin Blank
      /\ \A r \in (n + 1)..(v - 1) :
           \/ At(r) \in Blank
           \/ r = n + 1 /\ At(r) = "crlf" /\ At(r + 1) \in Blank /\ r + 1 < v
  BY <1>0, <1>3, <1>7, NameFound
<1>9. FieldEnd(q) = ValueEnd(v)
  BY DEF FieldEnd
<1> HIDE DEF v
<1>10. v \in Nat /\ n < v
  BY <1>0, <1>6, <1>8
<1>11. v <= e
  <2>1. SUFFICES ASSUME e < v
                 PROVE  FALSE
    BY <1>0, <1>10
  <2>2. e \in (n + 1)..(v - 1)
    BY <1>0, <1>2, <1>6, <1>10, <2>1
  <2> QED
    BY <1>0, <1>8, <2>2, Classes
<1>12. v \in 1..(Len(text) + 1) /\ e \in v..(Len(text) + 1)
  BY <1>0, <1>6, <1>10, <1>11
<1>13. ~Inside(v, e)
  <2>1. ~Folded(v, e)
    BY <1>0, <1>12, FoldedIs, Classes
  <2> QED
    BY <1>0, <2>1, Classes DEF Inside
<1>14. ASSUME NEW r \in v..(e - 1)
       PROVE  Inside(v, r)
  <2>1. /\ r \in Nat /\ v <= r /\ r < e /\ r \in 1..Len(text) /\ r \in n..(e - 1)
        /\ r \in v..(Len(text) + 1)
    BY <1>0, <1>2, <1>6, <1>10, <1>11
  <2>2. At(r) \in Symbols
    BY <2>1, AtText
  <2>3. At(r) # "ctl"
    BY <1>5, <2>1
  <2>4. CASE At(r) = "crlf"
    <3>1. r \notin LineEnds
      BY <1>0, <1>2, <1>6, <1>10, <2>1 DEF LineFrom
    <3>2. At(r + 1) \in Blank
      <4>1. r \in FieldsStart..Len(text)
        BY <1>0, <1>2, <1>6, <1>10, <2>1
      <4> QED
        BY <2>4, <3>1, <4>1 DEF LineEnds
    <3> QED
      BY <1>12, <2>1, <2>4, <3>2, FoldedIs DEF Inside
  <2>5. CASE At(r) = "tab"
    <3>1. PICK before \in n..(r - 1) : /\ before = n \/ At(before) = "crlf"
                                       /\ BlankBetween(before + 1, r + 1)
      BY <1>5, <2>1, <2>5
    <3>2. \A p \in (before + 1)..r : At(p) \in Blank
      BY <2>1, <1>6, <3>1 DEF BlankBetween
    <3>3. before \in Nat /\ n <= before /\ before < r
      BY <1>6, <2>1
    <3>4. v <= before
      <4>1. SUFFICES ASSUME before < v
                     PROVE  FALSE
        BY <1>10, <3>3
      <4>2. v \in (before + 1)..r
        BY <1>10, <2>1, <3>3, <4>1
      <4> QED
        BY <1>8, <3>2, <4>2
    <3>5. At(before) = "crlf"
      BY <1>10, <3>1, <3>3, <3>4
    <3>6. before \in v..r /\ before + 1 \in (before + 1)..r
      BY <1>10, <2>1, <3>3, <3>4
    <3>7. Folded(v, r)
      BY <3>2, <3>5, <3>6 DEF Folded
    <3> QED
      BY <3>7 DEF Inside
  <2>6. CASE At(r) \notin {"crlf", "tab"}
    BY <2>2, <2>3, <2>6, Classes DEF Inside
  <2> QED
    BY <2>4, <2>5, <2>6
<1>15. ValueEnd(v) = e
  BY <1>12, <1>13, <1>14, ValueScanIs
<1> QED
  BY <1>0, <1>2, <1>3, <1>7, <1>9, <1>15 DEF FieldFound

-----------------------------------------------------------------------------
(* The fields grow by one line.                                            *)

\* Line ends and blank lines are places in the text.
LEMMA LineEndsNat ==
    ASSUME text \in Seq(Symbols)
    PROVE  /\ FieldsStart \in Nat /\ LineEnds \in SUBSET Nat /\ BlankLines \in SUBSET Nat
           /\ \A e \in LineEnds : FieldsStart <= e /\ e <= Len(text) /\ At(e) = "crlf"
           /\ \A p \in BlankLines : p - 1 \in LineEnds /\ p <= Len(text) /\ At(p) = "crlf"
BY FirstLine DEF FieldsStart, LineEnds, BlankLines

\* The fields with a new one among them.
With(fields, name, value) ==
    [n \in DOMAIN fields \cup {name} |-> IF n = name THEN value ELSE fields[n]]

\* What emplace makes of the fields.
LEMMA Emplaced ==
    ASSUME NEW name, NEW value,
           message = [line |-> message.line, fields |-> message.fields, body |-> message.body],
           NEW read, read = emplace(name, value)
    PROVE  /\ read = [line |-> message.line, fields |-> read.fields, body |-> message.body]
           /\ name \in DOMAIN message.fields => read.fields = message.fields
           /\ name \notin DOMAIN message.fields =>
                read.fields = With(message.fields, name, value)
<1>1. CASE name \in DOMAIN message.fields
  BY <1>1 DEF emplace
<1>2. CASE name \notin DOMAIN message.fields
  <2>1. PICK l, f, b : l = message.line /\ f = message.fields /\ b = message.body
    OBVIOUS
  <2>2. message = [line |-> l, fields |-> f, body |-> b]
    BY <2>1
  <2>3. read = [message EXCEPT !.fields =
                    [n \in DOMAIN f \cup {name} |-> IF n = name THEN value ELSE f[n]]]
    BY <1>2, <2>1 DEF emplace
  <2>4. read = [line |-> l,
                fields |-> [n \in DOMAIN f \cup {name} |-> IF n = name THEN value ELSE f[n]],
                body |-> b]
    BY <2>2, <2>3
  <2> QED
    BY <1>2, <2>1, <2>4 DEF With
<1> QED
  BY <1>1, <1>2

\* The field of one more line has been read: of a name that is already there
\* the first line counts.
LEMMA ReadOneMore ==
    ASSUME text \in Seq(Symbols), NEW q, AtLine(q), NEW e, LineFrom(q, e), IsField(e),
           NEW fields, ReadBefore(fields, q), NEW value, IsValueOf(value, e),
           NEW more,
           NameOf(e) \in DOMAIN fields => more = fields,
           NameOf(e) \notin DOMAIN fields =>
               more = With(fields, NameOf(e), value)
    PROVE  ReadBefore(more, e + 1)
<1> DEFINE old == {end \in LineEnds : end < q}
           new == {end \in LineEnds : end < e + 1}
           Of(ends, name) == {end \in ends : NameOf(end) = name}
<1>1. /\ LineEnds \in SUBSET Nat /\ q \in Nat /\ e \in LineEnds /\ e \in Nat /\ q <= e
      /\ \A d \in LineEnds : d < q \/ e <= d
  BY LineEndsNat DEF LineFrom, AtLine
<1>2. new = old \cup {e}
  <2>1. \A d \in LineEnds : d \in Nat /\ (d < e + 1 <=> d < q \/ d = e)
    BY <1>1
  <2> QED
    BY <1>1, <2>1
<1>3. /\ \A end \in old : IsField(end)
      /\ DOMAIN fields = {NameOf(end) : end \in old}
      /\ \A name \in DOMAIN fields : IsValueOf(fields[name], Min(Of(old, name)))
  BY DEF ReadBefore
<1>4. \A d \in old : d \in Nat /\ d < e
  BY <1>1
<1> HIDE DEF old, new
<1>5. DOMAIN more = DOMAIN fields \cup {NameOf(e)}
  BY DEF With
<1>6. DOMAIN more = {NameOf(end) : end \in new}
  BY <1>2, <1>3, <1>5
<1>7. ASSUME NEW name \in DOMAIN more
      PROVE  IsValueOf(more[name], Min(Of(new, name)))
  <2>1. CASE name \in DOMAIN fields
    <3>1. more[name] = fields[name]
      BY <2>1 DEF With
    <3>2. Of(old, name) \in SUBSET Nat /\ Of(old, name) # {}
      BY <1>3, <1>4, <2>1
    <3>3. PICK d : d = Min(Of(old, name))
      OBVIOUS
    <3>4. d \in Of(old, name) /\ \A x \in Of(old, name) : d <= x
      BY <3>2, <3>3, Least
    <3>5. /\ Of(new, name) \in SUBSET Nat /\ d \in Of(new, name)
          /\ \A x \in Of(new, name) : d <= x
      <4>1. d \in old /\ d \in Nat /\ d < e
        BY <1>4, <3>4
      <4>2. \A x \in Of(new, name) : x \in Of(old, name) \/ x = e
        BY <1>2
      <4>3. d \in Of(new, name)
        BY <1>2, <3>4
      <4>4. ASSUME NEW x \in Of(new, name)
            PROVE  x \in Nat /\ d <= x
        <5>1. x \in Of(old, name) => x \in Nat /\ d <= x
          BY <1>4, <3>4
        <5>2. x = e => x \in Nat /\ d <= x
          BY <1>1, <4>1
        <5> QED
          BY <4>2, <5>1, <5>2
      <4> HIDE DEF Of
      <4> QED
        BY <4>3, <4>4
    <3>6. Min(Of(new, name)) = d
      <4> HIDE DEF Of
      <4> QED
        BY <3>5, LeastIs
    <3> QED
      BY <1>3, <2>1, <3>1, <3>3, <3>6
  <2>2. CASE name \notin DOMAIN fields
    <3>1. name = NameOf(e) /\ more[name] = value
      BY <1>5, <2>2 DEF With
    <3>2. Of(new, name) = {e}
      BY <1>2, <1>3, <2>2, <3>1
    <3>3. Min({e}) = e
      BY <1>1, LeastIs
    <3> QED
      BY <3>1, <3>2, <3>3
  <2> QED
    BY <2>1, <2>2
<1>8. \A end \in new : IsField(end)
  BY <1>2, <1>3
<1> QED
  BY <1>6, <1>7, <1>8 DEF ReadBefore, new

-----------------------------------------------------------------------------
(* The start line.                                                         *)

\* The first line end, however it was found.
LEMMA FirstLineIs ==
    ASSUME text \in Seq(Symbols), NEW f \in Nat, 1 <= f, At(f) = "crlf",
           \A p \in 1..(f - 1) : At(p) # "crlf"
    PROVE  FirstLineEnd = f
<1>0. Len(text) \in Nat /\ f <= Len(text)
  BY AtText
<1>1. /\ FirstLineEnd \in 1..(Len(text) + 1)
      /\ \A p \in 1..(FirstLineEnd - 1) : At(p) # "crlf"
      /\ FirstLineEnd <= Len(text) => At(FirstLineEnd) = "crlf"
  BY FirstLine
<1>2. ~(f < FirstLineEnd)
  BY <1>0, <1>1
<1>3. ~(FirstLineEnd < f)
  BY <1>0, <1>1
<1> QED
  BY <1>0, <1>1, <1>2, <1>3

Uri == SkipWSP(2)
UriEnd == GetURI(Uri)
ProtocolAt == SkipWSP(UriEnd)
RequestFound ==
    /\ 2 < Uri /\ Uri < UriEnd /\ UriEnd < ProtocolAt
    /\ At(ProtocolAt) = "proto" /\ At(ProtocolAt + 1) = "crlf"

\* A request line that is accepted is one.
LEMMA RequestLineRead ==
    ASSUME text \in Seq(Symbols), IsRequest, RequestFound
    PROVE  /\ ProtocolAt \in Nat /\ FirstLineEnd = ProtocolAt + 1
           /\ Uri \in 1..FirstLineEnd /\ UriEnd \in 1..FirstLineEnd
           /\ IsUri(Uri, UriEnd)
<1> DEFINE u == Uri
           e == UriEnd
           p == ProtocolAt
<1>0. Len(text) \in Nat /\ 2 \in 1..(Len(text) + 1) /\ At(1) = "method"
  BY AtText DEF IsRequest
<1>1. u \in 2..(Len(text) + 1) /\ At(u) \notin Blank /\ \A r \in 2..(u - 1) : At(r) \in Blank
  BY <1>0, Scan, Classes DEF Uri, SkipWSP
<1>2. /\ e \in u..(Len(text) + 1)
      /\ \A r \in u..(e - 1) : At(r) \in Symbols \ (Control \cup {"sp"})
  <2>1. u \in 1..(Len(text) + 1)
    BY <1>0, <1>1
  <2>2. Symbols \ (Control \cup {"sp"}) \in SUBSET Symbols
    OBVIOUS
  <2>3. e = SkipAll(u, Symbols \ (Control \cup {"sp"}))
    BY DEF UriEnd, GetURI
  <2> HIDE DEF u, e
  <2> QED
    BY <2>1, <2>2, <2>3, Scan
<1>3. p \in e..(Len(text) + 1) /\ At(p) \notin Blank /\ \A r \in e..(p - 1) : At(r) \in Blank
  <2>1. e \in 1..(Len(text) + 1)
    BY <1>0, <1>1, <1>2
  <2>2. p = SkipAll(e, Blank)
    BY DEF ProtocolAt, SkipWSP
  <2> HIDE DEF e, p
  <2> QED
    BY <2>1, <2>2, Scan, Classes
<1>4. 2 < u /\ u < e /\ e < p /\ At(p) = "proto" /\ At(p + 1) = "crlf"
  BY DEF RequestFound
<1> HIDE DEF u, e, p
<1>5. u \in Nat /\ e \in Nat /\ p \in Nat
  BY <1>0, <1>1, <1>2, <1>3
<1>6. ASSUME NEW r \in 1..((p + 1) - 1)
      PROVE  At(r) # "crlf"
  <2>1. CASE r = 1
    BY <1>0, <2>1
  <2>2. CASE r \in 2..(u - 1)
    BY <1>1, <2>2, Classes
  <2>3. CASE r \in u..(e - 1)
    BY <1>2, <2>3, Classes
  <2>4. CASE r \in e..(p - 1)
    BY <1>3, <2>4, Classes
  <2>5. CASE r = p
    BY <1>4, <2>5
  <2> QED
    BY <1>4, <1>5, <2>1, <2>2, <2>3, <2>4, <2>5
<1>7. FirstLineEnd = p + 1
  BY <1>4, <1>5, <1>6, FirstLineIs
<1>8. BlankBetween(2, u) /\ BlankBetween(e, FirstLineEnd - 1) /\ At(FirstLineEnd - 1) = "proto"
  BY <1>1, <1>3, <1>4, <1>5, <1>7 DEF BlankBetween
<1>9. \A r \in u..(e - 1) : At(r) \notin Blank \cup Control
  BY <1>2, Classes DEF Blank
<1>10. IsUri(u, e)
  BY <1>0, <1>4, <1>8, <1>9 DEF IsUri
<1>11. u \in 1..FirstLineEnd /\ e \in 1..FirstLineEnd
  BY <1>4, <1>5, <1>7
<1> QED
  BY <1>5, <1>7, <1>10, <1>11 DEF u, e, p

\* A request line is accepted.
LEMMA RequestLineIs ==
    ASSUME text \in Seq(Symbols), At(FirstLineEnd) = "crlf",
           NEW u \in 1..FirstLineEnd, NEW e \in 1..FirstLineEnd, IsUri(u, e)
    PROVE  IsRequest /\ RequestFound
<1>0. /\ Len(text) \in Nat /\ FirstLineEnd \in Nat /\ FirstLineEnd <= Len(text)
      /\ u \in Nat /\ e \in Nat
      /\ \A p \in 1..(FirstLineEnd - 1) : At(p) # "crlf" /\ At(p) \in Symbols
  BY FirstLine, AtText
<1>1. /\ At(1) = "method" /\ 2 < u /\ u < e /\ e < FirstLineEnd - 1
      /\ \A p \in 2..(u - 1) : At(p) \in Blank
      /\ \A p \in u..(e - 1) : At(p) \notin Blank \cup Control
      /\ \A p \in e..((FirstLineEnd - 1) - 1) : At(p) \in Blank
      /\ At(FirstLineEnd - 1) = "proto"
  BY DEF IsUri, BlankBetween
<1>2. IsRequest
  <2>1. At(2) \in Blank
    BY <1>0, <1>1
  <2> QED
    BY <1>1, <2>1 DEF IsRequest, Blank, TokenSymbols, DigitSymbols, ToSet
<1>3. Uri = u
  <2>1. 2 \in 1..(Len(text) + 1) /\ u \in 2..(Len(text) + 1) /\ At(u) \notin Blank
    BY <1>0, <1>1
  <2> QED
    BY <1>1, <2>1, ScanIs, Classes DEF Uri, SkipWSP
<1>4. UriEnd = e
  <2> DEFINE S == Symbols \ (Control \cup {"sp"})
  <2>1. u \in 1..(Len(text) + 1) /\ e \in u..(Len(text) + 1)
    BY <1>0, <1>1
  <2>2. At(e) \notin S
    <3>1. At(e) \in Blank
      BY <1>0, <1>1
    <3> QED
      BY <3>1, Classes DEF Blank
  <2>3. \A r \in u..(e - 1) : At(r) \in S
    <3>1. \A r \in u..(e - 1) : r \in 1..(FirstLineEnd - 1)
      BY <1>0, <1>1
    <3> QED
      BY <1>0, <1>1, <3>1 DEF Blank
  <2>4. S \in SUBSET Symbols
    OBVIOUS
  <2>5. UriEnd = SkipAll(u, S)
    BY <1>3 DEF UriEnd, GetURI
  <2> HIDE DEF S
  <2> QED
    BY <2>1, <2>2, <2>3, <2>4, <2>5, ScanIs
<1>5. ProtocolAt = FirstLineEnd - 1
  <2>1. /\ e \in 1..(Len(text) + 1) /\ FirstLineEnd - 1 \in e..(Len(text) + 1)
        /\ At(FirstLineEnd - 1) \notin Blank
    BY <1>0, <1>1 DEF Blank
  <2> QED
    BY <1>1, <1>4, <2>1, ScanIs, Classes DEF ProtocolAt, SkipWSP
<1> QED
  BY <1>0, <1>1, <1>2, <1>3, <1>4, <1>5 DEF RequestFound

Status == SkipWSP(2)
Phrase == SkipWSP(Status + 1)
PhraseEnd == GetReasonPhrase(Phrase)
ResponseFound ==
    /\ At(1) = "proto"
    /\ 2 < Status /\ At(Status) = "status"
    /\ Status + 1 < Phrase /\ Phrase < PhraseEnd
    /\ At(PhraseEnd) = "crlf"

\* A status line that is accepted is one.
LEMMA StatusLineRead ==
    ASSUME text \in Seq(Symbols), ResponseFound
    PROVE  /\ FirstLineEnd = PhraseEnd
           /\ Phrase \in 1..FirstLineEnd /\ PhraseEnd \in 1..FirstLineEnd
           /\ IsPhrase(Phrase, PhraseEnd)
<1> DEFINE s == Status
           u == Phrase
           e == PhraseEnd
<1>0. Len(text) \in Nat /\ 2 \in 1..(Len(text) + 1) /\ At(1) = "proto"
  BY AtText DEF ResponseFound
<1>1. s \in 2..(Len(text) + 1) /\ \A r \in 2..(s - 1) : At(r) \in Blank
  BY <1>0, Scan, Classes DEF Status, SkipWSP
<1>2. 2 < s /\ At(s) = "status" /\ s + 1 < u /\ u < e /\ At(e) = "crlf"
  BY DEF ResponseFound
<1>3. u = SkipAll(s + 1, Blank) /\ e = SkipAll(u, Symbols \ Control)
  BY DEF Phrase, SkipWSP, PhraseEnd, GetReasonPhrase
<1> HIDE DEF s, u, e
<1>4. s + 1 \in 1..(Len(text) + 1)
  BY <1>0, <1>1, <1>2, AtText
<1>5. u \in (s + 1)..(Len(text) + 1) /\ At(u) \notin Blank /\ \A r \in (s + 1)..(u - 1) : At(r) \in Blank
  BY <1>3, <1>4, Scan, Classes
<1>6. u \in 1..(Len(text) + 1)
  BY <1>0, <1>4, <1>5
<1>7. e \in u..(Len(text) + 1) /\ \A r \in u..(e - 1) : At(r) \in Symbols \ Control
  <2>1. Symbols \ Control \in SUBSET Symbols
    OBVIOUS
  <2> QED
    BY <1>3, <1>6, <2>1, Scan
<1>8. s \in Nat /\ u \in Nat /\ e \in Nat
  BY <1>0, <1>1, <1>6, <1>7
<1>9. ASSUME NEW r \in 1..(e - 1)
      PROVE  At(r) # "crlf"
  <2>1. CASE r = 1 \/ r = s
    BY <1>0, <1>2, <2>1
  <2>2. CASE r \in 2..(s - 1)
    BY <1>1, <2>2, Classes
  <2>3. CASE r \in (s + 1)..(u - 1)
    BY <1>5, <2>3, Classes
  <2>4. CASE r \in u..(e - 1)
    BY <1>7, <2>4, Classes
  <2> QED
    BY <1>2, <1>8, <2>1, <2>2, <2>3, <2>4
<1>10. FirstLineEnd = e
  BY <1>2, <1>8, <1>9, FirstLineIs
<1>11. s \in 3..(u - 2) /\ BlankBetween(2, s) /\ BlankBetween(s + 1, u)
  BY <1>1, <1>2, <1>5, <1>8 DEF BlankBetween
<1>12. IsPhrase(u, e)
  BY <1>0, <1>2, <1>5, <1>7, <1>10, <1>11 DEF IsPhrase
<1>13. u \in 1..FirstLineEnd /\ e \in 1..FirstLineEnd
  BY <1>2, <1>8, <1>10
<1> QED
  BY <1>10, <1>12, <1>13 DEF s, u, e

\* A status line is accepted.
LEMMA StatusLineIs ==
    ASSUME text \in Seq(Symbols), At(FirstLineEnd) = "crlf",
           NEW u \in 1..FirstLineEnd, NEW e \in 1..FirstLineEnd, IsPhrase(u, e)
    PROVE  ~IsRequest /\ ResponseFound
<1>0. /\ Len(text) \in Nat /\ FirstLineEnd \in Nat /\ FirstLineEnd <= Len(text)
      /\ u \in Nat /\ e \in Nat
      /\ \A p \in 1..(FirstLineEnd - 1) : At(p) # "crlf" /\ At(p) \in Symbols
  BY FirstLine, AtText
<1>1. PICK s \in 3..(u - 2) : /\ BlankBetween(2, s) /\ At(s) = "status"
                              /\ BlankBetween(s + 1, u)
  BY DEF IsPhrase
<1>2. /\ At(1) = "proto" /\ u < e /\ e = FirstLineEnd /\ At(u) \notin Blank
      /\ \A p \in u..(e - 1) : At(p) \notin Control
      /\ \A p \in 2..(s - 1) : At(p) \in Blank
      /\ \A p \in (s + 1)..(u - 1) : At(p) \in Blank
  BY <1>1 DEF IsPhrase, BlankBetween
<1>3. s \in Nat /\ 2 < s /\ s + 1 < u
  BY <1>0, <1>1
<1>4. Status = s
  <2>1. 2 \in 1..(Len(text) + 1) /\ s \in 2..(Len(text) + 1) /\ At(s) \notin Blank
    BY <1>0, <1>1, <1>2, <1>3 DEF Blank
  <2> QED
    BY <1>2, <2>1, ScanIs, Classes DEF Status, SkipWSP
<1>5. Phrase = u
  <2>1. s + 1 \in 1..(Len(text) + 1) /\ u \in (s + 1)..(Len(text) + 1)
    BY <1>0, <1>2, <1>3
  <2> QED
    BY <1>2, <1>4, <2>1, ScanIs, Classes DEF Phrase, SkipWSP
<1>6. PhraseEnd = e
  <2> DEFINE S == Symbols \ Control
  <2>1. u \in 1..(Len(text) + 1) /\ e \in u..(Len(text) + 1) /\ At(e) \notin S /\ S \in SUBSET Symbols
    BY <1>0, <1>2, Classes
  <2>2. \A r \in u..(e - 1) : At(r) \in S
    <3>1. \A r \in u..(e - 1) : r \in 1..(FirstLineEnd - 1)
      BY <1>0, <1>2
    <3> QED
      BY <1>0, <1>2, <3>1
  <2>3. PhraseEnd = SkipAll(u, S)
    BY <1>5 DEF PhraseEnd, GetReasonPhrase
  <2> HIDE DEF S
  <2> QED
    BY <2>1, <2>2, <2>3, ScanIs
<1> QED
  BY <1>0, <1>1, <1>2, <1>3, <1>4, <1>5, <1>6 DEF ResponseFound, IsRequest

-----------------------------------------------------------------------------
(* Recursive functions: that they exist, and what they yield.              *)

\* FlattenSeq puts one sequence after the other.
Joined(seqs, f) ==
    /\ f = [i \in 1..Len(seqs) |-> f[i]]
    /\ \A i \in 1..Len(seqs) : f[i] = IF i = 1 THEN seqs[i] ELSE f[i - 1] \o seqs[i]

\* The recursive function inside FlattenSeq exists, by induction on its
\* domain.
LEMMA JoinedExists ==
    ASSUME NEW S, NEW seqs \in Seq(Seq(S)), seqs # <<>>
    PROVE  \E f : Joined(seqs, f)
<1> DEFINE Upto(n, f) ==
             /\ f = [i \in 1..n |-> f[i]]
             /\ \A i \in 1..n : f[i] = IF i = 1 THEN seqs[i] ELSE f[i - 1] \o seqs[i]
           Good == {n \in Nat : \E f : Upto(n, f)}
<1>0. Len(seqs) \in Nat
  BY LenProperties
<1>1. 0 \in Good
  <2>1. Upto(0, [i \in 1..0 |-> i])
    OBVIOUS
  <2> QED
    BY <2>1
<1>2. ASSUME NEW n \in Nat, n \in Good
      PROVE  n + 1 \in Good
  <2>1. PICK f : Upto(n, f)
    BY <1>2
  <2>0. \A i \in 1..n : f[i] = IF i = 1 THEN seqs[i] ELSE f[i - 1] \o seqs[i]
    BY <2>1
  <2> DEFINE g == [i \in 1..(n + 1) |->
                    IF i <= n THEN f[i] ELSE IF i = 1 THEN seqs[i] ELSE f[i - 1] \o seqs[i]]
  <2>2. ASSUME NEW i \in 1..(n + 1)
        PROVE  g[i] = IF i = 1 THEN seqs[i] ELSE g[i - 1] \o seqs[i]
    <3>1. CASE i <= n
      <4>0. i \in 1..n
        BY <3>1
      <4>1. f[i] = IF i = 1 THEN seqs[i] ELSE f[i - 1] \o seqs[i]
        BY <2>0, <4>0
      <4>2. i # 1 => g[i - 1] = f[i - 1]
        BY <3>1
      <4> QED
        BY <3>1, <4>1, <4>2
    <3>2. CASE i = n + 1
      <4>1. i # 1 => g[i - 1] = f[i - 1]
        BY <3>2
      <4> QED
        BY <3>2, <4>1
    <3> QED
      BY <3>1, <3>2
  <2>3. g = [i \in 1..(n + 1) |-> g[i]]
    OBVIOUS
  <2> HIDE DEF g
  <2>4. Upto(n + 1, g)
    BY <2>2, <2>3
  <2> HIDE DEF Upto
  <2> QED
    BY <2>4
<1>3. Len(seqs) \in Good
  <2> HIDE DEF Good
  <2> QED
    BY <1>0, <1>1, <1>2, Induction
<1> QED
  BY <1>3 DEF Joined

\* It yields sequences.
LEMMA JoinedTyped ==
    ASSUME NEW S, NEW seqs \in Seq(Seq(S)), NEW f, Joined(seqs, f)
    PROVE  \A i \in 1..Len(seqs) : f[i] \in Seq(S)
<1> DEFINE Good == {n \in Nat : n + 1 <= Len(seqs) => f[n + 1] \in Seq(S)}
<1>0. Len(seqs) \in Nat /\ \A i \in 1..Len(seqs) : seqs[i] \in Seq(S)
  BY LenProperties, ElementOfSeq
<1>a. \A i \in 1..Len(seqs) : f[i] = IF i = 1 THEN seqs[i] ELSE f[i - 1] \o seqs[i]
  BY DEF Joined
<1>1. 0 \in Good
  BY <1>0, <1>a
<1>2. ASSUME NEW n \in Nat, n \in Good
      PROVE  n + 1 \in Good
  <2>1. ASSUME (n + 1) + 1 <= Len(seqs)
        PROVE  f[(n + 1) + 1] \in Seq(S)
    <3>0. (n + 1) + 1 \in 1..Len(seqs) /\ (n + 1) + 1 # 1 /\ ((n + 1) + 1) - 1 = n + 1
      BY <1>0, <2>1
    <3>1. f[(n + 1) + 1] = f[n + 1] \o seqs[(n + 1) + 1]
      BY <1>a, <3>0
    <3>2. f[n + 1] \in Seq(S) /\ seqs[(n + 1) + 1] \in Seq(S)
      BY <1>0, <1>2, <2>1
    <3> QED
      BY <3>1, <3>2, ConcatProperties
  <2> QED
    BY <2>1
<1>3. Nat \subseteq Good
  <2> HIDE DEF Good
  <2> QED
    BY <1>1, <1>2, Induction
<1>4. \A i \in 1..Len(seqs) : i - 1 \in Nat /\ (i - 1) + 1 = i
  BY <1>0
<1>5. \A i \in 1..Len(seqs) : i - 1 \in Good
  <2> HIDE DEF Good
  <2> QED
    BY <1>3, <1>4
<1> QED
  BY <1>0, <1>4, <1>5

\* FlattenSeq is the last of its values.
LEMMA FlattenIs ==
    ASSUME NEW S, NEW seqs \in Seq(Seq(S)), seqs # <<>>
    PROVE  \E f : Joined(seqs, f) /\ FlattenSeq(seqs) = f[Len(seqs)]
<1>0. Len(seqs) \in Nat /\ Len(seqs) # 0
  BY EmptySeq
<1> DEFINE Equation(f) == f = [i \in 1..Len(seqs) |->
                               IF i = 1 THEN seqs[i] ELSE f[i - 1] \o seqs[i]]
           flatten == CHOOSE f : Equation(f)
<1>1. \E f : Equation(f)
  <2>1. PICK f : Joined(seqs, f)
    BY JoinedExists
  <2>2. f = [i \in 1..Len(seqs) |-> f[i]] /\ \A i \in 1..Len(seqs) :
            f[i] = IF i = 1 THEN seqs[i] ELSE f[i - 1] \o seqs[i]
    BY <2>1 DEF Joined
  <2> QED
    BY <2>2
<1>2. Equation(flatten)
  BY <1>1
<1>3. FlattenSeq(seqs) = flatten[Len(seqs)]
  BY <1>0 DEF FlattenSeq
<1>4. Joined(seqs, flatten)
  <2> HIDE DEF flatten
  <2> QED
    BY <1>2 DEF Joined
<1> QED
  BY <1>3, <1>4

\* What is put together of sequences is a sequence.
LEMMA FlattenType ==
    ASSUME NEW S, NEW seqs \in Seq(Seq(S))
    PROVE  FlattenSeq(seqs) \in Seq(S)
<1>1. CASE seqs = <<>>
  <2>1. Len(seqs) = 0
    BY <1>1, EmptySeq
  <2>2. FlattenSeq(seqs) = <<>>
    BY <1>1, <2>1 DEF FlattenSeq
  <2> QED
    BY <2>2, EmptySeq
<1>2. CASE seqs # <<>>
  <2>1. PICK f : Joined(seqs, f) /\ FlattenSeq(seqs) = f[Len(seqs)]
    BY <1>2, FlattenIs
  <2>2. Len(seqs) \in 1..Len(seqs)
    BY <1>2, EmptySeq
  <2> QED
    BY <2>1, <2>2, JoinedTyped
<1> QED
  BY <1>1, <1>2

\* The digits of a number: those of a tenth of it, and one more.
Ones(n) == n % 10

LastDigit(n) == DigitSymbols[Ones(n) + 1]

Tenth(n) == n \div 10

\* A number is its last digit and a tenth of it.
LEMMA DivMod ==
    ASSUME NEW n \in Nat
    PROVE  /\ Tenth(n) \in Nat /\ Ones(n) \in 0..9 /\ Ones(n) = n - 10 * Tenth(n)
           /\ n >= 10 => Tenth(n) < n
           /\ n < 10 => Tenth(n) = 0 /\ Ones(n) = n
<1>1. Tenth(n) \in Nat /\ Ones(n) \in 0..9
  BY DEF Tenth, Ones
<1>2. Ones(n) = n - 10 * Tenth(n)
  BY DEF Tenth, Ones
<1>4. /\ n >= 10 => Tenth(n) < n
      /\ n < 10 => Tenth(n) = 0 /\ Ones(n) = n
  BY DEF Tenth, Ones
<1> QED
  BY <1>1, <1>2, <1>4

\* Digits are token symbols.
LEMMA DigitsAreSymbols ==
    \A n \in 0..9 : DigitSymbols[n + 1] \in TokenSymbols /\ DigitSymbols[n + 1] \in Symbols
<1>1. DigitSymbols \in Seq(TokenSymbols) /\ Len(DigitSymbols) = 10
  BY DEF DigitSymbols, TokenSymbols, ToSet
<1>2. \A n \in 0..9 : DigitSymbols[n + 1] \in TokenSymbols
  <2>1. \A n \in 0..9 : n + 1 \in 1..10
    OBVIOUS
  <2> QED
    BY <1>1, <2>1, ElementOfSeq
<1> QED
  BY <1>2 DEF Symbols

\* The recursive function Decimal exists, and writes digits.
LEMMA DecimalIs ==
    /\ Decimal \in [CSeq -> Seq(TokenSymbols)]
    /\ \A n \in CSeq : Decimal[n] = IF n < 10 THEN <<LastDigit(n)>>
                                    ELSE Append(Decimal[Tenth(n)], LastDigit(n))
<1> DEFINE Step(n, f) == IF n < 10 THEN <<LastDigit(n)>> ELSE Append(f[Tenth(n)], LastDigit(n))
           Upto(m, f) == /\ f = [i \in 0..m |-> f[i]]
                         /\ \A i \in 0..m : f[i] \in Seq(TokenSymbols) /\ f[i] = Step(i, f)
           Good == {m \in Nat : \E f : Upto(m, f)}
<1>0. \A n \in Nat : LastDigit(n) \in TokenSymbols
  BY DivMod, DigitsAreSymbols DEF LastDigit
<1>1. 0 \in Good
  <2> DEFINE f == [i \in 0..0 |-> <<LastDigit(0)>>]
  <2>1. f[0] \in Seq(TokenSymbols) /\ f[0] = <<LastDigit(0)>>
    BY <1>0
  <2>2. f = [i \in 0..0 |-> f[i]] /\ \A i \in 0..0 : i = 0
    OBVIOUS
  <2> HIDE DEF f
  <2>3. Upto(0, f)
    BY <2>1, <2>2
  <2> HIDE DEF Upto
  <2> QED
    BY <2>3
<1>2. ASSUME NEW m \in Nat, m \in Good
      PROVE  m + 1 \in Good
  <2>1. PICK f : Upto(m, f)
    BY <1>2
  <2>2. \A i \in 0..m : f[i] \in Seq(TokenSymbols) /\ f[i] = Step(i, f)
    BY <2>1
  <2> DEFINE g == [i \in 0..(m + 1) |-> IF i <= m THEN f[i] ELSE Step(i, f)]
  <2>3. ASSUME NEW i \in 0..(m + 1)
        PROVE  g[i] \in Seq(TokenSymbols) /\ g[i] = Step(i, g)
    <3>0. i \in Nat /\ m \in Nat
      OBVIOUS
    <3>1. i >= 10 => Tenth(i) \in 0..m
      BY <3>0, DivMod
    <3>2. Step(i, f) = Step(i, g)
      <4>1. \A k \in 0..m : g[k] = f[k]
        OBVIOUS
      <4> HIDE DEF g
      <4>2. i >= 10 => g[Tenth(i)] = f[Tenth(i)]
        BY <3>1, <4>1
      <4> QED
        BY <3>0, <4>2
    <3>3. Step(i, f) \in Seq(TokenSymbols)
      <4>1. CASE i < 10
        BY <1>0, <4>1
      <4>2. CASE ~(i < 10)
        <5>1. Tenth(i) \in 0..m /\ LastDigit(i) \in TokenSymbols
          BY <1>0, <3>0, <3>1, <4>2
        <5>2. f[Tenth(i)] \in Seq(TokenSymbols)
          BY <2>2, <5>1
        <5> QED
          BY <4>2, <5>1, <5>2, AppendProperties
      <4> QED
        BY <4>1, <4>2
    <3>4. g[i] = IF i <= m THEN f[i] ELSE Step(i, f)
      OBVIOUS
    <3>5. i <= m => f[i] = Step(i, f)
      BY <2>2, <3>0
    <3> HIDE DEF g, Step
    <3> QED
      BY <3>2, <3>3, <3>4, <3>5
  <2>4. g = [i \in 0..(m + 1) |-> g[i]]
    OBVIOUS
  <2> HIDE DEF g
  <2>5. Upto(m + 1, g)
    BY <2>3, <2>4
  <2> HIDE DEF Upto
  <2> QED
    BY <2>5
<1> DEFINE Equation(f) == f = [number \in CSeq |->
             IF number < 10 THEN <<DigitSymbols[number + 1]>>
             ELSE Append(f[number \div 10], DigitSymbols[(number % 10) + 1])]
<1>3. PICK f : Upto(Modulus - 1, f)
  <2>1. Modulus - 1 \in Nat
    BY ModulusAssumption
  <2>2. Modulus - 1 \in Good
    <3> HIDE DEF Good
    <3> QED
      BY <1>1, <1>2, <2>1, Induction
  <2> QED
    BY <2>2
<1>4. \A n \in CSeq : n \in Nat /\ n \in 0..(Modulus - 1)
  BY ModulusAssumption DEF CSeq
<1>5. \A n \in CSeq : n < 10 => Ones(n) = n
  BY <1>4, DivMod
<1>6. Equation(f)
  <2>1. f = [i \in CSeq |-> f[i]]
    BY <1>3 DEF CSeq
  <2>2. ASSUME NEW i \in CSeq
        PROVE  f[i] = IF i < 10 THEN <<DigitSymbols[i + 1]>>
                      ELSE Append(f[i \div 10], DigitSymbols[(i % 10) + 1])
    <3>1. f[i] = Step(i, f)
      BY <1>3, <1>4
    <3> QED
      BY <1>5, <3>1 DEF LastDigit, Tenth, Ones
  <2> QED
    BY <2>1, <2>2
<1>7. Equation(Decimal)
  <2>1. \E h : Equation(h)
    BY <1>6
  <2>2. Decimal = CHOOSE h : Equation(h)
    BY DEF Decimal
  <2> HIDE DEF Equation
  <2> QED
    BY <2>1, <2>2
<1>8. \A n \in CSeq : Decimal[n] = Step(n, Decimal)
  BY <1>5, <1>7 DEF LastDigit, Tenth, Ones
<1>9. Decimal = [n \in CSeq |-> Decimal[n]]
  BY <1>7
<1>10. \A n \in CSeq : Decimal[n] \in Seq(TokenSymbols)
  <2> DEFINE Typed == {m \in Nat : \A n \in CSeq : n <= m => Decimal[n] \in Seq(TokenSymbols)}
  <2>1. ASSUME NEW n \in CSeq, \A k \in CSeq : k < n => Decimal[k] \in Seq(TokenSymbols)
        PROVE  Decimal[n] \in Seq(TokenSymbols)
    <3>1. CASE n < 10
      <4>1. LastDigit(n) \in TokenSymbols
        BY <1>0, <1>4
      <4>2. Decimal[n] = <<LastDigit(n)>>
        BY <1>8, <3>1
      <4> QED
        BY <4>1, <4>2
    <3>2. CASE ~(n < 10)
      <4>1. Tenth(n) \in CSeq /\ Tenth(n) < n
        BY <1>4, <3>2, DivMod, ModulusAssumption DEF CSeq
      <4>2. Decimal[Tenth(n)] \in Seq(TokenSymbols) /\ LastDigit(n) \in TokenSymbols
        BY <1>0, <1>4, <2>1, <4>1
      <4>3. Decimal[n] = Append(Decimal[Tenth(n)], LastDigit(n))
        BY <1>8, <3>2
      <4> QED
        BY <4>2, <4>3, AppendProperties
    <3> QED
      BY <3>1, <3>2
  <2>2. 0 \in Typed
    <3>1. ASSUME NEW n \in CSeq, n <= 0
          PROVE  Decimal[n] \in Seq(TokenSymbols)
      <4>1. \A k \in CSeq : ~(k < n)
        BY <1>4, <3>1
      <4> QED
        BY <2>1, <4>1
    <3> QED
      BY <3>1
  <2>3. ASSUME NEW m \in Nat, m \in Typed
        PROVE  m + 1 \in Typed
    <3>1. ASSUME NEW n \in CSeq, n <= m + 1
          PROVE  Decimal[n] \in Seq(TokenSymbols)
      <4>1. ASSUME NEW k \in CSeq, k < n
            PROVE  Decimal[k] \in Seq(TokenSymbols)
        <5>1. k <= m
          BY <1>4, <3>1, <4>1
        <5> QED
          BY <2>3, <5>1
      <4> QED
        BY <2>1, <4>1
    <3> QED
      BY <3>1
  <2>4. Nat \subseteq Typed
    <3> HIDE DEF Typed
    <3> QED
      BY <2>2, <2>3, Induction
  <2> QED
    BY <1>4, <2>4
<1> QED
  BY <1>8, <1>9, <1>10

\* A sequence of the members of a finite set.
LEMMA SeqOfSet ==
    ASSUME NEW S, IsFiniteSet(S)
    PROVE  /\ SetToSeq(S) \in Seq(S)
           /\ \A i, j \in DOMAIN SetToSeq(S) : SetToSeq(S)[i] = SetToSeq(S)[j] => i = j
           /\ \A x \in S : \E i \in DOMAIN SetToSeq(S) : SetToSeq(S)[i] = x
<1>1. Cardinality(S) \in Nat /\ ExistsBijection(1..Cardinality(S), S)
  BY FS_CardinalityType
<1> DEFINE n == Cardinality(S)  f == SetToSeq(S)
<1>2. \E g \in [1..n -> S] : IsInjective(g)
  BY <1>1 DEF ExistsBijection, Bijection, Injection
<1>3. f \in [1..n -> S] /\ IsInjective(f)
  BY <1>2 DEF SetToSeq
<1>4. f \in Injection(1..n, S)
  BY <1>3 DEF Injection
<1>5. IsFiniteSet(1..n) /\ Cardinality(1..n) = n
  BY <1>1, FS_Interval
<1>6. f \in Surjection(1..n, S)
  BY <1>4, <1>5, FS_Injection
<1>7. f \in Seq(S)
  BY <1>1, <1>3, SeqDef
<1> HIDE DEF f, n
<1>8. \A x \in S : \E i \in DOMAIN f : f[i] = x
  BY <1>6 DEF Surjection
<1> QED
  BY <1>3, <1>7, <1>8 DEF IsInjective, f

-----------------------------------------------------------------------------
(* Types: a text stays a sequence of symbols.                              *)

\* What has been read, and can be written.
ReadTyped(read) ==
    /\ read.line \in Seq(Symbols) /\ read.body \in Seq(Symbols)
    /\ read.fields \in [DOMAIN read.fields -> Seq(Symbols)]
    /\ DOMAIN read.fields \subseteq Seq(Symbols)
    /\ IsFiniteSet(DOMAIN read.fields)

\* The symbols that the serializer puts in.
LEMMA SymbolsIn ==
    /\ {"crlf", "sp", ":", "proto", "method", "status", "cseq"} \subseteq Symbols
    /\ CSeqName \in Seq(TokenSymbols)
    /\ \A s : s \in Seq(TokenSymbols) => s \in Seq(Symbols)
<1>1. TokenSymbols \subseteq Symbols
  BY DEF Symbols
<1>2. {"crlf", "sp", ":", "proto"} \subseteq Symbols
  BY DEF Symbols, Blank
<1>3. {"method", "status", "cseq"} \subseteq TokenSymbols
  BY DEF TokenSymbols
<1>4. CSeqName \in Seq(TokenSymbols)
  BY <1>3 DEF CSeqName
<1>5. \A s : s \in Seq(TokenSymbols) => s \in Seq(Symbols)
  BY <1>1, SeqMonotonic
<1> QED
  BY <1>1, <1>2, <1>3, <1>4, <1>5

\* A field is written with symbols.
LEMMA FieldLineTyped ==
    ASSUME NEW name \in Seq(Symbols), NEW value \in Seq(Symbols)
    PROVE  FieldLine(name, value) \in Seq(Symbols)
<1>1. <<":", "sp">> \in Seq(Symbols) /\ <<"crlf">> \in Seq(Symbols)
  BY SymbolsIn
<1>2. name \o <<":", "sp">> \in Seq(Symbols)
  BY <1>1, ConcatProperties
<1>3. name \o <<":", "sp">> \o value \in Seq(Symbols)
  BY <1>2, ConcatProperties
<1>4. name \o <<":", "sp">> \o value \o <<"crlf">> \in Seq(Symbols)
  BY <1>1, <1>3, ConcatProperties
<1> QED
  BY <1>4 DEF FieldLine

\* The lines of the fields, one for each of them.
FieldLines(read) ==
    LET names == SetToSeq(DOMAIN read.fields)
    IN  [i \in DOMAIN names |-> FieldLine(names[i], read.fields[names[i]])]

\* So are all of them.
LEMMA FieldLinesTyped ==
    ASSUME NEW read, ReadTyped(read)
    PROVE  FieldLines(read) \in Seq(Seq(Symbols))
<1> DEFINE names == SetToSeq(DOMAIN read.fields)
<1>1. names \in Seq(DOMAIN read.fields)
  BY SeqOfSet DEF ReadTyped
<1> HIDE DEF names
<1>2. Len(names) \in Nat /\ DOMAIN names = 1..Len(names)
  BY <1>1, LenProperties
<1>3. ASSUME NEW i \in DOMAIN names
      PROVE  FieldLine(names[i], read.fields[names[i]]) \in Seq(Symbols)
  <2>1. names[i] \in DOMAIN read.fields
    BY <1>1, <1>2, ElementOfSeq
  <2>2. names[i] \in Seq(Symbols) /\ read.fields[names[i]] \in Seq(Symbols)
    BY <2>1 DEF ReadTyped
  <2> QED
    BY <2>2, FieldLineTyped
<1> DEFINE lines == [i \in DOMAIN names |-> FieldLine(names[i], read.fields[names[i]])]
<1>4. lines \in [1..Len(names) -> Seq(Symbols)]
  BY <1>2, <1>3
<1>5. FieldLines(read) = lines
  BY DEF FieldLines, names
<1> HIDE DEF lines
<1>6. lines \in Seq(Seq(Symbols))
  BY <1>2, <1>4, SeqDef
<1> QED
  BY <1>5, <1>6

\* So are the lines, with the CSeq in front unless it is parameters.
LEMMA LinesTyped ==
    ASSUME NEW read, ReadTyped(read), NEW cseq \in CSeq
    PROVE  /\ Lines(read, cseq) \in Seq(Seq(Symbols))
           /\ kind = "parameters" => Lines(read, cseq) = FieldLines(read)
           /\ kind # "parameters" =>
                Lines(read, cseq) = <<FieldLine(CSeqName, Decimal[cseq])>> \o FieldLines(read)
<1>1. FieldLines(read) \in Seq(Seq(Symbols))
  BY FieldLinesTyped
<1>2. Decimal[cseq] \in Seq(Symbols) /\ CSeqName \in Seq(Symbols)
  BY DecimalIs, SymbolsIn
<1>3. <<FieldLine(CSeqName, Decimal[cseq])>> \in Seq(Seq(Symbols))
  <2>1. FieldLine(CSeqName, Decimal[cseq]) \in Seq(Symbols)
    BY <1>2, FieldLineTyped
  <2> QED
    BY <2>1
<1>4. <<FieldLine(CSeqName, Decimal[cseq])>> \o FieldLines(read) \in Seq(Seq(Symbols))
  BY <1>1, <1>3, ConcatProperties
<1>5. Lines(read, cseq) = IF kind = "parameters" THEN FieldLines(read)
                          ELSE <<FieldLine(CSeqName, Decimal[cseq])>> \o FieldLines(read)
  BY DEF Lines, FieldLines
<1> QED
  BY <1>1, <1>4, <1>5

\* So is the start line.
LEMMA StartTyped ==
    ASSUME NEW read, ReadTyped(read)
    PROVE  Start(read) \in Seq(Symbols)
<1>1. /\ <<"method", "sp">> \in Seq(Symbols) /\ <<"sp", "proto", "crlf">> \in Seq(Symbols)
      /\ <<"proto", "sp", "status", "sp">> \in Seq(Symbols) /\ <<"crlf">> \in Seq(Symbols)
  BY SymbolsIn
<1>2. read.line \in Seq(Symbols)
  BY DEF ReadTyped
<1>3. <<"method", "sp">> \o read.line \o <<"sp", "proto", "crlf">> \in Seq(Symbols)
  <2>1. <<"method", "sp">> \o read.line \in Seq(Symbols)
    BY <1>1, <1>2, ConcatProperties
  <2> QED
    BY <1>1, <2>1, ConcatProperties
<1>4. <<"proto", "sp", "status", "sp">> \o read.line \o <<"crlf">> \in Seq(Symbols)
  <2>1. <<"proto", "sp", "status", "sp">> \o read.line \in Seq(Symbols)
    BY <1>1, <1>2, ConcatProperties
  <2> QED
    BY <1>1, <2>1, ConcatProperties
<1> QED
  BY <1>3, <1>4, EmptySeq DEF Start

\* What is serialized is a text again.
LEMMA SerializedTyped ==
    ASSUME NEW read, ReadTyped(read), NEW cseq \in CSeq
    PROVE  Serialized(read, cseq) \in Seq(Symbols)
<1> DEFINE rest == IF read.body = <<>> THEN <<>> ELSE <<"crlf">> \o read.body
<1>1. rest \in Seq(Symbols)
  <2>1. <<"crlf">> \in Seq(Symbols) /\ read.body \in Seq(Symbols)
    BY SymbolsIn DEF ReadTyped
  <2>2. <<"crlf">> \o read.body \in Seq(Symbols)
    BY <2>1, ConcatProperties
  <2> QED
    BY <2>2, EmptySeq
<1> HIDE DEF rest
<1>2. FlattenSeq(Lines(read, cseq)) \in Seq(Symbols)
  BY LinesTyped, FlattenType
<1>3. Start(read) \o FlattenSeq(Lines(read, cseq)) \in Seq(Symbols)
  BY <1>2, StartTyped, ConcatProperties
<1>4. Start(read) \o FlattenSeq(Lines(read, cseq)) \o rest \in Seq(Symbols)
  BY <1>1, <1>3, ConcatProperties
<1> QED
  BY <1>4 DEF Serialized, rest

-----------------------------------------------------------------------------

\* A part of the text is made of symbols, those at its places.
LEMMA PartTyped ==
    ASSUME text \in Seq(Symbols), NEW p \in Nat, NEW q \in Nat, 1 <= p, q <= Len(text) + 1
    PROVE  /\ Part(p, q) \in Seq(Symbols)
           /\ Len(Part(p, q)) = IF p < q THEN q - p ELSE 0
           /\ \A i \in 1..(q - p) : Part(p, q)[i] = At(p + i - 1)
<1>0. Len(text) \in Nat
  BY LenProperties
<1>1. p \in Int /\ q - 1 \in Int /\ \A i \in p..(q - 1) : i \in 1..Len(text)
  BY <1>0
<1>2. \A i \in p..(q - 1) : text[i] \in Symbols
  BY <1>1, ElementOfSeq
<1>3. /\ SubSeq(text, p, q - 1) \in Seq(Symbols)
      /\ Len(SubSeq(text, p, q - 1)) = IF p <= q - 1 THEN (q - 1) - p + 1 ELSE 0
      /\ \A i \in 1..((q - 1) - p + 1) : SubSeq(text, p, q - 1)[i] = text[p + i - 1]
  BY <1>1, <1>2, SubSeqProperties
<1>4. (q - 1) - p + 1 = q - p /\ (p <= q - 1 <=> p < q)
  OBVIOUS
<1>5. \A i \in 1..(q - p) : p + i - 1 \in 1..Len(text)
  BY <1>0
<1>6. \A i \in 1..(q - p) : At(p + i - 1) = text[p + i - 1]
  BY <1>5, LenProperties DEF At
<1> QED
  BY <1>3, <1>4, <1>6 DEF Part

\* The record a step makes of the message.
LEMMA EmplacedTyped ==
    ASSUME RtspTypeOK, NEW name \in Seq(Symbols), NEW value \in Seq(Symbols),
           NEW read, read = emplace(name, value)
    PROVE  /\ read = [line |-> read.line, fields |-> read.fields, body |-> read.body]
           /\ ReadTyped(read)
<1>1. /\ read = [line |-> message.line, fields |-> read.fields, body |-> message.body]
      /\ name \in DOMAIN message.fields => read.fields = message.fields
      /\ name \notin DOMAIN message.fields =>
           read.fields = With(message.fields, name, value)
  <2>1. message = [line |-> message.line, fields |-> message.fields, body |-> message.body]
    BY DEF RtspTypeOK
  <2> QED
    BY <2>1, Emplaced
<1>2. ReadTyped(message)
  BY DEF ReadTyped, RtspTypeOK
<1>3. CASE name \in DOMAIN message.fields
  BY <1>1, <1>2, <1>3 DEF ReadTyped
<1>4. CASE name \notin DOMAIN message.fields
  <2>1. IsFiniteSet(DOMAIN message.fields \cup {name})
    BY <1>2, FS_AddElement DEF ReadTyped
  <2>2. DOMAIN read.fields = DOMAIN message.fields \cup {name}
    BY <1>1, <1>4 DEF With
  <2>3. read.fields \in [DOMAIN message.fields \cup {name} -> Seq(Symbols)]
    BY <1>1, <1>2, <1>4 DEF ReadTyped, With
  <2> QED
    BY <1>1, <1>2, <2>1, <2>2, <2>3 DEF ReadTyped
<1> QED
  BY <1>3, <1>4

Stages == {"start", "fields", "body", "cseq", "accepted", "refused"}

\* A step that reads on.
LEMMA MovedTyped ==
    ASSUME RtspTypeOK, UNCHANGED <<inputVars, parserVars>>,
           position' \in 1..(Len(text) + 1), stage' \in Stages,
           NEW read, message' = read, ReadTyped(read),
           read = [line |-> read.line, fields |-> read.fields, body |-> read.body]
    PROVE  RtspTypeOK'
<1>1. /\ kind' = kind /\ text' = text
      /\ written' = written /\ length' = length /\ tmpOut' = tmpOut /\ outcome' = outcome
  BY DEF inputVars, parserVars
<1>2. ParserTypeOK'
  BY <1>1 DEF ParserTypeOK, RtspTypeOK
<1>3. /\ kind' \in {"message", "parameters", "names"}
      /\ text' \in Seq(Symbols) /\ position' \in 1..(Len(text') + 1)
  BY <1>1 DEF RtspTypeOK
<1>4. stage' \in {"start", "fields", "body", "cseq", "accepted", "refused"}
  BY DEF Stages
<1> QED
  BY <1>2, <1>3, <1>4 DEF RtspTypeOK, ReadTyped

\* A text that is refused stays what it is.
LEMMA RefusedTyped ==
    ASSUME RtspTypeOK, Refuse
    PROVE  RtspTypeOK'
BY DEF RtspTypeOK, Refuse, inputVars, parserVars, ParserTypeOK

\* What RtspTypeOK says of the message and the position.
LEMMA MessageTyped ==
    ASSUME RtspTypeOK
    PROVE  /\ message = [line |-> message.line, fields |-> message.fields, body |-> message.body]
           /\ ReadTyped(message) /\ text \in Seq(Symbols) /\ Len(text) \in Nat
           /\ position \in 1..(Len(text) + 1)
BY LenProperties DEF RtspTypeOK, ReadTyped

\* The start line becomes the line of the message.
LEMMA LineTyped ==
    ASSUME RtspTypeOK, NEW line \in Seq(Symbols), NEW read,
           read = [message EXCEPT !.line = line]
    PROVE  /\ read = [line |-> line, fields |-> message.fields, body |-> message.body]
           /\ ReadTyped(read)
<1>1. read = [line |-> line, fields |-> message.fields, body |-> message.body]
  BY MessageTyped
<1> QED
  BY <1>1, MessageTyped DEF ReadTyped

\* The rest becomes the body of the message.
LEMMA BodyTyped ==
    ASSUME RtspTypeOK, NEW body \in Seq(Symbols), NEW read,
           read = [message EXCEPT !.body = body]
    PROVE  /\ read = [line |-> message.line, fields |-> message.fields, body |-> body]
           /\ ReadTyped(read)
<1>1. read = [line |-> message.line, fields |-> message.fields, body |-> body]
  BY MessageTyped
<1> QED
  BY <1>1, MessageTyped DEF ReadTyped

\* The CSeq leaves the fields.
LEMMA ErasedTyped ==
    ASSUME RtspTypeOK, NEW read,
           read = [message EXCEPT !.fields = [name \in DOMAIN @ \ {CSeqName} |-> @[name]]]
    PROVE  /\ read = [line |-> message.line,
                      fields |-> [name \in DOMAIN message.fields \ {CSeqName} |->
                                    message.fields[name]],
                      body |-> message.body]
           /\ ReadTyped(read)
<1>1. read = [line |-> message.line,
              fields |-> [name \in DOMAIN message.fields \ {CSeqName} |-> message.fields[name]],
              body |-> message.body]
  BY MessageTyped
<1>2. IsFiniteSet(DOMAIN message.fields \ {CSeqName})
  BY MessageTyped, FS_RemoveElement DEF ReadTyped
<1>3. /\ DOMAIN read.fields = DOMAIN message.fields \ {CSeqName}
      /\ read.fields \in [DOMAIN message.fields \ {CSeqName} -> Seq(Symbols)]
  BY <1>1, MessageTyped DEF ReadTyped
<1> QED
  BY <1>1, <1>2, <1>3, MessageTyped DEF ReadTyped

\* Types are kept by ParseMethodLine and ParseStatusLine.
LEMMA StartLineTyped ==
    ASSUME RtspTypeOK, ParseMethodLine \/ ParseStatusLine, ~Refuse
    PROVE  RtspTypeOK'
<1>0. text \in Seq(Symbols) /\ Len(text) \in Nat
  BY MessageTyped
<1>1. CASE ParseMethodLine
  <2>1. /\ stage = "start" /\ IsRequest /\ RequestFound
        /\ Move(ProtocolAt + 2, "fields", [message EXCEPT !.line = Part(Uri, UriEnd)])
    BY <1>1 DEF ParseMethodLine, RequestFound, Uri, UriEnd, ProtocolAt
  <2>2. /\ FirstLineEnd = ProtocolAt + 1
        /\ Uri \in 1..FirstLineEnd /\ UriEnd \in 1..FirstLineEnd
        /\ FirstLineEnd \in 1..(Len(text) + 1) /\ At(FirstLineEnd) = "crlf"
    BY <1>0, <2>1, RequestLineRead, FirstLine DEF RequestFound
  <2>3. FirstLineEnd <= Len(text) /\ ProtocolAt + 2 = FirstLineEnd + 1
    <3>1. ProtocolAt \in Nat
      BY <1>0, <2>1, RequestLineRead
    <3> QED
      BY <1>0, <2>2, <3>1, FirstLine
  <2>4. Part(Uri, UriEnd) \in Seq(Symbols)
    BY <1>0, <2>2, <2>3, PartTyped
  <2>5. /\ position' = FirstLineEnd + 1 /\ stage' = "fields"
        /\ message' = [message EXCEPT !.line = Part(Uri, UriEnd)]
        /\ UNCHANGED <<inputVars, parserVars>>
    BY <2>1, <2>3 DEF Move
  <2>6. PICK read : read = message'
    OBVIOUS
  <2>7. /\ read = [line |-> read.line, fields |-> read.fields, body |-> read.body]
        /\ ReadTyped(read)
    BY <2>4, <2>5, <2>6, LineTyped
  <2>8. position' \in 1..(Len(text) + 1) /\ stage' \in Stages
    BY <1>0, <2>2, <2>3, <2>5 DEF Stages
  <2> QED
    BY <2>5, <2>6, <2>7, <2>8, MovedTyped
<1>2. CASE ParseStatusLine
  <2>1. /\ stage = "start" /\ ~IsRequest /\ ResponseFound
        /\ Move(PhraseEnd + 1, "fields", [message EXCEPT !.line = Part(Phrase, PhraseEnd)])
    BY <1>2 DEF ParseStatusLine, ResponseFound, Status, Phrase, PhraseEnd
  <2>2. /\ FirstLineEnd = PhraseEnd
        /\ Phrase \in 1..FirstLineEnd /\ PhraseEnd \in 1..FirstLineEnd
        /\ FirstLineEnd \in 1..(Len(text) + 1) /\ At(FirstLineEnd) = "crlf"
    BY <1>0, <2>1, StatusLineRead, FirstLine DEF ResponseFound
  <2>3. FirstLineEnd <= Len(text)
    BY <1>0, <2>2, FirstLine
  <2>4. Part(Phrase, PhraseEnd) \in Seq(Symbols)
    BY <1>0, <2>2, <2>3, PartTyped
  <2>5. /\ position' = FirstLineEnd + 1 /\ stage' = "fields"
        /\ message' = [message EXCEPT !.line = Part(Phrase, PhraseEnd)]
        /\ UNCHANGED <<inputVars, parserVars>>
    BY <2>1, <2>2 DEF Move
  <2>6. PICK read : read = message'
    OBVIOUS
  <2>7. /\ read = [line |-> read.line, fields |-> read.fields, body |-> read.body]
        /\ ReadTyped(read)
    BY <2>4, <2>5, <2>6, LineTyped
  <2>8. position' \in 1..(Len(text) + 1) /\ stage' \in Stages
    BY <1>0, <2>2, <2>3, <2>5 DEF Stages
  <2> QED
    BY <2>5, <2>6, <2>7, <2>8, MovedTyped
<1> QED
  BY <1>1, <1>2

\* What ParseHeaderField leaves behind a field.
NextLine(q) == SkipEOL(FieldEnd(q) + 1)

\* Behind a field comes its line end, and the blank line if there is one.
LEMMA NextLineIs ==
    ASSUME text \in Seq(Symbols), NEW q \in 1..(Len(text) + 1), FieldFound(q)
    PROVE  /\ NextLine(q) \in 1..(Len(text) + 1)
           /\ NextLine(q) = IF At(FieldEnd(q) + 1) = "crlf" THEN FieldEnd(q) + 2
                            ELSE FieldEnd(q) + 1
           /\ q \in Nat /\ NameEnd(q) \in Nat /\ ValueStart(q) \in Nat /\ FieldEnd(q) \in Nat
           /\ q < NameEnd(q) /\ NameEnd(q) < ValueStart(q) /\ ValueStart(q) <= FieldEnd(q)
           /\ FieldEnd(q) <= Len(text)
<1> DEFINE n == NameEnd(q)  v == ValueStart(q)  e == FieldEnd(q)
<1>0. Len(text) \in Nat /\ At(NameEnd(q)) = ":" /\ At(e) = "crlf" /\ q < n
  BY LenProperties DEF FieldFound
<1>1. n \in q..Len(text) /\ v \in (n + 1)..(Len(text) + 1) /\ e \in v..(Len(text) + 1)
  BY <1>0, NameFound
<1> HIDE DEF n, v, e
<1>2. e \in Nat /\ e <= Len(text) + 1
  BY <1>0, <1>1
<1>3. e <= Len(text)
  BY <1>0, <1>2, AtText
<1>4. NextLine(q) = IF At(e + 1) = "crlf" THEN e + 2 ELSE e + 1
  <2>1. NextLine(q) = IF At(e + 1) = "crlf" THEN (e + 1) + 1 ELSE e + 1
    BY DEF NextLine, SkipEOL, e
  <2> QED
    BY <1>2, <2>1
<1>5. At(e + 1) = "crlf" => e + 1 <= Len(text)
  BY <1>0, <1>2, AtText
<1>6. NextLine(q) \in 1..(Len(text) + 1)
  BY <1>0, <1>1, <1>2, <1>3, <1>4, <1>5
<1>7. /\ q \in Nat /\ n \in Nat /\ v \in Nat /\ e \in Nat
      /\ q < n /\ n < v /\ v <= e
  BY <1>0, <1>1
<1> QED
  BY <1>3, <1>4, <1>6, <1>7 DEF n, v, e

\* Types are kept by ParseHeaderField.
LEMMA HeaderFieldTyped ==
    ASSUME RtspTypeOK, ParseHeaderField, ~Refuse
    PROVE  RtspTypeOK'
<1>0. /\ text \in Seq(Symbols) /\ Len(text) \in Nat /\ position \in 1..(Len(text) + 1)
  BY MessageTyped
<1>1. /\ FieldFound(position)
      /\ Move(NextLine(position),
              IF NextLine(position) = FieldEnd(position) + 1 THEN "fields" ELSE "body",
              emplace(Part(position, NameEnd(position)),
                      Part(ValueStart(position), FieldEnd(position))))
  BY DEF ParseHeaderField, FieldFound, NextLine, FieldEnd, ValueStart, NameEnd
<1>2. PICK read : read = message'
  OBVIOUS
<1>3. /\ position' = NextLine(position) /\ stage' \in Stages
      /\ read = emplace(Part(position, NameEnd(position)),
                        Part(ValueStart(position), FieldEnd(position)))
      /\ UNCHANGED <<inputVars, parserVars>>
  BY <1>1, <1>2 DEF Move, Stages
<1>4. PICK q : q = position
  OBVIOUS
<1>5. Part(q, NameEnd(q)) \in Seq(Symbols) /\ Part(ValueStart(q), FieldEnd(q)) \in Seq(Symbols)
  <2>1. /\ q \in Nat /\ NameEnd(q) \in Nat /\ ValueStart(q) \in Nat /\ FieldEnd(q) \in Nat
        /\ 1 <= q /\ 1 <= ValueStart(q)
        /\ NameEnd(q) <= Len(text) + 1 /\ FieldEnd(q) <= Len(text) + 1
    BY <1>0, <1>1, <1>4, NextLineIs
  <2> QED
    BY <1>0, <2>1, PartTyped
<1>6. /\ read = [line |-> read.line, fields |-> read.fields, body |-> read.body]
      /\ ReadTyped(read)
  BY <1>3, <1>4, <1>5, EmplacedTyped
<1>7. position' \in 1..(Len(text) + 1)
  BY <1>0, <1>1, <1>3, NextLineIs
<1> QED
  BY <1>2, <1>3, <1>6, <1>7, MovedTyped

\* Types are kept by TakeBody.
LEMMA TakeBodyTyped ==
    ASSUME RtspTypeOK, TakeBody, ~Refuse
    PROVE  RtspTypeOK'
<1>0. /\ text \in Seq(Symbols) /\ Len(text) \in Nat /\ position \in 1..(Len(text) + 1)
  BY MessageTyped
<1>1. Move(Len(text) + 1, "cseq", [message EXCEPT !.body = Part(position, Len(text) + 1)])
  BY DEF TakeBody
<1>2. PICK read : read = message'
  OBVIOUS
<1>3. /\ position' = Len(text) + 1 /\ stage' \in Stages
      /\ read = [message EXCEPT !.body = Part(position, Len(text) + 1)]
      /\ UNCHANGED <<inputVars, parserVars>>
  BY <1>1, <1>2 DEF Move, Stages
<1>4. Part(position, Len(text) + 1) \in Seq(Symbols)
  BY <1>0, PartTyped
<1>5. /\ read = [line |-> read.line, fields |-> read.fields, body |-> read.body]
      /\ ReadTyped(read)
  BY <1>3, <1>4, BodyTyped
<1> QED
  BY <1>0, <1>2, <1>3, <1>5, MovedTyped

\* Types are kept by EraseCSeq.
LEMMA EraseTyped ==
    ASSUME RtspTypeOK, EraseCSeq, ~Refuse
    PROVE  RtspTypeOK'
<1>0. /\ text \in Seq(Symbols) /\ Len(text) \in Nat /\ position \in 1..(Len(text) + 1)
  BY MessageTyped
<1>2. PICK read : read = message'
  OBVIOUS
<1>3. /\ position' = position /\ stage' \in Stages
      /\ read = [message EXCEPT !.fields = [name \in DOMAIN @ \ {CSeqName} |-> @[name]]]
      /\ UNCHANGED <<inputVars, parserVars>>
  BY <1>2 DEF EraseCSeq, Move, Stages
<1>5. /\ read = [line |-> read.line, fields |-> read.fields, body |-> read.body]
      /\ ReadTyped(read)
  BY <1>3, ErasedTyped
<1> QED
  BY <1>0, <1>2, <1>3, <1>5, MovedTyped

\* What a round of ParseParameters finds.
ParameterNameEnd(q) == SkipNotColon(q)
ParameterValue(q) == SkipWSP(ParameterNameEnd(q) + 1)
ParameterEnd(q) == GetReasonPhrase(ParameterValue(q))
ParameterFound(q) ==
    /\ q < ParameterNameEnd(q)
    /\ At(ParameterNameEnd(q)) = ":"
    /\ At(ParameterEnd(q)) = "crlf"

\* Where things are in a parameter.
LEMMA ParameterIs ==
    ASSUME text \in Seq(Symbols), NEW q \in 1..(Len(text) + 1), At(ParameterNameEnd(q)) = ":"
    PROVE  LET n == ParameterNameEnd(q)  v == ParameterValue(q)  e == ParameterEnd(q) IN
           /\ q \in Nat /\ n \in Nat /\ v \in Nat /\ e \in Nat
           /\ q <= n /\ n < v /\ v <= e /\ n <= Len(text) /\ e <= Len(text) + 1
           /\ \A r \in q..(n - 1) : At(r) \in Symbols \ {":"}
           /\ \A r \in (n + 1)..(v - 1) : At(r) \in Blank
           /\ At(v) \notin Blank /\ At(e) \notin Symbols \ Control
           /\ \A r \in v..(e - 1) : At(r) \in Symbols \ Control
<1> DEFINE n == ParameterNameEnd(q)  v == ParameterValue(q)  e == ParameterEnd(q)
<1>0. Len(text) \in Nat
  BY LenProperties
<1>1. n \in q..(Len(text) + 1) /\ \A r \in q..(n - 1) : At(r) \in Symbols \ {":"}
  <2>1. Symbols \ {":"} \in SUBSET Symbols /\ n = SkipAll(q, Symbols \ {":"})
    BY DEF ParameterNameEnd, SkipNotColon
  <2> HIDE DEF n
  <2> QED
    BY <2>1, Scan
<1>a. n \in Nat /\ q <= n /\ n <= Len(text)
  <2> HIDE DEF n
  <2>1. n \in Nat /\ At(n) = ":"
    BY <1>0, <1>1 DEF n
  <2> QED
    BY <1>0, <1>1, <2>1, AtText
<1>2. /\ v \in (n + 1)..(Len(text) + 1) /\ At(v) \notin Blank
      /\ \A r \in (n + 1)..(v - 1) : At(r) \in Blank
  <2>1. v = SkipAll(n + 1, Blank)
    BY DEF ParameterValue, SkipWSP
  <2> HIDE DEF n, v
  <2>2. n + 1 \in 1..(Len(text) + 1)
    BY <1>0, <1>a
  <2> QED
    BY <2>1, <2>2, Scan, Classes
<1>3. /\ e \in v..(Len(text) + 1) /\ At(e) \notin Symbols \ Control
      /\ \A r \in v..(e - 1) : At(r) \in Symbols \ Control
  <2>1. e = SkipAll(v, Symbols \ Control) /\ Symbols \ Control \in SUBSET Symbols
    BY DEF ParameterEnd, GetReasonPhrase
  <2> HIDE DEF n, e, v
  <2>2. v \in 1..(Len(text) + 1)
    BY <1>0, <1>a, <1>2
  <2> QED
    BY <2>1, <2>2, Scan
<1> HIDE DEF n, v, e
<1>4. /\ q \in Nat /\ n \in Nat /\ v \in Nat /\ e \in Nat
      /\ q <= n /\ n < v /\ v <= e /\ n <= Len(text) /\ e <= Len(text) + 1
  BY <1>0, <1>a, <1>2, <1>3
<1> QED
  BY <1>1, <1>2, <1>3, <1>4 DEF n, v, e

\* Types are kept by ParseParameter.
LEMMA ParameterTyped ==
    ASSUME RtspTypeOK, ParseParameter, ~Refuse
    PROVE  RtspTypeOK'
<1>0. /\ text \in Seq(Symbols) /\ Len(text) \in Nat /\ position \in 1..(Len(text) + 1)
  BY MessageTyped
<1>1. PICK q : q = position
  OBVIOUS
<1>2. PICK read : read = message'
  OBVIOUS
<1>3. /\ ParameterFound(q)
      /\ position' = ParameterEnd(q) + 1 /\ stage' = "fields"
      /\ read = emplace(Part(q, ParameterNameEnd(q)), Part(ParameterValue(q), ParameterEnd(q)))
      /\ UNCHANGED <<inputVars, parserVars>>
  BY <1>1, <1>2
     DEF ParseParameter, ParameterFound, ParameterEnd, ParameterValue, ParameterNameEnd, Move
<1> DEFINE n == ParameterNameEnd(q)  v == ParameterValue(q)  e == ParameterEnd(q)
<1>4. /\ q \in Nat /\ n \in Nat /\ v \in Nat /\ e \in Nat /\ 1 <= q
      /\ q <= n /\ n < v /\ v <= e /\ n <= Len(text) /\ e <= Len(text) + 1
  BY <1>0, <1>1, <1>3, ParameterIs DEF ParameterFound
<1>5. e <= Len(text)
  <2>1. At(e) = "crlf"
    BY <1>3 DEF ParameterFound
  <2> HIDE DEF n, v, e
  <2> QED
    BY <1>0, <1>4, <2>1, AtText
<1> HIDE DEF n, v, e
<1>6. Part(q, n) \in Seq(Symbols) /\ Part(v, e) \in Seq(Symbols)
  <2>1. 1 <= v /\ n <= Len(text) + 1
    BY <1>0, <1>4
  <2> QED
    BY <1>0, <1>4, <2>1, PartTyped
<1>7. /\ read = [line |-> read.line, fields |-> read.fields, body |-> read.body]
      /\ ReadTyped(read)
  <2>1. read = emplace(Part(q, n), Part(v, e))
    BY <1>3 DEF n, v, e
  <2> QED
    BY <1>6, <2>1, EmplacedTyped
<1>8. position' \in 1..(Len(text) + 1) /\ stage' \in Stages
  <2>1. position' = e + 1
    BY <1>3 DEF e
  <2> QED
    BY <1>0, <1>3, <1>4, <1>5, <2>1 DEF Stages
<1> QED
  BY <1>2, <1>3, <1>7, <1>8, MovedTyped

\* Types are kept by ParseParameterName.
LEMMA ParameterNameTyped ==
    ASSUME RtspTypeOK, ParseParameterName, ~Refuse
    PROVE  RtspTypeOK'
<1>0. /\ text \in Seq(Symbols) /\ Len(text) \in Nat /\ position \in 1..(Len(text) + 1)
  BY MessageTyped
<1>1. PICK q, n, read : q = position /\ n = GetToken(position) /\ read = message'
  OBVIOUS
<1>2. /\ q < n /\ At(n) = "crlf" /\ position' = n + 1 /\ stage' = "fields"
      /\ read = emplace(Part(q, n), <<>>)
      /\ UNCHANGED <<inputVars, parserVars>>
  BY <1>1 DEF ParseParameterName, Move
<1>3. n \in q..(Len(text) + 1)
  BY <1>0, <1>1, Scan, Classes DEF GetToken
<1>4. n \in Nat /\ q \in Nat /\ 1 <= q /\ n <= Len(text)
  <2>1. n \in Nat /\ q \in Nat /\ 1 <= q
    BY <1>0, <1>1, <1>3
  <2> QED
    BY <1>0, <1>2, <2>1, AtText
<1>5. Part(q, n) \in Seq(Symbols) /\ <<>> \in Seq(Symbols)
  <2>1. n <= Len(text) + 1
    BY <1>0, <1>4
  <2> QED
    BY <1>0, <1>4, <2>1, PartTyped, EmptySeq
<1>6. /\ read = [line |-> read.line, fields |-> read.fields, body |-> read.body]
      /\ ReadTyped(read)
  BY <1>2, <1>5, EmplacedTyped
<1>7. position' \in 1..(Len(text) + 1) /\ stage' \in Stages
  BY <1>0, <1>2, <1>4 DEF Stages
<1> QED
  BY <1>1, <1>2, <1>6, <1>7, MovedTyped

\* A step that leaves the number alone keeps what is said of it.
LEMMA NumberKept ==
    ASSUME ExactInRange, UNCHANGED parserVars
    PROVE  ExactInRange'
BY DEF ExactInRange, parserVars

\* The value of a digit.
LEMMA DigitValueIs ==
    ASSUME NEW symbol \in ToSet(DigitSymbols)
    PROVE  DigitValue(symbol) \in Digit /\ DigitSymbols[DigitValue(symbol) + 1] = symbol
<1>1. DOMAIN DigitSymbols = 1..10
  BY DEF DigitSymbols
<1>2. PICK i \in 1..10 : DigitSymbols[i] = symbol
  BY <1>1 DEF ToSet
<1>3. i - 1 \in Digit /\ DigitSymbols[(i - 1) + 1] = symbol
  BY <1>2 DEF Digit
<1> QED
  BY <1>3 DEF DigitValue

\* A character of the CSeq is a step of ParseCSeq.
LEMMA CSeqStep ==
    ASSUME ParseCSeq
    PROVE  ParserNext
<1> DEFINE symbol == message.fields[CSeqName][length + 1]
<1>1. CASE TokenEnd
  BY <1>1 DEF ParserNext
<1>2. CASE symbol \in ToSet(DigitSymbols) /\ ReadDigit(DigitValue(symbol))
  <2>1. PICK digit : digit = DigitValue(symbol)
    OBVIOUS
  <2>2. digit \in Digit
    BY <1>2, <2>1, DigitValueIs
  <2>3. ReadDigit(digit)
    BY <1>2, <2>1 DEF ReadDigit
  <2> QED
    BY <2>2, <2>3 DEF ParserNext
<1>3. CASE ReadOther
  BY <1>3 DEF ParserNext
<1> QED
  BY <1>1, <1>2, <1>3 DEF ParseCSeq

\* Types are kept by ParseCSeq, and the number is read as it is written.
LEMMA CSeqTyped ==
    ASSUME RtspTypeOK, ExactInRange, ParseCSeq
    PROVE  RtspTypeOK' /\ ExactInRange'
<1>1. ParserTypeOK' /\ ExactInRange'
  BY CSeqStep, ParserStep DEF RtspTypeOK
<1>2. UNCHANGED <<kind, text, position, stage, message>>
  BY DEF ParseCSeq, inputVars
<1>3. RtspTypeOK'
  BY <1>1, <1>2 DEF RtspTypeOK
<1> QED
  BY <1>1, <1>3

\* Types are kept by ParametersEnd.
LEMMA ParametersEndTyped ==
    ASSUME RtspTypeOK, ParametersEnd
    PROVE  RtspTypeOK'
<1>1. PICK read : read = message'
  OBVIOUS
<1>2. /\ position' = position /\ stage' \in Stages /\ read = message
      /\ UNCHANGED <<inputVars, parserVars>>
  BY <1>1 DEF ParametersEnd, Move, Stages
<1>3. /\ read = [line |-> read.line, fields |-> read.fields, body |-> read.body]
      /\ ReadTyped(read)
  BY <1>2, MessageTyped
<1> QED
  BY <1>1, <1>2, <1>3, MessageTyped, MovedTyped

\* Nothing read is something that can be written.
LEMMA NothingTyped == ReadTyped(Nothing)
<1>1. Nothing.line = <<>> /\ Nothing.body = <<>> /\ Nothing.fields = <<>>
  BY DEF Nothing
<1>2. DOMAIN <<>> = {}
  OBVIOUS
<1>3. <<>> \in [{} -> Seq(Symbols)]
  BY <1>2
<1> QED
  BY <1>1, <1>2, <1>3, EmptySeq, FS_EmptySet DEF ReadTyped

\* Before the first symbol of a text is read.
AtStart ==
    /\ text \in Seq(Symbols) /\ kind \in {"message", "parameters", "names"}
    /\ position = 1 /\ stage = FirstStage /\ message = Nothing
    /\ ParserInit

\* Types hold before the first symbol.
LEMMA InitialTyped == AtStart => RtspTypeOK /\ ExactInRange
<1> SUFFICES ASSUME AtStart
             PROVE  RtspTypeOK /\ ExactInRange
  OBVIOUS
<1> USE DEF AtStart
<1>1. Len(text) \in Nat /\ 1 \in 1..(Len(text) + 1)
  BY LenProperties
<1>2. ParserTypeOK
  BY ParserTypeInit
<1>3. ExactInRange
  BY DEF ParserInit, ExactInRange
<1>4. stage \in {"start", "fields", "body", "cseq", "accepted", "refused"}
  BY DEF FirstStage
<1>5. message = [line |-> message.line, fields |-> message.fields, body |-> message.body]
  BY DEF Nothing
<1> QED
  BY <1>1, <1>2, <1>3, <1>4, <1>5, NothingTyped DEF RtspTypeOK, ReadTyped

\* What was written is read from its start.
LEMMA StartAgain ==
    ASSUME RtspTypeOK, Serialize
    PROVE  AtStart'
<1>1. Serialized(message, tmpOut) \in Seq(Symbols)
  <2>1. tmpOut \in CSeq
    BY DEF RtspTypeOK, ParserTypeOK
  <2> QED
    BY <2>1, MessageTyped, SerializedTyped
<1>2. PICK t : t = Serialized(message, tmpOut)
  OBVIOUS
<1>3. /\ text' = t /\ kind' = kind /\ position' = 1 /\ message' = Nothing
      /\ stage' = IF kind = "message" THEN "start" ELSE "fields"
      /\ written' = 0 /\ length' = 0 /\ tmpOut' = 0 /\ outcome' = "reading"
  BY <1>2 DEF Serialize, FirstStage
<1>4. /\ text' \in Seq(Symbols) /\ kind' \in {"message", "parameters", "names"}
      /\ position' = 1 /\ stage' = FirstStage' /\ message' = Nothing /\ ParserInit'
  BY <1>1, <1>2, <1>3 DEF RtspTypeOK, ParserInit, FirstStage
<1>5. Nothing' = Nothing
  BY DEF Nothing
<1> QED
  BY <1>4, <1>5 DEF AtStart

\* Types are kept by Serialize.
LEMMA SerializeTyped ==
    ASSUME RtspTypeOK, Serialize
    PROVE  RtspTypeOK' /\ ExactInRange'
<1>1. AtStart'
  BY StartAgain
<1> QED
  BY <1>1, InitialTyped, PTL

\* Every step keeps the types and the number read.
LEMMA TypeStep ==
    ASSUME RtspTypeOK, ExactInRange, [RtspNext]_vars
    PROVE  RtspTypeOK' /\ ExactInRange'
<1>1. CASE Refuse
  <2>1. ExactInRange'
    BY <1>1, NumberKept DEF Refuse
  <2> QED
    BY <1>1, <2>1, RefusedTyped
<1>2. CASE ~Refuse
  <2>1. CASE ParseMethodLine \/ ParseStatusLine
    <3>1. UNCHANGED parserVars
      BY <1>2, <2>1 DEF ParseMethodLine, ParseStatusLine, Move
    <3> QED
      BY <1>2, <2>1, <3>1, StartLineTyped, NumberKept
  <2>2. CASE ParseHeaderField
    <3>1. UNCHANGED parserVars
      BY <1>2, <2>2 DEF ParseHeaderField, Move
    <3> QED
      BY <1>2, <2>2, <3>1, HeaderFieldTyped, NumberKept
  <2>3. CASE TakeBody
    <3>1. UNCHANGED parserVars
      BY <1>2, <2>3 DEF TakeBody, Move
    <3> QED
      BY <1>2, <2>3, <3>1, TakeBodyTyped, NumberKept
  <2>4. CASE ParseCSeq
    BY <2>4, CSeqTyped
  <2>5. CASE EraseCSeq
    <3>1. UNCHANGED parserVars
      BY <1>2, <2>5 DEF EraseCSeq, Move
    <3> QED
      BY <1>2, <2>5, <3>1, EraseTyped, NumberKept
  <2>6. CASE ParseParameter
    <3>1. UNCHANGED parserVars
      BY <1>2, <2>6 DEF ParseParameter, Move
    <3> QED
      BY <1>2, <2>6, <3>1, ParameterTyped, NumberKept
  <2>7. CASE ParseParameterName
    <3>1. UNCHANGED parserVars
      BY <1>2, <2>7 DEF ParseParameterName, Move
    <3> QED
      BY <1>2, <2>7, <3>1, ParameterNameTyped, NumberKept
  <2>8. CASE ParametersEnd
    <3>1. UNCHANGED parserVars
      BY <2>8 DEF ParametersEnd, Move
    <3> QED
      BY <2>8, <3>1, ParametersEndTyped, NumberKept
  <2>9. CASE Serialize
    BY <2>9, SerializeTyped
  <2>10. CASE UNCHANGED vars
    BY <2>10 DEF vars, inputVars, parserVars, RtspTypeOK, ParserTypeOK, ExactInRange
  <2> QED
    BY <2>1, <2>2, <2>3, <2>4, <2>5, <2>6, <2>7, <2>8, <2>9, <2>10 DEF RtspNext
<1> QED
  BY <1>1, <1>2

\* Every text that can be given is one.
LEMMA TypeInit == RtspInit => RtspTypeOK /\ ExactInRange
<1>1. RtspInit => text \in Seq(Symbols) /\ kind \in {"message", "parameters", "names"}
  BY TextsAssumption DEF RtspInit
<1> QED
  BY <1>1, InitialTyped DEF RtspInit, AtStart

\* Positions stay within the text, and what is read, or written and read
\* again, stays made of symbols, for every text (RtspParser.cpp, RtspSerialize.cpp).
THEOREM RtspTypeCorrect == RtspSpec => []RtspTypeOK
<1>1. RtspInit => RtspTypeOK /\ ExactInRange
  BY TypeInit
<1>2. RtspTypeOK /\ ExactInRange /\ [RtspNext]_vars => (RtspTypeOK /\ ExactInRange)'
  BY TypeStep
<1> QED
  BY <1>1, <1>2, PTL DEF RtspSpec

\* The CSeq of a message is read as it is written, for every text and width
\* (RtspParser.cpp 325-350).
THEOREM RtspReadsExactly == RtspSpec => []ExactInRange
<1>1. RtspInit => RtspTypeOK /\ ExactInRange
  BY TypeInit
<1>2. RtspTypeOK /\ ExactInRange /\ [RtspNext]_vars => (RtspTypeOK /\ ExactInRange)'
  BY TypeStep
<1> QED
  BY <1>1, <1>2, PTL DEF RtspSpec

-----------------------------------------------------------------------------
(* What the lines of a text are does not change while it is read.          *)

\* The lines depend on the text alone ...
LEMMA LinesKept ==
    ASSUME UNCHANGED text
    PROVE  /\ \A p : At(p)' = At(p)
           /\ \A p, q : Part(p, q)' = Part(p, q)
           /\ FirstLineEnd' = FirstLineEnd /\ FieldsStart' = FieldsStart
           /\ LineEnds' = LineEnds /\ BlankLines' = BlankLines
           /\ HeaderEnd' = HeaderEnd /\ HeaderLineEnds' = HeaderLineEnds
<1>1. \A p : At(p)' = At(p)
  BY DEF At
<1>2. \A p, q : Part(p, q)' = Part(p, q)
  BY DEF Part
<1>3. FirstLineEnd' = FirstLineEnd
  BY DEF FirstLineEnd
<1>4. FieldsStart' = FieldsStart
  BY <1>3 DEF FieldsStart
<1>5. LineEnds' = LineEnds
  BY <1>1, <1>4 DEF LineEnds
<1>6. BlankLines' = BlankLines
  BY <1>1, <1>5 DEF BlankLines
<1>7. HeaderEnd' = HeaderEnd
  BY <1>6 DEF HeaderEnd
<1>8. HeaderLineEnds' = HeaderLineEnds
  BY <1>5, <1>7 DEF HeaderLineEnds
<1> QED
  BY <1>1, <1>2, <1>3, <1>4, <1>5, <1>6, <1>7, <1>8

\* ... and so do the fields on them.
LEMMA FieldsKept ==
    ASSUME UNCHANGED text
    PROVE  /\ \A e : IsField(e)' = IsField(e)
           /\ \A e : NameOf(e)' = NameOf(e)
           /\ \A v, e : IsValueOf(v, e)' = IsValueOf(v, e)
           /\ \A f, e : IsUri(f, e)' = IsUri(f, e) /\ IsPhrase(f, e)' = IsPhrase(f, e)
<1>0. /\ \A p : At(p)' = At(p)
      /\ \A p, q : Part(p, q)' = Part(p, q)
      /\ FirstLineEnd' = FirstLineEnd /\ FieldsStart' = FieldsStart
      /\ LineEnds' = LineEnds
  BY LinesKept
<1>1. \A e : LineStart(e)' = LineStart(e)
  BY <1>0 DEF LineStart
<1>2. \A e : Colon(e)' = Colon(e)
  BY <1>0, <1>1 DEF Colon
<1>3. \A f, e : BlankBetween(f, e)' = BlankBetween(f, e)
  BY <1>0 DEF BlankBetween
<1>4. \A e : NameOf(e)' = NameOf(e)
  BY <1>0, <1>1, <1>2 DEF NameOf
<1>5. ASSUME NEW e PROVE IsField(e)' = IsField(e)
  BY <1>0, <1>1, <1>2, <1>3 DEF IsField
<1>6. ASSUME NEW v, NEW e PROVE IsValueOf(v, e)' = IsValueOf(v, e)
  BY <1>0, <1>2 DEF IsValueOf
<1>7. ASSUME NEW f, NEW e
      PROVE IsUri(f, e)' = IsUri(f, e) /\ IsPhrase(f, e)' = IsPhrase(f, e)
  BY <1>0, <1>3 DEF IsUri, IsPhrase
<1> QED
  BY <1>4, <1>5, <1>6, <1>7

\* What has been read does not depend on anything else.
LEMMA ReadKept ==
    ASSUME UNCHANGED text, NEW f, NEW q
    PROVE  ReadBefore(f, q)' = ReadBefore(f, q)
BY LinesKept, FieldsKept DEF ReadBefore

\* What the invariant says of a stage, of fields f that have been read.
LEMMA FieldsStage ==
    ASSUME UNCHANGED text, kind' = "message", stage' = "fields", outcome' = "reading",
           StartRead', NEW f, message'.fields = f, NEW q, position' = q, ReadBefore(f, q),
           q = FieldsStart \/ q - 1 \in LineEnds, \A p \in BlankLines : q < p
    PROVE  ScanInv' /\ ReadAsWritten'
<1>1. ReadBefore(f, q)'
  BY ReadKept
<1>2. ReadBefore(message.fields, position)'
  BY <1>1 DEF ReadBefore
<1>3. /\ (position = FieldsStart \/ position - 1 \in LineEnds)'
      /\ (\A p \in BlankLines : position < p)'
  BY LinesKept
<1> QED
  BY <1>2, <1>3 DEF ScanInv, ReadAsWritten

\* The same between the blank line and the body.
LEMMA BodyStage ==
    ASSUME UNCHANGED text, kind' = "message", stage' = "body", outcome' = "reading",
           StartRead', NEW f, message'.fields = f, NEW q, position' - 1 = q, ReadBefore(f, q),
           q \in BlankLines, \A p \in BlankLines : q <= p
    PROVE  ScanInv' /\ ReadAsWritten'
<1>1. ReadBefore(f, q)'
  BY ReadKept
<1>2. ReadBefore(message.fields, position - 1)'
  BY <1>1 DEF ReadBefore
<1>3. /\ (position - 1 \in BlankLines)'
      /\ (\A p \in BlankLines : position - 1 <= p)'
  BY LinesKept
<1> QED
  BY <1>2, <1>3 DEF ScanInv, ReadAsWritten

\* The same when the CSeq is read.
LEMMA CSeqStage ==
    ASSUME UNCHANGED text, kind' = "message", stage' = "cseq",
           StartRead', NEW f, message'.fields = f, ReadBefore(f, HeaderEnd + 1),
           HeaderEnd \in LineEnds, CSeqName \in DOMAIN f,
           message'.body = Part(HeaderEnd + 2, Len(text) + 1)
    PROVE  ScanInv' /\ ReadAsWritten'
<1>0. PICK h : h = HeaderEnd
  OBVIOUS
<1>1. ReadBefore(f, h + 1)' /\ HeaderEnd' = h
  BY <1>0, ReadKept, LinesKept
<1>2. ReadBefore(message.fields, HeaderEnd + 1)'
  BY <1>1 DEF ReadBefore
<1>3. (HeaderEnd \in LineEnds)' /\ (CSeqName \in DOMAIN message.fields)'
  BY LinesKept DEF CSeqName
<1>4. (message.body = Part(HeaderEnd + 2, Len(text) + 1))'
  <2>1. PICK n : n = Len(text)
    OBVIOUS
  <2>2. Part(h + 2, n + 1)' = Part(h + 2, n + 1)
    BY LinesKept
  <2>3. message'.body = Part(h + 2, n + 1) /\ Len(text)' = n
    BY <1>0, <2>1
  <2> QED
    BY <1>1, <2>2, <2>3 DEF Part
<1> QED
  BY <1>2, <1>3, <1>4 DEF ScanInv, ReadAsWritten

\* A text may be refused when it is no message.
LEMMA RefusedStage ==
    ASSUME stage' = "refused",
           UNCHANGED text, ~IsMessage \/ outcome' # "reading" \/ IsValueOf(<<>>, LineOf(CSeqName))
    PROVE  ScanInv' /\ ReadAsWritten'
<1>1. IsMessage' = IsMessage
  <2>1. /\ \A p : At(p)' = At(p)
        /\ FirstLineEnd' = FirstLineEnd
        /\ LineEnds' = LineEnds /\ HeaderEnd' = HeaderEnd /\ HeaderLineEnds' = HeaderLineEnds
    BY LinesKept
  <2>2. /\ \A e : IsField(e)' = IsField(e)
        /\ \A e : NameOf(e)' = NameOf(e)
        /\ \A f, e : IsUri(f, e)' = IsUri(f, e) /\ IsPhrase(f, e)' = IsPhrase(f, e)
    BY FieldsKept
  <2> QED
    BY <2>1, <2>2 DEF IsMessage, CSeqName
<1>2. PICK e : e = LineOf(CSeqName)
  OBVIOUS
<1>3. LineOf(CSeqName)' = e
  BY <1>2, LinesKept, FieldsKept DEF LineOf, CSeqName
<1>4. IsValueOf(<<>>, LineOf(CSeqName)) => IsValueOf(<<>>, LineOf(CSeqName))'
  <2>1. IsValueOf(<<>>, e)' = IsValueOf(<<>>, e)
    BY FieldsKept
  <2>2. IsValueOf(<<>>, LineOf(CSeqName))' = IsValueOf(<<>>, e)'
    BY <1>3 DEF IsValueOf
  <2> QED
    BY <1>2, <2>1, <2>2
<1> QED
  BY <1>1, <1>4 DEF ScanInv, ReadAsWritten

\* Before anything has been read there is nothing to keep.
LEMMA StartStage ==
    ASSUME stage' = "start", position' = 1, message' = Nothing, outcome' = "reading"
    PROVE  ScanInv' /\ ReadAsWritten'
<1>1. Nothing' = Nothing
  BY DEF Nothing
<1> QED
  BY <1>1 DEF ScanInv, ReadAsWritten

\* The start line stays read.
LEMMA StartKept ==
    ASSUME UNCHANGED text, StartRead, message'.line = message.line
    PROVE  StartRead'
BY LinesKept, FieldsKept DEF StartRead

\* A start line of a message is found.
LEMMA StartFound ==
    ASSUME text \in Seq(Symbols), IsMessage
    PROVE  IF IsRequest THEN RequestFound ELSE ResponseFound
<1>1. At(FirstLineEnd) = "crlf"
  BY DEF IsMessage
<1>2. PICK f, e \in 1..FirstLineEnd : IsUri(f, e) \/ IsPhrase(f, e)
  BY DEF IsMessage
<1>3. CASE IsUri(f, e)
  BY <1>1, <1>2, <1>3, RequestLineIs
<1>4. CASE IsPhrase(f, e)
  BY <1>1, <1>2, <1>4, StatusLineIs
<1> QED
  BY <1>2, <1>3, <1>4

\* Nothing has been read of the fields when they begin.
LEMMA NothingRead ==
    ASSUME text \in Seq(Symbols), NEW f, f = <<>>
    PROVE  /\ ReadBefore(f, FieldsStart)
           /\ \A p \in BlankLines : FieldsStart < p
<1>1. FieldsStart \in Nat /\ \A e \in LineEnds : e \in Nat /\ FieldsStart <= e
  BY LineEndsNat
<1>2. {end \in LineEnds : end < FieldsStart} = {}
  BY <1>1
<1>3. DOMAIN f = {}
  OBVIOUS
<1>4. ReadBefore(f, FieldsStart)
  BY <1>2, <1>3 DEF ReadBefore
<1>5. \A p \in BlankLines : p \in Nat /\ p - 1 \in LineEnds
  BY LineEndsNat
<1>6. \A p \in BlankLines : FieldsStart < p
  BY <1>1, <1>5
<1> QED
  BY <1>4, <1>6

\* ParseMethodLine takes a request line for what it is.
LEMMA RequestScan ==
    ASSUME RtspTypeOK, ScanInv, kind = "message", ParseMethodLine
    PROVE  ScanInv' /\ ReadAsWritten'
<1>0. text \in Seq(Symbols)
  BY MessageTyped
<1>1. stage = "start" /\ message = Nothing /\ outcome = "reading" /\ IsRequest
  BY DEF ParseMethodLine, ScanInv
<1>2. IF RequestFound
      THEN Move(ProtocolAt + 2, "fields", [message EXCEPT !.line = Part(Uri, UriEnd)])
      ELSE Refuse
  BY DEF ParseMethodLine, RequestFound, Uri, UriEnd, ProtocolAt
<1>3. CASE ~RequestFound
  <2>1. ~IsMessage
    BY <1>0, <1>1, <1>3, StartFound
  <2>2. stage' = "refused" /\ UNCHANGED text
    BY <1>2, <1>3 DEF Refuse, inputVars
  <2> QED
    BY <2>1, <2>2, RefusedStage
<1>4. CASE RequestFound
  <2>1. /\ ProtocolAt \in Nat /\ FirstLineEnd = ProtocolAt + 1
        /\ Uri \in 1..FirstLineEnd /\ UriEnd \in 1..FirstLineEnd
        /\ IsUri(Uri, UriEnd) /\ At(FirstLineEnd) = "crlf"
    BY <1>0, <1>1, <1>4, RequestLineRead DEF RequestFound
  <2>2. PICK u, e : u = Uri /\ e = UriEnd
    OBVIOUS
  <2>3. PICK f : f = message'.fields
    OBVIOUS
  <2>4. /\ position' = ProtocolAt + 2 /\ stage' = "fields"
        /\ message' = [message EXCEPT !.line = Part(u, e)]
        /\ UNCHANGED <<inputVars, parserVars>>
    BY <1>2, <1>4, <2>2 DEF Move
  <2>5. f = <<>> /\ message'.line = Part(u, e)
    BY <1>1, <2>3, <2>4 DEF Nothing
  <2>6. UNCHANGED text /\ kind' = "message" /\ outcome' = "reading"
    BY <1>1, <2>4 DEF inputVars, parserVars
  <2>7. position' = FieldsStart
    BY <2>1, <2>4 DEF FieldsStart
  <2>8. StartRead'
    <3>1. IsUri(u, e)' /\ Part(u, e)' = Part(u, e)
      BY <2>1, <2>2, <2>6, FieldsKept, LinesKept
    <3>2. (At(FirstLineEnd) = "crlf")' /\ (1..FirstLineEnd)' = 1..FirstLineEnd
      <4>1. PICK l : l = FirstLineEnd
        OBVIOUS
      <4>2. At(l)' = At(l) /\ FirstLineEnd' = l
        BY <2>6, <4>1, LinesKept
      <4> QED
        BY <2>1, <4>1, <4>2 DEF At
    <3>3. u \in 1..FirstLineEnd /\ e \in 1..FirstLineEnd
      BY <2>1, <2>2
    <3> QED
      BY <2>5, <3>1, <3>2, <3>3 DEF StartRead
  <2>9. PICK q : q = FieldsStart
    OBVIOUS
  <2>10. ReadBefore(f, q) /\ \A p \in BlankLines : q < p
    BY <1>0, <2>5, <2>9, NothingRead
  <2> QED
    BY <2>3, <2>4, <2>6, <2>7, <2>8, <2>9, <2>10, FieldsStage
<1> QED
  BY <1>3, <1>4

\* ParseStatusLine takes a status line for what it is.
LEMMA ResponseScan ==
    ASSUME RtspTypeOK, ScanInv, kind = "message", ParseStatusLine
    PROVE  ScanInv' /\ ReadAsWritten'
<1>0. text \in Seq(Symbols)
  BY MessageTyped
<1>1. stage = "start" /\ message = Nothing /\ outcome = "reading" /\ ~IsRequest
  BY DEF ParseStatusLine, ScanInv
<1>2. IF ResponseFound
      THEN Move(PhraseEnd + 1, "fields", [message EXCEPT !.line = Part(Phrase, PhraseEnd)])
      ELSE Refuse
  BY DEF ParseStatusLine, ResponseFound, Status, Phrase, PhraseEnd
<1>3. CASE ~ResponseFound
  <2>1. ~IsMessage
    BY <1>0, <1>1, <1>3, StartFound
  <2>2. stage' = "refused" /\ UNCHANGED text
    BY <1>2, <1>3 DEF Refuse, inputVars
  <2> QED
    BY <2>1, <2>2, RefusedStage
<1>4. CASE ResponseFound
  <2>1. /\ FirstLineEnd = PhraseEnd
        /\ Phrase \in 1..FirstLineEnd /\ PhraseEnd \in 1..FirstLineEnd
        /\ IsPhrase(Phrase, PhraseEnd) /\ At(FirstLineEnd) = "crlf"
    BY <1>0, <1>1, <1>4, StatusLineRead DEF ResponseFound
  <2>2. PICK u, e : u = Phrase /\ e = PhraseEnd
    OBVIOUS
  <2>3. PICK f : f = message'.fields
    OBVIOUS
  <2>4. /\ position' = PhraseEnd + 1 /\ stage' = "fields"
        /\ message' = [message EXCEPT !.line = Part(u, e)]
        /\ UNCHANGED <<inputVars, parserVars>>
    BY <1>2, <1>4, <2>2 DEF Move
  <2>5. f = <<>> /\ message'.line = Part(u, e)
    BY <1>1, <2>3, <2>4 DEF Nothing
  <2>6. UNCHANGED text /\ kind' = "message" /\ outcome' = "reading"
    BY <1>1, <2>4 DEF inputVars, parserVars
  <2>7. position' = FieldsStart
    BY <2>1, <2>4 DEF FieldsStart
  <2>8. StartRead'
    <3>1. IsPhrase(u, e)' /\ Part(u, e)' = Part(u, e)
      BY <2>1, <2>2, <2>6, FieldsKept, LinesKept
    <3>2. (At(FirstLineEnd) = "crlf")' /\ (1..FirstLineEnd)' = 1..FirstLineEnd
      <4>1. PICK l : l = FirstLineEnd
        OBVIOUS
      <4>2. At(l)' = At(l) /\ FirstLineEnd' = l
        BY <2>6, <4>1, LinesKept
      <4> QED
        BY <2>1, <4>1, <4>2 DEF At
    <3>3. u \in 1..FirstLineEnd /\ e \in 1..FirstLineEnd
      BY <2>1, <2>2
    <3> QED
      BY <2>5, <3>1, <3>2, <3>3 DEF StartRead
  <2>9. PICK q : q = FieldsStart
    OBVIOUS
  <2>10. ReadBefore(f, q) /\ \A p \in BlankLines : q < p
    BY <1>0, <2>5, <2>9, NothingRead
  <2> QED
    BY <2>3, <2>4, <2>6, <2>7, <2>8, <2>9, <2>10, FieldsStage
<1> QED
  BY <1>3, <1>4

\* The scan stands where a line begins.
LEMMA FieldsAtLine ==
    ASSUME RtspTypeOK, ScanInv, kind = "message", stage = "fields"
    PROVE  AtLine(position)
<1>1. text \in Seq(Symbols) /\ position \in 1..(Len(text) + 1) /\ Len(text) \in Nat
  BY MessageTyped
<1>2. position = FieldsStart \/ position - 1 \in LineEnds
  BY DEF ScanInv
<1>3. FieldsStart \in Nat /\ \A e \in LineEnds : e \in Nat /\ FieldsStart <= e
  BY <1>1, LineEndsNat
<1>4. FieldsStart <= position
  BY <1>1, <1>2, <1>3
<1> QED
  BY <1>1, <1>2, <1>4 DEF AtLine

\* In a message a field begins where the scan stands.
LEMMA FieldThere ==
    ASSUME text \in Seq(Symbols), NEW q, AtLine(q), At(q) # "eos",
           \A p \in BlankLines : q < p, IsMessage
    PROVE  FieldFound(q)
<1>0. Len(text) \in Nat /\ q \in 1..(Len(text) + 1)
  BY LenProperties DEF AtLine
<1>1. q \in Nat /\ q <= Len(text)
  BY <1>0, AtText
<1>2. HeaderEnd \in LineEnds /\ \A e \in LineEnds : e \in Nat
  BY LineEndsNat DEF IsMessage
<1>3. q <= HeaderEnd
  <2>1. CASE BlankLines = {}
    BY <1>1, <2>1 DEF HeaderEnd
  <2>2. CASE BlankLines # {}
    <3>1. PICK b : b = Min(BlankLines)
      OBVIOUS
    <3>2. b \in BlankLines /\ b \in Nat
      BY <2>2, <3>1, Least, LineEndsNat
    <3>3. HeaderEnd = b - 1 /\ q < b
      BY <2>2, <3>1, <3>2 DEF HeaderEnd
    <3> QED
      BY <1>1, <3>2, <3>3
  <2> QED
    BY <2>1, <2>2
<1> DEFINE S == {d \in LineEnds : q <= d}
<1>4. S \in SUBSET Nat /\ HeaderEnd \in S
  BY <1>2, <1>3
<1>5. PICK e : e = Min(S)
  OBVIOUS
<1>6. e \in S /\ \A d \in S : e <= d
  <2> HIDE DEF S
  <2> QED
    BY <1>4, <1>5, Least
<1>7. e \in LineEnds /\ e \in Nat /\ q <= e /\ e <= HeaderEnd
  BY <1>2, <1>4, <1>6
<1>8. LineFrom(q, e)
  <2>1. ASSUME NEW d \in LineEnds, ~(d < q)
        PROVE  e <= d
    BY <1>1, <1>2, <1>6, <2>1
  <2> QED
    BY <1>7, <2>1 DEF LineFrom
<1>9. IsField(e)
  BY <1>7 DEF IsMessage, HeaderLineEnds
<1> QED
  BY <1>8, <1>9, LineIsField

\* ParseHeaderField reads one line, folded or not.
LEMMA HeaderFieldScan ==
    ASSUME RtspTypeOK, ScanInv, kind = "message", ParseHeaderField
    PROVE  ScanInv' /\ ReadAsWritten'
<1>0. /\ text \in Seq(Symbols) /\ Len(text) \in Nat /\ position \in 1..(Len(text) + 1)
      /\ message = [line |-> message.line, fields |-> message.fields, body |-> message.body]
  BY MessageTyped
<1>1. PICK q : q = position
  OBVIOUS
<1>2. /\ stage = "fields" /\ outcome = "reading" /\ At(q) # "eos"
      /\ StartRead /\ ReadBefore(message.fields, q) /\ \A p \in BlankLines : q < p
  BY <1>1 DEF ParseHeaderField, ScanInv
<1>3. AtLine(q) /\ q \in 1..(Len(text) + 1)
  BY <1>0, <1>1, <1>2, FieldsAtLine
<1>4. IF FieldFound(q)
      THEN Move(NextLine(q), IF NextLine(q) = FieldEnd(q) + 1 THEN "fields" ELSE "body",
                emplace(Part(q, NameEnd(q)), Part(ValueStart(q), FieldEnd(q))))
      ELSE Refuse
  BY <1>1 DEF ParseHeaderField, FieldFound, NextLine, FieldEnd, ValueStart, NameEnd
<1>5. CASE ~FieldFound(q)
  <2>1. ~IsMessage
    BY <1>0, <1>2, <1>3, <1>5, FieldThere
  <2>2. stage' = "refused" /\ UNCHANGED text
    BY <1>4, <1>5 DEF Refuse, inputVars
  <2> QED
    BY <2>1, <2>2, RefusedStage
<1>6. CASE FieldFound(q)
  <2>1. PICK e, name, value, read, f :
          /\ e = FieldEnd(q) /\ name = Part(q, NameEnd(q)) /\ value = Part(ValueStart(q), e)
          /\ read = message' /\ f = message'.fields
    OBVIOUS
  <2>2. /\ LineFrom(q, e) /\ IsField(e) /\ NameOf(e) = name /\ IsValueOf(value, e)
        /\ e <= Len(text)
    BY <1>0, <1>3, <1>6, <2>1, FieldIsLine
  <2>3. /\ e \in Nat /\ NextLine(q) = IF At(e + 1) = "crlf" THEN e + 2 ELSE e + 1
    BY <1>0, <1>3, <1>6, <2>1, NextLineIs
  <2>4. /\ position' = NextLine(q)
        /\ stage' = IF NextLine(q) = e + 1 THEN "fields" ELSE "body"
        /\ read = emplace(name, value)
        /\ UNCHANGED <<inputVars, parserVars>>
    BY <1>4, <1>6, <2>1 DEF Move
  <2>5. /\ read = [line |-> message.line, fields |-> read.fields, body |-> message.body]
        /\ name \in DOMAIN message.fields => read.fields = message.fields
        /\ name \notin DOMAIN message.fields => read.fields = With(message.fields, name, value)
    BY <1>0, <2>4, Emplaced
  <2>6. read.fields = f /\ message'.line = message.line
    BY <2>1, <2>5
  <2>7. ReadBefore(f, e + 1)
    <3>1. PICK old : old = message.fields
      OBVIOUS
    <3>2. /\ ReadBefore(old, q)
          /\ NameOf(e) \in DOMAIN old => f = old
          /\ NameOf(e) \notin DOMAIN old => f = With(old, NameOf(e), value)
      BY <1>2, <2>2, <2>5, <2>6, <3>1
    <3> QED
      BY <1>0, <1>3, <2>2, <3>2, ReadOneMore
  <2>8. UNCHANGED text /\ kind' = "message" /\ outcome' = "reading"
    BY <1>2, <2>4 DEF inputVars, parserVars
  <2>9. StartRead'
    BY <1>2, <2>6, <2>8, StartKept
  <2>10. \A p \in BlankLines : p \in Nat /\ e + 1 <= p
    <3>1. ASSUME NEW p \in BlankLines
          PROVE  p \in Nat /\ e + 1 <= p
      <4>1. p \in Nat /\ p - 1 \in LineEnds /\ q < p
        BY <1>0, <1>2, <3>1, LineEndsNat
      <4>2. p - 1 < q \/ e <= p - 1
        BY <2>2, <4>1 DEF LineFrom
      <4>3. q \in Nat
        BY <1>0, <1>3
      <4> QED
        BY <2>3, <4>1, <4>2, <4>3
    <3> QED
      BY <3>1
  <2>11. CASE At(e + 1) = "crlf"
    <3>1. position' - 1 = e + 1 /\ stage' = "body"
      BY <2>3, <2>4, <2>11
    <3>2. e + 1 \in BlankLines
      <4>1. e + 1 \in 1..Len(text)
        BY <1>0, <2>3, <2>11, AtText
      <4>2. (e + 1) - 1 \in LineEnds
        BY <2>2, <2>3 DEF LineFrom
      <4> QED
        BY <2>11, <4>1, <4>2 DEF BlankLines
    <3>3. PICK b : b = e + 1
      OBVIOUS
    <3> QED
      BY <2>1, <2>7, <2>8, <2>9, <2>10, <3>1, <3>2, <3>3, BodyStage
  <2>12. CASE At(e + 1) # "crlf"
    <3>1. PICK n : n = e + 1
      OBVIOUS
    <3>2. position' = n /\ stage' = "fields" /\ n - 1 \in LineEnds /\ ReadBefore(f, n)
      BY <2>2, <2>3, <2>4, <2>7, <2>12, <3>1 DEF LineFrom
    <3>3. \A p \in BlankLines : n < p
      <4>1. \A p \in BlankLines : At(p) = "crlf"
        BY <1>0, LineEndsNat
      <4>2. \A p \in BlankLines : p # n
        BY <2>12, <3>1, <4>1
      <4> QED
        BY <2>3, <2>10, <3>1, <4>2
    <3> QED
      BY <2>1, <2>8, <2>9, <3>2, <3>3, FieldsStage
  <2> QED
    BY <2>11, <2>12
<1> QED
  BY <1>5, <1>6

\* At the end of the header its fields have been read.
LEMMA HeaderRead ==
    ASSUME text \in Seq(Symbols), HeaderEnd \in LineEnds, NEW f, ReadBefore(f, HeaderEnd + 1)
    PROVE  /\ \A end \in HeaderLineEnds : IsField(end)
           /\ DOMAIN f = {NameOf(end) : end \in HeaderLineEnds}
           /\ \A name \in DOMAIN f : IsValueOf(f[name], LineOf(name))
<1>1. \A e \in LineEnds : e \in Nat
  BY LineEndsNat
<1>2. \A e \in LineEnds : e < HeaderEnd + 1 <=> e <= HeaderEnd
  BY <1>1
<1>3. {end \in LineEnds : end < HeaderEnd + 1} = HeaderLineEnds
  BY <1>2 DEF HeaderLineEnds
<1> QED
  BY <1>3 DEF ReadBefore, LineOf

\* Where the body begins, whatever ends the header.
LEMMA HeaderEnds ==
    ASSUME RtspTypeOK, ScanInv, kind = "message", TakeBody
    PROVE  /\ ReadBefore(message.fields, HeaderEnd + 1)
           /\ CSeqName \in DOMAIN message.fields => HeaderEnd \in LineEnds
           /\ Part(position, Len(text) + 1) = Part(HeaderEnd + 2, Len(text) + 1)
<1>0. text \in Seq(Symbols) /\ Len(text) \in Nat /\ position \in 1..(Len(text) + 1)
  BY MessageTyped
<1>1. CASE stage = "body"
  <2>1. /\ ReadBefore(message.fields, position - 1)
        /\ position - 1 \in BlankLines /\ \A p \in BlankLines : position - 1 <= p
    BY <1>1 DEF ScanInv
  <2>2. BlankLines \in SUBSET Nat /\ (position - 1) - 1 \in LineEnds
    BY <1>0, <2>1, LineEndsNat
  <2>3. Min(BlankLines) = position - 1
    BY <2>1, <2>2, LeastIs
  <2>4. HeaderEnd = (position - 1) - 1
    BY <2>1, <2>3 DEF HeaderEnd
  <2>5. HeaderEnd + 1 = position - 1 /\ HeaderEnd + 2 = position
    BY <1>0, <2>4
  <2> QED
    BY <2>1, <2>2, <2>4, <2>5
<1>2. CASE stage = "fields" /\ At(position) = "eos"
  <2>1. /\ ReadBefore(message.fields, position) /\ \A p \in BlankLines : position < p
        /\ position = FieldsStart \/ position - 1 \in LineEnds
    BY <1>2 DEF ScanInv
  <2>2. position = Len(text) + 1
    <3>1. position \in Nat
      BY <1>0
    <3>2. position \notin 1..Len(text)
      BY <1>0, <1>2, <3>1, AtText
    <3> QED
      BY <1>0, <3>2
  <2>3. BlankLines = {}
    BY <1>0, <2>1, <2>2, LineEndsNat
  <2>4. HeaderEnd = Len(text)
    BY <2>3 DEF HeaderEnd
  <2>5. ReadBefore(message.fields, HeaderEnd + 1)
    BY <2>1, <2>2, <2>4
  <2>6. ASSUME CSeqName \in DOMAIN message.fields
        PROVE  HeaderEnd \in LineEnds
    <3>1. PICK e \in LineEnds : NameOf(e) = CSeqName
      BY <2>1, <2>6 DEF ReadBefore
    <3>2. e \in Nat /\ FieldsStart <= e /\ e <= Len(text) /\ FieldsStart \in Nat
      BY <1>0, <3>1, LineEndsNat
    <3>3. position - 1 \in LineEnds
      BY <1>0, <2>1, <2>2, <3>2
    <3> QED
      BY <1>0, <2>2, <2>4, <3>3
  <2>7. Part(position, Len(text) + 1) = <<>> /\ Part(HeaderEnd + 2, Len(text) + 1) = <<>>
    <3>1. /\ (Len(text) + 1) - 1 \in Int /\ (Len(text) + 1) - 1 < position
          /\ HeaderEnd + 2 \in Int /\ position \in Int /\ (Len(text) + 1) - 1 < HeaderEnd + 2
      BY <1>0, <2>2, <2>4
    <3> QED
      BY <3>1, SubSeqEmpty DEF Part
  <2> QED
    BY <2>5, <2>6, <2>7
<1> QED
  BY <1>1, <1>2 DEF TakeBody

\* The body is taken, or there is no CSeq with a value.
LEMMA TakeBodyScan ==
    ASSUME RtspTypeOK, ScanInv, kind = "message", TakeBody
    PROVE  ScanInv' /\ ReadAsWritten'
<1>0. text \in Seq(Symbols) /\ StartRead
  BY MessageTyped DEF ScanInv, TakeBody
<1>1. PICK f : f = message.fields
  OBVIOUS
<1>2. /\ ReadBefore(f, HeaderEnd + 1)
      /\ CSeqName \in DOMAIN f => HeaderEnd \in LineEnds
      /\ Part(position, Len(text) + 1) = Part(HeaderEnd + 2, Len(text) + 1)
  BY <1>1, HeaderEnds
<1>3. CASE CSeqName \in DOMAIN f /\ f[CSeqName] # <<>>
  <2>1. /\ stage' = "cseq"
        /\ message' = [message EXCEPT !.body = Part(position, Len(text) + 1)]
        /\ UNCHANGED <<inputVars, parserVars>>
    BY <1>1, <1>3 DEF TakeBody, Move
  <2>2. /\ message'.line = message.line /\ message'.fields = f
        /\ message'.body = Part(HeaderEnd + 2, Len(text) + 1)
    BY <1>1, <1>2, <2>1, MessageTyped
  <2>3. UNCHANGED text /\ kind' = "message"
    BY <2>1 DEF inputVars
  <2>4. StartRead'
    BY <1>0, <2>2, <2>3, StartKept
  <2> QED
    BY <1>2, <1>3, <2>1, <2>2, <2>3, <2>4, CSeqStage
<1>4. CASE ~(CSeqName \in DOMAIN f /\ f[CSeqName] # <<>>)
  <2>1. stage' = "refused" /\ UNCHANGED text
    BY <1>1, <1>4 DEF TakeBody, Refuse, inputVars
  <2>2. ASSUME IsMessage
        PROVE  IsValueOf(<<>>, LineOf(CSeqName))
    <3>1. HeaderEnd \in LineEnds /\ \E e \in HeaderLineEnds : NameOf(e) = CSeqName
      BY <2>2 DEF IsMessage
    <3>2. CSeqName \in DOMAIN f /\ IsValueOf(f[CSeqName], LineOf(CSeqName))
      BY <1>0, <1>2, <3>1, HeaderRead
    <3> QED
      BY <1>4, <3>2
  <2> QED
    BY <2>1, <2>2, RefusedStage
<1> QED
  BY <1>3, <1>4

\* The number does not touch what was read.
LEMMA ParseCSeqScan ==
    ASSUME RtspTypeOK, ScanInv, kind = "message", ParseCSeq
    PROVE  ScanInv' /\ ReadAsWritten'
<1>1. /\ stage' = "cseq" /\ stage = "cseq" /\ message' = message
      /\ UNCHANGED text /\ kind' = "message"
  BY DEF ParseCSeq, inputVars
<1>2. PICK f : f = message.fields
  OBVIOUS
<1>3. /\ StartRead /\ HeaderEnd \in LineEnds /\ ReadBefore(f, HeaderEnd + 1)
      /\ CSeqName \in DOMAIN f
      /\ message'.body = Part(HeaderEnd + 2, Len(text) + 1)
  BY <1>1, <1>2 DEF ScanInv
<1>4. StartRead'
  BY <1>1, <1>3, StartKept
<1> QED
  BY <1>1, <1>2, <1>3, <1>4, CSeqStage

\* The line of a name depends on the text alone.
LEMMA LineOfKept ==
    ASSUME UNCHANGED text, NEW name
    PROVE  LineOf(name)' = LineOf(name)
<1>1. HeaderLineEnds' = HeaderLineEnds /\ \A e : NameOf(e)' = NameOf(e)
  BY LinesKept, FieldsKept
<1>2. {end \in HeaderLineEnds : NameOf(end) = name}' = {end \in HeaderLineEnds : NameOf(end) = name}
  BY <1>1
<1> QED
  BY <1>2 DEF LineOf

\* A message that is accepted is what its lines say.
LEMMA AcceptedStage ==
    ASSUME UNCHANGED text, stage' = "accepted", StartRead', IsMessage,
           NEW g, message'.fields = g,
           DOMAIN g = {NameOf(end) : end \in HeaderLineEnds} \ {CSeqName},
           \A name \in DOMAIN g : IsValueOf(g[name], LineOf(name)),
           message'.body = Part(HeaderEnd + 2, Len(text) + 1)
    PROVE  ScanInv' /\ ReadAsWritten'
<1>1. IsMessage'
  <2>1. /\ \A p : At(p)' = At(p)
        /\ FirstLineEnd' = FirstLineEnd
        /\ LineEnds' = LineEnds /\ HeaderEnd' = HeaderEnd /\ HeaderLineEnds' = HeaderLineEnds
    BY LinesKept
  <2>2. /\ \A e : IsField(e)' = IsField(e)
        /\ \A e : NameOf(e)' = NameOf(e)
        /\ \A a, e : IsUri(a, e)' = IsUri(a, e) /\ IsPhrase(a, e)' = IsPhrase(a, e)
    BY FieldsKept
  <2> QED
    BY <2>1, <2>2 DEF IsMessage, CSeqName
<1>2. (DOMAIN message.fields = {NameOf(end) : end \in HeaderLineEnds} \ {CSeqName})'
  <2>1. {NameOf(end) : end \in HeaderLineEnds}' = {NameOf(end) : end \in HeaderLineEnds}
    BY LinesKept, FieldsKept
  <2> QED
    BY <2>1 DEF CSeqName
<1>3. (\A name \in DOMAIN message.fields : IsValueOf(message.fields[name], LineOf(name)))'
  <2>1. ASSUME NEW name \in DOMAIN g
        PROVE  IsValueOf(message.fields[name], LineOf(name))'
    <3>1. PICK v, e : v = g[name] /\ e = LineOf(name)
      OBVIOUS
    <3>2. IsValueOf(v, e)'
      BY <3>1, FieldsKept
    <3>3. LineOf(name)' = e
      BY <3>1, LineOfKept
    <3>a. message'.fields[name] = v
      BY <3>1
    <3> QED
      BY <3>2, <3>3, <3>a DEF IsValueOf
  <2> QED
    BY <2>1
<1>4. (message.body = Part(HeaderEnd + 2, Len(text) + 1))'
  <2>1. PICK h, n : h = HeaderEnd /\ n = Len(text)
    OBVIOUS
  <2>2. Part(h + 2, n + 1)' = Part(h + 2, n + 1) /\ HeaderEnd' = h
    BY <2>1, LinesKept
  <2>3. message'.body = Part(h + 2, n + 1) /\ Len(text)' = n
    BY <2>1
  <2> QED
    BY <2>2, <2>3 DEF Part
<1>5. ScanInv'
  BY DEF ScanInv
<1>6. ReadAsWritten'
  BY <1>1, <1>2, <1>3, <1>4 DEF ReadAsWritten, StartRead
<1> QED
  BY <1>5, <1>6

\* EraseCSeq leaves the other fields as they are.
LEMMA EraseScan ==
    ASSUME RtspTypeOK, ScanInv, kind = "message", EraseCSeq
    PROVE  ScanInv' /\ ReadAsWritten'
<1>0. /\ text \in Seq(Symbols)
      /\ message = [line |-> message.line, fields |-> message.fields, body |-> message.body]
  BY MessageTyped
<1>1. stage = "cseq" /\ outcome # "reading"
  BY DEF EraseCSeq
<1>2. PICK f : f = message.fields
  OBVIOUS
<1>3. /\ StartRead /\ HeaderEnd \in LineEnds /\ ReadBefore(f, HeaderEnd + 1)
      /\ CSeqName \in DOMAIN f
      /\ message.body = Part(HeaderEnd + 2, Len(text) + 1)
  BY <1>1, <1>2 DEF ScanInv
<1>4. CASE outcome # "accepted"
  <2>1. stage' = "refused" /\ UNCHANGED text /\ outcome' # "reading"
    BY <1>1, <1>4 DEF EraseCSeq, Refuse, inputVars, parserVars
  <2> QED
    BY <2>1, RefusedStage
<1>5. CASE outcome = "accepted"
  <2>1. PICK g : g = [name \in DOMAIN f \ {CSeqName} |-> f[name]]
    OBVIOUS
  <2>2. /\ stage' = "accepted" /\ UNCHANGED <<inputVars, parserVars>>
        /\ message' = [message EXCEPT !.fields = g]
    BY <1>2, <1>5, <2>1 DEF EraseCSeq, Move
  <2>3. /\ message'.line = message.line /\ message'.fields = g
        /\ message'.body = message.body
    BY <1>0, <2>2
  <2>4. UNCHANGED text
    BY <2>2 DEF inputVars
  <2>5. /\ \A end \in HeaderLineEnds : IsField(end)
        /\ DOMAIN f = {NameOf(end) : end \in HeaderLineEnds}
        /\ \A name \in DOMAIN f : IsValueOf(f[name], LineOf(name))
    BY <1>0, <1>3, HeaderRead
  <2>6. IsMessage
    BY <1>3, <2>5 DEF IsMessage, StartRead
  <2>7. StartRead'
    BY <1>3, <2>3, <2>4, StartKept
  <2>8. DOMAIN g = {NameOf(end) : end \in HeaderLineEnds} \ {CSeqName}
    BY <2>1, <2>5
  <2>9. \A name \in DOMAIN g : IsValueOf(g[name], LineOf(name))
    BY <2>1, <2>5
  <2>10. message'.body = Part(HeaderEnd + 2, Len(text) + 1)
    BY <1>3, <2>3
  <2> QED
    BY <2>2, <2>3, <2>4, <2>6, <2>7, <2>8, <2>9, <2>10, AcceptedStage
<1> QED
  BY <1>4, <1>5

\* Parameters are not messages.
LEMMA NoMessageScan ==
    ASSUME kind' # "message"
    PROVE  ScanInv' /\ ReadAsWritten'
BY DEF ScanInv, ReadAsWritten

\* A step of nothing keeps everything.
LEMMA StutterScan ==
    ASSUME RtspTypeOK, ScanInv, ReadAsWritten, UNCHANGED vars
    PROVE  ScanInv' /\ ReadAsWritten'
<1>0. /\ UNCHANGED text /\ kind' = kind /\ stage' = stage /\ position' = position
      /\ message' = message /\ outcome' = outcome
  BY DEF vars, inputVars, parserVars
<1>1. CASE kind # "message"
  BY <1>0, <1>1, NoMessageScan
<1>2. CASE kind = "message"
  <2>0. PICK f, q : f = message.fields /\ q = position
    OBVIOUS
  <2>1. CASE stage = "start"
    <3>1. position = 1 /\ message = Nothing /\ outcome = "reading"
      BY <1>2, <2>1 DEF ScanInv
    <3> QED
      BY <1>0, <2>1, <3>1, StartStage
  <2>2. CASE stage = "fields"
    <3>1. /\ outcome = "reading" /\ StartRead /\ ReadBefore(f, q)
          /\ q = FieldsStart \/ q - 1 \in LineEnds
          /\ \A p \in BlankLines : q < p
      BY <1>2, <2>0, <2>2 DEF ScanInv
    <3>2. StartRead'
      BY <1>0, <3>1, StartKept
    <3> QED
      BY <1>0, <1>2, <2>0, <2>2, <3>1, <3>2, FieldsStage
  <2>3. CASE stage = "body"
    <3>1. PICK b : b = position - 1
      OBVIOUS
    <3>2. /\ outcome = "reading" /\ StartRead /\ ReadBefore(f, b)
          /\ b \in BlankLines /\ \A p \in BlankLines : b <= p
      BY <1>2, <2>0, <2>3, <3>1 DEF ScanInv
    <3>3. StartRead'
      BY <1>0, <3>2, StartKept
    <3> QED
      BY <1>0, <1>2, <2>0, <2>3, <3>1, <3>2, <3>3, BodyStage
  <2>4. CASE stage = "cseq"
    <3>1. /\ StartRead /\ HeaderEnd \in LineEnds /\ ReadBefore(f, HeaderEnd + 1)
          /\ CSeqName \in DOMAIN f
          /\ message.body = Part(HeaderEnd + 2, Len(text) + 1)
      BY <1>2, <2>0, <2>4 DEF ScanInv
    <3>2. StartRead'
      BY <1>0, <3>1, StartKept
    <3> QED
      BY <1>0, <1>2, <2>0, <2>4, <3>1, <3>2, CSeqStage
  <2>5. CASE stage = "accepted"
    <3>1. /\ IsMessage
          /\ \E first, end \in 1..FirstLineEnd :
              /\ IsUri(first, end) \/ IsPhrase(first, end)
              /\ message.line = Part(first, end)
          /\ DOMAIN f = {NameOf(end) : end \in HeaderLineEnds} \ {CSeqName}
          /\ \A name \in DOMAIN f : IsValueOf(f[name], LineOf(name))
          /\ message.body = Part(HeaderEnd + 2, Len(text) + 1)
      BY <1>2, <2>0, <2>5 DEF ReadAsWritten
    <3>2. StartRead
      BY <3>1 DEF StartRead, IsMessage
    <3>3. StartRead'
      BY <1>0, <3>2, StartKept
    <3> QED
      BY <1>0, <2>0, <2>5, <3>1, <3>3, AcceptedStage
  <2>6. CASE stage = "refused"
    <3>1. ~IsMessage \/ outcome # "reading" \/ IsValueOf(<<>>, LineOf(CSeqName))
      BY <1>2, <2>6 DEF ReadAsWritten
    <3> QED
      BY <1>0, <2>6, <3>1, RefusedStage
  <2> QED
    BY <2>1, <2>2, <2>3, <2>4, <2>5, <2>6 DEF RtspTypeOK
<1> QED
  BY <1>1, <1>2

\* Every step keeps the invariant of the scan.
LEMMA ScanStep ==
    ASSUME RtspTypeOK, ScanInv, ReadAsWritten, [RtspNext]_vars
    PROVE  ScanInv' /\ ReadAsWritten'
<1>1. CASE kind # "message"
  <2>1. kind' = kind
    BY DEF RtspNext, ParseMethodLine, ParseStatusLine, ParseHeaderField, TakeBody, ParseCSeq,
           EraseCSeq, ParseParameter, ParseParameterName, ParametersEnd, Serialize, Move, Refuse,
           vars, inputVars
  <2> QED
    BY <1>1, <2>1, NoMessageScan
<1>2. CASE kind = "message"
  <2>1. ASSUME RtspNext
        PROVE  ScanInv' /\ ReadAsWritten'
    <3>1. CASE ParseMethodLine
      BY <1>2, <3>1, RequestScan
    <3>2. CASE ParseStatusLine
      BY <1>2, <3>2, ResponseScan
    <3>3. CASE ParseHeaderField
      BY <1>2, <3>3, HeaderFieldScan
    <3>4. CASE TakeBody
      BY <1>2, <3>4, TakeBodyScan
    <3>5. CASE ParseCSeq
      BY <1>2, <3>5, ParseCSeqScan
    <3>6. CASE EraseCSeq
      BY <1>2, <3>6, EraseScan
    <3>7. CASE Serialize
      <4>1. /\ stage' = "start" /\ position' = 1 /\ message' = Nothing /\ outcome' = "reading"
        BY <1>2, <3>7 DEF Serialize, FirstStage
      <4> QED
        BY <4>1, StartStage
    <3>8. CASE ParseParameter \/ ParseParameterName \/ ParametersEnd
      BY <1>2, <3>8 DEF ParseParameter, ParseParameterName, ParametersEnd
    <3> QED
      BY <2>1, <3>1, <3>2, <3>3, <3>4, <3>5, <3>6, <3>7, <3>8 DEF RtspNext
  <2>2. CASE UNCHANGED vars
    BY <2>2, StutterScan
  <2> QED
    BY <2>1, <2>2
<1> QED
  BY <1>1, <1>2

\* The invariant of the scan holds before the first symbol.
LEMMA ScanInit == RtspInit => ScanInv /\ ReadAsWritten
BY DEF RtspInit, FirstStage, ParserInit, ScanInv, ReadAsWritten

\* Whatever text is read as a message, it is accepted only if its lines make
\* one, with the fields, the values and the body they say, and it is refused
\* otherwise or for its CSeq (RtspParser.cpp 196-478).
THEOREM MessageReadAsWritten == RtspSpec => []ReadAsWritten
<1> DEFINE IInv == RtspTypeOK /\ ExactInRange /\ ScanInv /\ ReadAsWritten
<1>1. RtspInit => IInv
  BY TypeInit, ScanInit
<1>2. IInv /\ [RtspNext]_vars => IInv'
  BY TypeStep, ScanStep
<1>3. IInv => ReadAsWritten
  OBVIOUS
<1> QED
  BY <1>1, <1>2, <1>3, PTL DEF RtspSpec

-----------------------------------------------------------------------------
(* What has been read can be written, and what is written is read again.   *)

\* The k-th symbol of a value belongs to a folded line end.
FoldedIn(value, k) ==
    \E f \in 1..k :
        /\ f < Len(value)
        /\ value[f] = "crlf" /\ value[f + 1] \in Blank
        /\ \A g \in (f + 1)..k : value[g] \in Blank

\* What a name is made of.
IsName(name) ==
    /\ name # <<>>
    /\ \A k \in 1..Len(name) :
        name[k] \in IF kind = "message" THEN TokenSymbols ELSE Symbols \ {":"}

\* What a value is made of: it begins with no blank, and has a line end only
\* where a blank folds it.
IsValue(value) ==
    /\ value # <<>> => value[1] \notin Blank
    /\ \A k \in 1..Len(value) :
        \/ value[k] \in Symbols \ Control
        \/ kind = "message" /\ FoldedIn(value, k)

Writable(fields) == \A name \in DOMAIN fields : IsName(name) /\ IsValue(fields[name])

\* The uri of a request, or the phrase of a response.
IsLine(line) ==
    /\ line # <<>>
    /\ line[1] \notin Blank
    /\ \A k \in 1..Len(line) :
        line[k] \in Symbols \ Control /\ (IsRequest => line[k] # "sp")

\* Whatever has been read is made so that it can be written: the first part
\* of the invariant behind RoundTrip.
WritableInv ==
    kind # "names" =>
        /\ Writable(message.fields)
        /\ outcome = "accepted" => tmpOut # 0
        /\ kind = "message" =>
            /\ stage \in {"fields", "body", "cseq", "accepted"} => IsLine(message.line)
            /\ stage = "accepted" => tmpOut # 0 /\ CSeqName \notin DOMAIN message.fields
        /\ kind = "parameters" =>
            /\ stage \in {"fields", "accepted", "refused"}
            /\ message.line = <<>> /\ message.body = <<>> /\ tmpOut = 0

\* The fields in the order in which they are written, the CSeq among them.
FieldNames(read) ==
    LET names == SetToSeq(DOMAIN read.fields)
    IN  IF kind = "parameters" THEN names ELSE <<CSeqName>> \o names

\* The fields as they are read before EraseCSeq.
AllFields(read, cseq) ==
    IF kind = "parameters" THEN read.fields
    ELSE [name \in DOMAIN read.fields \cup {CSeqName} |->
            IF name = CSeqName THEN Decimal[cseq] ELSE read.fields[name]]

\* The fields of the first i lines.
FirstFields(read, cseq, i) ==
    [name \in {FieldNames(read)[j] : j \in 1..i} |-> AllFields(read, cseq)[name]]

\* What follows the lines.
Rest(read) == IF read.body = <<>> THEN <<>> ELSE <<"crlf">> \o read.body

\* These symbols stand in the text from p on.
Stands(p, symbols) == \A k \in 1..Len(symbols) : At(p + k - 1) = symbols[k]

\* The text is a start, then lines of which the i-th begins at b[i], then the
\* rest.
LaidOut(start, lines, rest, b) ==
    /\ Stands(1, start) /\ b[1] = Len(start) + 1
    /\ \A i \in 1..Len(lines) :
        /\ b[i] \in Nat /\ b[i + 1] = b[i] + Len(lines[i])
        /\ Stands(b[i], lines[i])
    /\ b[Len(lines) + 1] \in Nat
    /\ Stands(b[Len(lines) + 1], rest)
    /\ Len(text) + 1 = b[Len(lines) + 1] + Len(rest)

\* The text is what Serialized yields, its lines at b.
IsLayout(read, cseq, b) == LaidOut(Start(read), Lines(read, cseq), Rest(read), b)

\* The digits of c have been read up to the l-th, and make t.
DigitsRead(c, l, t) ==
    /\ t \in CSeq
    /\ l = 0 => t = 0
    /\ l # 0 => 0 < t /\ Decimal[t] = SubSeq(Decimal[c], 1, l)

\* What was written can be.
Written(read, cseq) ==
    /\ read = [line |-> read.line, fields |-> read.fields, body |-> read.body]
    /\ read.line \in Seq(Symbols) /\ read.body \in Seq(Symbols)
    /\ read.fields \in [DOMAIN read.fields -> Seq(Symbols)]
    /\ DOMAIN read.fields \subseteq Seq(Symbols) /\ IsFiniteSet(DOMAIN read.fields)
    /\ cseq \in CSeq
    /\ Writable(read.fields)
    /\ kind \in {"message", "parameters"}
    /\ kind = "message" =>
        IsLine(read.line) /\ cseq # 0 /\ CSeqName \notin DOMAIN read.fields
    /\ kind = "parameters" => read.line = <<>> /\ read.body = <<>> /\ cseq = 0

\* So far it has been read the same.
Rereading(read, cseq, b) ==
    LET last == Len(Lines(read, cseq))
        all == AllFields(read, cseq)
        HasRead(fields, body) == message = [line |-> read.line, fields |-> fields, body |-> body]
    IN
    /\ stage # "refused"
    /\ stage \in {"start", "fields", "body"} =>
        tmpOut = 0 /\ length = 0 /\ outcome = "reading"
    /\ stage = "start" => kind = "message" /\ message = Nothing
    /\ stage = "fields" =>
        \E i \in 0..last :
            /\ position = b[i + 1] /\ HasRead(FirstFields(read, cseq, i), <<>>)
            /\ i = last => read.body = <<>>
    /\ stage = "body" => position = b[last + 1] + 1 /\ HasRead(all, <<>>) /\ read.body # <<>>
    /\ stage = "cseq" =>
        /\ HasRead(all, read.body)
        /\ length <= Len(Decimal[cseq]) /\ DigitsRead(cseq, length, tmpOut)
        /\ outcome = "reading" \/ (outcome = "accepted" /\ tmpOut = cseq)
    /\ stage = "accepted" => message = read /\ tmpOut = cseq

\* The second part: a text that was written is laid out as Serialize put it
\* together, and what has been read of it so far is what was written there.
RereadInv ==
    origin # {} =>
        \E read, cseq, b :
            /\ origin = {[message |-> read, cseq |-> cseq]}
            /\ Written(read, cseq)
            /\ IsLayout(read, cseq, b)
            /\ Rereading(read, cseq, b)

-----------------------------------------------------------------------------
(* A number that is written and read again.                                *)

\* Induction in which all smaller numbers may be used.
LEMMA StrongInduction ==
    ASSUME NEW S, \A n \in Nat : (\A k \in Nat : k < n => k \in S) => n \in S
    PROVE  Nat \subseteq S
<1> DEFINE T == Nat \ S
<1>1. SUFFICES ASSUME T # {}
               PROVE  FALSE
  OBVIOUS
<1>2. PICK x \in T : \A y \in T : x <= y
  <2>1. T \in SUBSET Nat
    OBVIOUS
  <2> HIDE DEF T
  <2> QED
    BY <1>1, <2>1, Least
<1>3. x \in Nat /\ \A k \in Nat : k < x => k \in S
  BY <1>2
<1> QED
  BY <1>2, <1>3

\* No two digits are written the same.
LEMMA DigitsDiffer ==
    ASSUME NEW i \in 0..9, NEW j \in 0..9, DigitSymbols[i + 1] = DigitSymbols[j + 1]
    PROVE  i = j
BY DEF DigitSymbols

\* What DecimalIs says, in the terms the proofs below need.
LEMMA DecimalShape ==
    ASSUME NEW n \in CSeq
    PROVE  /\ n \in Nat /\ n < Modulus /\ Ones(n) \in 0..9
           /\ Decimal[n] \in Seq(TokenSymbols) /\ Len(Decimal[n]) \in Nat \ {0}
           /\ n < 10 => Decimal[n] = <<LastDigit(n)>> /\ Len(Decimal[n]) = 1 /\ Ones(n) = n
           /\ ~(n < 10) => /\ Tenth(n) \in CSeq /\ 0 < Tenth(n) /\ Tenth(n) < n
                           /\ n = 10 * Tenth(n) + Ones(n)
                           /\ Decimal[n] = Append(Decimal[Tenth(n)], LastDigit(n))
                           /\ Len(Decimal[n]) = Len(Decimal[Tenth(n)]) + 1
                           /\ Len(Decimal[Tenth(n)]) \in Nat \ {0}
<1>1. n \in Nat /\ n < Modulus /\ Modulus \in Nat
  BY ModulusAssumption DEF CSeq
<1>2. \A m \in CSeq : Decimal[m] \in Seq(TokenSymbols) /\ Len(Decimal[m]) \in Nat
  BY DecimalIs, LenProperties
<1>3. Ones(n) \in 0..9 /\ Ones(n) = n - 10 * Tenth(n) /\ Tenth(n) \in Nat
  BY <1>1, DivMod
<1>4. LastDigit(n) \in TokenSymbols
  BY <1>3, DigitsAreSymbols DEF LastDigit
<1>5. ASSUME n < 10
      PROVE  Decimal[n] = <<LastDigit(n)>> /\ Len(Decimal[n]) = 1 /\ Ones(n) = n
  <2>1. Decimal[n] = <<LastDigit(n)>>
    BY <1>5, DecimalIs
  <2>2. Len(<<LastDigit(n)>>) = 1
    OBVIOUS
  <2> QED
    BY <1>1, <1>5, <2>1, <2>2, DivMod
<1>6. ASSUME ~(n < 10)
      PROVE  /\ Tenth(n) \in CSeq /\ 0 < Tenth(n) /\ Tenth(n) < n
             /\ n = 10 * Tenth(n) + Ones(n)
             /\ Decimal[n] = Append(Decimal[Tenth(n)], LastDigit(n))
             /\ Len(Decimal[n]) = Len(Decimal[Tenth(n)]) + 1
  <2>1. Tenth(n) < n
    BY <1>1, <1>6, DivMod
  <2>2. Tenth(n) \in CSeq
    BY <1>1, <1>3, <2>1 DEF CSeq
  <2>3. PICK r \in 0..9 : r = Ones(n)
    BY <1>3
  <2>4. n = 10 * Tenth(n) + r
    BY <1>1, <1>3, <2>3
  <2>5. 0 < Tenth(n)
    BY <1>1, <1>3, <1>6, <2>4
  <2>6. Decimal[n] = Append(Decimal[Tenth(n)], LastDigit(n))
    BY <1>6, DecimalIs
  <2>7. Len(Decimal[n]) = Len(Decimal[Tenth(n)]) + 1
    BY <1>2, <1>4, <2>2, <2>6, AppendProperties
  <2> QED
    BY <2>1, <2>2, <2>3, <2>4, <2>5, <2>6, <2>7, Zenon
<1>7. Len(Decimal[n]) # 0
  <2>1. CASE n < 10
    BY <1>5, <2>1
  <2>2. CASE ~(n < 10)
    <3>1. Tenth(n) \in CSeq /\ Len(Decimal[n]) = Len(Decimal[Tenth(n)]) + 1
      BY <1>6, <2>2
    <3>2. Len(Decimal[Tenth(n)]) \in Nat
      BY <1>2, <3>1
    <3> QED
      BY <3>1, <3>2
  <2> QED
    BY <2>1, <2>2
<1>8. ASSUME ~(n < 10)
      PROVE  Len(Decimal[Tenth(n)]) \in Nat \ {0}
  <2>1. Tenth(n) \in CSeq
    BY <1>6, <1>8
  <2> DEFINE m == Tenth(n)
  <2>2. m \in Nat
    BY <1>3
  <2>3. m < 10 => Decimal[m] = <<LastDigit(m)>>
    BY <2>1, DecimalIs
  <2>4. ~(m < 10) => Decimal[m] = Append(Decimal[Tenth(m)], LastDigit(m)) /\ Tenth(m) \in CSeq
    <3>1. ~(m < 10) => Tenth(m) < m /\ Tenth(m) \in Nat
      BY <2>2, DivMod
    <3> QED
      BY <2>1, <2>2, <3>1, DecimalIs, ModulusAssumption DEF CSeq
  <2>5. Decimal[m] # <<>>
    <3>1. LastDigit(m) \in TokenSymbols
      BY <2>2, DivMod, DigitsAreSymbols DEF LastDigit
    <3> HIDE DEF m
    <3>2. CASE m < 10
      BY <2>3, <3>2
    <3>3. CASE ~(m < 10)
      BY <1>2, <2>4, <3>1, <3>3, AppendProperties
    <3> QED
      BY <3>2, <3>3
  <2> QED
    BY <1>2, <2>1, <2>5, EmptySeq
<1> QED
  BY <1>1, <1>2, <1>3, <1>5, <1>6, <1>7, <1>8

\* Sequences that grew by one element are the same only if both parts are.
LEMMA SameAppended ==
    ASSUME NEW s \in Seq(TokenSymbols), NEW e \in TokenSymbols,
           NEW t \in Seq(TokenSymbols), NEW f \in TokenSymbols, Append(s, e) = Append(t, f)
    PROVE  s = t /\ e = f
BY AppendInjective

\* Different numbers are written differently.
LEMMA DecimalInjective ==
    \A n \in CSeq : \A m \in CSeq : Decimal[m] = Decimal[n] => m = n
<1> DEFINE Same(n) == n \in CSeq => \A m \in CSeq : Decimal[m] = Decimal[n] => m = n
           S == {n \in Nat : Same(n)}
<1>1. ASSUME NEW n \in Nat, \A k \in Nat : k < n => k \in S
      PROVE  n \in S
  <2>1. ASSUME n \in CSeq, NEW m \in CSeq, Decimal[m] = Decimal[n]
        PROVE  m = n
    <3>1. CASE n < 10 /\ m < 10
      <4>1. /\ Decimal[n] = <<LastDigit(n)>> /\ Ones(n) = n /\ Ones(n) \in 0..9
            /\ Decimal[m] = <<LastDigit(m)>> /\ Ones(m) = m /\ Ones(m) \in 0..9
        BY <2>1, <3>1, DecimalShape
      <4>2. LastDigit(m) = LastDigit(n)
        BY <2>1, <4>1
      <4>3. Ones(m) = Ones(n)
        BY <4>1, <4>2, DigitsDiffer DEF LastDigit
      <4> QED
        BY <4>1, <4>3
    <3>2. CASE ~(n < 10) /\ ~(m < 10)
      <4>1. /\ Tenth(n) \in CSeq /\ Tenth(n) \in Nat /\ Tenth(n) < n /\ Tenth(m) \in CSeq
            /\ n = 10 * Tenth(n) + Ones(n) /\ m = 10 * Tenth(m) + Ones(m)
            /\ Ones(n) \in 0..9 /\ Ones(m) \in 0..9
            /\ Decimal[n] = Append(Decimal[Tenth(n)], LastDigit(n))
            /\ Decimal[m] = Append(Decimal[Tenth(m)], LastDigit(m))
        BY <2>1, <3>2, DecimalShape
      <4>2. /\ Decimal[Tenth(n)] \in Seq(TokenSymbols) /\ Decimal[Tenth(m)] \in Seq(TokenSymbols)
            /\ LastDigit(n) \in TokenSymbols /\ LastDigit(m) \in TokenSymbols
        BY <4>1, DecimalShape, DigitsAreSymbols DEF LastDigit
      <4>3. Decimal[Tenth(m)] = Decimal[Tenth(n)] /\ LastDigit(m) = LastDigit(n)
        <5>1. Append(Decimal[Tenth(m)], LastDigit(m)) = Append(Decimal[Tenth(n)], LastDigit(n))
          BY <2>1, <4>1
        <5> QED
          BY <4>2, <5>1, SameAppended
      <4>4. Tenth(m) = Tenth(n)
        BY <1>1, <4>1, <4>3
      <4>5. Ones(m) = Ones(n)
        BY <4>1, <4>3, DigitsDiffer DEF LastDigit
      <4> QED
        BY <4>1, <4>4, <4>5
    <3>3. ~(n < 10) <=> ~(m < 10)
      <4>1. \A k \in CSeq : k < 10 <=> Len(Decimal[k]) = 1
        BY DecimalShape
      <4> QED
        BY <2>1, <4>1
    <3> QED
      BY <3>1, <3>2, <3>3
  <2> QED
    BY <2>1
<1>2. Nat \subseteq S
  <2> HIDE DEF S
  <2> QED
    BY <1>1, StrongInduction
<1>3. \A n \in CSeq : n \in Nat
  BY DecimalShape
<1> QED
  BY <1>2, <1>3

\* What begins the digits of a number is a number.
LEMMA DecimalPrefix ==
    \A n \in CSeq : 0 < n => \A l \in 1..Len(Decimal[n]) :
        \E t \in CSeq : 0 < t /\ Decimal[t] = SubSeq(Decimal[n], 1, l)
<1> DEFINE Good(n) == n \in CSeq /\ 0 < n => \A l \in 1..Len(Decimal[n]) :
                        \E t \in CSeq : 0 < t /\ Decimal[t] = SubSeq(Decimal[n], 1, l)
           S == {n \in Nat : Good(n)}
<1>1. ASSUME NEW n \in Nat, \A k \in Nat : k < n => k \in S
      PROVE  n \in S
  <2>1. ASSUME n \in CSeq, 0 < n, NEW l \in 1..Len(Decimal[n])
        PROVE  \E t \in CSeq : 0 < t /\ Decimal[t] = SubSeq(Decimal[n], 1, l)
    <3>1. CASE l = Len(Decimal[n])
      <4>1. SubSeq(Decimal[n], 1, l) = Decimal[n]
        BY <2>1, <3>1, DecimalShape, SubSeqFull
      <4> QED
        BY <2>1, <4>1
    <3>2. CASE l # Len(Decimal[n])
      <4>1. l \in Nat /\ l < Len(Decimal[n]) /\ Len(Decimal[n]) \in Nat /\ 1 <= l
        BY <2>1, <3>2, DecimalShape
      <4>2. ~(n < 10)
        <5>1. n < 10 => Len(Decimal[n]) = 1
          BY <2>1, DecimalShape
        <5> DEFINE size == Len(Decimal[n])
        <5>2. l \in Nat /\ l < size /\ 1 <= l /\ (n < 10 => size = 1)
          BY <4>1, <5>1
        <5> HIDE DEF size
        <5> QED
          BY <5>2
      <4>3. PICK m \in CSeq : m = Tenth(n)
        BY <2>1, <4>2, DecimalShape
      <4>4. /\ m \in Nat /\ 0 < m /\ m < n /\ Len(Decimal[n]) = Len(Decimal[m]) + 1
            /\ Decimal[n] = Append(Decimal[m], LastDigit(n))
            /\ Decimal[m] \in Seq(TokenSymbols) /\ Len(Decimal[m]) \in Nat
        BY <2>1, <4>2, <4>3, DecimalShape
      <4>5. l \in 1..Len(Decimal[m])
        BY <4>1, <4>4
      <4>6. PICK t \in CSeq : 0 < t /\ Decimal[t] = SubSeq(Decimal[m], 1, l)
        BY <1>1, <4>4, <4>5
      <4>7. SubSeq(Decimal[n], 1, l) = SubSeq(Decimal[m], 1, l)
        <5>1. LastDigit(n) \in TokenSymbols
          BY <2>1, DecimalShape, DigitsAreSymbols DEF LastDigit
        <5>2. Decimal[n] = Decimal[m] \o <<LastDigit(n)>>
          BY <4>4, <5>1, AppendIsConcat
        <5>3. <<LastDigit(n)>> \in Seq(TokenSymbols) /\ 1 \in 1..Len(Decimal[m])
          BY <4>4, <4>5, <5>1
        <5> QED
          BY <4>4, <4>5, <5>2, <5>3, SubSeqOfConcat1
      <4> QED
        BY <4>6, <4>7
    <3> QED
      BY <3>1, <3>2
  <2> QED
    BY <2>1
<1>2. Nat \subseteq S
  <2> HIDE DEF S
  <2> QED
    BY <1>1, StrongInduction
<1>3. \A n \in CSeq : n \in Nat
  BY DecimalShape
<1> QED
  BY <1>2, <1>3

\* One digit more has been read, and the number is still what its digits make.
LEMMA NextDigit ==
    ASSUME NEW c \in CSeq, 0 < c, NEW l \in Nat, l < Len(Decimal[c]), NEW t, DigitsRead(c, l, t),
           NEW d \in 0..9, DigitSymbols[d + 1] = Decimal[c][l + 1]
    PROVE  DigitsRead(c, l + 1, t * 10 + d)
<1>0. Decimal[c] \in Seq(TokenSymbols) /\ Len(Decimal[c]) \in Nat /\ t \in CSeq /\ t \in Nat
  BY DecimalShape DEF DigitsRead
<1>1. l + 1 \in 1..Len(Decimal[c])
  BY <1>0
<1>2. PICK s \in CSeq : 0 < s /\ Decimal[s] = SubSeq(Decimal[c], 1, l + 1)
  BY <1>1, DecimalPrefix
<1>3. Decimal[s] = Append(SubSeq(Decimal[c], 1, l), Decimal[c][l + 1])
  <2>1. SubSeq(Decimal[c], 1, l + 1)
          = SubSeq(Decimal[c], 1, (l + 1) - 1) \o <<Decimal[c][l + 1]>>
    <3>1. 1 \in 1..Len(Decimal[c]) /\ l + 1 \in 1..Len(Decimal[c])
      BY <1>0, <1>1
    <3> QED
      BY <1>0, <3>1, SubSeqRecursiveSecond
  <2>2. (l + 1) - 1 = l
    OBVIOUS
  <2>3. SubSeq(Decimal[c], 1, l) \in Seq(TokenSymbols) /\ Decimal[c][l + 1] \in TokenSymbols
    <3>1. \A i \in 1..l : i \in 1..Len(Decimal[c])
      BY <1>0
    <3>2. \A i \in 1..l : Decimal[c][i] \in TokenSymbols
      BY <1>0, <3>1, ElementOfSeq
    <3> QED
      BY <1>0, <1>1, <3>2, SubSeqProperties, ElementOfSeq
  <2> QED
    BY <1>2, <2>1, <2>2, <2>3, AppendIsConcat
<1>4. Len(Decimal[s]) = l + 1
  <2>1. \A i \in 1..(l + 1) : Decimal[c][i] \in TokenSymbols
    <3>1. \A i \in 1..(l + 1) : i \in 1..Len(Decimal[c])
      BY <1>0
    <3> QED
      BY <1>0, <3>1, ElementOfSeq
  <2>2. Len(SubSeq(Decimal[c], 1, l + 1)) = l + 1
    BY <2>1, SubSeqProperties
  <2> QED
    BY <1>2, <2>2
<1>5. CASE l = 0
  <2>1. t = 0 /\ Len(Decimal[s]) = 1
    BY <1>4, <1>5 DEF DigitsRead
  <2>2. s < 10
    BY <2>1, DecimalShape
  <2>3. Decimal[s] = <<LastDigit(s)>> /\ Ones(s) = s /\ Ones(s) \in 0..9
    BY <2>2, DecimalShape
  <2>4. LastDigit(s) = Decimal[c][l + 1]
    <3>1. SubSeq(Decimal[c], 1, l) = <<>>
      BY <1>5, SubSeqEmpty
    <3>2. Decimal[s] = <<Decimal[c][l + 1]>>
      <4>1. \A x : Append(<<>>, x) = <<x>>
        OBVIOUS
      <4>2. Decimal[s] = Append(<<>>, Decimal[c][l + 1])
        BY <1>3, <3>1
      <4> QED
        BY <4>1, <4>2
    <3> QED
      BY <2>3, <3>2
  <2>5. s = d
    BY <2>3, <2>4, DigitsDiffer DEF LastDigit
  <2>6. t * 10 + d = s
    BY <2>1, <2>5
  <2> QED
    BY <1>2, <2>6 DEF DigitsRead
<1>6. CASE l # 0
  <2>1. Decimal[t] = SubSeq(Decimal[c], 1, l)
    BY <1>6 DEF DigitsRead
  <2>2. ~(s < 10)
    <3>1. s < 10 => Len(Decimal[s]) = 1
      BY DecimalShape
    <3> QED
      BY <1>4, <1>6, <3>1
  <2>3. /\ Decimal[s] = Append(Decimal[Tenth(s)], LastDigit(s)) /\ Tenth(s) \in CSeq
        /\ s = 10 * Tenth(s) + Ones(s) /\ Ones(s) \in 0..9 /\ Tenth(s) \in Nat
    BY <2>2, DecimalShape
  <2>4. /\ Decimal[Tenth(s)] \in Seq(TokenSymbols) /\ LastDigit(s) \in TokenSymbols
        /\ Decimal[t] \in Seq(TokenSymbols) /\ Decimal[c][l + 1] \in TokenSymbols
    BY <1>0, <1>1, <2>3, DecimalShape, DigitsAreSymbols, ElementOfSeq DEF LastDigit
  <2>5. Decimal[Tenth(s)] = Decimal[t] /\ LastDigit(s) = Decimal[c][l + 1]
    <3>1. Append(Decimal[Tenth(s)], LastDigit(s)) = Append(Decimal[t], Decimal[c][l + 1])
      BY <1>3, <2>1, <2>3
    <3> DEFINE u == Decimal[Tenth(s)]  e == LastDigit(s)  v == Decimal[t]  f == Decimal[c][l + 1]
    <3>2. /\ u \in Seq(TokenSymbols) /\ e \in TokenSymbols
          /\ v \in Seq(TokenSymbols) /\ f \in TokenSymbols /\ Append(u, e) = Append(v, f)
      BY <2>4, <3>1
    <3> HIDE DEF u, e, v, f
    <3>3. u = v /\ e = f
      BY <3>2, SameAppended
    <3> QED
      BY <3>3 DEF u, e, v, f
  <2>6. Tenth(s) = t
    BY <1>0, <2>3, <2>5, DecimalInjective
  <2>7. Ones(s) = d
    BY <2>3, <2>5, DigitsDiffer DEF LastDigit
  <2>8. t * 10 + d = s
    BY <1>0, <2>3, <2>6, <2>7
  <2> QED
    BY <1>2, <2>8 DEF DigitsRead
<1> QED
  BY <1>5, <1>6

-----------------------------------------------------------------------------
(* Where the lines of a text stand that was put together of them.          *)

\* u is s and then t.
Concatenated(S, s, t, u) ==
    /\ u \in Seq(S) /\ Len(s) \in Nat /\ Len(t) \in Nat
    /\ Len(u) = Len(s) + Len(t)
    /\ \A k \in 1..Len(s) : u[k] = s[k]
    /\ \A k \in 1..Len(t) : u[Len(s) + k] = t[k]

\* Where the elements of two sequences are in their concatenation.
LEMMA ConcatIs ==
    ASSUME NEW S, NEW s \in Seq(S), NEW t \in Seq(S)
    PROVE  Concatenated(S, s, t, s \o t)
<1>1. Len(s) \in Nat /\ Len(t) \in Nat /\ s \o t \in Seq(S) /\ Len(s \o t) = Len(s) + Len(t)
  BY ConcatProperties, LenProperties
<1>2. \A i \in 1..(Len(s) + Len(t)) : (s \o t)[i] = IF i <= Len(s) THEN s[i] ELSE t[i - Len(s)]
  BY <1>1, ConcatProperties
<1>3. ASSUME NEW k \in 1..Len(t)
      PROVE  (s \o t)[Len(s) + k] = t[k]
  <2>1. Len(s) + k \in 1..(Len(s) + Len(t)) /\ ~(Len(s) + k <= Len(s)) /\ (Len(s) + k) - Len(s) = k
    BY <1>1
  <2> QED
    BY <1>2, <2>1
<1> QED
  BY <1>1, <1>2, <1>3 DEF Concatenated

\* Each of its values is the one before it and a sequence more.
Grows(S, seqs, f) ==
    \A i \in 1..Len(seqs) :
        /\ f[i] \in Seq(S) /\ Len(f[i]) \in Nat /\ seqs[i] \in Seq(S) /\ Len(seqs[i]) \in Nat
        /\ i = 1 => f[i] = seqs[i]
        /\ i # 1 =>
           /\ Len(f[i - 1]) \in Nat /\ Len(f[i]) = Len(f[i - 1]) + Len(seqs[i])
           /\ \A k \in 1..Len(f[i - 1]) : f[i][k] = f[i - 1][k]
           /\ \A k \in 1..Len(seqs[i]) : f[i][Len(f[i - 1]) + k] = seqs[i][k]

\* What has been put together grows by each sequence ...
LEMMA JoinedLonger ==
    ASSUME NEW S, NEW seqs \in Seq(Seq(S)), NEW f, Joined(seqs, f)
    PROVE  Grows(S, seqs, f)
<1>0. Len(seqs) \in Nat /\ \A i \in 1..Len(seqs) : seqs[i] \in Seq(S)
  BY LenProperties, ElementOfSeq
<1>1. \A i \in 1..Len(seqs) : f[i] = IF i = 1 THEN seqs[i] ELSE f[i - 1] \o seqs[i]
  BY DEF Joined
<1>2. \A i \in 1..Len(seqs) : f[i] \in Seq(S)
  BY JoinedTyped
<1>3. ASSUME NEW i \in 1..Len(seqs), i # 1
      PROVE  /\ Len(f[i - 1]) \in Nat /\ Len(f[i]) = Len(f[i - 1]) + Len(seqs[i])
             /\ \A k \in 1..Len(f[i - 1]) : f[i][k] = f[i - 1][k]
             /\ \A k \in 1..Len(seqs[i]) : f[i][Len(f[i - 1]) + k] = seqs[i][k]
  <2>1. i - 1 \in 1..Len(seqs)
    BY <1>0, <1>3
  <2>2. f[i - 1] \in Seq(S) /\ seqs[i] \in Seq(S) /\ f[i] = f[i - 1] \o seqs[i]
    BY <1>0, <1>1, <1>2, <1>3, <2>1
  <2> DEFINE g == f[i - 1]  t == seqs[i]
  <2>3. g \in Seq(S) /\ t \in Seq(S) /\ f[i] = g \o t
    BY <2>2
  <2> HIDE DEF g, t
  <2>4. /\ Len(g) \in Nat /\ Len(g \o t) = Len(g) + Len(t)
        /\ \A k \in 1..Len(g) : (g \o t)[k] = g[k]
        /\ \A k \in 1..Len(t) : (g \o t)[Len(g) + k] = t[k]
    <3>1. Concatenated(S, g, t, g \o t)
      BY <2>3, ConcatIs
    <3> QED
      BY <3>1, Zenon DEF Concatenated
  <2>5. /\ Len(g) \in Nat /\ Len(f[i]) = Len(g) + Len(t)
        /\ \A k \in 1..Len(g) : f[i][k] = g[k]
        /\ \A k \in 1..Len(t) : f[i][Len(g) + k] = t[k]
    BY <2>3, <2>4
  <2> QED
    BY <2>5 DEF g, t
<1>4. \A i \in 1..Len(seqs) : Len(f[i]) \in Nat /\ Len(seqs[i]) \in Nat
  BY <1>0, <1>2, LenProperties
<1>5. \A i \in 1..Len(seqs) : i = 1 => f[i] = seqs[i]
  BY <1>1
<1>6. \A i \in 1..Len(seqs) : f[i] \in Seq(S) /\ seqs[i] \in Seq(S)
  BY <1>0, <1>2
<1> QED
  BY <1>3, <1>4, <1>5, <1>6, Zenon DEF Grows

\* ... so that what has been put together begins with what was before.
BeginsWith(f, j) ==
    \A d \in Nat : j - d >= 1 =>
        /\ Len(f[j - d]) <= Len(f[j])
        /\ \A k \in 1..Len(f[j - d]) : f[j][k] = f[j - d][k]

\* The whole begins with what is put together of the first lines.
LEMMA JoinedPrefix ==
    ASSUME NEW S, NEW seqs \in Seq(Seq(S)), NEW f, Joined(seqs, f), NEW j \in 1..Len(seqs)
    PROVE  BeginsWith(f, j)
<1> DEFINE Good(d) == j - d >= 1 =>
                        /\ Len(f[j - d]) <= Len(f[j])
                        /\ \A k \in 1..Len(f[j - d]) : f[j][k] = f[j - d][k]
           G == {d \in Nat : Good(d)}
<1>0. Len(seqs) \in Nat /\ j \in Nat /\ j <= Len(seqs)
  BY LenProperties
<1>g. Grows(S, seqs, f)
  BY JoinedLonger
<1>b. \A i \in 1..Len(seqs) :
        /\ f[i] \in Seq(S) /\ Len(f[i]) \in Nat /\ seqs[i] \in Seq(S) /\ Len(seqs[i]) \in Nat
        /\ i = 1 => f[i] = seqs[i]
        /\ i # 1 =>
           /\ Len(f[i - 1]) \in Nat /\ Len(f[i]) = Len(f[i - 1]) + Len(seqs[i])
           /\ \A k \in 1..Len(f[i - 1]) : f[i][k] = f[i - 1][k]
           /\ \A k \in 1..Len(seqs[i]) : f[i][Len(f[i - 1]) + k] = seqs[i][k]
  BY <1>g, Zenon DEF Grows
<1>a. \A i \in 1..Len(seqs) : Len(f[i]) \in Nat
  BY <1>b, Zenon
<1>1. 0 \in G
  <2>1. j - 0 = j /\ Len(f[j]) \in Nat
    BY <1>0, <1>a
  <2> QED
    BY <2>1
<1>2. ASSUME NEW d \in Nat, d \in G
      PROVE  d + 1 \in G
  <2>1. ASSUME j - (d + 1) >= 1
        PROVE  /\ Len(f[j - (d + 1)]) <= Len(f[j])
               /\ \A k \in 1..Len(f[j - (d + 1)]) : f[j][k] = f[j - (d + 1)][k]
    <3> DEFINE i == j - d
    <3>1. i \in 1..Len(seqs) /\ i # 1 /\ j - (d + 1) = i - 1 /\ i >= 1 /\ i - 1 \in 1..Len(seqs)
      BY <1>0, <2>1
    <3>2. Len(f[i]) <= Len(f[j]) /\ \A k \in 1..Len(f[i]) : f[j][k] = f[i][k]
      BY <1>2, <3>1
    <3> HIDE DEF i
    <3>3. /\ Len(f[i]) = Len(f[i - 1]) + Len(seqs[i]) /\ Len(seqs[i]) \in Nat
          /\ Len(f[i - 1]) \in Nat
          /\ \A k \in 1..Len(f[i - 1]) : f[i][k] = f[i - 1][k]
      BY <1>b, <3>1, Zenon
    <3>4. Len(f[j]) \in Nat /\ Len(f[i]) \in Nat
      BY <1>a, <3>1
    <3> DEFINE x == Len(f[i - 1])  y == Len(f[i])  z == Len(f[j])  l == Len(seqs[i])
    <3>4a. x \in Nat /\ y \in Nat /\ z \in Nat /\ l \in Nat /\ y = x + l /\ y <= z
      BY <3>2, <3>3, <3>4, Zenon
    <3>4b. x <= z /\ \A k \in 1..x : k \in 1..y
      <4> HIDE DEF x, y, z, l
      <4> QED
        BY <3>4a
    <3>5. Len(f[i - 1]) <= Len(f[j])
      BY <3>4b
    <3>6. \A k \in 1..Len(f[i - 1]) : k \in 1..Len(f[i])
      BY <3>4b, Zenon
    <3>7. \A k \in 1..Len(f[i - 1]) : f[j][k] = f[i - 1][k]
      BY <3>2, <3>3, <3>6
    <3> QED
      BY <3>1, <3>5, <3>7
  <2> QED
    BY <2>1
<1>3. Nat \subseteq G
  <2> HIDE DEF G
  <2> QED
    BY <1>1, <1>2, Induction
<1> QED
  BY <1>3 DEF BeginsWith

\* Where each of the sequences begins in what is put together of them.
BeginsAt(seqs, b) ==
    /\ b[1] = 0
    /\ \A i \in 1..Len(seqs) :
        b[i] \in Nat /\ b[i + 1] \in Nat /\ b[i + 1] = b[i] + Len(seqs[i])

\* So each sequence stands in the whole where the ones before it end.
LEMMA FlattenBegins ==
    ASSUME NEW S, NEW seqs \in Seq(Seq(S))
    PROVE  \E b : /\ BeginsAt(seqs, b)
                  /\ FlattenSeq(seqs) \in Seq(S)
                  /\ Len(FlattenSeq(seqs)) = b[Len(seqs) + 1]
                  /\ \A i \in 1..Len(seqs) : \A k \in 1..Len(seqs[i]) :
                        FlattenSeq(seqs)[b[i] + k] = seqs[i][k]
<1>0. Len(seqs) \in Nat /\ FlattenSeq(seqs) \in Seq(S)
  BY LenProperties, FlattenType
<1>1. CASE seqs = <<>>
  <2>1. FlattenSeq(seqs) = <<>> /\ Len(seqs) = 0 /\ Len(<<>>) = 0
    BY <1>1 DEF FlattenSeq
  <2>2. BeginsAt(seqs, [i \in 1..1 |-> 0])
    BY <2>1 DEF BeginsAt
  <2> QED
    BY <1>0, <2>1, <2>2
<1>2. CASE seqs # <<>>
  <2>1. PICK f : Joined(seqs, f) /\ FlattenSeq(seqs) = f[Len(seqs)]
    BY <1>2, FlattenIs
  <2>g. Grows(S, seqs, f)
    BY <2>1, JoinedLonger
  <2>b. \A i \in 1..Len(seqs) :
          /\ f[i] \in Seq(S) /\ Len(f[i]) \in Nat /\ seqs[i] \in Seq(S) /\ Len(seqs[i]) \in Nat
          /\ i = 1 => f[i] = seqs[i]
          /\ i # 1 =>
             /\ Len(f[i - 1]) \in Nat /\ Len(f[i]) = Len(f[i - 1]) + Len(seqs[i])
             /\ \A k \in 1..Len(f[i - 1]) : f[i][k] = f[i - 1][k]
             /\ \A k \in 1..Len(seqs[i]) : f[i][Len(f[i - 1]) + k] = seqs[i][k]
    BY <2>g, Zenon DEF Grows
  <2>2. Len(seqs) >= 1 /\ Len(seqs) \in 1..Len(seqs)
    BY <1>0, <1>2, EmptySeq
  <2> DEFINE b == [i \in 1..(Len(seqs) + 1) |-> IF i = 1 THEN 0 ELSE Len(f[i - 1])]
             n == Len(seqs)
             whole == f[n]
  <2>w. BeginsWith(f, Len(seqs))
    BY <2>1, <2>2, JoinedPrefix
  <2>p. \A d \in Nat : n - d >= 1 =>
             /\ Len(f[n - d]) <= Len(f[n])
             /\ \A k \in 1..Len(f[n - d]) : f[n][k] = f[n - d][k]
    BY <2>w, Zenon DEF BeginsWith
  <2>3. ASSUME NEW i \in 1..n
        PROVE  /\ b[i] \in Nat /\ b[i + 1] \in Nat /\ b[i + 1] = b[i] + Len(seqs[i])
               /\ \A k \in 1..Len(seqs[i]) : whole[b[i] + k] = seqs[i][k]
    <3>1. b[i + 1] = Len(f[i])
      <4>1. i + 1 \in 1..(n + 1) /\ i + 1 # 1 /\ (i + 1) - 1 = i
        BY <1>0
      <4> QED
        BY <4>1
    <3>2. b[i] = IF i = 1 THEN 0 ELSE Len(f[i - 1])
      BY <1>0
    <3> HIDE DEF b
    <3>3. /\ Len(f[i]) \in Nat /\ Len(seqs[i]) \in Nat
          /\ i # 1 => Len(f[i - 1]) \in Nat /\ Len(f[i]) = Len(f[i - 1]) + Len(seqs[i])
          /\ i # 1 => \A k \in 1..Len(seqs[i]) : f[i][Len(f[i - 1]) + k] = seqs[i][k]
      BY <2>b, Zenon
    <3>3a. i = 1 => f[i] = seqs[i]
      BY <2>b, Zenon
    <3>4. b[i] \in Nat /\ b[i + 1] \in Nat /\ b[i + 1] = b[i] + Len(seqs[i])
      <4>1. CASE i = 1
        <5>1. b[i] = 0 /\ b[i + 1] = Len(seqs[i]) /\ Len(seqs[i]) \in Nat
          BY <3>1, <3>2, <3>3, <3>3a, <4>1, Zenon
        <5> QED
          BY <5>1
      <4>2. CASE i # 1
        <5>1. b[i] = Len(f[i - 1]) /\ b[i + 1] = Len(f[i])
          BY <3>1, <3>2, <4>2, Zenon
        <5>2. Len(f[i - 1]) \in Nat /\ Len(f[i]) = Len(f[i - 1]) + Len(seqs[i]) /\ Len(f[i]) \in Nat
          BY <3>3, <4>2, Zenon
        <5> QED
          BY <5>1, <5>2, Zenon
      <4> QED
        BY <4>1, <4>2
    <3>5. ASSUME NEW k \in 1..Len(seqs[i])
          PROVE  f[i][b[i] + k] = seqs[i][k]
      <4>1. CASE i = 1
        <5>1. b[i] + k = k
          BY <3>2, <3>3, <4>1
        <5> QED
          BY <3>3a, <4>1, <5>1
      <4>2. CASE i # 1
        BY <3>2, <3>3, <4>2, Zenon
      <4> QED
        BY <4>1, <4>2
    <3>6. \A k \in 1..Len(f[i]) : whole[k] = f[i][k]
      <4> DEFINE d == n - i
      <4>1. d \in Nat /\ n - d = i /\ n - d >= 1
        BY <1>0
      <4> HIDE DEF d
      <4>2. \A k \in 1..Len(f[n - d]) : f[n][k] = f[n - d][k]
        BY <2>p, <4>1, Zenon
      <4> QED
        BY <4>1, <4>2
    <3>7. ASSUME NEW k \in 1..Len(seqs[i])
          PROVE  whole[b[i] + k] = seqs[i][k]
      <4>1. b[i] + k \in 1..Len(f[i])
        BY <3>1, <3>3, <3>4
      <4> QED
        BY <3>5, <3>6, <4>1
    <3> QED
      BY <3>4, <3>7
  <2>4. b[1] = 0 /\ b[n + 1] = Len(f[n])
    <3>1. n + 1 \in 1..(n + 1) /\ n + 1 # 1 /\ (n + 1) - 1 = n /\ 1 \in 1..(n + 1)
      BY <1>0, <2>2
    <3> QED
      BY <3>1
  <2> HIDE DEF b
  <2>5. BeginsAt(seqs, b)
    BY <2>3, <2>4 DEF BeginsAt
  <2> QED
    BY <1>0, <2>1, <2>3, <2>4, <2>5
<1> QED
  BY <1>1, <1>2

-----------------------------------------------------------------------------
(* Whatever has been read can be written.                                  *)

\* What a part of the text holds.
LEMMA PartIn ==
    ASSUME text \in Seq(Symbols), NEW p \in Nat, NEW q \in Nat, 1 <= p, p <= q, q <= Len(text) + 1
    PROVE  /\ Part(p, q) \in Seq(Symbols) /\ Len(Part(p, q)) = q - p
           /\ \A k \in 1..(q - p) : Part(p, q)[k] = At(p + k - 1) /\ p + k - 1 \in p..(q - 1)
           /\ p < q => Part(p, q) # <<>>
           /\ p = q => Part(p, q) = <<>>
<1>0. Len(text) \in Nat
  BY LenProperties
<1>1. /\ Part(p, q) \in Seq(Symbols) /\ Len(Part(p, q)) = IF p < q THEN q - p ELSE 0
      /\ \A k \in 1..(q - p) : Part(p, q)[k] = At(p + k - 1)
  BY PartTyped
<1>2. Len(Part(p, q)) = q - p
  BY <1>1
<1>3. \A k \in 1..(q - p) : p + k - 1 \in p..(q - 1)
  OBVIOUS
<1>4. Part(p, q) = <<>> <=> q - p = 0
  BY <1>1, <1>2, EmptySeq
<1> QED
  BY <1>1, <1>2, <1>3, <1>4

\* A name that was read can be a name again.
LEMMA NameWritten ==
    ASSUME text \in Seq(Symbols), NEW p \in Nat, NEW n \in Nat, 1 <= p, p < n, n <= Len(text),
           \A r \in p..(n - 1) :
               At(r) \in IF kind = "message" THEN TokenSymbols ELSE Symbols \ {":"}
    PROVE  IsName(Part(p, n))
<1>0. Len(text) \in Nat
  BY LenProperties
<1>1. /\ Part(p, n) # <<>> /\ Len(Part(p, n)) = n - p
      /\ \A k \in 1..(n - p) : Part(p, n)[k] = At(p + k - 1) /\ p + k - 1 \in p..(n - 1)
  BY <1>0, PartIn
<1>2. \A k \in 1..Len(Part(p, n)) :
         Part(p, n)[k] \in IF kind = "message" THEN TokenSymbols ELSE Symbols \ {":"}
  BY <1>1, Zenon
<1> QED
  BY <1>1, <1>2, Zenon DEF IsName

\* A folded line end of the text is one of the value.
LEMMA FoldWritten ==
    ASSUME text \in Seq(Symbols), NEW v \in Nat, NEW e \in Nat, 1 <= v, v <= e, e <= Len(text) + 1,
           ~Inside(v, e), NEW k \in 1..(e - v), Folded(v, v + k - 1)
    PROVE  FoldedIn(Part(v, e), k)
<1>0. Len(text) \in Nat
  BY LenProperties
<1> DEFINE r == v + k - 1  value == Part(v, e)
<1>1. PICK f \in v..r : /\ At(f) = "crlf" /\ At(f + 1) \in Blank
                        /\ \A g \in (f + 1)..r : At(g) \in Blank
  BY DEF Folded
<1>2. r \in v..(e - 1) /\ f \in Nat /\ r \in Nat
  OBVIOUS
<1>3. Len(value) = e - v /\ \A j \in 1..(e - v) : value[j] = At(v + j - 1)
  BY PartIn
<1>4. f < e - 1
  <2>1. ASSUME f = e - 1
        PROVE  Folded(v, e)
    <3>1. f \in v..e /\ \A g \in (f + 1)..e : g = f + 1
      BY <1>2, <2>1
    <3>2. \A g \in (f + 1)..e : At(g) \in Blank
      BY <1>1, <3>1
    <3> QED
      BY <1>1, <3>1, <3>2 DEF Folded
  <2> QED
    BY <1>2, <2>1 DEF Inside
<1> HIDE DEF value
<1> DEFINE h == f - v + 1
<1>5. h \in 1..k /\ h < Len(value) /\ h \in 1..(e - v) /\ h + 1 \in 1..(e - v)
  BY <1>2, <1>3, <1>4
<1>6. value[h] = "crlf"
  <2>1. v + h - 1 = f
    BY <1>2
  <2> QED
    BY <1>1, <1>3, <1>5, <2>1
<1>7. value[h + 1] \in Blank
  <2>1. v + (h + 1) - 1 = f + 1
    BY <1>2
  <2> QED
    BY <1>1, <1>3, <1>5, <2>1
<1>8. ASSUME NEW g \in (h + 1)..k
      PROVE  value[g] \in Blank
  <2>1. g \in 1..(e - v) /\ v + g - 1 \in (f + 1)..r
    BY <1>2, <1>5
  <2> QED
    BY <1>1, <1>3, <2>1
<1> HIDE DEF h
<1>9. FoldedIn(value, k)
  BY <1>5, <1>6, <1>7, <1>8 DEF FoldedIn
<1> QED
  BY <1>9 DEF value

\* So can a value of a message be a value, folded lines and all ...
LEMMA ValueWritten ==
    ASSUME text \in Seq(Symbols), kind = "message", NEW v \in Nat, NEW e \in Nat, 1 <= v, v <= e,
           e <= Len(text) + 1, At(v) \notin Blank, ~Inside(v, e),
           \A r \in v..(e - 1) : Inside(v, r)
    PROVE  IsValue(Part(v, e))
<1>0. Len(text) \in Nat
  BY LenProperties
<1>1. /\ Len(Part(v, e)) = e - v
      /\ \A k \in 1..(e - v) : Part(v, e)[k] = At(v + k - 1) /\ v + k - 1 \in v..(e - 1)
      /\ v = e => Part(v, e) = <<>>
  BY <1>0, PartIn
<1>2. Part(v, e) # <<>> => Part(v, e)[1] \notin Blank
  <2>1. CASE v = e
    BY <1>1, <2>1
  <2>2. CASE v # e
    <3>1. 1 \in 1..(e - v) /\ v + 1 - 1 = v
      BY <2>2
    <3>2. Part(v, e)[1] = At(v)
      BY <1>1, <3>1
    <3> QED
      BY <3>2
  <2> QED
    BY <2>1, <2>2
<1>3. ASSUME NEW k \in 1..(e - v)
      PROVE  Part(v, e)[k] \in Symbols \ Control \/ FoldedIn(Part(v, e), k)
  <2>1. Inside(v, v + k - 1)
    BY <1>1
  <2>2. Folded(v, v + k - 1) => FoldedIn(Part(v, e), k)
    BY FoldWritten
  <2> QED
    BY <1>1, <2>1, <2>2, Zenon DEF Inside
<1> QED
  BY <1>1, <1>2, <1>3, Zenon DEF IsValue

\* ... and one of a parameter.
LEMMA ParameterValueWritten ==
    ASSUME text \in Seq(Symbols), NEW v \in Nat, NEW e \in Nat, 1 <= v, v <= e,
           e <= Len(text) + 1, At(v) \notin Blank, \A r \in v..(e - 1) : At(r) \in Symbols \ Control
    PROVE  IsValue(Part(v, e))
<1>0. Len(text) \in Nat
  BY LenProperties
<1>1. /\ Len(Part(v, e)) = e - v
      /\ \A k \in 1..(e - v) : Part(v, e)[k] = At(v + k - 1) /\ v + k - 1 \in v..(e - 1)
      /\ v = e => Part(v, e) = <<>>
  BY <1>0, PartIn
<1>2. Part(v, e) # <<>> => Part(v, e)[1] \notin Blank
  <2>1. CASE v = e
    BY <1>1, <2>1
  <2>2. CASE v # e
    <3>1. 1 \in 1..(e - v) /\ v + 1 - 1 = v
      BY <2>2
    <3>2. Part(v, e)[1] = At(v)
      BY <1>1, <3>1
    <3> QED
      BY <3>2
  <2> QED
    BY <2>1, <2>2
<1> QED
  BY <1>1, <1>2, Zenon DEF IsValue

\* Fields stay writable when one is added.
LEMMA EmplacedWritable ==
    ASSUME RtspTypeOK, Writable(message.fields), NEW name, NEW value,
           IsName(name), IsValue(value), NEW read, read = emplace(name, value)
    PROVE  /\ Writable(read.fields)
           /\ read.line = message.line /\ read.body = message.body
<1>1. /\ read = [line |-> message.line, fields |-> read.fields, body |-> message.body]
      /\ name \in DOMAIN message.fields => read.fields = message.fields
      /\ name \notin DOMAIN message.fields => read.fields = With(message.fields, name, value)
  BY MessageTyped, Emplaced
<1>0. read.line = message.line /\ read.body = message.body
  BY <1>1
<1>2. CASE name \in DOMAIN message.fields
  BY <1>0, <1>1, <1>2, Zenon
<1>3. CASE name \notin DOMAIN message.fields
  <2>1. \A n \in DOMAIN With(message.fields, name, value) :
           /\ n \in DOMAIN message.fields \cup {name}
           /\ With(message.fields, name, value)[n] = IF n = name THEN value ELSE message.fields[n]
    BY DEF With
  <2>2. \A n \in DOMAIN read.fields : IsName(n) /\ IsValue(read.fields[n])
    BY <1>1, <1>3, <2>1, Zenon DEF Writable
  <2> QED
    BY <1>0, <2>2, Zenon DEF Writable
<1> QED
  BY <1>2, <1>3

\* The uri of a request that is accepted.
LEMMA UriWritten ==
    ASSUME text \in Seq(Symbols), IsRequest, RequestFound
    PROVE  IsLine(Part(Uri, UriEnd))
<1>0. Len(text) \in Nat
  BY LenProperties
<1>1. /\ FirstLineEnd \in Nat /\ FirstLineEnd <= Len(text) + 1
      /\ Uri \in 1..FirstLineEnd /\ UriEnd \in 1..FirstLineEnd /\ IsUri(Uri, UriEnd)
  BY RequestLineRead, FirstLine
<1> DEFINE u == Uri  e == UriEnd
<1>2. /\ u \in Nat /\ e \in Nat /\ 1 <= u /\ u < e /\ e <= Len(text) + 1
      /\ \A p \in u..(e - 1) : At(p) \notin Blank \cup Control
  <2>1. u < e /\ \A p \in u..(e - 1) : At(p) \notin Blank \cup Control
    BY <1>1, Zenon DEF IsUri
  <2>2. u \in 1..FirstLineEnd /\ e \in 1..FirstLineEnd
    BY <1>1
  <2> HIDE DEF u, e
  <2> QED
    BY <1>0, <1>1, <2>1, <2>2
<1> HIDE DEF u, e
<1>3. /\ Part(u, e) # <<>> /\ Len(Part(u, e)) = e - u
      /\ \A k \in 1..(e - u) : Part(u, e)[k] = At(u + k - 1) /\ u + k - 1 \in u..(e - 1)
      /\ Part(u, e) \in Seq(Symbols)
  BY <1>0, <1>2, PartIn
<1>4. \A k \in 1..(e - u) : Part(u, e)[k] \in Symbols
  BY <1>3, ElementOfSeq
<1>5. \A k \in 1..(e - u) : Part(u, e)[k] \notin Blank \cup Control
  BY <1>2, <1>3, Zenon
<1>6. "sp" \in Blank /\ 1 \in 1..(e - u)
  BY <1>2 DEF Blank
<1>7. \A k \in 1..(e - u) : Part(u, e)[k] \in Symbols \ Control /\ Part(u, e)[k] # "sp"
  BY <1>4, <1>5, <1>6
<1>8. Part(u, e)[1] \notin Blank
  BY <1>5, <1>6
<1>9. IsLine(Part(u, e))
  BY <1>3, <1>7, <1>8, Zenon DEF IsLine
<1> QED
  BY <1>9 DEF u, e

\* The reason phrase of a response that is accepted.
LEMMA PhraseWritten ==
    ASSUME text \in Seq(Symbols), ~IsRequest, ResponseFound
    PROVE  IsLine(Part(Phrase, PhraseEnd))
<1>0. Len(text) \in Nat
  BY LenProperties
<1>1. /\ FirstLineEnd \in Nat /\ FirstLineEnd <= Len(text) + 1
      /\ Phrase \in 1..FirstLineEnd /\ PhraseEnd \in 1..FirstLineEnd /\ IsPhrase(Phrase, PhraseEnd)
  BY StatusLineRead, FirstLine
<1> DEFINE u == Phrase  e == PhraseEnd
<1>2. /\ u \in Nat /\ e \in Nat /\ 1 <= u /\ u < e /\ e <= Len(text) + 1 /\ At(u) \notin Blank
      /\ \A p \in u..(e - 1) : At(p) \notin Control
  <2>1. u < e /\ At(u) \notin Blank /\ \A p \in u..(e - 1) : At(p) \notin Control
    BY <1>1, Zenon DEF IsPhrase
  <2>2. u \in 1..FirstLineEnd /\ e \in 1..FirstLineEnd
    BY <1>1
  <2> HIDE DEF u, e
  <2> QED
    BY <1>0, <1>1, <2>1, <2>2
<1> HIDE DEF u, e
<1>3. /\ Part(u, e) # <<>> /\ Len(Part(u, e)) = e - u
      /\ \A k \in 1..(e - u) : Part(u, e)[k] = At(u + k - 1) /\ u + k - 1 \in u..(e - 1)
      /\ Part(u, e) \in Seq(Symbols)
  BY <1>0, <1>2, PartIn
<1>4. \A k \in 1..(e - u) : Part(u, e)[k] \in Symbols
  BY <1>3, ElementOfSeq
<1>5. \A k \in 1..(e - u) : Part(u, e)[k] \notin Control
  BY <1>2, <1>3, Zenon
<1>6. 1 \in 1..(e - u) /\ u + 1 - 1 = u
  BY <1>2
<1>7. \A k \in 1..(e - u) : Part(u, e)[k] \in Symbols \ Control
  BY <1>4, <1>5
<1>8. Part(u, e)[1] \notin Blank
  BY <1>2, <1>3, <1>6
<1>9. IsLine(Part(u, e))
  BY <1>3, <1>7, <1>8, Zenon DEF IsLine
<1> QED
  BY <1>9 DEF u, e

\* What can be written depends on the text only where it decides the kind of
\* start line.
LEMMA WrittenKept ==
    ASSUME UNCHANGED <<kind, text>>
    PROVE  /\ \A fields : Writable(fields)' = Writable(fields)
           /\ \A line : IsLine(line)' = IsLine(line)
<1>1. \A p : At(p)' = At(p)
  BY DEF At
<1>2. IsRequest' = IsRequest
  BY <1>1 DEF IsRequest
<1>3. \A name : IsName(name)' = IsName(name)
  BY DEF IsName
<1>4. \A value : IsValue(value)' = IsValue(value)
  BY DEF IsValue, FoldedIn
<1>5. \A fields : Writable(fields)' = Writable(fields)
  BY <1>3, <1>4 DEF Writable
<1>6. \A line : IsLine(line)' = IsLine(line)
  BY <1>2 DEF IsLine
<1> QED
  BY <1>5, <1>6

\* A step that reads on keeps WritableInv when what it reads can be written.
LEMMA FieldsWritable ==
    ASSUME UNCHANGED <<kind, text, parserVars>>, kind = "message", WritableInv,
           NEW fields, message'.fields = fields, Writable(fields),
           NEW line, message'.line = line, IsLine(line),
           stage' \in {"fields", "body", "cseq"}
    PROVE  WritableInv'
<1>1. Writable(fields)' /\ IsLine(line)'
  BY WrittenKept
<1>2. kind # "names" /\ stage' # "accepted" /\ kind # "parameters"
  OBVIOUS
<1>3. outcome = "accepted" => tmpOut # 0
  BY <1>2, Zenon DEF WritableInv
<1>4. tmpOut' = tmpOut /\ outcome' = outcome /\ kind' = kind
  BY DEF parserVars
<1> QED
  BY <1>1, <1>2, <1>3, <1>4, Zenon DEF WritableInv

\* A message that stays is as writable as it was.
LEMMA MessageWritable ==
    ASSUME UNCHANGED <<kind, text, message>>
    PROVE  /\ Writable(message.fields) => Writable(message.fields)'
           /\ IsLine(message.line) => IsLine(message.line)'
<1>1. PICK fields : fields = message.fields
  OBVIOUS
<1>2. PICK line : line = message.line
  OBVIOUS
<1>3. Writable(fields)' = Writable(fields) /\ IsLine(line)' = IsLine(line)
  BY WrittenKept
<1>4. message'.fields = fields /\ message'.line = line
  BY <1>1, <1>2
<1> QED
  BY <1>1, <1>2, <1>3, <1>4, Zenon

\* WritableInv is kept by a refusal ...
LEMMA RefusedWritable ==
    ASSUME WritableInv, Refuse
    PROVE  WritableInv'
<1>1. UNCHANGED <<kind, text, message, tmpOut, outcome>> /\ stage' = "refused"
  BY DEF Refuse, inputVars, parserVars
<1>2. Writable(message.fields) => Writable(message.fields)'
  BY <1>1, MessageWritable
<1>3. stage' \notin {"fields", "body", "cseq", "accepted"} /\ stage' \in {"fields", "accepted", "refused"}
  BY <1>1
<1> QED
  BY <1>1, <1>2, <1>3, Zenon DEF WritableInv

\* ... and when nothing happens.
LEMMA StutterWritable ==
    ASSUME WritableInv, UNCHANGED vars
    PROVE  WritableInv'
<1>1. UNCHANGED <<kind, text, message, tmpOut, outcome, stage>>
  BY DEF vars, inputVars, parserVars
<1>2. /\ Writable(message.fields) => Writable(message.fields)'
      /\ IsLine(message.line) => IsLine(message.line)'
  BY <1>1, MessageWritable
<1> QED
  BY <1>1, <1>2, Zenon DEF WritableInv

\* WritableInv is kept by ParseMethodLine.
LEMMA MethodLineWritable ==
    ASSUME RtspTypeOK, WritableInv, ParseMethodLine
    PROVE  WritableInv'
<1>1. CASE Refuse
  BY <1>1, RefusedWritable
<1>2. CASE ~Refuse
  <2>1. /\ kind = "message" /\ IsRequest /\ RequestFound
        /\ Move(ProtocolAt + 2, "fields", [message EXCEPT !.line = Part(Uri, UriEnd)])
    BY <1>2 DEF ParseMethodLine, RequestFound, Uri, UriEnd, ProtocolAt
  <2>2. PICK line : line = Part(Uri, UriEnd)
    OBVIOUS
  <2>3. text \in Seq(Symbols)
    BY MessageTyped
  <2>4. IsLine(line)
    BY <2>1, <2>2, <2>3, UriWritten
  <2>5. line \in Seq(Symbols)
    <3>1. /\ FirstLineEnd \in Nat /\ FirstLineEnd <= Len(text) + 1
          /\ Uri \in 1..FirstLineEnd /\ UriEnd \in 1..FirstLineEnd /\ Len(text) \in Nat
      BY <2>1, <2>3, RequestLineRead, FirstLine, LenProperties
    <3>2. Uri \in Nat /\ UriEnd \in Nat /\ 1 <= Uri /\ UriEnd <= Len(text) + 1
      BY <3>1
    <3> QED
      BY <2>2, <2>3, <3>2, PartTyped
  <2>6. PICK read : read = [message EXCEPT !.line = line]
    OBVIOUS
  <2>7. read.line = line /\ read.fields = message.fields
    <3>1. read = [line |-> line, fields |-> message.fields, body |-> message.body]
      BY <2>5, <2>6, LineTyped
    <3> QED
      BY <3>1
  <2>8. message' = read /\ stage' = "fields" /\ UNCHANGED <<kind, text, parserVars>>
    BY <2>1, <2>2, <2>6 DEF Move, inputVars
  <2>9. Writable(message.fields)
    BY <2>1 DEF WritableInv
  <2>10. message'.fields = message.fields /\ message'.line = line
    BY <2>7, <2>8
  <2>11. PICK fields : fields = message.fields
    OBVIOUS
  <2> QED
    BY <2>1, <2>4, <2>8, <2>9, <2>10, <2>11, FieldsWritable
<1> QED
  BY <1>1, <1>2

\* WritableInv is kept by ParseStatusLine.
LEMMA StatusLineWritable ==
    ASSUME RtspTypeOK, WritableInv, ParseStatusLine
    PROVE  WritableInv'
<1>1. CASE Refuse
  BY <1>1, RefusedWritable
<1>2. CASE ~Refuse
  <2>1. /\ kind = "message" /\ ~IsRequest /\ ResponseFound
        /\ Move(PhraseEnd + 1, "fields", [message EXCEPT !.line = Part(Phrase, PhraseEnd)])
    BY <1>2 DEF ParseStatusLine, ResponseFound, Status, Phrase, PhraseEnd
  <2>2. PICK line : line = Part(Phrase, PhraseEnd)
    OBVIOUS
  <2>3. text \in Seq(Symbols)
    BY MessageTyped
  <2>4. IsLine(line)
    BY <2>1, <2>2, <2>3, PhraseWritten
  <2>5. line \in Seq(Symbols)
    <3>1. /\ FirstLineEnd \in Nat /\ FirstLineEnd <= Len(text) + 1
          /\ Phrase \in 1..FirstLineEnd /\ PhraseEnd \in 1..FirstLineEnd /\ Len(text) \in Nat
      BY <2>1, <2>3, StatusLineRead, FirstLine, LenProperties
    <3>2. Phrase \in Nat /\ PhraseEnd \in Nat /\ 1 <= Phrase /\ PhraseEnd <= Len(text) + 1
      BY <3>1
    <3> QED
      BY <2>2, <2>3, <3>2, PartTyped
  <2>6. PICK read : read = [message EXCEPT !.line = line]
    OBVIOUS
  <2>7. read.line = line /\ read.fields = message.fields
    <3>1. read = [line |-> line, fields |-> message.fields, body |-> message.body]
      BY <2>5, <2>6, LineTyped
    <3> QED
      BY <3>1
  <2>8. message' = read /\ stage' = "fields" /\ UNCHANGED <<kind, text, parserVars>>
    BY <2>1, <2>2, <2>6 DEF Move, inputVars
  <2>9. Writable(message.fields)
    BY <2>1 DEF WritableInv
  <2>10. message'.fields = message.fields /\ message'.line = line
    BY <2>7, <2>8
  <2>11. PICK fields : fields = message.fields
    OBVIOUS
  <2> QED
    BY <2>1, <2>4, <2>8, <2>9, <2>10, <2>11, FieldsWritable
<1> QED
  BY <1>1, <1>2

\* WritableInv is kept by ParseHeaderField.
LEMMA HeaderFieldWritable ==
    ASSUME RtspTypeOK, WritableInv, ParseHeaderField
    PROVE  WritableInv'
<1>1. CASE Refuse
  BY <1>1, RefusedWritable
<1>2. CASE ~Refuse
  <2>0. text \in Seq(Symbols) /\ Len(text) \in Nat /\ position \in 1..(Len(text) + 1)
    BY MessageTyped
  <2>1. /\ kind = "message" /\ stage = "fields" /\ FieldFound(position)
        /\ Move(NextLine(position),
                IF NextLine(position) = FieldEnd(position) + 1 THEN "fields" ELSE "body",
                emplace(Part(position, NameEnd(position)),
                        Part(ValueStart(position), FieldEnd(position))))
    BY <1>2 DEF ParseHeaderField, FieldFound, NextLine, FieldEnd, ValueStart, NameEnd
  <2>2. PICK q : q = position
    OBVIOUS
  <2>3. /\ q \in Nat /\ 1 <= q /\ q < NameEnd(q) /\ NameEnd(q) \in Nat
        /\ ValueStart(q) \in Nat /\ FieldEnd(q) \in Nat /\ NameEnd(q) <= Len(text)
        /\ 1 <= ValueStart(q) /\ ValueStart(q) <= FieldEnd(q) /\ FieldEnd(q) <= Len(text) + 1
    BY <2>0, <2>1, <2>2, NextLineIs
  <2>4. /\ \A r \in q..(NameEnd(q) - 1) : At(r) \in TokenSymbols
        /\ At(ValueStart(q)) \notin Blank /\ ~Inside(ValueStart(q), FieldEnd(q))
        /\ \A r \in ValueStart(q)..(FieldEnd(q) - 1) : Inside(ValueStart(q), r)
    BY <2>0, <2>1, <2>2, NameFound DEF FieldFound
  <2>5. PICK name : name = Part(q, NameEnd(q))
    OBVIOUS
  <2>6. PICK value : value = Part(ValueStart(q), FieldEnd(q))
    OBVIOUS
  <2>7. IsName(name)
    BY <2>0, <2>1, <2>3, <2>4, <2>5, NameWritten
  <2>8. IsValue(value)
    BY <2>0, <2>1, <2>3, <2>4, <2>6, ValueWritten
  <2>9. PICK read : read = emplace(name, value)
    OBVIOUS
  <2>10. /\ message' = read /\ stage' \in {"fields", "body"}
         /\ UNCHANGED <<kind, text, parserVars>>
    BY <2>1, <2>2, <2>5, <2>6, <2>9 DEF Move, inputVars
  <2>11. Writable(message.fields) /\ IsLine(message.line)
    BY <2>1 DEF WritableInv
  <2>12. Writable(read.fields) /\ read.line = message.line
    BY <2>7, <2>8, <2>9, <2>11, EmplacedWritable
  <2>13. PICK fields : fields = read.fields
    OBVIOUS
  <2>14. PICK line : line = message.line
    OBVIOUS
  <2>15. message'.fields = fields /\ message'.line = line
    BY <2>10, <2>12, <2>13, <2>14
  <2> QED
    BY <2>1, <2>10, <2>11, <2>12, <2>13, <2>14, <2>15, FieldsWritable
<1> QED
  BY <1>1, <1>2

\* WritableInv is kept by TakeBody.
LEMMA TakeBodyWritable ==
    ASSUME RtspTypeOK, WritableInv, TakeBody
    PROVE  WritableInv'
<1>1. CASE Refuse
  BY <1>1, RefusedWritable
<1>2. CASE ~Refuse
  <2>0. text \in Seq(Symbols) /\ Len(text) \in Nat /\ position \in 1..(Len(text) + 1)
    BY MessageTyped
  <2>1. /\ kind = "message" /\ stage \in {"body", "fields"}
        /\ Move(Len(text) + 1, "cseq", [message EXCEPT !.body = Part(position, Len(text) + 1)])
    BY <1>2 DEF TakeBody
  <2>2. PICK body : body = Part(position, Len(text) + 1)
    OBVIOUS
  <2>3. body \in Seq(Symbols)
    BY <2>0, <2>2, PartTyped
  <2>4. PICK read : read = [message EXCEPT !.body = body]
    OBVIOUS
  <2>5. read.line = message.line /\ read.fields = message.fields
    <3>1. read = [line |-> message.line, fields |-> message.fields, body |-> body]
      BY <2>3, <2>4, BodyTyped
    <3> QED
      BY <3>1
  <2>6. message' = read /\ stage' = "cseq" /\ UNCHANGED <<kind, text, parserVars>>
    BY <2>1, <2>2, <2>4 DEF Move, inputVars
  <2>7. Writable(message.fields) /\ IsLine(message.line)
    BY <2>1 DEF WritableInv
  <2>8. PICK fields : fields = message.fields
    OBVIOUS
  <2>9. PICK line : line = message.line
    OBVIOUS
  <2>10. message'.fields = fields /\ message'.line = line
    BY <2>5, <2>6, <2>8, <2>9
  <2> QED
    BY <2>1, <2>6, <2>7, <2>8, <2>9, <2>10, FieldsWritable
<1> QED
  BY <1>1, <1>2

\* WritableInv is kept by ParseCSeq.
LEMMA ParseCSeqWritable ==
    ASSUME RtspTypeOK, WritableInv, ParseCSeq
    PROVE  WritableInv'
<1>1. /\ UNCHANGED <<kind, text, message, stage>> /\ stage = "cseq" /\ outcome = "reading"
      /\ ReadOther \/ TokenEnd \/ ReadDigit(DigitValue(message.fields[CSeqName][length + 1]))
  BY DEF ParseCSeq, inputVars
<1>2. kind # "parameters"
  BY <1>1 DEF WritableInv
<1>3. outcome' = "accepted" => tmpOut' # 0
  <2>1. CASE ReadOther
    BY <2>1 DEF ReadOther
  <2>2. CASE TokenEnd
    BY <2>2 DEF TokenEnd
  <2>3. CASE ReadDigit(DigitValue(message.fields[CSeqName][length + 1]))
    BY <1>1, <2>3 DEF ReadDigit
  <2> QED
    BY <1>1, <2>1, <2>2, <2>3
<1>4. /\ Writable(message.fields) => Writable(message.fields)'
      /\ IsLine(message.line) => IsLine(message.line)'
  BY <1>1, MessageWritable
<1>5. stage' = "cseq" /\ stage' # "accepted" /\ kind' = kind
  BY <1>1
<1> QED
  BY <1>1, <1>2, <1>3, <1>4, <1>5, Zenon DEF WritableInv

\* WritableInv is kept by EraseCSeq.
LEMMA EraseWritable ==
    ASSUME RtspTypeOK, WritableInv, EraseCSeq
    PROVE  WritableInv'
<1>1. CASE Refuse
  BY <1>1, RefusedWritable
<1>2. CASE ~Refuse
  <2>1. /\ stage = "cseq" /\ outcome = "accepted"
        /\ Move(position, "accepted", [message EXCEPT !.fields =
                [name \in DOMAIN @ \ {CSeqName} |-> @[name]]])
    BY <1>2 DEF EraseCSeq
  <2>2. PICK read : read = [message EXCEPT !.fields =
                              [name \in DOMAIN @ \ {CSeqName} |-> @[name]]]
    OBVIOUS
  <2>3. PICK fields : fields = [name \in DOMAIN message.fields \ {CSeqName} |->
                                  message.fields[name]]
    OBVIOUS
  <2>4. read.line = message.line /\ read.fields = fields
    <3>1. read = [line |-> message.line, fields |-> fields, body |-> message.body]
      BY <2>2, <2>3, ErasedTyped
    <3> QED
      BY <3>1
  <2>5. message' = read /\ stage' = "accepted" /\ UNCHANGED <<kind, text, parserVars>>
    BY <2>1, <2>2 DEF Move, inputVars
  <2>6. kind \in {"message", "parameters", "names"}
    BY DEF RtspTypeOK
  <2>7. kind = "message" \/ kind = "names"
    BY <2>1, <2>6 DEF WritableInv
  <2>8. CASE kind = "names"
    BY <2>5, <2>8 DEF WritableInv
  <2>9. CASE kind = "message"
    <3>1. Writable(message.fields) /\ IsLine(message.line) /\ tmpOut # 0
      BY <2>1, <2>9 DEF WritableInv
    <3>2. Writable(fields) /\ CSeqName \notin DOMAIN fields
      <4>1. DOMAIN fields = DOMAIN message.fields \ {CSeqName}
        BY <2>3
      <4>2. \A name \in DOMAIN fields : fields[name] = message.fields[name]
        BY <2>3
      <4> QED
        BY <3>1, <4>1, <4>2 DEF Writable
    <3>3. PICK line : line = message.line
      OBVIOUS
    <3>4. message'.fields = fields /\ message'.line = line
      BY <2>4, <2>5, <3>3
    <3>5. Writable(fields)' /\ IsLine(line)'
      BY <2>5, <3>1, <3>2, <3>3, WrittenKept
    <3>6. kind' = "message" /\ tmpOut' # 0
      BY <2>5, <2>9, <3>1 DEF parserVars
    <3>7. kind' # "names" /\ kind' # "parameters"
      BY <3>6
    <3> QED
      BY <3>2, <3>4, <3>5, <3>6, <3>7, Zenon DEF WritableInv
  <2> QED
    BY <2>7, <2>8, <2>9
<1> QED
  BY <1>1, <1>2

\* WritableInv is kept by ParseParameter.
LEMMA ParameterWritable ==
    ASSUME RtspTypeOK, WritableInv, ParseParameter
    PROVE  WritableInv'
<1>1. CASE Refuse
  BY <1>1, RefusedWritable
<1>2. CASE ~Refuse
  <2>0. text \in Seq(Symbols) /\ Len(text) \in Nat /\ position \in 1..(Len(text) + 1)
    BY MessageTyped
  <2>1. /\ kind = "parameters" /\ ParameterFound(position)
        /\ Move(ParameterEnd(position) + 1, "fields",
                emplace(Part(position, ParameterNameEnd(position)),
                        Part(ParameterValue(position), ParameterEnd(position))))
    BY <1>2 DEF ParseParameter, ParameterFound, ParameterEnd, ParameterValue, ParameterNameEnd
  <2>2. PICK q : q = position
    OBVIOUS
  <2>3. LET n == ParameterNameEnd(q)  v == ParameterValue(q)  e == ParameterEnd(q) IN
        /\ q \in Nat /\ n \in Nat /\ v \in Nat /\ e \in Nat
        /\ q <= n /\ n < v /\ v <= e /\ n <= Len(text) /\ e <= Len(text) + 1
        /\ \A r \in q..(n - 1) : At(r) \in Symbols \ {":"}
        /\ At(v) \notin Blank
        /\ \A r \in v..(e - 1) : At(r) \in Symbols \ Control
    BY <2>0, <2>1, <2>2, ParameterIs DEF ParameterFound
  <2>4. q < ParameterNameEnd(q) /\ 1 <= q /\ 1 <= ParameterValue(q)
    <3>1. q < ParameterNameEnd(q)
      BY <2>1, <2>2 DEF ParameterFound
    <3>2. ParameterNameEnd(q) < ParameterValue(q) /\ q \in 1..(Len(text) + 1)
      BY <2>0, <2>2, <2>3
    <3> QED
      BY <2>3, <3>1, <3>2
  <2>5. PICK name : name = Part(q, ParameterNameEnd(q))
    OBVIOUS
  <2>6. PICK value : value = Part(ParameterValue(q), ParameterEnd(q))
    OBVIOUS
  <2>7. IsName(name)
    BY <2>0, <2>1, <2>3, <2>4, <2>5, NameWritten
  <2>8. IsValue(value)
    BY <2>0, <2>3, <2>4, <2>6, ParameterValueWritten
  <2>9. PICK read : read = emplace(name, value)
    OBVIOUS
  <2>10. message' = read /\ stage' = "fields" /\ UNCHANGED <<kind, text, parserVars>>
    BY <2>1, <2>2, <2>5, <2>6, <2>9 DEF Move, inputVars
  <2>11. /\ Writable(message.fields) /\ message.line = <<>> /\ message.body = <<>>
         /\ tmpOut = 0 /\ outcome # "accepted"
    BY <2>1 DEF WritableInv
  <2>12. /\ Writable(read.fields) /\ read.line = <<>> /\ read.body = <<>>
    BY <2>7, <2>8, <2>9, <2>11, EmplacedWritable
  <2>13. PICK fields : fields = read.fields
    OBVIOUS
  <2>14. message'.fields = fields /\ message'.line = <<>> /\ message'.body = <<>>
    BY <2>10, <2>12, <2>13
  <2>15. Writable(fields)'
    BY <2>10, <2>12, <2>13, WrittenKept
  <2>16. /\ kind' = "parameters" /\ kind' # "message" /\ tmpOut' = 0 /\ outcome' # "accepted"
         /\ stage' \in {"fields", "accepted", "refused"}
    BY <2>1, <2>10, <2>11 DEF parserVars
  <2> QED
    BY <2>14, <2>15, <2>16, Zenon DEF WritableInv
<1> QED
  BY <1>1, <1>2

\* WritableInv is kept by ParametersEnd.
LEMMA ParametersEndWritable ==
    ASSUME RtspTypeOK, WritableInv, ParametersEnd
    PROVE  WritableInv'
<1>1. /\ UNCHANGED <<kind, text, message, tmpOut, outcome>> /\ stage' = "accepted"
      /\ kind # "message"
  BY DEF ParametersEnd, Move, inputVars, parserVars
<1>2. Writable(message.fields) => Writable(message.fields)'
  BY <1>1, MessageWritable
<1>3. stage' \in {"fields", "accepted", "refused"}
  BY <1>1
<1> QED
  BY <1>1, <1>2, <1>3, Zenon DEF WritableInv

\* Nothing has been read that could not be written.
LEMMA InitialWritable == AtStart => WritableInv
<1> SUFFICES ASSUME AtStart
             PROVE  WritableInv
  OBVIOUS
<1>1. /\ stage = (IF kind = "message" THEN "start" ELSE "fields") /\ message = Nothing
      /\ tmpOut = 0 /\ outcome = "reading"
  BY DEF AtStart, FirstStage, ParserInit
<1>2. message.line = <<>> /\ message.body = <<>> /\ message.fields = <<>>
  BY <1>1 DEF Nothing
<1>3. Writable(message.fields)
  BY <1>2 DEF Writable
<1>4. /\ outcome # "accepted"
      /\ kind = "message" => stage \notin {"fields", "body", "cseq", "accepted"} /\ stage # "accepted"
      /\ kind = "parameters" => stage \in {"fields", "accepted", "refused"} /\ tmpOut = 0
  BY <1>1
<1> QED
  BY <1>2, <1>3, <1>4, Zenon DEF WritableInv

\* Every step keeps it: whatever has been read can be written.
LEMMA WritableStep ==
    ASSUME RtspTypeOK, WritableInv, [RtspNext]_vars
    PROVE  WritableInv'
<1>1. CASE UNCHANGED vars
  BY <1>1, StutterWritable
<1>2. CASE ParseMethodLine
  BY <1>2, MethodLineWritable
<1>3. CASE ParseStatusLine
  BY <1>3, StatusLineWritable
<1>4. CASE ParseHeaderField
  BY <1>4, HeaderFieldWritable
<1>5. CASE TakeBody
  BY <1>5, TakeBodyWritable
<1>6. CASE ParseCSeq
  BY <1>6, ParseCSeqWritable
<1>7. CASE EraseCSeq
  BY <1>7, EraseWritable
<1>8. CASE ParseParameter
  BY <1>8, ParameterWritable
<1>9. CASE ParseParameterName
  <2>1. kind' = "names"
    BY <1>9 DEF ParseParameterName, Refuse, Move, inputVars
  <2> QED
    BY <2>1 DEF WritableInv
<1>10. CASE ParametersEnd
  BY <1>10, ParametersEndWritable
<1>11. CASE Serialize
  <2>1. AtStart'
    BY <1>11, StartAgain
  <2> QED
    BY <2>1, InitialWritable, PTL
<1> QED
  BY <1>1, <1>2, <1>3, <1>4, <1>5, <1>6, <1>7, <1>8, <1>9, <1>10, <1>11 DEF RtspNext

-----------------------------------------------------------------------------
(* Where things stand in a text that was written.                          *)

\* Where name, colon and value are in the line of a field.
LEMMA FieldLineIs ==
    ASSUME NEW name \in Seq(Symbols), NEW value \in Seq(Symbols)
    PROVE  LET n == Len(name)  v == Len(value)  line == FieldLine(name, value) IN
           /\ n \in Nat /\ v \in Nat /\ line \in Seq(Symbols) /\ Len(line) = n + v + 3
           /\ \A k \in 1..n : line[k] = name[k]
           /\ line[n + 1] = ":" /\ line[n + 2] = "sp"
           /\ \A k \in 1..v : line[n + 2 + k] = value[k]
           /\ line[n + v + 3] = "crlf"
<1> DEFINE n == Len(name)  v == Len(value)
           colon == <<":", "sp">>  nl == <<"crlf">>
           one == name \o colon  two == one \o value  line == two \o nl
<1>1. colon \in Seq(Symbols) /\ nl \in Seq(Symbols) /\ Len(colon) = 2 /\ Len(nl) = 1
  BY SymbolsIn
<1>2. colon[1] = ":" /\ colon[2] = "sp" /\ nl[1] = "crlf"
  OBVIOUS
<1>3. FieldLine(name, value) = line
  BY DEF FieldLine
<1> HIDE DEF colon, nl
<1>4. /\ one \in Seq(Symbols) /\ n \in Nat /\ Len(one) = n + 2
      /\ \A k \in 1..n : one[k] = name[k]
      /\ \A k \in 1..2 : one[n + k] = colon[k]
  <2>1. Concatenated(Symbols, name, colon, one)
    BY <1>1, ConcatIs
  <2> HIDE DEF one
  <2> QED
    BY <1>1, <2>1, Zenon DEF Concatenated
<1> HIDE DEF one
<1>5. /\ two \in Seq(Symbols) /\ v \in Nat /\ Len(two) = n + 2 + v
      /\ \A k \in 1..(n + 2) : two[k] = one[k]
      /\ \A k \in 1..v : two[n + 2 + k] = value[k]
  <2>1. Concatenated(Symbols, one, value, two)
    BY <1>4, ConcatIs
  <2> HIDE DEF two
  <2> QED
    BY <1>4, <2>1, Zenon DEF Concatenated
<1> HIDE DEF two
<1>6. /\ line \in Seq(Symbols) /\ Len(line) = n + 2 + v + 1
      /\ \A k \in 1..(n + 2 + v) : line[k] = two[k]
      /\ \A k \in 1..1 : line[n + 2 + v + k] = nl[k]
  <2>1. Concatenated(Symbols, two, nl, line)
    BY <1>1, <1>5, ConcatIs
  <2> HIDE DEF line
  <2> QED
    BY <1>1, <1>5, <2>1, Zenon DEF Concatenated
<1> HIDE DEF line, n, v
<1>7. /\ \A k \in 1..n : k \in 1..(n + 2) /\ k \in 1..(n + 2 + v)
      /\ n + 1 \in 1..(n + 2) /\ n + 1 \in 1..(n + 2 + v)
      /\ n + 2 \in 1..(n + 2) /\ n + 2 \in 1..(n + 2 + v)
      /\ \A k \in 1..v : n + 2 + k \in 1..(n + 2 + v)
      /\ n + 2 + v + 1 = n + v + 3
  BY <1>4, <1>5
<1>8. line[n + 1] = ":" /\ line[n + 2] = "sp"
  <2>1. line[n + 1] = one[n + 1] /\ line[n + 2] = one[n + 2]
    BY <1>5, <1>6, <1>7
  <2>2. 1 \in 1..2 /\ 2 \in 1..2
    OBVIOUS
  <2> QED
    BY <1>2, <1>4, <2>1, <2>2
<1>9. line[n + v + 3] = "crlf"
  <2>1. 1 \in 1..1
    OBVIOUS
  <2> QED
    BY <1>2, <1>6, <1>7, <2>1
<1>10. /\ \A k \in 1..n : line[k] = name[k]
       /\ \A k \in 1..v : line[n + 2 + k] = value[k]
  BY <1>4, <1>5, <1>6, <1>7
<1>11. Len(line) = n + v + 3
  BY <1>4, <1>5, <1>6, <1>7
<1> QED
  BY <1>3, <1>4, <1>5, <1>6, <1>8, <1>9, <1>10, <1>11, Zenon DEF n, v

\* Where they are in a text in which the line stands.
LEMMA FieldStands ==
    ASSUME NEW name \in Seq(Symbols), NEW value \in Seq(Symbols), NEW p \in Nat, 1 <= p,
           Stands(p, FieldLine(name, value))
    PROVE  LET n == Len(name)  v == Len(value) IN
           /\ n \in Nat /\ v \in Nat /\ Len(FieldLine(name, value)) = n + v + 3
           /\ \A k \in 1..n : At(p + k - 1) = name[k]
           /\ At(p + n) = ":" /\ At(p + n + 1) = "sp"
           /\ \A k \in 1..v : At(p + n + 1 + k) = value[k]
           /\ At(p + n + v + 2) = "crlf"
<1> DEFINE n == Len(name)  v == Len(value)  line == FieldLine(name, value)
<1>1. /\ n \in Nat /\ v \in Nat /\ Len(line) = n + v + 3
      /\ \A k \in 1..n : line[k] = name[k]
      /\ line[n + 1] = ":" /\ line[n + 2] = "sp"
      /\ \A k \in 1..v : line[n + 2 + k] = value[k]
      /\ line[n + v + 3] = "crlf"
  BY FieldLineIs
<1>2. \A k \in 1..(n + v + 3) : At(p + k - 1) = line[k]
  BY <1>1, Zenon DEF Stands
<1> HIDE DEF n, v, line
<1>3. /\ \A k \in 1..n : k \in 1..(n + v + 3)
      /\ n + 1 \in 1..(n + v + 3) /\ p + (n + 1) - 1 = p + n
      /\ n + 2 \in 1..(n + v + 3) /\ p + (n + 2) - 1 = p + n + 1
      /\ \A k \in 1..v : n + 2 + k \in 1..(n + v + 3) /\ p + (n + 2 + k) - 1 = p + n + 1 + k
      /\ n + v + 3 \in 1..(n + v + 3) /\ p + (n + v + 3) - 1 = p + n + v + 2
  BY <1>1
<1>4. \A k \in 1..n : At(p + k - 1) = name[k]
  BY <1>1, <1>2, <1>3, Zenon
<1>5. At(p + n) = ":" /\ At(p + n + 1) = "sp" /\ At(p + n + v + 2) = "crlf"
  BY <1>1, <1>2, <1>3
<1>6. \A k \in 1..v : At(p + n + 1 + k) = value[k]
  <2> TAKE k \in 1..v
  <2>1. At(p + (n + 2 + k) - 1) = line[n + 2 + k]
    BY <1>2, <1>3, Zenon
  <2> QED
    BY <1>1, <1>3, <2>1
<1> QED
  BY <1>1, <1>4, <1>5, <1>6, Zenon DEF n, v, line

\* A text that was put together is laid out.
PutTogether(start, lines, rest) ==
    /\ start \in Seq(Symbols) /\ lines \in Seq(Seq(Symbols)) /\ rest \in Seq(Symbols)
    /\ text = start \o FlattenSeq(lines) \o rest

\* A text that was put together of a start, lines and a rest has a layout.
LEMMA LaidOutThere ==
    ASSUME NEW start, NEW lines, NEW rest, PutTogether(start, lines, rest)
    PROVE  \E b : LaidOut(start, lines, rest, b)
<1>0. /\ start \in Seq(Symbols) /\ lines \in Seq(Seq(Symbols)) /\ rest \in Seq(Symbols)
      /\ text = start \o FlattenSeq(lines) \o rest
  BY DEF PutTogether
<1>1. PICK c : /\ BeginsAt(lines, c)
               /\ FlattenSeq(lines) \in Seq(Symbols)
               /\ Len(FlattenSeq(lines)) = c[Len(lines) + 1]
               /\ \A i \in 1..Len(lines) : \A k \in 1..Len(lines[i]) :
                     FlattenSeq(lines)[c[i] + k] = lines[i][k]
  BY <1>0, FlattenBegins
<1> DEFINE N == Len(lines)  flat == FlattenSeq(lines)  head == start \o flat
           s == Len(start)  f == Len(flat)  r == Len(rest)
           b == [i \in 1..(N + 1) |-> s + 1 + c[i]]
<1>2. N \in Nat /\ \A i \in 1..N : Len(lines[i]) \in Nat
  BY <1>0, LenProperties, ElementOfSeq
<1>3. /\ c[1] = 0
      /\ \A i \in 1..N : c[i] \in Nat /\ c[i + 1] \in Nat /\ c[i + 1] = c[i] + Len(lines[i])
  BY <1>1, Zenon DEF BeginsAt
<1>4. /\ head \in Seq(Symbols) /\ s \in Nat /\ f \in Nat /\ Len(head) = s + f
      /\ \A k \in 1..s : head[k] = start[k]
      /\ \A k \in 1..f : head[s + k] = flat[k]
  <2>1. Concatenated(Symbols, start, flat, head)
    BY <1>0, <1>1, ConcatIs
  <2> HIDE DEF head, flat
  <2> QED
    BY <2>1, Zenon DEF Concatenated
<1>5. /\ text \in Seq(Symbols) /\ r \in Nat /\ Len(text) = s + f + r
      /\ \A k \in 1..(s + f) : text[k] = head[k]
      /\ \A k \in 1..r : text[s + f + k] = rest[k]
  <2> HIDE DEF head
  <2>1. text = head \o rest
    BY <1>0 DEF head
  <2>2. Concatenated(Symbols, head, rest, text)
    BY <1>0, <1>4, <2>1, ConcatIs
  <2> QED
    BY <1>4, <2>2, Zenon DEF Concatenated
<1> HIDE DEF head
<1>6. \A p \in 1..Len(text) : At(p) = text[p]
  BY DEF At
<1>7. Stands(1, start)
  <2>1. \A k \in 1..s : k \in 1..(s + f) /\ 1 + k - 1 = k /\ k \in 1..Len(text)
    BY <1>4, <1>5
  <2>2. \A k \in 1..s : At(1 + k - 1) = start[k]
    BY <1>4, <1>5, <1>6, <2>1
  <2> QED
    BY <2>2 DEF Stands
\* Offsets grow up to the whole.
<1>8. \A i \in 1..N : c[i + 1] <= f
  <2> DEFINE Good(d) == N - d >= 1 => c[(N - d) + 1] <= f
             G == {d \in Nat : Good(d)}
  <2>1. 0 \in G
    BY <1>1, <1>2, <1>4
  <2>2. ASSUME NEW d \in Nat, d \in G
        PROVE  d + 1 \in G
    <3>1. ASSUME N - (d + 1) >= 1
          PROVE  c[(N - (d + 1)) + 1] <= f
      <4> DEFINE i == N - d
      <4>1. i \in 1..N /\ (N - (d + 1)) + 1 = i /\ i >= 1
        BY <1>2, <3>1
      <4>2. c[i + 1] <= f
        BY <2>2, <4>1
      <4> HIDE DEF i
      <4>3. c[i] \in Nat /\ c[i + 1] = c[i] + Len(lines[i]) /\ Len(lines[i]) \in Nat
        BY <1>2, <1>3, <4>1
      <4>4. c[i] <= f
        BY <1>4, <4>2, <4>3
      <4> QED
        BY <4>1, <4>4
    <3> QED
      BY <3>1
  <2>3. Nat \subseteq G
    <3> HIDE DEF G
    <3> QED
      BY <2>1, <2>2, Induction
  <2>4. \A i \in 1..N : N - i \in Nat /\ N - (N - i) = i /\ N - (N - i) >= 1
    BY <1>2
  <2> QED
    BY <2>3, <2>4
<1>9. ASSUME NEW i \in 1..N
      PROVE  b[i] \in Nat /\ b[i + 1] = b[i] + Len(lines[i]) /\ Stands(b[i], lines[i])
  <2> DEFINE l == Len(lines[i])
  <2>1. c[i] \in Nat /\ c[i + 1] \in Nat /\ c[i + 1] = c[i] + l /\ l \in Nat /\ c[i + 1] <= f
    BY <1>2, <1>3, <1>8
  <2>2. b[i] = s + 1 + c[i] /\ b[i + 1] = s + 1 + c[i + 1]
    BY <1>2
  <2> HIDE DEF b
  <2>3. ASSUME NEW k \in 1..l
        PROVE  At(b[i] + k - 1) = lines[i][k]
    <3>1. /\ c[i] + k \in 1..f /\ b[i] + k - 1 = s + (c[i] + k)
          /\ s + (c[i] + k) \in 1..(s + f) /\ s + (c[i] + k) \in 1..Len(text)
      <4>1. k \in Nat /\ 1 <= k /\ k <= l
        BY <2>1
      <4> DEFINE x == c[i]  y == b[i]  t == Len(text)
      <4>2. x \in Nat /\ x + l <= f /\ y = s + 1 + x /\ l \in Nat
        BY <2>1, <2>2, Zenon
      <4>3. s \in Nat /\ f \in Nat /\ r \in Nat /\ t = s + f + r
        BY <1>4, <1>5, Zenon
      <4> HIDE DEF x, y, t, l, s, f, r
      <4>4. /\ x + k \in 1..f /\ y + k - 1 = s + (x + k)
            /\ s + (x + k) \in 1..(s + f) /\ s + (x + k) \in 1..t
        BY <4>1, <4>2, <4>3
      <4> QED
        BY <4>4, Zenon DEF x, y, t
    <3>2. flat[c[i] + k] = lines[i][k]
      BY <1>1
    <3> QED
      BY <1>4, <1>5, <1>6, <3>1, <3>2
  <2>4. Stands(b[i], lines[i])
    BY <2>3 DEF Stands
  <2>5. b[i] \in Nat /\ b[i + 1] = b[i] + l
    <3> HIDE DEF l
    <3> QED
      BY <1>4, <2>1, <2>2
  <2> QED
    BY <2>4, <2>5
<1>10. b[1] = s + 1 /\ b[N + 1] = s + f + 1
  BY <1>1, <1>2, <1>3, <1>4
<1> HIDE DEF b
<1>11. Stands(b[N + 1], rest)
  <2>1. ASSUME NEW k \in 1..r
        PROVE  At(b[N + 1] + k - 1) = rest[k]
    <3>1. b[N + 1] + k - 1 = s + f + k /\ s + f + k \in 1..Len(text)
      BY <1>4, <1>5, <1>10
    <3> QED
      BY <1>5, <1>6, <3>1
  <2> QED
    BY <2>1 DEF Stands
<1>12. b[N + 1] \in Nat /\ Len(text) + 1 = b[N + 1] + r
  BY <1>4, <1>5, <1>10
<1>13. LaidOut(start, lines, rest, b)
  BY <1>7, <1>9, <1>10, <1>11, <1>12 DEF LaidOut
<1> QED
  BY <1>13

\* Where the uri is in the start of a request.
LEMMA RequestStartIs ==
    ASSUME NEW line \in Seq(Symbols), NEW start,
           start = <<"method", "sp">> \o line \o <<"sp", "proto", "crlf">>
    PROVE  LET l == Len(line) IN
           /\ l \in Nat /\ start \in Seq(Symbols) /\ Len(start) = l + 5
           /\ start[1] = "method" /\ start[2] = "sp"
           /\ \A k \in 1..l : start[2 + k] = line[k]
           /\ start[l + 3] = "sp" /\ start[l + 4] = "proto" /\ start[l + 5] = "crlf"
<1> DEFINE l == Len(line)  first == <<"method", "sp">>  last == <<"sp", "proto", "crlf">>
           one == first \o line
<1>1. first \in Seq(Symbols) /\ last \in Seq(Symbols) /\ Len(first) = 2 /\ Len(last) = 3
  BY SymbolsIn
<1>2. /\ first[1] = "method" /\ first[2] = "sp"
      /\ last[1] = "sp" /\ last[2] = "proto" /\ last[3] = "crlf"
  OBVIOUS
<1> HIDE DEF first, last
<1>3. /\ one \in Seq(Symbols) /\ l \in Nat /\ Len(one) = 2 + l
      /\ \A k \in 1..2 : one[k] = first[k]
      /\ \A k \in 1..l : one[2 + k] = line[k]
  <2>1. Concatenated(Symbols, first, line, one)
    BY <1>1, ConcatIs
  <2> HIDE DEF one
  <2> QED
    BY <1>1, <2>1, Zenon DEF Concatenated
<1>0. start = one \o last
  BY DEF first, last
<1> HIDE DEF one, l
<1>4. /\ start \in Seq(Symbols) /\ Len(start) = 2 + l + 3
      /\ \A k \in 1..(2 + l) : start[k] = one[k]
      /\ \A k \in 1..3 : start[2 + l + k] = last[k]
  <2>1. Concatenated(Symbols, one, last, start)
    BY <1>0, <1>1, <1>3, ConcatIs
  <2> QED
    BY <1>1, <1>3, <2>1, Zenon DEF Concatenated
<1>5. /\ 1 \in 1..2 /\ 2 \in 1..2 /\ 1 \in 1..(2 + l) /\ 2 \in 1..(2 + l)
      /\ \A k \in 1..l : 2 + k \in 1..(2 + l)
      /\ 1 \in 1..3 /\ 2 \in 1..3 /\ 3 \in 1..3
      /\ 2 + l + 1 = l + 3 /\ 2 + l + 2 = l + 4 /\ 2 + l + 3 = l + 5
  BY <1>3
<1>6. start[1] = "method" /\ start[2] = "sp"
  BY <1>2, <1>3, <1>4, <1>5
<1>7. start[l + 3] = "sp" /\ start[l + 4] = "proto" /\ start[l + 5] = "crlf"
  BY <1>2, <1>4, <1>5
<1>8. \A k \in 1..l : start[2 + k] = line[k]
  BY <1>3, <1>4, <1>5
<1> QED
  BY <1>3, <1>4, <1>5, <1>6, <1>7, <1>8, Zenon DEF l

\* Where the phrase is in the start of a response.
LEMMA ResponseStartIs ==
    ASSUME NEW line \in Seq(Symbols), NEW start,
           start = <<"proto", "sp", "status", "sp">> \o line \o <<"crlf">>
    PROVE  LET l == Len(line) IN
           /\ l \in Nat /\ start \in Seq(Symbols) /\ Len(start) = l + 5
           /\ start[1] = "proto" /\ start[2] = "sp" /\ start[3] = "status" /\ start[4] = "sp"
           /\ \A k \in 1..l : start[4 + k] = line[k]
           /\ start[l + 5] = "crlf"
<1> DEFINE l == Len(line)  first == <<"proto", "sp", "status", "sp">>  last == <<"crlf">>
           one == first \o line
<1>1. first \in Seq(Symbols) /\ last \in Seq(Symbols) /\ Len(first) = 4 /\ Len(last) = 1
  BY SymbolsIn
<1>2. /\ first[1] = "proto" /\ first[2] = "sp" /\ first[3] = "status" /\ first[4] = "sp"
      /\ last[1] = "crlf"
  OBVIOUS
<1> HIDE DEF first, last
<1>3. /\ one \in Seq(Symbols) /\ l \in Nat /\ Len(one) = 4 + l
      /\ \A k \in 1..4 : one[k] = first[k]
      /\ \A k \in 1..l : one[4 + k] = line[k]
  <2>1. Concatenated(Symbols, first, line, one)
    BY <1>1, ConcatIs
  <2> HIDE DEF one
  <2> QED
    BY <1>1, <2>1, Zenon DEF Concatenated
<1>0. start = one \o last
  BY DEF first, last
<1> HIDE DEF one, l
<1>4. /\ start \in Seq(Symbols) /\ Len(start) = 4 + l + 1
      /\ \A k \in 1..(4 + l) : start[k] = one[k]
      /\ \A k \in 1..1 : start[4 + l + k] = last[k]
  <2>1. Concatenated(Symbols, one, last, start)
    BY <1>0, <1>1, <1>3, ConcatIs
  <2> QED
    BY <1>1, <1>3, <2>1, Zenon DEF Concatenated
<1>5. /\ \A k \in 1..4 : k \in 1..(4 + l)
      /\ 1 \in 1..4 /\ 2 \in 1..4 /\ 3 \in 1..4 /\ 4 \in 1..4
      /\ \A k \in 1..l : 4 + k \in 1..(4 + l)
      /\ 1 \in 1..1 /\ 4 + l + 1 = l + 5
  BY <1>3
<1>6. start[1] = "proto" /\ start[2] = "sp" /\ start[3] = "status" /\ start[4] = "sp"
  BY <1>2, <1>3, <1>4, <1>5
<1>7. start[l + 5] = "crlf"
  BY <1>2, <1>4, <1>5
<1>8. \A k \in 1..l : start[4 + k] = line[k]
  BY <1>3, <1>4, <1>5
<1> QED
  BY <1>3, <1>4, <1>5, <1>6, <1>7, <1>8, Zenon DEF l

\* The rest of a text: nothing, or a blank line and the body.
LEMMA RestIs ==
    ASSUME NEW read, read.body \in Seq(Symbols)
    PROVE  /\ Rest(read) \in Seq(Symbols) /\ Len(read.body) \in Nat
           /\ read.body = <<>> => Rest(read) = <<>> /\ Len(Rest(read)) = 0
           /\ read.body # <<>> =>
                /\ Len(Rest(read)) = Len(read.body) + 1 /\ Len(read.body) # 0
                /\ Rest(read)[1] = "crlf"
                /\ \A k \in 1..Len(read.body) : Rest(read)[1 + k] = read.body[k]
<1> DEFINE body == read.body  first == <<"crlf">>
<1>1. first \in Seq(Symbols) /\ Len(first) = 1 /\ first[1] = "crlf" /\ Len(body) \in Nat
  BY SymbolsIn, LenProperties
<1>2. CASE body = <<>>
  <2>1. Rest(read) = <<>>
    BY <1>2 DEF Rest
  <2>2. Len(<<>>) = 0 /\ <<>> \in Seq(Symbols)
    OBVIOUS
  <2> QED
    BY <1>1, <1>2, <2>1, <2>2
<1>3. CASE body # <<>>
  <2> DEFINE rest == Rest(read)
  <2>1. rest = first \o body
    BY <1>3 DEF Rest
  <2> HIDE DEF first, rest
  <2>2. Concatenated(Symbols, first, body, rest)
    BY <1>1, <2>1, ConcatIs
  <2>3. /\ rest \in Seq(Symbols) /\ Len(rest) = 1 + Len(body)
        /\ \A k \in 1..1 : rest[k] = first[k]
        /\ \A k \in 1..Len(body) : rest[1 + k] = body[k]
    BY <1>1, <2>2, Zenon DEF Concatenated
  <2>4. rest[1] = "crlf" /\ Len(rest) = Len(body) + 1
    BY <1>1, <2>3
  <2>5. Len(body) # 0
    BY <1>3, EmptySeq
  <2> QED
    BY <1>1, <1>3, <2>3, <2>4, <2>5, Zenon DEF rest
<1> QED
  BY <1>2, <1>3

\* The lines of what is written, by the names of its fields.
LinesOf(read, cseq) ==
    LET names == FieldNames(read)  all == AllFields(read, cseq)  lines == Lines(read, cseq) IN
    /\ lines \in Seq(Seq(Symbols)) /\ Len(lines) = Len(names) /\ Len(names) \in Nat
    /\ all = [name \in DOMAIN all |-> all[name]]
    /\ \A i \in 1..Len(names) :
        /\ names[i] \in DOMAIN all /\ names[i] \in Seq(Symbols) /\ all[names[i]] \in Seq(Symbols)
        /\ lines[i] = FieldLine(names[i], all[names[i]])
    /\ \A i, j \in 1..Len(names) : names[i] = names[j] => i = j
    /\ \A name \in DOMAIN all : \E i \in 1..Len(names) : names[i] = name
    /\ Writable(all)

\* The lines are those of the fields, each of them once.
LEMMA FieldLinesAre ==
    ASSUME NEW read, ReadTyped(read)
    PROVE  LET names == SetToSeq(DOMAIN read.fields) IN
           /\ names \in Seq(DOMAIN read.fields) /\ Len(names) \in Nat
           /\ FieldLines(read) \in Seq(Seq(Symbols)) /\ Len(FieldLines(read)) = Len(names)
           /\ \A i \in 1..Len(names) :
                /\ names[i] \in DOMAIN read.fields /\ names[i] \in Seq(Symbols)
                /\ read.fields[names[i]] \in Seq(Symbols)
                /\ FieldLines(read)[i] = FieldLine(names[i], read.fields[names[i]])
           /\ \A i, j \in 1..Len(names) : names[i] = names[j] => i = j
           /\ \A name \in DOMAIN read.fields : \E i \in 1..Len(names) : names[i] = name
<1> DEFINE names == SetToSeq(DOMAIN read.fields)
<1>1. /\ names \in Seq(DOMAIN read.fields)
      /\ \A i, j \in DOMAIN names : names[i] = names[j] => i = j
      /\ \A x \in DOMAIN read.fields : \E i \in DOMAIN names : names[i] = x
  BY SeqOfSet DEF ReadTyped
<1>2. FieldLines(read) = [i \in DOMAIN names |-> FieldLine(names[i], read.fields[names[i]])]
  BY DEF FieldLines
<1>3. FieldLines(read) \in Seq(Seq(Symbols))
  BY FieldLinesTyped
<1> HIDE DEF names
<1>4. DOMAIN names = 1..Len(names) /\ Len(names) \in Nat
  BY <1>1, LenProperties
<1>5. Len(FieldLines(read)) = Len(names)
  BY <1>2, <1>3, <1>4, LenProperties
<1>6. \A i \in 1..Len(names) : names[i] \in DOMAIN read.fields
  BY <1>1, ElementOfSeq
<1>7. \A name \in DOMAIN read.fields : name \in Seq(Symbols) /\ read.fields[name] \in Seq(Symbols)
  BY DEF ReadTyped
<1>8. \A i \in 1..Len(names) : FieldLines(read)[i] = FieldLine(names[i], read.fields[names[i]])
  BY <1>2, <1>4
<1>9. /\ \A i, j \in 1..Len(names) : names[i] = names[j] => i = j
      /\ \A name \in DOMAIN read.fields : \E i \in 1..Len(names) : names[i] = name
  BY <1>1, <1>4
<1> QED
  BY <1>1, <1>3, <1>4, <1>5, <1>6, <1>7, <1>8, <1>9, Zenon DEF names

\* What was written has the types of what is read.
LEMMA WrittenTyped ==
    ASSUME NEW read, NEW cseq, Written(read, cseq)
    PROVE  ReadTyped(read) /\ cseq \in CSeq /\ cseq \in Nat
BY ModulusAssumption DEF Written, ReadTyped, CSeq

\* The digits of a CSeq are a value, and its name is a name.
LEMMA CSeqWritable ==
    ASSUME kind = "message", NEW cseq \in CSeq
    PROVE  IsName(CSeqName) /\ IsValue(Decimal[cseq])
<1>1. IsName(CSeqName)
  <2>1. CSeqName = <<"cseq">> /\ "cseq" \in TokenSymbols
    BY Classes
  <2>2. CSeqName # <<>> /\ \A k \in 1..Len(CSeqName) : CSeqName[k] \in TokenSymbols
    BY <2>1
  <2> QED
    BY <2>2 DEF IsName
<1>2. Decimal[cseq] \in Seq(TokenSymbols) /\ Len(Decimal[cseq]) \in Nat \ {0}
  BY DecimalShape
<1>3. \A k \in 1..Len(Decimal[cseq]) : Decimal[cseq][k] \in TokenSymbols
  BY <1>2, ElementOfSeq
<1>4. \A s \in TokenSymbols : s \in Symbols \ Control /\ s \notin Blank
  BY DEF TokenSymbols, Symbols, Control, Blank, ToSet, DigitSymbols
<1>5. 1 \in 1..Len(Decimal[cseq])
  BY <1>2
<1>6. IsValue(Decimal[cseq])
  BY <1>3, <1>4, <1>5, Zenon DEF IsValue
<1> QED
  BY <1>1, <1>6

\* With the CSeq in front they are those of all the fields.
LEMMA LinesAre ==
    ASSUME NEW read, NEW cseq, Written(read, cseq)
    PROVE  LinesOf(read, cseq)
<1> DEFINE rest == SetToSeq(DOMAIN read.fields)  fl == FieldLines(read)
           names == FieldNames(read)  all == AllFields(read, cseq)  lines == Lines(read, cseq)
<1>0. /\ ReadTyped(read) /\ cseq \in CSeq
      /\ read.fields = [name \in DOMAIN read.fields |-> read.fields[name]]
      /\ Writable(read.fields) /\ kind \in {"message", "parameters"}
  BY WrittenTyped DEF Written
<1>1. /\ rest \in Seq(DOMAIN read.fields) /\ Len(rest) \in Nat
      /\ fl \in Seq(Seq(Symbols)) /\ Len(fl) = Len(rest)
      /\ \A i \in 1..Len(rest) :
           /\ rest[i] \in DOMAIN read.fields /\ rest[i] \in Seq(Symbols)
           /\ read.fields[rest[i]] \in Seq(Symbols)
           /\ fl[i] = FieldLine(rest[i], read.fields[rest[i]])
      /\ \A i, j \in 1..Len(rest) : rest[i] = rest[j] => i = j
      /\ \A name \in DOMAIN read.fields : \E i \in 1..Len(rest) : rest[i] = name
  BY <1>0, FieldLinesAre
<1>2. /\ lines \in Seq(Seq(Symbols))
      /\ kind = "parameters" => lines = fl
      /\ kind # "parameters" => lines = <<FieldLine(CSeqName, Decimal[cseq])>> \o fl
  BY <1>0, LinesTyped
<1>3. /\ kind = "parameters" => names = rest /\ all = read.fields
      /\ kind # "parameters" => names = <<CSeqName>> \o rest
  BY DEF FieldNames, AllFields
<1> HIDE DEF rest, fl
<1>4. CASE kind = "parameters"
  <2>1. names = rest /\ all = read.fields /\ lines = fl
    BY <1>2, <1>3, <1>4, Zenon
  <2> HIDE DEF names, all, lines
  <2>2. /\ lines \in Seq(Seq(Symbols)) /\ Len(lines) = Len(names) /\ Len(names) \in Nat
        /\ all = [name \in DOMAIN all |-> all[name]]
        /\ Writable(all)
    BY <1>0, <1>1, <2>1, Zenon
  <2>3. /\ \A i \in 1..Len(names) :
             /\ names[i] \in DOMAIN all /\ names[i] \in Seq(Symbols) /\ all[names[i]] \in Seq(Symbols)
             /\ lines[i] = FieldLine(names[i], all[names[i]])
        /\ \A i, j \in 1..Len(names) : names[i] = names[j] => i = j
        /\ \A name \in DOMAIN all : \E i \in 1..Len(names) : names[i] = name
    BY <1>1, <2>1, Zenon
  <2> QED
    BY <2>2, <2>3, Zenon DEF LinesOf, names, all, lines
<1>5. CASE kind = "message"
  <2> DEFINE N == Len(rest)  one == FieldLine(CSeqName, Decimal[cseq])
  <2>1. /\ names = <<CSeqName>> \o rest /\ lines = <<one>> \o fl
        /\ CSeqName \notin DOMAIN read.fields
    BY <1>2, <1>3, <1>5 DEF Written
  <2>2. /\ DOMAIN all = DOMAIN read.fields \cup {CSeqName}
        /\ all[CSeqName] = Decimal[cseq]
        /\ \A name \in DOMAIN read.fields : name # CSeqName /\ all[name] = read.fields[name]
        /\ all = [name \in DOMAIN all |-> all[name]]
    <3>1. all = [name \in DOMAIN read.fields \cup {CSeqName} |->
                   IF name = CSeqName THEN Decimal[cseq] ELSE read.fields[name]]
      BY <1>5 DEF AllFields
    <3> HIDE DEF all
    <3> QED
      BY <2>1, <3>1
  <2>3. CSeqName \in Seq(Symbols) /\ Decimal[cseq] \in Seq(Symbols)
    BY <1>0, DecimalShape, SymbolsIn
  <2>4. one \in Seq(Symbols)
    BY <2>3, FieldLineTyped
  <2> HIDE DEF all, lines, names, one
  <2>5. /\ Len(names) = 1 + N /\ names[1] = CSeqName
        /\ \A i \in 1..N : names[1 + i] = rest[i]
    <3> DEFINE head == <<CSeqName>>
    <3>1. head \in Seq(Seq(Symbols)) /\ Len(head) = 1 /\ head[1] = CSeqName
      BY <2>3
    <3>2. rest \in Seq(Seq(Symbols))
      <4>1. \A i \in 1..N : rest[i] \in Seq(Symbols)
        BY <1>1, Zenon
      <4>2. rest = [i \in 1..N |-> rest[i]]
        BY <1>1, LenProperties
      <4> QED
        BY <1>1, <4>1, <4>2, SeqDef
    <3> HIDE DEF head
    <3>3. names = head \o rest
      BY <2>1 DEF head
    <3>4. /\ Len(head \o rest) = Len(head) + N
          /\ \A k \in 1..Len(head) : (head \o rest)[k] = head[k]
          /\ \A k \in 1..N : (head \o rest)[Len(head) + k] = rest[k]
      <4>1. Concatenated(Seq(Symbols), head, rest, head \o rest)
        BY <3>1, <3>2, ConcatIs
      <4> QED
        BY <4>1, Zenon DEF Concatenated
    <3>5. 1 \in 1..Len(head)
      BY <3>1
    <3> QED
      BY <3>1, <3>3, <3>4, <3>5
  <2>6. /\ Len(lines) = 1 + N /\ lines[1] = one
        /\ \A i \in 1..N : lines[1 + i] = fl[i]
    <3> DEFINE head == <<one>>
    <3>1. head \in Seq(Seq(Symbols)) /\ Len(head) = 1 /\ head[1] = one
      BY <2>4
    <3> HIDE DEF head
    <3>3. lines = head \o fl
      BY <2>1 DEF head
    <3>4. /\ Len(head \o fl) = Len(head) + Len(fl)
          /\ \A k \in 1..Len(head) : (head \o fl)[k] = head[k]
          /\ \A k \in 1..Len(fl) : (head \o fl)[Len(head) + k] = fl[k]
      <4>1. Concatenated(Seq(Symbols), head, fl, head \o fl)
        BY <1>1, <3>1, ConcatIs
      <4> QED
        BY <4>1, Zenon DEF Concatenated
    <3>5. 1 \in 1..Len(head)
      BY <3>1
    <3> QED
      BY <1>1, <3>1, <3>3, <3>4, <3>5
  <2>7. \A i \in 1..Len(names) : i = 1 \/ (i - 1 \in 1..N /\ 1 + (i - 1) = i)
    BY <1>1, <2>5
  <2>8. ASSUME NEW i \in 1..Len(names)
        PROVE  /\ names[i] \in DOMAIN all /\ names[i] \in Seq(Symbols)
               /\ all[names[i]] \in Seq(Symbols)
               /\ lines[i] = FieldLine(names[i], all[names[i]])
    <3>1. CASE i = 1
      <4>1. names[i] = CSeqName /\ lines[i] = one
        BY <2>5, <2>6, <3>1
      <4> QED
        BY <2>2, <2>3, <4>1 DEF one
    <3>2. CASE i # 1
      <4>1. PICK j : j = i - 1
        OBVIOUS
      <4>2. j \in 1..N /\ 1 + j = i
        BY <2>7, <3>2, <4>1
      <4>3. names[i] = rest[j] /\ lines[i] = fl[j]
        BY <2>5, <2>6, <4>2
      <4>4. /\ rest[j] \in DOMAIN read.fields /\ rest[j] \in Seq(Symbols)
            /\ read.fields[rest[j]] \in Seq(Symbols)
            /\ fl[j] = FieldLine(rest[j], read.fields[rest[j]])
        BY <1>1, <4>2, Zenon
      <4>5. rest[j] \in DOMAIN all /\ all[rest[j]] = read.fields[rest[j]]
        BY <2>2, <4>4
      <4> QED
        BY <4>3, <4>4, <4>5
    <3> QED
      BY <3>1, <3>2
  <2>9. ASSUME NEW i \in 1..Len(names), NEW j \in 1..Len(names), names[i] = names[j]
        PROVE  i = j
    <3>1. \A k \in 1..Len(names) : k # 1 =>
             names[k] # CSeqName /\ k - 1 \in 1..N /\ names[k] = rest[k - 1]
      <4> TAKE k \in 1..Len(names)
      <4> HAVE k # 1
      <4>1. PICK l : l = k - 1
        OBVIOUS
      <4>2. l \in 1..N /\ 1 + l = k
        BY <2>7, <4>1
      <4>3. names[k] = rest[l] /\ rest[l] \in DOMAIN read.fields
        BY <1>1, <2>5, <4>2
      <4> QED
        BY <2>2, <4>1, <4>2, <4>3
    <3>2. CASE i = 1 \/ j = 1
      BY <2>5, <2>9, <3>1, <3>2
    <3>3. CASE i # 1 /\ j # 1
      <4>1. i - 1 \in 1..N /\ j - 1 \in 1..N /\ rest[i - 1] = rest[j - 1]
        BY <2>9, <3>1, <3>3
      <4>2. i - 1 = j - 1
        BY <1>1, <4>1, Zenon
      <4>3. i \in Int /\ j \in Int
        BY <1>1, <2>5
      <4> QED
        BY <4>2, <4>3
    <3> QED
      BY <3>2, <3>3
  <2>10. ASSUME NEW name \in DOMAIN all
         PROVE  \E i \in 1..Len(names) : names[i] = name
    <3>1. CASE name = CSeqName
      <4>1. 1 \in 1..Len(names)
        BY <1>1, <2>5
      <4> QED
        BY <2>5, <3>1, <4>1
    <3>2. CASE name # CSeqName
      <4>1. PICK i \in 1..N : rest[i] = name
        BY <1>1, <2>2, <3>2
      <4>2. 1 + i \in 1..Len(names)
        BY <1>1, <2>5
      <4> QED
        BY <2>5, <4>1, <4>2
    <3> QED
      BY <3>1, <3>2
  <2>11. Writable(all)
    <3>1. IsName(CSeqName) /\ IsValue(Decimal[cseq])
      BY <1>0, <1>5, CSeqWritable
    <3>2. \A name \in DOMAIN all : IsName(name) /\ IsValue(all[name])
      BY <1>0, <2>2, <3>1 DEF Writable
    <3> QED
      BY <3>2 DEF Writable
  <2>12. Len(lines) = Len(names) /\ Len(names) \in Nat
    BY <1>1, <2>5, <2>6
  <2> QED
    BY <1>2, <2>2, <2>8, <2>9, <2>10, <2>11, <2>12, Zenon DEF LinesOf, names, all, lines
<1> QED
  BY <1>0, <1>4, <1>5

-----------------------------------------------------------------------------
(* What is written is read the same.                                       *)

\* None of this changes while a text is read.
LEMMA SerialKept ==
    ASSUME UNCHANGED <<kind, text>>
    PROVE  /\ \A read : Start(read)' = Start(read) /\ Rest(read)' = Rest(read)
           /\ \A read, cseq : Lines(read, cseq)' = Lines(read, cseq)
           /\ \A read, cseq : AllFields(read, cseq)' = AllFields(read, cseq)
           /\ \A read, cseq, i : FirstFields(read, cseq, i)' = FirstFields(read, cseq, i)
           /\ \A read, cseq : Written(read, cseq)' = Written(read, cseq)
           /\ \A read, cseq, b : IsLayout(read, cseq, b)' = IsLayout(read, cseq, b)
<1>1. \A p : At(p)' = At(p)
  BY DEF At
<1>2. IsRequest' = IsRequest
  BY <1>1 DEF IsRequest
<1>3. \A read : Start(read)' = Start(read) /\ Rest(read)' = Rest(read)
  BY <1>2 DEF Start, Rest
<1>4. \A read, cseq : Lines(read, cseq)' = Lines(read, cseq)
  BY DEF Lines, FieldLine
<1>5. \A read : FieldNames(read)' = FieldNames(read)
  BY DEF FieldNames
<1>6. \A read, cseq : AllFields(read, cseq)' = AllFields(read, cseq)
  BY DEF AllFields
<1>7. \A read, cseq, i : FirstFields(read, cseq, i)' = FirstFields(read, cseq, i)
  BY <1>5, <1>6 DEF FirstFields
<1>8. /\ \A fields : Writable(fields)' = Writable(fields)
      /\ \A line : IsLine(line)' = IsLine(line)
  BY WrittenKept
<1>9. \A read, cseq : Written(read, cseq)' = Written(read, cseq)
  BY <1>8 DEF Written
<1>10. \A p, symbols : Stands(p, symbols)' = Stands(p, symbols)
  BY <1>1 DEF Stands
<1>11. \A start, lines, rest, b : LaidOut(start, lines, rest, b)' = LaidOut(start, lines, rest, b)
  BY <1>10 DEF LaidOut
<1>12. ASSUME NEW read, NEW cseq, NEW b
       PROVE  IsLayout(read, cseq, b)' = IsLayout(read, cseq, b)
  <2>1. PICK start : start = Start(read)
    OBVIOUS
  <2>2. PICK lines : lines = Lines(read, cseq)
    OBVIOUS
  <2>3. PICK rest : rest = Rest(read)
    OBVIOUS
  <2>4. Start(read)' = start /\ Lines(read, cseq)' = lines /\ Rest(read)' = rest
    BY <1>3, <1>4, <2>1, <2>2, <2>3
  <2>5. LaidOut(start, lines, rest, b)' = LaidOut(start, lines, rest, b)
    BY <1>11
  <2> QED
    BY <2>1, <2>2, <2>3, <2>4, <2>5 DEF IsLayout
<1> QED
  BY <1>3, <1>4, <1>6, <1>7, <1>9, <1>12

\* Of the first none of the lines there are no fields.
NoFieldsYet == \A read, cseq : FirstFields(read, cseq, 0) = <<>>

\* In every state the first none of the fields are none.
LEMMA NoFieldsAlways == NoFieldsYet
<1> SUFFICES ASSUME NEW read, NEW cseq
             PROVE  FirstFields(read, cseq, 0) = <<>>
  BY DEF NoFieldsYet
<1> DEFINE fields == FirstFields(read, cseq, 0)
<1>1. {FieldNames(read)[j] : j \in 1..0} = 1..0
  OBVIOUS
<1>2. fields = [name \in 1..0 |-> fields[name]]
  BY <1>1 DEF FirstFields
<1> HIDE DEF fields
<1>3. fields \in [1..0 -> Nat]
  BY <1>2
<1>4. fields \in Seq(Nat) /\ Len(fields) = 0
  <2>1. fields \in Seq(Nat)
    BY <1>3, SeqDef
  <2> QED
    BY <1>2, <2>1, LenProperties
<1>5. fields = <<>>
  BY <1>4, EmptySeq
<1> QED
  BY <1>5 DEF fields

\* What is accepted can be written.
LEMMA AcceptedIsWritten ==
    ASSUME RtspTypeOK, WritableInv, stage = "accepted", kind # "names"
    PROVE  Written(message, tmpOut)
<1>1. /\ message = [line |-> message.line, fields |-> message.fields, body |-> message.body]
      /\ message.line \in Seq(Symbols) /\ message.body \in Seq(Symbols)
      /\ message.fields \in [DOMAIN message.fields -> Seq(Symbols)]
      /\ DOMAIN message.fields \subseteq Seq(Symbols) /\ IsFiniteSet(DOMAIN message.fields)
      /\ tmpOut \in CSeq /\ kind \in {"message", "parameters"}
  BY DEF RtspTypeOK, ParserTypeOK
<1>2. /\ Writable(message.fields)
      /\ kind = "message" =>
           IsLine(message.line) /\ tmpOut # 0 /\ CSeqName \notin DOMAIN message.fields
      /\ kind = "parameters" => message.line = <<>> /\ message.body = <<>> /\ tmpOut = 0
  <2>1. stage \in {"fields", "body", "cseq", "accepted"}
    OBVIOUS
  <2> QED
    BY <2>1, Zenon DEF WritableInv
<1> QED
  BY <1>1, <1>2, Zenon DEF Written

\* Whatever has been put together is laid out.
LayoutExists ==
    \A start, lines, rest :
        PutTogether(start, lines, rest) => \E b : LaidOut(start, lines, rest, b)

\* In every state what was put together has a layout.
LEMMA LayoutAlways == LayoutExists
BY LaidOutThere DEF LayoutExists

\* What Serialize writes is laid out, and nothing of it has been read yet.
LEMMA SerializeReread ==
    ASSUME RtspTypeOK, WritableInv, Serialize
    PROVE  RereadInv'
<1>1. PICK R : R = message
  OBVIOUS
<1>2. PICK c : c = tmpOut
  OBVIOUS
<1>3. Written(R, c)
  BY <1>1, <1>2, AcceptedIsWritten DEF Serialize
<1>4. ReadTyped(R) /\ c \in CSeq
  BY <1>3, WrittenTyped
<1>5. PICK start : start = Start(R)
  OBVIOUS
<1>6. PICK lines : lines = Lines(R, c)
  OBVIOUS
<1>7. PICK rest : rest = Rest(R)
  OBVIOUS
<1>8. /\ start \in Seq(Symbols) /\ lines \in Seq(Seq(Symbols)) /\ rest \in Seq(Symbols)
  <2>1. R.body \in Seq(Symbols)
    BY <1>4 DEF ReadTyped
  <2> QED
    BY <1>4, <1>5, <1>6, <1>7, <2>1, StartTyped, LinesTyped, RestIs
<1>9. /\ text' = start \o FlattenSeq(lines) \o rest
      /\ kind' = kind /\ position' = 1 /\ message' = Nothing
      /\ stage' = IF kind = "message" THEN "start" ELSE "fields"
      /\ length' = 0 /\ tmpOut' = 0 /\ outcome' = "reading"
      /\ origin' = {[message |-> R, cseq |-> c]}
  <2>1. Serialized(R, c) = start \o FlattenSeq(lines) \o rest
    BY <1>5, <1>6, <1>7 DEF Serialized, Rest
  <2> QED
    BY <1>1, <1>2, <2>1 DEF Serialize, FirstStage, Read
<1>10. PutTogether(start, lines, rest)'
  BY <1>8, <1>9 DEF PutTogether
<1>11. LayoutExists'
  BY LayoutAlways, PTL
<1>12. PICK b : LaidOut(start, lines, rest, b)'
  BY <1>10, <1>11 DEF LayoutExists
<1>13. kind = "message" => (IsRequest' <=> IsRequest)
  <2> SUFFICES ASSUME kind = "message"
               PROVE  IsRequest' <=> IsRequest
    OBVIOUS
  <2>1. \A k \in 1..Len(start) : At(1 + k - 1)' = start[k]
    BY <1>12, Zenon DEF LaidOut, Stands
  <2>2. R.line \in Seq(Symbols)
    BY <1>4 DEF ReadTyped
  <2>3. CASE IsRequest
    <3>1. start = <<"method", "sp">> \o R.line \o <<"sp", "proto", "crlf">>
      BY <1>5, <2>3 DEF Start
    <3>2. /\ Len(R.line) \in Nat /\ Len(start) = Len(R.line) + 5
          /\ start[1] = "method" /\ start[2] = "sp"
      BY <2>2, <3>1, RequestStartIs
    <3>3. 1 \in 1..Len(start) /\ 2 \in 1..Len(start) /\ 1 + 1 - 1 = 1 /\ 1 + 2 - 1 = 2
      BY <3>2
    <3>4. At(1)' = "method" /\ At(2)' = "sp"
      BY <2>1, <3>2, <3>3
    <3>5. "sp" \notin TokenSymbols
      BY Classes
    <3>6. IsRequest'
      BY <3>4, <3>5 DEF IsRequest
    <3> QED
      BY <2>3, <3>6
  <2>4. CASE ~IsRequest
    <3>1. start = <<"proto", "sp", "status", "sp">> \o R.line \o <<"crlf">>
      BY <1>5, <2>4 DEF Start
    <3>2. /\ Len(R.line) \in Nat /\ Len(start) = Len(R.line) + 5 /\ start[1] = "proto"
      BY <2>2, <3>1, ResponseStartIs
    <3>3. 1 \in 1..Len(start) /\ 1 + 1 - 1 = 1
      BY <3>2
    <3>4. At(1)' = "proto"
      BY <2>1, <3>2, <3>3
    <3>5. ~IsRequest'
      BY <3>4 DEF IsRequest
    <3> QED
      BY <2>4, <3>5
  <2> QED
    BY <2>3, <2>4
<1>14. Start(R)' = start /\ Lines(R, c)' = lines /\ Rest(R)' = rest
  <2>1. Lines(R, c)' = lines
    BY <1>6, <1>9 DEF Lines, FieldLine
  <2>2. Rest(R)' = rest
    BY <1>7 DEF Rest
  <2>3. Start(R)' = start
    <3>1. kind \in {"message", "parameters"}
      BY <1>3 DEF Written
    <3>2. CASE kind = "parameters"
      BY <1>5, <1>9, <3>2 DEF Start
    <3>3. CASE kind = "message"
      BY <1>5, <1>9, <1>13, <3>3 DEF Start
    <3> QED
      BY <3>1, <3>2, <3>3
  <2> QED
    BY <2>1, <2>2, <2>3
<1>15. IsLayout(R, c, b)'
  BY <1>12, <1>14 DEF IsLayout
<1>16. Written(R, c)'
  <2>1. \A fields : Writable(fields)' = Writable(fields)
    <3>1. \A name : IsName(name)' = IsName(name)
      BY <1>9 DEF IsName
    <3>2. \A value : IsValue(value)' = IsValue(value)
      BY <1>9 DEF IsValue, FoldedIn
    <3> QED
      BY <3>1, <3>2 DEF Writable
  <2>2. kind = "message" => \A line : IsLine(line)' = IsLine(line)
    BY <1>13 DEF IsLine
  <2> QED
    BY <1>3, <1>9, <2>1, <2>2 DEF Written
<1>17. Rereading(R, c, b)'
  <2>1. CASE kind = "message"
    <3>1. stage' = "start" /\ kind' = "message"
      BY <1>9, <2>1
    <3>2. Nothing' = Nothing
      BY DEF Nothing
    <3> QED
      BY <1>9, <3>1, <3>2 DEF Rereading
  <2>2. CASE kind = "parameters"
    <3>1. stage' = "fields"
      BY <1>9, <2>2
    <3>2. R.line = <<>> /\ R.body = <<>>
      BY <1>3, <2>2 DEF Written
    <3>3. start = <<>>
      BY <1>5, <2>2 DEF Start
    <3>4. b[1] = 1
      <4>1. b[1] = Len(start) + 1
        BY <1>12, Zenon DEF LaidOut
      <4> QED
        BY <3>3, <4>1
    <3>5. FirstFields(R, c, 0)' = <<>>
      <4>1. NoFieldsYet'
        BY NoFieldsAlways, PTL
      <4> QED
        BY <4>1 DEF NoFieldsYet
    <3>6. message' = [line |-> R.line, fields |-> FirstFields(R, c, 0)', body |-> <<>>]
      BY <1>9, <3>2, <3>5 DEF Nothing
    <3>7. 0 \in 0..Len(Lines(R, c))' /\ 0 + 1 = 1
      <4>1. Len(lines) \in Nat
        BY <1>8, LenProperties
      <4> QED
        BY <1>14, <4>1
    <3> QED
      BY <1>9, <3>1, <3>2, <3>4, <3>6, <3>7 DEF Rereading
  <2> QED
    BY <1>3, <2>1, <2>2 DEF Written
<1> QED
  BY <1>9, <1>15, <1>16, <1>17 DEF RereadInv

\* What stands in the text is inside of it.
LEMMA StandsInText ==
    ASSUME text \in Seq(Symbols), NEW s \in Seq(Symbols), NEW p \in Nat, 1 <= p, Stands(p, s)
    PROVE  \A k \in 1..Len(s) : p + k - 1 \in 1..Len(text) /\ At(p + k - 1) = s[k]
<1> TAKE k \in 1..Len(s)
<1>1. Len(s) \in Nat
  BY LenProperties
<1>2. At(p + k - 1) = s[k] /\ s[k] \in Symbols
  BY ElementOfSeq DEF Stands
<1>3. p + k - 1 \in Nat
  BY <1>1
<1>4. p + k - 1 \notin 1..Len(text) => At(p + k - 1) = "eos" /\ "eos" \notin Symbols
  BY <1>3, AtText
<1> QED
  BY <1>2, <1>4

\* A part of the text is what stands there.
LEMMA PartIs ==
    ASSUME text \in Seq(Symbols), NEW s \in Seq(Symbols), NEW p \in Nat, 1 <= p,
           NEW q, q = p + Len(s), q <= Len(text) + 1, \A k \in 1..Len(s) : At(p + k - 1) = s[k]
    PROVE  Part(p, q) = s
<1>1. Len(s) \in Nat /\ Len(text) \in Nat
  BY LenProperties
<1>2. q \in Nat /\ p <= q /\ q - p = Len(s)
  BY <1>1
<1>3. /\ Part(p, q) \in Seq(Symbols) /\ Len(Part(p, q)) = q - p
      /\ \A k \in 1..(q - p) : Part(p, q)[k] = At(p + k - 1)
  <2> HIDE DEF Part
  <2>1. p \in Nat /\ q \in Nat /\ 1 <= p /\ p <= q /\ q <= Len(text) + 1
    BY <1>2
  <2> QED
    BY <2>1, PartIn
<1>4. /\ Len(Part(p, q)) = Len(s)
      /\ \A k \in 1..Len(s) : Part(p, q)[k] = s[k]
  BY <1>2, <1>3, Zenon
<1> QED
  BY <1>3, <1>4, SeqEqual

\* The start line of a request that was written.
LEMMA RequestStands ==
    ASSUME text \in Seq(Symbols), kind = "message", IsRequest,
           NEW read, NEW cseq, NEW b, Written(read, cseq), IsLayout(read, cseq, b)
    PROVE  /\ RequestFound /\ ProtocolAt + 2 = b[1]
           /\ Part(Uri, UriEnd) = read.line
<1> DEFINE line == read.line  l == Len(line)  start == Start(read)
<1>1. line \in Seq(Symbols) /\ IsLine(line)
  BY DEF Written
<1>2. /\ l \in Nat /\ start \in Seq(Symbols) /\ Len(start) = l + 5
      /\ start[1] = "method" /\ start[2] = "sp"
      /\ \A k \in 1..l : start[2 + k] = line[k]
      /\ start[l + 3] = "sp" /\ start[l + 4] = "proto" /\ start[l + 5] = "crlf"
  <2>1. start = <<"method", "sp">> \o line \o <<"sp", "proto", "crlf">>
    BY DEF Start
  <2> HIDE DEF start, line
  <2> QED
    BY <1>1, <2>1, RequestStartIs
<1>3. Stands(1, start) /\ b[1] = Len(start) + 1
  BY DEF IsLayout, LaidOut
<1> HIDE DEF start
<1>4. \A k \in 1..(l + 5) : k \in 1..Len(text) /\ At(k) = start[k]
  <2>1. \A k \in 1..Len(start) : 1 + k - 1 \in 1..Len(text) /\ At(1 + k - 1) = start[k]
    BY <1>2, <1>3, StandsInText
  <2>2. \A k \in 1..(l + 5) : 1 + k - 1 = k
    BY <1>2
  <2> QED
    BY <1>2, <2>1, <2>2
<1>5. /\ line # <<>> /\ line[1] \notin Blank
      /\ \A k \in 1..l : line[k] \in Symbols \ Control /\ line[k] # "sp"
  BY <1>1, Zenon DEF IsLine
<1>6. l # 0
  BY <1>1, <1>5, EmptySeq
<1> HIDE DEF l
<1>7. Len(text) \in Nat /\ l + 5 <= Len(text)
  <2>1. l + 5 \in 1..(l + 5)
    BY <1>2
  <2> QED
    BY <1>4, <2>1, LenProperties
<1>8. /\ At(2) = "sp" /\ At(l + 3) = "sp" /\ At(l + 4) = "proto" /\ At(l + 5) = "crlf"
      /\ \A k \in 1..l : At(2 + k) = line[k]
  <2>1. /\ 2 \in 1..(l + 5) /\ l + 3 \in 1..(l + 5) /\ l + 4 \in 1..(l + 5) /\ l + 5 \in 1..(l + 5)
        /\ \A k \in 1..l : 2 + k \in 1..(l + 5)
    BY <1>2
  <2> QED
    BY <1>2, <1>4, <2>1
<1>9. /\ "sp" \in Blank /\ Blank \in SUBSET Symbols /\ "proto" \notin Blank
      /\ "sp" \in Control \cup {"sp"}
  BY DEF Blank, Symbols
<1>10. Uri = 3
  <2>1. 2 \in 1..(Len(text) + 1) /\ 3 \in 2..(Len(text) + 1) /\ \A r \in 2..(3 - 1) : r = 2
    BY <1>2, <1>7
  <2>2. At(3) \notin Blank
    <3>1. 1 \in 1..l /\ 2 + 1 = 3
      BY <1>2, <1>6
    <3> QED
      BY <1>5, <1>8, <3>1
  <2>3. \A r \in 2..(3 - 1) : At(r) \in Blank
    BY <1>8, <1>9, <2>1
  <2>4. SkipAll(2, Blank) = 3
    BY <1>9, <2>1, <2>2, <2>3, ScanIs
  <2> QED
    BY <2>4 DEF Uri, SkipWSP
<1>11. UriEnd = l + 3
  <2> DEFINE set == Symbols \ (Control \cup {"sp"})
  <2>1. 3 \in 1..(Len(text) + 1) /\ l + 3 \in 3..(Len(text) + 1)
    BY <1>2, <1>7
  <2>2. At(l + 3) \notin set /\ set \in SUBSET Symbols
    BY <1>8, <1>9
  <2>3. \A r \in 3..((l + 3) - 1) : At(r) \in set
    <3> TAKE r \in 3..((l + 3) - 1)
    <3>1. r - 2 \in 1..l /\ 2 + (r - 2) = r
      BY <1>2
    <3>2. At(r) = line[r - 2] /\ line[r - 2] \in Symbols \ Control /\ line[r - 2] # "sp"
      BY <1>5, <1>8, <3>1
    <3> QED
      BY <3>2
  <2> HIDE DEF set
  <2>4. SkipAll(3, set) = l + 3
    BY <2>1, <2>2, <2>3, ScanIs
  <2> QED
    BY <1>10, <2>4 DEF UriEnd, GetURI, set
<1>12. ProtocolAt = l + 4
  <2>1. l + 3 \in 1..(Len(text) + 1) /\ l + 4 \in (l + 3)..(Len(text) + 1)
        /\ \A r \in (l + 3)..((l + 4) - 1) : r = l + 3
    BY <1>2, <1>7
  <2>2. At(l + 4) \notin Blank /\ \A r \in (l + 3)..((l + 4) - 1) : At(r) \in Blank
    BY <1>8, <1>9, <2>1
  <2>3. SkipAll(l + 3, Blank) = l + 4
    BY <1>9, <2>1, <2>2, ScanIs
  <2> QED
    BY <1>11, <2>3 DEF ProtocolAt, SkipWSP
<1>13. (l + 4) + 1 = l + 5 /\ (l + 4) + 2 = (l + 5) + 1 /\ 2 < 3 /\ 3 < l + 3 /\ l + 3 < l + 4
  BY <1>2, <1>6
<1>14. RequestFound
  BY <1>8, <1>10, <1>11, <1>12, <1>13 DEF RequestFound
<1>15. Part(3, l + 3) = line
  <2>1. l + 3 = 3 + l /\ l + 3 <= Len(text) + 1 /\ 3 \in Nat /\ 1 <= 3
    BY <1>2, <1>7
  <2>2. \A k \in 1..l : At(3 + k - 1) = line[k]
    <3>1. \A k \in 1..l : 3 + k - 1 = 2 + k
      BY <1>2
    <3> QED
      BY <1>8, <3>1
  <2> HIDE DEF line
  <2> QED
    BY <1>1, <2>1, <2>2, PartIs DEF l
<1> QED
  BY <1>2, <1>3, <1>10, <1>11, <1>12, <1>13, <1>14, <1>15

\* The start line of a response that was written.
LEMMA ResponseStands ==
    ASSUME text \in Seq(Symbols), kind = "message", ~IsRequest,
           NEW read, NEW cseq, NEW b, Written(read, cseq), IsLayout(read, cseq, b)
    PROVE  /\ ResponseFound /\ PhraseEnd + 1 = b[1]
           /\ Part(Phrase, PhraseEnd) = read.line
<1> DEFINE line == read.line  l == Len(line)  start == Start(read)
<1>1. line \in Seq(Symbols) /\ IsLine(line)
  BY DEF Written
<1>2. /\ l \in Nat /\ start \in Seq(Symbols) /\ Len(start) = l + 5
      /\ start[1] = "proto" /\ start[2] = "sp" /\ start[3] = "status" /\ start[4] = "sp"
      /\ \A k \in 1..l : start[4 + k] = line[k]
      /\ start[l + 5] = "crlf"
  <2>1. start = <<"proto", "sp", "status", "sp">> \o line \o <<"crlf">>
    BY DEF Start
  <2> HIDE DEF start, line
  <2> QED
    BY <1>1, <2>1, ResponseStartIs
<1>3. Stands(1, start) /\ b[1] = Len(start) + 1
  BY DEF IsLayout, LaidOut
<1> HIDE DEF start
<1>4. \A k \in 1..(l + 5) : k \in 1..Len(text) /\ At(k) = start[k]
  <2>1. \A k \in 1..Len(start) : 1 + k - 1 \in 1..Len(text) /\ At(1 + k - 1) = start[k]
    BY <1>2, <1>3, StandsInText
  <2>2. \A k \in 1..(l + 5) : 1 + k - 1 = k
    BY <1>2
  <2> QED
    BY <1>2, <2>1, <2>2
<1>5. /\ line # <<>> /\ line[1] \notin Blank
      /\ \A k \in 1..l : line[k] \in Symbols \ Control
  BY <1>1, Zenon DEF IsLine
<1>6. l # 0
  BY <1>1, <1>5, EmptySeq
<1> HIDE DEF l
<1>7. Len(text) \in Nat /\ l + 5 <= Len(text)
  <2>1. l + 5 \in 1..(l + 5)
    BY <1>2
  <2> QED
    BY <1>4, <2>1, LenProperties
<1>8. /\ At(1) = "proto" /\ At(2) = "sp" /\ At(3) = "status" /\ At(4) = "sp"
      /\ At(l + 5) = "crlf"
      /\ \A k \in 1..l : At(4 + k) = line[k]
  <2>1. /\ 1 \in 1..(l + 5) /\ 2 \in 1..(l + 5) /\ 3 \in 1..(l + 5) /\ 4 \in 1..(l + 5)
        /\ l + 5 \in 1..(l + 5)
        /\ \A k \in 1..l : 4 + k \in 1..(l + 5)
    BY <1>2
  <2> QED
    BY <1>2, <1>4, <2>1
<1>9. /\ "sp" \in Blank /\ Blank \in SUBSET Symbols /\ "status" \notin Blank
      /\ "crlf" \in Control
  BY DEF Blank, Symbols, Control
<1>10. Status = 3
  <2>1. 2 \in 1..(Len(text) + 1) /\ 3 \in 2..(Len(text) + 1) /\ \A r \in 2..(3 - 1) : r = 2
    BY <1>2, <1>7
  <2>2. At(3) \notin Blank
    BY <1>8, <1>9
  <2>3. \A r \in 2..(3 - 1) : At(r) \in Blank
    BY <1>8, <1>9, <2>1
  <2>4. SkipAll(2, Blank) = 3
    BY <1>9, <2>1, <2>2, <2>3, ScanIs
  <2> QED
    BY <2>4 DEF Status, SkipWSP
<1>11. Phrase = 5
  <2>1. 4 \in 1..(Len(text) + 1) /\ 5 \in 4..(Len(text) + 1) /\ \A r \in 4..(5 - 1) : r = 4
    BY <1>2, <1>7
  <2>2. At(5) \notin Blank
    <3>1. 1 \in 1..l /\ 4 + 1 = 5
      BY <1>2, <1>6
    <3> QED
      BY <1>5, <1>8, <3>1
  <2>3. \A r \in 4..(5 - 1) : At(r) \in Blank
    BY <1>8, <1>9, <2>1
  <2>4. SkipAll(4, Blank) = 5
    BY <1>9, <2>1, <2>2, <2>3, ScanIs
  <2>5. 3 + 1 = 4
    OBVIOUS
  <2> QED
    BY <1>10, <2>4, <2>5 DEF Phrase, SkipWSP
<1>12. PhraseEnd = l + 5
  <2> DEFINE set == Symbols \ Control
  <2>1. 5 \in 1..(Len(text) + 1) /\ l + 5 \in 5..(Len(text) + 1)
    BY <1>2, <1>7
  <2>2. At(l + 5) \notin set /\ set \in SUBSET Symbols
    BY <1>8, <1>9
  <2>3. \A r \in 5..((l + 5) - 1) : At(r) \in set
    <3> TAKE r \in 5..((l + 5) - 1)
    <3>1. r - 4 \in 1..l /\ 4 + (r - 4) = r
      BY <1>2
    <3> QED
      BY <1>5, <1>8, <3>1
  <2> HIDE DEF set
  <2>4. SkipAll(5, set) = l + 5
    BY <2>1, <2>2, <2>3, ScanIs
  <2> QED
    BY <1>11, <2>4 DEF PhraseEnd, GetReasonPhrase, set
<1>13. 2 < 3 /\ 3 + 1 < 5 /\ 5 < l + 5
  BY <1>2, <1>6
<1>14. ResponseFound
  BY <1>8, <1>10, <1>11, <1>12, <1>13 DEF ResponseFound
<1>15. Part(5, l + 5) = line
  <2>1. l + 5 = 5 + l /\ l + 5 <= Len(text) + 1 /\ 5 \in Nat /\ 1 <= 5
    BY <1>2, <1>7
  <2>2. \A k \in 1..l : At(5 + k - 1) = line[k]
    <3>1. \A k \in 1..l : 5 + k - 1 = 4 + k
      BY <1>2
    <3> QED
      BY <1>8, <3>1
  <2> HIDE DEF line
  <2> QED
    BY <1>1, <2>1, <2>2, PartIs DEF l
<1> QED
  BY <1>2, <1>3, <1>11, <1>12, <1>14, <1>15

\* Every line, and the rest, begins somewhere in the text.
LEMMA LineStarts ==
    ASSUME text \in Seq(Symbols),
           NEW read, NEW cseq, NEW b, Written(read, cseq), IsLayout(read, cseq, b)
    PROVE  \A i \in 1..(Len(Lines(read, cseq)) + 1) : b[i] \in Nat /\ 1 <= b[i]
<1> DEFINE N == Len(Lines(read, cseq))
           S == {n \in Nat : n <= N => b[n + 1] \in Nat /\ 1 <= b[n + 1]}
<1>1. N \in Nat
  BY WrittenTyped, LinesAre DEF LinesOf
<1>2. b[1] = Len(Start(read)) + 1 /\ Len(Start(read)) \in Nat
  BY WrittenTyped, StartTyped, LenProperties DEF IsLayout, LaidOut
<1>3. \A i \in 1..N : b[i + 1] = b[i] + Len(Lines(read, cseq)[i]) /\ Len(Lines(read, cseq)[i]) \in Nat
  <2> TAKE i \in 1..N
  <2>1. b[i + 1] = b[i] + Len(Lines(read, cseq)[i])
    BY Zenon DEF IsLayout, LaidOut
  <2>2. Lines(read, cseq) \in Seq(Seq(Symbols))
    BY LinesAre DEF LinesOf
  <2>3. Len(Lines(read, cseq)[i]) \in Nat
    BY <2>2, ElementOfSeq, LenProperties
  <2> QED
    BY <2>1, <2>3
<1> HIDE DEF N
<1>4. 0 \in S
  BY <1>2
<1>5. \A n \in Nat : n \in S => n + 1 \in S
  <2> SUFFICES ASSUME NEW n \in Nat, n \in S, n + 1 <= N
               PROVE  b[(n + 1) + 1] \in Nat /\ 1 <= b[(n + 1) + 1]
    OBVIOUS
  <2>1. n + 1 \in 1..N
    BY <1>1
  <2>2. b[n + 1] \in Nat /\ 1 <= b[n + 1]
    BY <1>1
  <2> DEFINE x == b[n + 1]  y == b[(n + 1) + 1]  z == Len(Lines(read, cseq)[n + 1])
  <2>3. y = x + z /\ z \in Nat
    BY <1>3, <2>1, Zenon
  <2>4. x \in Nat /\ 1 <= x
    BY <2>2
  <2> HIDE DEF x, y, z
  <2>5. y \in Nat /\ 1 <= y
    BY <2>3, <2>4
  <2> QED
    BY <2>5 DEF y
<1> HIDE DEF S
<1>6. Nat \subseteq S
  BY <1>4, <1>5, Induction
<1>7. \A i \in 1..(N + 1) : b[i] \in Nat /\ 1 <= b[i]
  <2> TAKE i \in 1..(N + 1)
  <2>1. i - 1 \in Nat /\ i - 1 <= N /\ (i - 1) + 1 = i
    BY <1>1
  <2>2. i - 1 \in S
    BY <1>6, <2>1
  <2> QED
    BY <2>1, <2>2 DEF S
<1> QED
  BY <1>7 DEF N

\* The i-th line of what was written stands at p, its name of length n and its
\* value of length v.
LineAt(name, value, p, n, v) ==
    /\ p \in Nat /\ 1 <= p /\ n \in Nat /\ v \in Nat
    /\ name \in Seq(Symbols) /\ value \in Seq(Symbols) /\ n = Len(name) /\ v = Len(value)
    /\ 0 < n /\ p + n + v + 2 <= Len(text)
    /\ IsName(name) /\ IsValue(value)
    /\ \A k \in 1..n : At(p + k - 1) = name[k]
    /\ At(p + n) = ":" /\ At(p + n + 1) = "sp"
    /\ \A k \in 1..v : At(p + n + 1 + k) = value[k]
    /\ At(p + n + v + 2) = "crlf"

\* The name and the value of the i-th line.
NameAt(read, i) == FieldNames(read)[i]
ValueAt(read, cseq, i) == AllFields(read, cseq)[NameAt(read, i)]
LineThere(read, cseq, b, i) ==
    /\ LineAt(NameAt(read, i), ValueAt(read, cseq, i), b[i],
              Len(NameAt(read, i)), Len(ValueAt(read, cseq, i)))
    /\ b[i + 1] = b[i] + Len(NameAt(read, i)) + Len(ValueAt(read, cseq, i)) + 3

\* Every line that was written stands where the layout says.
LEMMA LineStands ==
    ASSUME text \in Seq(Symbols),
           NEW read, NEW cseq, NEW b, Written(read, cseq), IsLayout(read, cseq, b),
           NEW i \in 1..Len(Lines(read, cseq))
    PROVE  LineThere(read, cseq, b, i)
<1> DEFINE name == NameAt(read, i)  value == ValueAt(read, cseq, i)  p == b[i]
           n == Len(name)  v == Len(value)  line == Lines(read, cseq)[i]
<1>1. LinesOf(read, cseq)
  BY LinesAre
<1>2. /\ name \in Seq(Symbols) /\ value \in Seq(Symbols) /\ line = FieldLine(name, value)
      /\ name \in DOMAIN AllFields(read, cseq) /\ Writable(AllFields(read, cseq))
  BY <1>1, Zenon DEF LinesOf, NameAt, ValueAt
<1>3. IsName(name) /\ IsValue(value)
  BY <1>2, Zenon DEF Writable, ValueAt
<1>4. Len(Lines(read, cseq)) \in Nat
  BY <1>1 DEF LinesOf
<1>5. p \in Nat /\ 1 <= p
  <2>1. i \in 1..(Len(Lines(read, cseq)) + 1)
    BY <1>4
  <2> QED
    BY <2>1, LineStarts
<1>6. b[i + 1] = p + Len(line) /\ Stands(p, line)
  BY Zenon DEF IsLayout, LaidOut
<1> HIDE DEF name, value, p, line
<1>7. /\ n \in Nat /\ v \in Nat /\ Len(line) = n + v + 3
      /\ \A k \in 1..n : At(p + k - 1) = name[k]
      /\ At(p + n) = ":" /\ At(p + n + 1) = "sp"
      /\ \A k \in 1..v : At(p + n + 1 + k) = value[k]
      /\ At(p + n + v + 2) = "crlf"
  <2>1. Stands(p, FieldLine(name, value))
    BY <1>2, <1>6
  <2>2. LET N == Len(name)  V == Len(value) IN
           /\ N \in Nat /\ V \in Nat /\ Len(FieldLine(name, value)) = N + V + 3
           /\ \A k \in 1..N : At(p + k - 1) = name[k]
           /\ At(p + N) = ":" /\ At(p + N + 1) = "sp"
           /\ \A k \in 1..V : At(p + N + 1 + k) = value[k]
           /\ At(p + N + V + 2) = "crlf"
    <3> HIDE DEF n, v
    <3> QED
      BY <1>2, <1>5, <2>1, FieldStands, SMTT(30)
  <2> QED
    BY <1>2, <2>2, Zenon
<1>8. 0 < n
  <2>1. name # <<>>
    BY <1>3 DEF IsName
  <2> QED
    BY <1>2, <1>7, <2>1, EmptySeq
<1>9. p + n + v + 2 <= Len(text)
  <2>1. p + n + v + 2 \in Nat /\ Len(text) \in Nat
    BY <1>5, <1>7, LenProperties
  <2>2. "crlf" # "eos"
    OBVIOUS
  <2>3. p + n + v + 2 \in 1..Len(text)
    BY <1>7, <2>1, <2>2, AtText
  <2> QED
    BY <2>1, <2>3
<1>10. LineAt(name, value, p, n, v)
  <2> HIDE DEF n, v
  <2>1. n = Len(name) /\ v = Len(value)
    BY DEF n, v
  <2> QED
    BY <1>2, <1>3, <1>5, <1>7, <1>8, <1>9, <2>1 DEF LineAt
<1>11. b[i + 1] = p + n + v + 3
  <2> DEFINE y == b[i + 1]
  <2>1. y = p + Len(line)
    BY <1>6
  <2> HIDE DEF y, n, v
  <2>2. y = p + n + v + 3
    BY <1>5, <1>7, <2>1
  <2> QED
    BY <2>2 DEF y
<1> QED
  BY <1>10, <1>11 DEF LineThere, name, value, p

\* What stands at p: the rest of the text.
EndAt(read, p) ==
    /\ read.body = <<>> => At(p) = "eos" /\ p = Len(text) + 1
    /\ read.body # <<>> =>
        At(p) = "crlf" /\ p + 1 <= Len(text) + 1 /\ Part(p + 1, Len(text) + 1) = read.body

\* Behind the last line the text is at its end, or the body follows.
LEMMA LinesEnd ==
    ASSUME text \in Seq(Symbols),
           NEW read, NEW cseq, NEW b, Written(read, cseq), IsLayout(read, cseq, b)
    PROVE  EndAt(read, b[Len(Lines(read, cseq)) + 1])
<1> DEFINE N == Len(Lines(read, cseq))  p == b[N + 1]  rest == Rest(read)
           body == read.body
<1>1. N \in Nat
  BY LinesAre DEF LinesOf
<1>2. p \in Nat /\ 1 <= p
  <2>1. N + 1 \in 1..(N + 1)
    BY <1>1
  <2> QED
    BY <2>1, LineStarts
<1>3. Stands(p, rest) /\ Len(text) + 1 = p + Len(rest)
  BY Zenon DEF IsLayout, LaidOut
<1>4. body \in Seq(Symbols) /\ Len(text) \in Nat
  BY LenProperties DEF Written
<1>5. /\ rest \in Seq(Symbols) /\ Len(body) \in Nat
      /\ body = <<>> => rest = <<>> /\ Len(rest) = 0
      /\ body # <<>> =>
           /\ Len(rest) = Len(body) + 1 /\ Len(body) # 0
           /\ rest[1] = "crlf"
           /\ \A k \in 1..Len(body) : rest[1 + k] = body[k]
  BY <1>4, RestIs
<1> HIDE DEF p, rest
<1>6. CASE body = <<>>
  <2>1. p = Len(text) + 1
    BY <1>2, <1>3, <1>4, <1>5, <1>6
  <2>2. p \notin 1..Len(text)
    BY <1>4, <2>1
  <2>3. At(p) = "eos"
    BY <1>2, <2>2, AtText
  <2> QED
    BY <1>6, <2>1, <2>3 DEF EndAt, p
<1>7. CASE body # <<>>
  <2> HIDE DEF body
  <2>1. \A k \in 1..Len(rest) : At(p + k - 1) = rest[k]
    BY <1>3, Zenon DEF Stands
  <2>2. /\ 1 \in 1..Len(rest) /\ p + 1 - 1 = p
        /\ \A k \in 1..Len(body) : 1 + k \in 1..Len(rest) /\ p + (1 + k) - 1 = (p + 1) + k - 1
    BY <1>2, <1>5, <1>7
  <2>3. At(p) = "crlf"
    BY <1>5, <1>7, <2>1, <2>2
  <2>4. \A k \in 1..Len(body) : At((p + 1) + k - 1) = body[k]
    <3> TAKE k \in 1..Len(body)
    <3>1. At(p + (1 + k) - 1) = rest[1 + k]
      BY <2>1, <2>2
    <3> QED
      BY <1>5, <1>7, <2>2, <3>1
  <2>5. Len(text) + 1 = (p + 1) + Len(body) /\ p + 1 \in Nat /\ 1 <= p + 1 /\ p + 1 <= Len(text) + 1
    <3>1. Len(rest) = Len(body) + 1 /\ Len(body) \in Nat
      BY <1>5, <1>7, Zenon
    <3>2. Len(text) + 1 = p + Len(rest) /\ Len(text) \in Nat
      BY <1>3, <1>4
    <3> QED
      BY <1>2, <3>1, <3>2
  <2>6. Part(p + 1, Len(text) + 1) = body
    <3>1. Len(text) + 1 <= Len(text) + 1
      BY <1>4
    <3> QED
      BY <1>4, <2>4, <2>5, <3>1, PartIs
  <2> QED
    BY <1>7, <2>3, <2>5, <2>6 DEF EndAt, p, body
<1> QED
  BY <1>6, <1>7

\* A line that was written is followed by one, or by the rest: by no blank.
LEMMA AfterLine ==
    ASSUME text \in Seq(Symbols),
           NEW read, NEW cseq, NEW b, Written(read, cseq), IsLayout(read, cseq, b),
           NEW i \in 0..Len(Lines(read, cseq))
    PROVE  /\ i < Len(Lines(read, cseq)) =>
                /\ i + 1 \in 1..Len(Lines(read, cseq))
                /\ At(b[i + 1]) \in Symbols
                /\ kind = "message" => At(b[i + 1]) \in TokenSymbols
           /\ i = Len(Lines(read, cseq)) => EndAt(read, b[i + 1])
<1> DEFINE N == Len(Lines(read, cseq))
<1>1. N \in Nat
  BY LinesAre DEF LinesOf
<1>2. CASE i < N
  <2>1. i + 1 \in 1..N
    BY <1>1, <1>2
  <2>2. PICK j \in 1..N : j = i + 1
    BY <2>1
  <2>3. PICK name : name = NameAt(read, j)
    OBVIOUS
  <2>4. PICK p : p = b[j]
    OBVIOUS
  <2>5. PICK v, n : LineAt(name, ValueAt(read, cseq, j), p, n, v)
    BY <2>3, <2>4, LineStands DEF LineThere
  <2>6. /\ p \in Nat /\ n \in Nat /\ 0 < n /\ IsName(name) /\ n = Len(name)
        /\ name \in Seq(Symbols)
        /\ \A k \in 1..n : At(p + k - 1) = name[k]
    BY <2>5, Zenon DEF LineAt
  <2>7. 1 \in 1..n /\ p + 1 - 1 = p
    BY <2>6
  <2>8. At(p) = name[1] /\ name[1] \in Symbols
    BY <2>6, <2>7, ElementOfSeq
  <2>9. kind = "message" => name[1] \in TokenSymbols
    BY <2>6, <2>7 DEF IsName
  <2> QED
    BY <1>2, <2>1, <2>2, <2>4, <2>8, <2>9
<1>3. CASE i = N
  BY <1>3, <1>1, LinesEnd
<1> QED
  BY <1>1, <1>2, <1>3

\* So no line of a message is folded by what comes after it.
LEMMA NextNotBlank ==
    ASSUME text \in Seq(Symbols), kind = "message",
           NEW read, NEW cseq, NEW b, Written(read, cseq), IsLayout(read, cseq, b),
           NEW i \in 0..Len(Lines(read, cseq))
    PROVE  At(b[i + 1]) \notin Blank
<1>1. /\ \A x \in TokenSymbols : x \notin Blank
      /\ "crlf" \notin Blank /\ "eos" \notin Blank
  BY Classes DEF Blank
<1>2. Len(Lines(read, cseq)) \in Nat
  BY LinesAre DEF LinesOf
<1>3. CASE i < Len(Lines(read, cseq))
  BY <1>1, <1>3, AfterLine
<1>4. CASE i = Len(Lines(read, cseq))
  <2>1. EndAt(read, b[i + 1])
    BY <1>4, AfterLine
  <2> QED
    BY <1>1, <2>1 DEF EndAt
<1> QED
  BY <1>2, <1>3, <1>4

\* A header field that was written is found where it stands.
LEMMA HeaderLineFound ==
    ASSUME text \in Seq(Symbols), kind = "message",
           NEW name, NEW value, NEW p, NEW n, NEW v, LineAt(name, value, p, n, v),
           At(p + n + v + 3) \notin Blank
    PROVE  /\ p \in 1..(Len(text) + 1)
           /\ NameEnd(p) = p + n /\ ValueStart(p) = p + n + 2 /\ FieldEnd(p) = p + n + v + 2
           /\ FieldFound(p)
           /\ Part(p, NameEnd(p)) = name /\ Part(ValueStart(p), FieldEnd(p)) = value
<1>1. /\ p \in Nat /\ 1 <= p /\ n \in Nat /\ v \in Nat /\ 0 < n
      /\ p + n + v + 2 <= Len(text) /\ Len(text) \in Nat
      /\ name \in Seq(Symbols) /\ value \in Seq(Symbols) /\ n = Len(name) /\ v = Len(value)
  BY LenProperties DEF LineAt
<1>2. /\ \A k \in 1..n : At(p + k - 1) = name[k]
      /\ At(p + n) = ":" /\ At(p + n + 1) = "sp"
      /\ \A k \in 1..v : At(p + n + 1 + k) = value[k]
      /\ At(p + n + v + 2) = "crlf"
  BY Zenon DEF LineAt
<1>3. IsName(name) /\ IsValue(value)
  BY Zenon DEF LineAt
<1>4. \A k \in 1..n : name[k] \in TokenSymbols
  BY <1>1, <1>3 DEF IsName
<1>5. p \in 1..(Len(text) + 1)
  BY <1>1
<1>6. NameEnd(p) = p + n
  <2>1. p + n \in p..(Len(text) + 1) /\ At(p + n) \notin TokenSymbols
    BY <1>1, <1>2, Classes
  <2>2. \A r \in p..((p + n) - 1) : At(r) \in TokenSymbols
    <3> TAKE r \in p..((p + n) - 1)
    <3>1. r - p + 1 \in 1..n /\ p + (r - p + 1) - 1 = r
      BY <1>1
    <3> QED
      BY <1>2, <1>4, <3>1
  <2>3. SkipAll(p, TokenSymbols) = p + n
    BY <1>5, <2>1, <2>2, ScanIs, Classes
  <2> QED
    BY <2>3 DEF NameEnd, GetToken
<1>7. At(p + n + 2) \notin Blank
  <2>1. CASE v = 0
    <3>1. p + n + 2 = p + n + v + 2
      BY <1>1, <2>1
    <3> QED
      BY <1>2, <3>1, Classes
  <2>2. CASE v # 0
    <3>1. 1 \in 1..v /\ p + n + 1 + 1 = p + n + 2
      BY <1>1, <2>2
    <3>2. At(p + n + 2) = value[1]
      BY <1>2, <3>1
    <3>3. value # <<>>
      BY <1>1, <2>2, EmptySeq
    <3> QED
      BY <1>3, <3>2, <3>3 DEF IsValue
  <2> QED
    BY <2>1, <2>2
<1>8. ValueStart(p) = p + n + 2
  <2>1. p + n + 1 \in 1..(Len(text) + 1) /\ p + n + 2 \in (p + n + 1)..(Len(text) + 1)
        /\ \A r \in (p + n + 1)..((p + n + 2) - 1) : r = p + n + 1
    BY <1>1
  <2>2. At(p + n + 1) \in Blank /\ At(p + n + 1) # "crlf"
    BY <1>2 DEF Blank
  <2>3. SkipAll(p + n + 1, Blank) = p + n + 2
    <3>1. \A r \in (p + n + 1)..((p + n + 2) - 1) : At(r) \in Blank
      BY <2>1, <2>2
    <3> QED
      BY <1>7, <2>1, <3>1, ScanIs, Classes
  <2> QED
    BY <1>6, <2>2, <2>3 DEF ValueStart, SkipLWS, SkipEOL, SkipWSP
<1> DEFINE w == p + n + 2  e == p + n + v + 2
<1>9. /\ w \in 1..(Len(text) + 1) /\ e \in w..(Len(text) + 1) /\ e \in Nat /\ w \in Nat
      /\ w \in Nat /\ e = w + v /\ e + 1 = p + n + v + 3
  BY <1>1
<1>10. FieldEnd(p) = e
  <2>1. ~Inside(w, e)
    <3>1. At(e) = "crlf" /\ At(e + 1) \notin Blank
      BY <1>2, <1>9
    <3>2. "crlf" \notin Blank /\ "crlf" \in Control
      BY DEF Control, Blank
    <3>3. ~Folded(w, e)
      <4> HIDE DEF w, e
      <4> QED
        BY <1>9, <3>1, <3>2, FoldedIs
    <3> QED
      BY <3>1, <3>2, <3>3 DEF Inside
  <2>2. \A r \in w..(e - 1) : Inside(w, r)
    <3> TAKE r \in w..(e - 1)
    <3>1. PICK k \in 1..v : r = p + n + 1 + k
      <4>1. r - (p + n + 1) \in 1..v /\ r = p + n + 1 + (r - (p + n + 1))
        BY <1>1
      <4> QED
        BY <4>1
    <3>2. At(r) = value[k]
      BY <1>2, <3>1
    <3>3. CASE value[k] \in Symbols \ Control
      BY <3>2, <3>3 DEF Inside
    <3>4. CASE FoldedIn(value, k)
      <4>1. PICK f \in 1..k : /\ f < v
                              /\ value[f] = "crlf" /\ value[f + 1] \in Blank
                              /\ \A g \in (f + 1)..k : value[g] \in Blank
        BY <1>1, <3>4 DEF FoldedIn
      <4> DEFINE x == p + n + 1 + f
      <4>2. /\ x \in w..r /\ f \in 1..v /\ f + 1 \in 1..v /\ x + 1 = p + n + 1 + (f + 1)
        BY <1>1, <3>1, <4>1
      <4>3. At(x) = "crlf" /\ At(x + 1) \in Blank
        BY <1>2, <4>1, <4>2
      <4>4. \A g \in (x + 1)..r : At(g) \in Blank
        <5> TAKE g \in (x + 1)..r
        <5>1. PICK h \in (f + 1)..k : g = p + n + 1 + h
          <6>1. g - (p + n + 1) \in (f + 1)..k /\ g = p + n + 1 + (g - (p + n + 1))
            BY <1>1, <3>1, <4>2
          <6> QED
            BY <6>1
        <5>2. h \in 1..v
          BY <1>1, <3>1, <4>1, <5>1
        <5> QED
          BY <1>2, <4>1, <5>1, <5>2
      <4> HIDE DEF x, w
      <4>5. Folded(w, r)
        BY <4>2, <4>3, <4>4 DEF Folded
      <4> QED
        BY <4>5 DEF Inside
    <3> QED
      BY <1>1, <1>3, <3>3, <3>4 DEF IsValue
  <2> HIDE DEF w, e
  <2>3. ValueEnd(w) = e
    BY <1>9, <2>1, <2>2, ValueScanIs
  <2> QED
    BY <1>8, <2>3 DEF FieldEnd, w
<1>11. FieldFound(p)
  <2>1. p < p + n
    BY <1>1
  <2> QED
    BY <1>2, <1>6, <1>10, <2>1 DEF FieldFound
<1>12. Part(p, p + n) = name
  <2>1. p + n <= Len(text) + 1
    BY <1>1
  <2> QED
    BY <1>1, <1>2, <2>1, PartIs
<1>13. Part(w, e) = value
  <2>1. \A k \in 1..v : At(w + k - 1) = value[k]
    <3>1. \A k \in 1..v : w + k - 1 = p + n + 1 + k
      BY <1>1
    <3> QED
      BY <1>2, <3>1
  <2>2. w \in Nat /\ 1 <= w /\ e = w + Len(value) /\ e <= Len(text) + 1
    BY <1>1
  <2> HIDE DEF w, e
  <2> QED
    BY <1>1, <2>1, <2>2, PartIs
<1> QED
  BY <1>5, <1>6, <1>8, <1>10, <1>11, <1>12, <1>13

\* So is a parameter.
LEMMA ParameterLineFound ==
    ASSUME text \in Seq(Symbols), kind = "parameters",
           NEW name, NEW value, NEW p, NEW n, NEW v, LineAt(name, value, p, n, v)
    PROVE  /\ p \in 1..(Len(text) + 1)
           /\ ParameterNameEnd(p) = p + n /\ ParameterValue(p) = p + n + 2
           /\ ParameterEnd(p) = p + n + v + 2
           /\ ParameterFound(p)
           /\ Part(p, ParameterNameEnd(p)) = name
           /\ Part(ParameterValue(p), ParameterEnd(p)) = value
<1>1. /\ p \in Nat /\ 1 <= p /\ n \in Nat /\ v \in Nat /\ 0 < n
      /\ p + n + v + 2 <= Len(text) /\ Len(text) \in Nat
      /\ name \in Seq(Symbols) /\ value \in Seq(Symbols) /\ n = Len(name) /\ v = Len(value)
  BY LenProperties DEF LineAt
<1>2. /\ \A k \in 1..n : At(p + k - 1) = name[k]
      /\ At(p + n) = ":" /\ At(p + n + 1) = "sp"
      /\ \A k \in 1..v : At(p + n + 1 + k) = value[k]
      /\ At(p + n + v + 2) = "crlf"
  BY Zenon DEF LineAt
<1>3. IsName(name) /\ IsValue(value)
  BY Zenon DEF LineAt
<1>4. /\ \A k \in 1..n : name[k] \in Symbols \ {":"}
      /\ \A k \in 1..v : value[k] \in Symbols \ Control
  BY <1>1, <1>3 DEF IsName, IsValue
<1>5. p \in 1..(Len(text) + 1)
  BY <1>1
<1>6. ParameterNameEnd(p) = p + n
  <2> DEFINE set == Symbols \ {":"}
  <2>1. p + n \in p..(Len(text) + 1) /\ At(p + n) \notin set /\ set \in SUBSET Symbols
    BY <1>1, <1>2
  <2>2. \A r \in p..((p + n) - 1) : At(r) \in set
    <3> TAKE r \in p..((p + n) - 1)
    <3>1. r - p + 1 \in 1..n /\ p + (r - p + 1) - 1 = r
      BY <1>1
    <3> QED
      BY <1>2, <1>4, <3>1
  <2> HIDE DEF set
  <2>3. SkipAll(p, set) = p + n
    BY <1>5, <2>1, <2>2, ScanIs
  <2> QED
    BY <2>3 DEF ParameterNameEnd, SkipNotColon, set
<1>7. At(p + n + 2) \notin Blank
  <2>1. CASE v = 0
    <3>1. p + n + 2 = p + n + v + 2
      BY <1>1, <2>1
    <3> QED
      BY <1>2, <3>1, Classes
  <2>2. CASE v # 0
    <3>1. 1 \in 1..v /\ p + n + 1 + 1 = p + n + 2
      BY <1>1, <2>2
    <3>2. At(p + n + 2) = value[1]
      BY <1>2, <3>1
    <3>3. value # <<>>
      BY <1>1, <2>2, EmptySeq
    <3> QED
      BY <1>3, <3>2, <3>3 DEF IsValue
  <2> QED
    BY <2>1, <2>2
<1>8. ParameterValue(p) = p + n + 2
  <2>1. p + n + 1 \in 1..(Len(text) + 1) /\ p + n + 2 \in (p + n + 1)..(Len(text) + 1)
        /\ \A r \in (p + n + 1)..((p + n + 2) - 1) : r = p + n + 1
    BY <1>1
  <2>2. At(p + n + 1) \in Blank
    BY <1>2 DEF Blank
  <2>3. SkipAll(p + n + 1, Blank) = p + n + 2
    <3>1. \A r \in (p + n + 1)..((p + n + 2) - 1) : At(r) \in Blank
      BY <2>1, <2>2
    <3> QED
      BY <1>7, <2>1, <3>1, ScanIs, Classes
  <2> QED
    BY <1>6, <2>3 DEF ParameterValue, SkipWSP
<1> DEFINE w == p + n + 2  e == p + n + v + 2
<1>9. /\ w \in 1..(Len(text) + 1) /\ e \in w..(Len(text) + 1) /\ e \in Nat /\ w \in Nat
      /\ e = w + v
  BY <1>1
<1>10. ParameterEnd(p) = e
  <2> DEFINE set == Symbols \ Control
  <2>1. At(e) \notin set /\ set \in SUBSET Symbols
    <3>1. "crlf" \in Control
      BY DEF Control
    <3> QED
      BY <1>2, <3>1
  <2>2. \A r \in w..(e - 1) : At(r) \in set
    <3> TAKE r \in w..(e - 1)
    <3>1. PICK k \in 1..v : r = p + n + 1 + k
      <4>1. r - (p + n + 1) \in 1..v /\ r = p + n + 1 + (r - (p + n + 1))
        BY <1>1
      <4> QED
        BY <4>1
    <3> QED
      BY <1>2, <1>4, <3>1
  <2> HIDE DEF w, e, set
  <2>3. SkipAll(w, set) = e
    BY <1>9, <2>1, <2>2, ScanIs
  <2> QED
    BY <1>8, <2>3 DEF ParameterEnd, GetReasonPhrase, w, set
<1>11. ParameterFound(p)
  <2>1. p < p + n
    BY <1>1
  <2> QED
    BY <1>2, <1>6, <1>10, <2>1 DEF ParameterFound
<1>12. Part(p, p + n) = name
  <2>1. p + n <= Len(text) + 1
    BY <1>1
  <2> QED
    BY <1>1, <1>2, <2>1, PartIs
<1>13. Part(w, e) = value
  <2>1. \A k \in 1..v : At(w + k - 1) = value[k]
    <3>1. \A k \in 1..v : w + k - 1 = p + n + 1 + k
      BY <1>1
    <3> QED
      BY <1>2, <3>1
  <2>2. w \in Nat /\ 1 <= w /\ e = w + Len(value) /\ e <= Len(text) + 1
    BY <1>1
  <2> HIDE DEF w, e
  <2> QED
    BY <1>1, <2>1, <2>2, PartIs
<1> QED
  BY <1>5, <1>6, <1>8, <1>10, <1>11, <1>12, <1>13

\* When every line has been read, so have all fields.
LEMMA AllFieldsRead ==
    ASSUME NEW read, NEW cseq, Written(read, cseq)
    PROVE  FirstFields(read, cseq, Len(Lines(read, cseq))) = AllFields(read, cseq)
<1> DEFINE N == Len(Lines(read, cseq))  all == AllFields(read, cseq)
           names == FieldNames(read)
<1>1. /\ N = Len(names) /\ all = [name \in DOMAIN all |-> all[name]]
      /\ \A i \in 1..N : names[i] \in DOMAIN all
      /\ \A name \in DOMAIN all : \E i \in 1..N : names[i] = name
  BY LinesAre DEF LinesOf
<1>2. FirstFields(read, cseq, N) = [name \in {names[j] : j \in 1..N} |-> all[name]]
  BY DEF FirstFields
<1> HIDE DEF N, all, names
<1>3. {names[j] : j \in 1..N} = DOMAIN all
  BY <1>1
<1> QED
  BY <1>1, <1>2, <1>3 DEF N, all

\* No name occurs twice: emplace adds the field of the next line.
LEMMA OneFieldMore ==
    ASSUME NEW read, NEW cseq, Written(read, cseq),
           NEW i \in 1..Len(Lines(read, cseq)),
           message = [line |-> read.line, fields |-> FirstFields(read, cseq, i - 1),
                      body |-> <<>>]
    PROVE  emplace(NameAt(read, i), ValueAt(read, cseq, i))
             = [line |-> read.line, fields |-> FirstFields(read, cseq, i), body |-> <<>>]
<1> DEFINE N == Len(Lines(read, cseq))  all == AllFields(read, cseq)
           names == FieldNames(read)
           before == FirstFields(read, cseq, i - 1)  name == NameAt(read, i)
           value == ValueAt(read, cseq, i)
<1>1. /\ N = Len(names) /\ N \in Nat
      /\ \A j, k \in 1..N : names[j] = names[k] => j = k
  <2>1. LinesOf(read, cseq)
    BY LinesAre
  <2>2. N = Len(names) /\ N \in Nat
    BY <2>1, SMTT(30) DEF LinesOf
  <2>3. \A j, k \in 1..Len(names) : names[j] = names[k] => j = k
    BY <2>1, SMTT(30) DEF LinesOf
  <2> QED
    BY <2>2, <2>3
<1>2. before = [m \in {names[j] : j \in 1..(i - 1)} |-> all[m]]
  BY DEF FirstFields
<1>3. name = names[i] /\ value = all[names[i]]
  BY DEF NameAt, ValueAt
<1>4. message.line = read.line /\ message.fields = before /\ message.body = <<>>
      /\ message = [line |-> message.line, fields |-> message.fields, body |-> message.body]
  OBVIOUS
<1>5. FirstFields(read, cseq, i) = [m \in {names[j] : j \in 1..i} |-> all[m]]
  BY DEF FirstFields
<1> HIDE DEF N, all, names, before, name, value
<1>6. name \notin DOMAIN before
  <2>1. \A j \in 1..(i - 1) : j \in 1..N /\ i \in 1..N /\ j # i
    BY <1>1 DEF N
  <2>2. \A j \in 1..(i - 1) : names[j] # names[i]
    BY <1>1, <2>1
  <2> QED
    BY <1>2, <1>3, <2>2
<1>7. With(before, name, value) = FirstFields(read, cseq, i)
  <2>1. \A j : j \in 1..i <=> j \in 1..(i - 1) \/ j = i
    BY <1>1 DEF N
  <2>2. {names[j] : j \in 1..i} = DOMAIN before \cup {name}
    BY <1>2, <1>3, <2>1
  <2>3. \A m \in DOMAIN before \cup {name} : all[m] = IF m = name THEN value ELSE before[m]
    BY <1>2, <1>3
  <2> QED
    BY <1>5, <2>2, <2>3 DEF With
<1>8. PICK r : r = emplace(name, value)
  OBVIOUS
<1>9. r = [line |-> message.line, fields |-> With(before, name, value), body |-> message.body]
  BY <1>4, <1>6, <1>8, Emplaced
<1> QED
  BY <1>4, <1>7, <1>8, <1>9 DEF name, value

\* The message is still read the same: between two lines ...
LEMMA FieldsReread ==
    ASSUME UNCHANGED <<kind, text>>, stage' = "fields",
           tmpOut' = 0, length' = 0, outcome' = "reading",
           NEW read, NEW cseq, NEW b,
           NEW i \in 0..Len(Lines(read, cseq)), position' = b[i + 1],
           message' = [line |-> read.line, fields |-> FirstFields(read, cseq, i), body |-> <<>>],
           i = Len(Lines(read, cseq)) => read.body = <<>>
    PROVE  Rereading(read, cseq, b)'
<1>1. PICK N : N = Len(Lines(read, cseq))
  OBVIOUS
<1>2. PICK fields : fields = FirstFields(read, cseq, i)
  OBVIOUS
<1>3. Len(Lines(read, cseq))' = N /\ FirstFields(read, cseq, i)' = fields
  BY <1>1, <1>2, SerialKept
<1>4. i \in 0..N /\ (i = N => read.body = <<>>)
      /\ message' = [line |-> read.line, fields |-> fields, body |-> <<>>]
  BY <1>1, <1>2
<1> QED
  BY <1>3, <1>4 DEF Rereading

\* ... at the body ...
LEMMA BodyReread ==
    ASSUME UNCHANGED <<kind, text>>, stage' = "body",
           tmpOut' = 0, length' = 0, outcome' = "reading",
           NEW read, NEW cseq, NEW b,
           position' = b[Len(Lines(read, cseq)) + 1] + 1,
           message' = [line |-> read.line, fields |-> AllFields(read, cseq), body |-> <<>>],
           read.body # <<>>
    PROVE  Rereading(read, cseq, b)'
<1>1. PICK N : N = Len(Lines(read, cseq))
  OBVIOUS
<1>2. PICK fields : fields = AllFields(read, cseq)
  OBVIOUS
<1>3. Len(Lines(read, cseq))' = N /\ AllFields(read, cseq)' = fields
  BY <1>1, <1>2, SerialKept
<1>4. position' = b[N + 1] + 1
      /\ message' = [line |-> read.line, fields |-> fields, body |-> <<>>]
  BY <1>1, <1>2
<1> QED
  BY <1>3, <1>4 DEF Rereading

\* ... and in the digits of the CSeq.
LEMMA CSeqReread ==
    ASSUME UNCHANGED <<kind, text>>, stage' = "cseq",
           NEW read, NEW cseq, NEW b,
           message' = [line |-> read.line, fields |-> AllFields(read, cseq), body |-> read.body],
           NEW l, length' = l, NEW t, tmpOut' = t, l <= Len(Decimal[cseq]), DigitsRead(cseq, l, t),
           outcome' = "reading" \/ (outcome' = "accepted" /\ t = cseq)
    PROVE  Rereading(read, cseq, b)'
<1>1. PICK fields : fields = AllFields(read, cseq)
  OBVIOUS
<1>2. AllFields(read, cseq)' = fields /\ DigitsRead(cseq, l, t)' = DigitsRead(cseq, l, t)
  BY <1>1, SerialKept DEF DigitsRead
<1>3. message' = [line |-> read.line, fields |-> fields, body |-> read.body]
  BY <1>1
<1> QED
  BY <1>2, <1>3 DEF Rereading

\* A message has a line at least: its CSeq.
LEMMA SomeLine ==
    ASSUME kind = "message", NEW read, NEW cseq, Written(read, cseq)
    PROVE  /\ Len(Lines(read, cseq)) \in Nat \ {0}
           /\ CSeqName \in DOMAIN AllFields(read, cseq)
           /\ AllFields(read, cseq)[CSeqName] = Decimal[cseq]
<1>1. /\ CSeqName \in DOMAIN AllFields(read, cseq)
      /\ AllFields(read, cseq)[CSeqName] = Decimal[cseq]
  BY DEF AllFields
<1>2. /\ Len(Lines(read, cseq)) = Len(FieldNames(read)) /\ Len(Lines(read, cseq)) \in Nat
      /\ \E i \in 1..Len(FieldNames(read)) : FieldNames(read)[i] = CSeqName
  BY <1>1, LinesAre DEF LinesOf
<1> QED
  BY <1>1, <1>2

\* The start line of what was written is to be read.
StartReread(read, cseq, b) ==
    /\ stage = "start" /\ kind = "message"
    /\ Written(read, cseq) /\ IsLayout(read, cseq, b) /\ Rereading(read, cseq, b)

\* The start line that was read is the one that was written ...
LEMMA LineReread ==
    ASSUME NEW read, NEW cseq, NEW b, StartReread(read, cseq, b),
           Move(b[1], "fields", [message EXCEPT !.line = read.line])
    PROVE  Rereading(read, cseq, b)'
<1>1. /\ message = Nothing /\ tmpOut = 0 /\ length = 0 /\ outcome = "reading"
      /\ kind = "message" /\ Written(read, cseq)
  BY DEF StartReread, Rereading
<1>2. Len(Lines(read, cseq)) \in Nat \ {0}
  BY <1>1, SomeLine
<1>3. PICK i \in 0..Len(Lines(read, cseq)) : i = 0
  BY <1>2
<1>4. i # Len(Lines(read, cseq)) /\ i + 1 = 1
  BY <1>2, <1>3
<1>5. FirstFields(read, cseq, i) = <<>>
  BY <1>3, NoFieldsAlways DEF NoFieldsYet
<1>6. /\ UNCHANGED <<kind, text>> /\ stage' = "fields" /\ position' = b[1]
      /\ tmpOut' = 0 /\ length' = 0 /\ outcome' = "reading"
      /\ message' = [Nothing EXCEPT !.line = read.line]
  BY <1>1 DEF Move, inputVars, parserVars
<1>7. message' = [line |-> read.line, fields |-> <<>>, body |-> <<>>]
  BY <1>6 DEF Nothing
<1>8. message' = [line |-> read.line, fields |-> FirstFields(read, cseq, i), body |-> <<>>]
  BY <1>5, <1>7
<1>9. position' = b[i + 1]
  BY <1>4, <1>6
<1> QED
  BY <1>4, <1>6, <1>8, <1>9, FieldsReread

\* ... in a request ...
LEMMA MethodLineReread ==
    ASSUME text \in Seq(Symbols), NEW read, NEW cseq, NEW b, StartReread(read, cseq, b),
           ParseMethodLine
    PROVE  Rereading(read, cseq, b)'
<1>1. kind = "message" /\ IsRequest /\ Written(read, cseq) /\ IsLayout(read, cseq, b)
  BY DEF StartReread, ParseMethodLine
<1>2. IF RequestFound
      THEN Move(ProtocolAt + 2, "fields", [message EXCEPT !.line = Part(Uri, UriEnd)])
      ELSE Refuse
  BY DEF ParseMethodLine, RequestFound, Uri, UriEnd, ProtocolAt
<1>3. RequestFound /\ ProtocolAt + 2 = b[1] /\ Part(Uri, UriEnd) = read.line
  BY <1>1, RequestStands
<1>4. Move(b[1], "fields", [message EXCEPT !.line = read.line])
  BY <1>2, <1>3
<1> QED
  BY <1>4, LineReread

\* ... and in a response.
LEMMA StatusLineReread ==
    ASSUME text \in Seq(Symbols), NEW read, NEW cseq, NEW b, StartReread(read, cseq, b),
           ParseStatusLine
    PROVE  Rereading(read, cseq, b)'
<1>1. kind = "message" /\ ~IsRequest /\ Written(read, cseq) /\ IsLayout(read, cseq, b)
  BY DEF StartReread, ParseStatusLine
<1>2. IF ResponseFound
      THEN Move(PhraseEnd + 1, "fields", [message EXCEPT !.line = Part(Phrase, PhraseEnd)])
      ELSE Refuse
  BY DEF ParseStatusLine, ResponseFound, Status, Phrase, PhraseEnd
<1>3. ResponseFound /\ PhraseEnd + 1 = b[1] /\ Part(Phrase, PhraseEnd) = read.line
  BY <1>1, ResponseStands
<1>4. Move(b[1], "fields", [message EXCEPT !.line = read.line])
  BY <1>2, <1>3
<1> QED
  BY <1>4, LineReread

\* Before a line that was written, i of them having been read.
BeforeLine(read, cseq, b, i) ==
    /\ position = b[i + 1] /\ i \in 0..Len(Lines(read, cseq))
    /\ message = [line |-> read.line, fields |-> FirstFields(read, cseq, i), body |-> <<>>]
    /\ tmpOut = 0 /\ length = 0 /\ outcome = "reading"
    /\ IF At(position) = "eos" THEN i = Len(Lines(read, cseq)) /\ read.body = <<>>
       ELSE i + 1 \in 1..Len(Lines(read, cseq))

\* Between two lines either one more stands, or the text ends.
LEMMA FieldsGo ==
    ASSUME text \in Seq(Symbols), NEW read, NEW cseq, NEW b,
           Written(read, cseq), IsLayout(read, cseq, b), Rereading(read, cseq, b),
           stage = "fields"
    PROVE  \E i : BeforeLine(read, cseq, b, i)
<1>1. PICK i \in 0..Len(Lines(read, cseq)) :
        /\ position = b[i + 1]
        /\ message = [line |-> read.line, fields |-> FirstFields(read, cseq, i), body |-> <<>>]
        /\ i = Len(Lines(read, cseq)) => read.body = <<>>
  BY DEF Rereading
<1>2. tmpOut = 0 /\ length = 0 /\ outcome = "reading"
  BY DEF Rereading
<1>3. Len(Lines(read, cseq)) \in Nat
  BY LinesAre DEF LinesOf
<1>4. "eos" \notin Symbols
  BY Classes
<1>5. CASE i = Len(Lines(read, cseq))
  <2>1. EndAt(read, b[i + 1]) /\ read.body = <<>>
    BY <1>1, <1>5, AfterLine
  <2>2. At(position) = "eos"
    BY <1>1, <2>1 DEF EndAt
  <2> QED
    BY <1>1, <1>2, <1>5, <2>1, <2>2 DEF BeforeLine
<1>6. CASE i < Len(Lines(read, cseq))
  <2>1. At(b[i + 1]) \in Symbols /\ i + 1 \in 1..Len(Lines(read, cseq))
    BY <1>6, AfterLine
  <2>2. At(position) # "eos"
    BY <1>1, <1>4, <2>1
  <2> QED
    BY <1>1, <1>2, <2>1, <2>2 DEF BeforeLine
<1> QED
  BY <1>3, <1>5, <1>6

\* ParseHeaderField reads the next field as it was written.
LEMMA HeaderFieldReread ==
    ASSUME text \in Seq(Symbols), NEW read, NEW cseq, NEW b,
           Written(read, cseq), IsLayout(read, cseq, b), Rereading(read, cseq, b),
           ParseHeaderField
    PROVE  Rereading(read, cseq, b)'
<1>0. stage = "fields" /\ kind = "message" /\ At(position) # "eos"
  BY DEF ParseHeaderField
<1>1. PICK i : BeforeLine(read, cseq, b, i)
  BY <1>0, FieldsGo
<1>2. PICK N : N = Len(Lines(read, cseq))
  OBVIOUS
<1>3. N \in Nat
  BY <1>2, LinesAre DEF LinesOf
<1>4. /\ position = b[i + 1] /\ i \in 0..N /\ i + 1 \in 1..N
      /\ message = [line |-> read.line, fields |-> FirstFields(read, cseq, i), body |-> <<>>]
      /\ tmpOut = 0 /\ length = 0 /\ outcome = "reading"
  BY <1>0, <1>1, <1>2 DEF BeforeLine
<1>5. PICK j \in 1..N : j = i + 1 /\ i = j - 1
  BY <1>3, <1>4
<1>6. PICK q, name, value, n, v :
        /\ q = b[j] /\ name = NameAt(read, j) /\ value = ValueAt(read, cseq, j)
        /\ n = Len(name) /\ v = Len(value)
  OBVIOUS
<1>7. LineAt(name, value, q, n, v) /\ b[j + 1] = q + n + v + 3
  BY <1>2, <1>6, LineStands DEF LineThere
<1>8. j \in 0..N /\ j \in 1..N
  BY <1>3
<1>9. At(q + n + v + 3) \notin Blank
  BY <1>0, <1>2, <1>7, <1>8, NextNotBlank
<1>10. /\ q \in 1..(Len(text) + 1) /\ FieldEnd(q) = q + n + v + 2 /\ FieldFound(q)
       /\ Part(q, NameEnd(q)) = name /\ Part(ValueStart(q), FieldEnd(q)) = value
  BY <1>0, <1>7, <1>9, HeaderLineFound
<1>11. Move(NextLine(q), IF NextLine(q) = FieldEnd(q) + 1 THEN "fields" ELSE "body",
            emplace(name, value))
  <2>1. q = position
    BY <1>4, <1>5, <1>6
  <2>2. IF FieldFound(q)
        THEN Move(NextLine(q), IF NextLine(q) = FieldEnd(q) + 1 THEN "fields" ELSE "body",
                  emplace(Part(q, NameEnd(q)), Part(ValueStart(q), FieldEnd(q))))
        ELSE Refuse
    BY <2>1 DEF ParseHeaderField, FieldFound, NextLine, FieldEnd, ValueStart, NameEnd
  <2> QED
    BY <1>10, <2>2
<1>12. emplace(name, value)
         = [line |-> read.line, fields |-> FirstFields(read, cseq, j), body |-> <<>>]
  BY <1>2, <1>4, <1>5, <1>6, OneFieldMore
<1>13. PICK next : next = NextLine(q)
  OBVIOUS
<1>14. /\ position' = next
       /\ stage' = IF next = FieldEnd(q) + 1 THEN "fields" ELSE "body"
       /\ message' = [line |-> read.line, fields |-> FirstFields(read, cseq, j), body |-> <<>>]
       /\ UNCHANGED <<kind, text>> /\ tmpOut' = 0 /\ length' = 0 /\ outcome' = "reading"
  BY <1>4, <1>11, <1>12, <1>13 DEF Move, inputVars, parserVars
<1>15. PICK e : e = FieldEnd(q)
  OBVIOUS
<1>16. /\ e \in Nat /\ e + 1 = b[j + 1]
       /\ next = IF At(b[j + 1]) = "crlf" THEN b[j + 1] + 1 ELSE b[j + 1]
  <2>1. /\ q \in Nat /\ n \in Nat /\ v \in Nat
    BY <1>7 DEF LineAt
  <2>2. e = q + n + v + 2
    BY <1>10, <1>15
  <2>3. e \in Nat /\ e + 1 = q + n + v + 3 /\ e + 2 = (q + n + v + 3) + 1
    BY <2>1, <2>2
  <2>4. next = IF At(e + 1) = "crlf" THEN e + 2 ELSE e + 1
    BY <1>10, <1>13, <1>15, NextLineIs
  <2> QED
    BY <1>7, <2>3, <2>4
<1>17. CASE j < N
  <2>1. At(b[j + 1]) # "crlf"
    <3>1. At(b[j + 1]) \in TokenSymbols
      BY <1>0, <1>2, <1>8, <1>17, AfterLine
    <3> QED
      BY <3>1, Classes
  <2>2. position' = b[j + 1] /\ stage' = "fields"
    BY <1>14, <1>15, <1>16, <2>1
  <2>3. j # N
    BY <1>3, <1>17
  <2> QED
    BY <1>2, <1>8, <1>14, <2>2, <2>3, FieldsReread
<1>18. CASE j = N
  <2>1. EndAt(read, b[j + 1])
    BY <1>2, <1>8, <1>18, AfterLine
  <2>2. CASE read.body = <<>>
    <3>1. At(b[j + 1]) # "crlf"
      BY <2>1, <2>2 DEF EndAt
    <3>2. position' = b[j + 1] /\ stage' = "fields"
      BY <1>14, <1>15, <1>16, <3>1
    <3> QED
      BY <1>2, <1>8, <1>14, <2>2, <3>2, FieldsReread
  <2>3. CASE read.body # <<>>
    <3>1. At(b[j + 1]) = "crlf"
      BY <2>1, <2>3 DEF EndAt
    <3>2. position' = b[N + 1] + 1 /\ stage' = "body"
      <4>1. next = b[j + 1] + 1 /\ next = e + 1 + 1
        BY <1>16, <3>1
      <4>2. next # e + 1
        BY <1>16, <4>1
      <4> QED
        BY <1>14, <1>15, <1>18, <4>1, <4>2
    <3>3. FirstFields(read, cseq, j) = AllFields(read, cseq)
      BY <1>2, <1>18, AllFieldsRead
    <3> QED
      BY <1>2, <1>14, <2>3, <3>2, <3>3, BodyReread
  <2> QED
    BY <2>2, <2>3
<1> QED
  BY <1>3, <1>17, <1>18

\* ParseParameter reads the next parameter as it was written.
LEMMA ParameterReread ==
    ASSUME text \in Seq(Symbols), NEW read, NEW cseq, NEW b,
           Written(read, cseq), IsLayout(read, cseq, b), Rereading(read, cseq, b),
           ParseParameter
    PROVE  Rereading(read, cseq, b)'
<1>0. stage = "fields" /\ kind = "parameters" /\ At(position) # "eos"
  BY DEF ParseParameter
<1>1. PICK i : BeforeLine(read, cseq, b, i)
  BY <1>0, FieldsGo
<1>2. PICK N : N = Len(Lines(read, cseq))
  OBVIOUS
<1>3. N \in Nat
  BY <1>2, LinesAre DEF LinesOf
<1>4. /\ position = b[i + 1] /\ i \in 0..N /\ i + 1 \in 1..N
      /\ message = [line |-> read.line, fields |-> FirstFields(read, cseq, i), body |-> <<>>]
      /\ tmpOut = 0 /\ length = 0 /\ outcome = "reading"
  BY <1>0, <1>1, <1>2 DEF BeforeLine
<1>5. PICK j \in 1..N : j = i + 1 /\ i = j - 1
  BY <1>3, <1>4
<1>6. PICK q, name, value, n, v :
        /\ q = b[j] /\ name = NameAt(read, j) /\ value = ValueAt(read, cseq, j)
        /\ n = Len(name) /\ v = Len(value)
  OBVIOUS
<1>7. LineAt(name, value, q, n, v) /\ b[j + 1] = q + n + v + 3
  BY <1>2, <1>6, LineStands DEF LineThere
<1>8. j \in 0..N
  BY <1>3
<1>9. /\ ParameterEnd(q) = q + n + v + 2 /\ ParameterFound(q)
      /\ Part(q, ParameterNameEnd(q)) = name
      /\ Part(ParameterValue(q), ParameterEnd(q)) = value
  BY <1>0, <1>7, ParameterLineFound
<1>10. Move(ParameterEnd(q) + 1, "fields", emplace(name, value))
  <2>1. q = position
    BY <1>4, <1>5, <1>6
  <2>2. IF ParameterFound(q)
        THEN Move(ParameterEnd(q) + 1, "fields",
                  emplace(Part(q, ParameterNameEnd(q)),
                          Part(ParameterValue(q), ParameterEnd(q))))
        ELSE Refuse
    BY <2>1 DEF ParseParameter, ParameterFound, ParameterEnd, ParameterValue, ParameterNameEnd
  <2> QED
    BY <1>9, <2>2
<1>11. emplace(name, value)
         = [line |-> read.line, fields |-> FirstFields(read, cseq, j), body |-> <<>>]
  BY <1>2, <1>4, <1>5, <1>6, OneFieldMore
<1>12. ParameterEnd(q) + 1 = b[j + 1]
  <2>1. q \in Nat /\ n \in Nat /\ v \in Nat
    BY <1>7 DEF LineAt
  <2>2. (q + n + v + 2) + 1 = q + n + v + 3
    BY <2>1
  <2> QED
    BY <1>7, <1>9, <2>2
<1>13. /\ position' = b[j + 1] /\ stage' = "fields"
       /\ message' = [line |-> read.line, fields |-> FirstFields(read, cseq, j), body |-> <<>>]
       /\ UNCHANGED <<kind, text>> /\ tmpOut' = 0 /\ length' = 0 /\ outcome' = "reading"
  BY <1>4, <1>10, <1>11, <1>12 DEF Move, inputVars, parserVars
<1>14. read.body = <<>>
  BY <1>0 DEF Written
<1> QED
  BY <1>2, <1>8, <1>13, <1>14, FieldsReread

\* At the end of the text every parameter has been read.
LEMMA ParametersEndReread ==
    ASSUME text \in Seq(Symbols), NEW read, NEW cseq, NEW b,
           Written(read, cseq), IsLayout(read, cseq, b), Rereading(read, cseq, b),
           ParametersEnd
    PROVE  Rereading(read, cseq, b)'
<1>0. stage = "fields" /\ kind = "parameters" /\ At(position) = "eos"
  <2>1. kind \in {"message", "parameters"}
    BY DEF Written
  <2> QED
    BY <2>1 DEF ParametersEnd
<1>1. PICK i : BeforeLine(read, cseq, b, i)
  BY <1>0, FieldsGo
<1>2. /\ message = [line |-> read.line, fields |-> FirstFields(read, cseq, i), body |-> <<>>]
      /\ i = Len(Lines(read, cseq)) /\ read.body = <<>> /\ tmpOut = 0
  BY <1>0, <1>1 DEF BeforeLine
<1>3. FirstFields(read, cseq, i) = read.fields
  BY <1>0, <1>2, AllFieldsRead DEF AllFields
<1>4. message = read /\ cseq = 0
  BY <1>0, <1>2, <1>3 DEF Written
<1>5. stage' = "accepted" /\ message' = read /\ tmpOut' = cseq
  BY <1>2, <1>4 DEF ParametersEnd, Move, parserVars
<1> QED
  BY <1>5 DEF Rereading

\* TakeBody takes the body that was written, and finds the CSeq.
LEMMA TakeBodyReread ==
    ASSUME text \in Seq(Symbols), NEW read, NEW cseq, NEW b,
           Written(read, cseq), IsLayout(read, cseq, b), Rereading(read, cseq, b),
           TakeBody
    PROVE  Rereading(read, cseq, b)'
<1>0. kind = "message" /\ (stage = "body" \/ (stage = "fields" /\ At(position) = "eos"))
  BY DEF TakeBody
<1>1. /\ message = [line |-> read.line, fields |-> AllFields(read, cseq), body |-> <<>>]
      /\ tmpOut = 0 /\ length = 0 /\ outcome = "reading"
      /\ Part(position, Len(text) + 1) = read.body
  <2>1. CASE stage = "body"
    <3>1. /\ message = [line |-> read.line, fields |-> AllFields(read, cseq), body |-> <<>>]
          /\ tmpOut = 0 /\ length = 0 /\ outcome = "reading"
          /\ position = b[Len(Lines(read, cseq)) + 1] + 1 /\ read.body # <<>>
      BY <2>1 DEF Rereading
    <3>2. EndAt(read, b[Len(Lines(read, cseq)) + 1])
      BY LinesEnd
    <3> QED
      BY <3>1, <3>2 DEF EndAt
  <2>2. CASE stage = "fields" /\ At(position) = "eos"
    <3>1. PICK i : BeforeLine(read, cseq, b, i)
      BY <2>2, FieldsGo
    <3>2. /\ message = [line |-> read.line, fields |-> FirstFields(read, cseq, i),
                        body |-> <<>>]
          /\ i = Len(Lines(read, cseq)) /\ read.body = <<>>
          /\ tmpOut = 0 /\ length = 0 /\ outcome = "reading" /\ position = b[i + 1]
      BY <2>2, <3>1 DEF BeforeLine
    <3>3. FirstFields(read, cseq, i) = AllFields(read, cseq)
      BY <3>2, AllFieldsRead
    <3>4. position = Len(text) + 1
      BY <3>2, LinesEnd DEF EndAt
    <3>5. Part(position, Len(text) + 1) = <<>>
      <4>1. Len(text) + 1 \in Nat /\ 1 <= Len(text) + 1 /\ Len(text) + 1 <= Len(text) + 1
        BY LenProperties
      <4> QED
        BY <3>4, <4>1, PartIn
    <3> QED
      BY <3>2, <3>3, <3>5
  <2> QED
    BY <1>0, <2>1, <2>2
<1>2. CSeqName \in DOMAIN message.fields /\ message.fields[CSeqName] # <<>>
  <2>1. /\ CSeqName \in DOMAIN AllFields(read, cseq)
        /\ AllFields(read, cseq)[CSeqName] = Decimal[cseq]
    BY <1>0, SomeLine
  <2>2. cseq \in CSeq
    BY DEF Written
  <2>3. Decimal[cseq] # <<>>
    BY <2>2, DecimalShape, EmptySeq
  <2> QED
    BY <1>1, <2>1, <2>3
<1>3. Move(Len(text) + 1, "cseq", [message EXCEPT !.body = read.body])
  BY <1>1, <1>2 DEF TakeBody
<1>4. /\ UNCHANGED <<kind, text>> /\ stage' = "cseq"
      /\ message' = [line |-> read.line, fields |-> AllFields(read, cseq), body |-> read.body]
      /\ tmpOut' = 0 /\ length' = 0 /\ outcome' = "reading"
  BY <1>1, <1>3 DEF Move, inputVars, parserVars
<1>5. 0 <= Len(Decimal[cseq]) /\ DigitsRead(cseq, 0, 0)
  <2>1. cseq \in CSeq
    BY DEF Written
  <2>2. Len(Decimal[cseq]) \in Nat
    BY <2>1, DecimalShape
  <2>3. 0 \in CSeq
    BY ModulusAssumption DEF CSeq
  <2> QED
    BY <2>2, <2>3 DEF DigitsRead
<1> QED
  BY <1>4, <1>5, CSeqReread

\* A number is written in digits.
LEMMA DecimalDigits ==
    ASSUME NEW c \in CSeq, 0 < c, NEW l \in Nat, l < Len(Decimal[c])
    PROVE  Decimal[c][l + 1] \in ToSet(DigitSymbols)
<1>0. Decimal[c] \in Seq(TokenSymbols) /\ Len(Decimal[c]) \in Nat
  BY DecimalShape
<1>1. l + 1 \in 1..Len(Decimal[c])
  BY <1>0
<1>2. PICK s \in CSeq : 0 < s /\ Decimal[s] = SubSeq(Decimal[c], 1, l + 1)
  BY <1>1, DecimalPrefix
<1>3. \A i \in 1..(l + 1) : Decimal[c][i] \in TokenSymbols
  <2>1. \A i \in 1..(l + 1) : i \in 1..Len(Decimal[c])
    BY <1>0, <1>1
  <2> QED
    BY <1>0, <2>1, ElementOfSeq
<1>4. /\ Len(Decimal[s]) = l + 1 /\ Decimal[s][l + 1] = Decimal[c][l + 1]
  <2>1. /\ Len(SubSeq(Decimal[c], 1, l + 1)) = l + 1
        /\ \A i \in 1..(l + 1) : SubSeq(Decimal[c], 1, l + 1)[i] = Decimal[c][1 + i - 1]
    BY <1>3, SubSeqProperties
  <2>2. l + 1 \in 1..(l + 1) /\ 1 + (l + 1) - 1 = l + 1
    OBVIOUS
  <2> QED
    BY <1>2, <2>1, <2>2
<1>5. Decimal[s][Len(Decimal[s])] = LastDigit(s)
  <2>1. CASE s < 10
    <3>1. Decimal[s] = <<LastDigit(s)>> /\ Len(Decimal[s]) = 1
      BY <2>1, DecimalShape
    <3> QED
      BY <3>1
  <2>2. CASE ~(s < 10)
    <3>1. /\ Decimal[s] = Append(Decimal[Tenth(s)], LastDigit(s)) /\ Tenth(s) \in CSeq
          /\ Len(Decimal[s]) = Len(Decimal[Tenth(s)]) + 1 /\ Ones(s) \in 0..9
      BY <2>2, DecimalShape
    <3>2. Decimal[Tenth(s)] \in Seq(TokenSymbols)
      BY <3>1, DecimalShape
    <3>3. LastDigit(s) \in TokenSymbols
      BY <3>1, DigitsAreSymbols DEF LastDigit
    <3> DEFINE u == Decimal[Tenth(s)]  e == LastDigit(s)
    <3> HIDE DEF u, e
    <3>4. u \in Seq(TokenSymbols) /\ e \in TokenSymbols
      BY <3>2, <3>3 DEF u, e
    <3>5. Append(u, e)[Len(u) + 1] = e
      BY <3>4, AppendProperties
    <3> QED
      BY <3>1, <3>5 DEF u, e
  <2> QED
    BY <2>1, <2>2
<1>6. LastDigit(s) \in ToSet(DigitSymbols)
  <2>1. Ones(s) \in 0..9
    BY DecimalShape
  <2>2. Ones(s) + 1 \in DOMAIN DigitSymbols
    BY <2>1 DEF DigitSymbols
  <2> QED
    BY <2>2 DEF LastDigit, ToSet
<1> QED
  BY <1>4, <1>5, <1>6

\* The character that is read continues the number.
LEMMA DigitReread ==
    ASSUME NEW c \in CSeq, 0 < c, length \in Nat, length < Len(Decimal[c]),
           NEW l, l = length, NEW t, t = tmpOut, DigitsRead(c, l, t),
           NEW symbol, symbol = Decimal[c][l + 1],
           IF symbol \in ToSet(DigitSymbols) THEN ReadDigit(DigitValue(symbol)) ELSE ReadOther
    PROVE  /\ DigitsRead(c, l + 1, t * 10 + DigitValue(symbol))
           /\ length' = l + 1 /\ tmpOut' = t * 10 + DigitValue(symbol)
           /\ outcome' = "reading"
<1>1. symbol \in ToSet(DigitSymbols)
  BY DecimalDigits
<1>2. PICK d \in 0..9 : d = DigitValue(symbol) /\ DigitSymbols[d + 1] = symbol
  BY <1>1, DigitValueIs DEF Digit
<1>3. DigitsRead(c, l + 1, t * 10 + d)
  BY <1>2, NextDigit
<1>4. t \in CSeq /\ t * 10 + d \in CSeq
  BY <1>3 DEF DigitsRead
<1>5. PICK next : next = t * 10 + d
  OBVIOUS
<1>6. (t * 10 + d) % Modulus = next /\ t <= next
  <2>1. t \in Nat /\ next \in CSeq
    BY <1>4, <1>5 DEF CSeq
  <2>2. next % Modulus = next
    BY <2>1, ModulusAssumption DEF CSeq
  <2>3. t <= next
    BY <1>5, <2>1
  <2> QED
    BY <1>5, <2>2, <2>3
<1>7. ReadDigit(d)
  BY <1>1, <1>2
<1>8. length' = l + 1 /\ tmpOut' = next /\ outcome' = "reading"
  <2>1. t \in Nat /\ next \in Nat
    BY <1>4, <1>5 DEF CSeq
  <2>2. ~(t > next)
    BY <1>6, <2>1
  <2> QED
    BY <1>6, <1>7, <2>2 DEF ReadDigit
<1> QED
  BY <1>2, <1>3, <1>5, <1>8

\* ParseCSeq reads the number that was written: it never overflows, and is
\* not zero.
LEMMA ParseCSeqReread ==
    ASSUME RtspTypeOK, NEW read, NEW cseq, NEW b,
           Written(read, cseq), Rereading(read, cseq, b), kind = "message", ParseCSeq
    PROVE  Rereading(read, cseq, b)'
<1>1. PICK l, t : l = length /\ t = tmpOut
  OBVIOUS
<1>2. /\ stage = "cseq" /\ outcome = "reading" /\ length = l /\ tmpOut = t
      /\ UNCHANGED <<kind, text, stage, message>>
  BY <1>1 DEF ParseCSeq, inputVars
<1>3. /\ message = [line |-> read.line, fields |-> AllFields(read, cseq), body |-> read.body]
      /\ l <= Len(Decimal[cseq]) /\ DigitsRead(cseq, l, t)
  BY <1>2 DEF Rereading
<1>4. cseq \in CSeq /\ cseq # 0 /\ cseq \in Nat
  BY ModulusAssumption DEF Written, CSeq
<1>5. l \in Nat /\ Len(Decimal[cseq]) \in Nat \ {0} /\ Decimal[cseq] \in Seq(TokenSymbols)
  BY <1>2, <1>4, DecimalShape, MaxLengthAssumption DEF RtspTypeOK, ParserTypeOK
<1>6. message.fields[CSeqName] = Decimal[cseq]
  BY <1>3, SomeLine
<1>7. CASE l = Len(Decimal[cseq])
  <2>1. TokenEnd
    BY <1>2, <1>6, <1>7 DEF ParseCSeq
  <2>2. 0 < t /\ t \in CSeq /\ Decimal[t] = SubSeq(Decimal[cseq], 1, l)
    BY <1>3, <1>5, <1>7 DEF DigitsRead
  <2>3. SubSeq(Decimal[cseq], 1, l) = Decimal[cseq]
    BY <1>5, <1>7, SubSeqFull
  <2>4. t = cseq
    BY <1>4, <2>2, <2>3, DecimalInjective
  <2>5. length' = l /\ tmpOut' = t /\ outcome' = "accepted"
    BY <1>2, <1>4, <2>1, <2>4 DEF TokenEnd
  <2> QED
    BY <1>2, <1>3, <2>4, <2>5, CSeqReread
<1>8. CASE l < Len(Decimal[cseq])
  <2>1. PICK symbol : symbol = Decimal[cseq][l + 1]
    OBVIOUS
  <2>2. IF symbol \in ToSet(DigitSymbols) THEN ReadDigit(DigitValue(symbol)) ELSE ReadOther
    <3>1. l # Len(Decimal[cseq])
      BY <1>5, <1>8
    <3> QED
      BY <1>2, <1>6, <2>1, <3>1 DEF ParseCSeq
  <2>3. 0 < cseq
    BY <1>4
  <2>4. PICK next : next = t * 10 + DigitValue(symbol)
    OBVIOUS
  <2>5. /\ DigitsRead(cseq, l + 1, next)
        /\ length' = l + 1 /\ tmpOut' = next /\ outcome' = "reading"
    BY <1>2, <1>3, <1>4, <1>5, <1>8, <2>1, <2>2, <2>3, <2>4, DigitReread
  <2>6. l + 1 <= Len(Decimal[cseq])
    BY <1>5, <1>8
  <2>7. message' = [line |-> read.line, fields |-> AllFields(read, cseq), body |-> read.body]
    BY <1>2, <1>3
  <2>8. stage' = "cseq" /\ UNCHANGED <<kind, text>>
    BY <1>2
  <2>9. PICK m : m = l + 1
    OBVIOUS
  <2> QED
    BY <2>5, <2>6, <2>7, <2>8, <2>9, CSeqReread
<1> QED
  BY <1>3, <1>5, <1>7, <1>8

\* Without its CSeq the message is the one that was written.
LEMMA EraseReread ==
    ASSUME NEW read, NEW cseq, NEW b,
           Written(read, cseq), Rereading(read, cseq, b), kind = "message", EraseCSeq
    PROVE  Rereading(read, cseq, b)'
<1>1. stage = "cseq" /\ outcome # "reading"
  BY DEF EraseCSeq
<1>2. /\ message = [line |-> read.line, fields |-> AllFields(read, cseq), body |-> read.body]
      /\ outcome = "accepted" /\ tmpOut = cseq
  BY <1>1 DEF Rereading
<1>3. AllFields(read, cseq)
        = [name \in DOMAIN read.fields \cup {CSeqName} |->
             IF name = CSeqName THEN Decimal[cseq] ELSE read.fields[name]]
  BY DEF AllFields
<1>4. /\ CSeqName \notin DOMAIN read.fields
      /\ read.fields = [name \in DOMAIN read.fields |-> read.fields[name]]
      /\ read = [line |-> read.line, fields |-> read.fields, body |-> read.body]
  BY DEF Written
<1>5. [name \in DOMAIN AllFields(read, cseq) \ {CSeqName} |-> AllFields(read, cseq)[name]]
        = read.fields
  <2> DEFINE F == read.fields
  <2> HIDE DEF F
  <2>1. F = [name \in DOMAIN F |-> F[name]] /\ CSeqName \notin DOMAIN F
        /\ AllFields(read, cseq) = [name \in DOMAIN F \cup {CSeqName} |->
                                      IF name = CSeqName THEN Decimal[cseq] ELSE F[name]]
    BY <1>3, <1>4 DEF F
  <2>2. DOMAIN AllFields(read, cseq) \ {CSeqName} = DOMAIN F
    BY <2>1
  <2>3. \A name \in DOMAIN F : AllFields(read, cseq)[name] = F[name]
    BY <2>1
  <2> QED
    BY <2>1, <2>2, <2>3 DEF F
<1>6. [message EXCEPT !.fields = [name \in DOMAIN @ \ {CSeqName} |-> @[name]]]
        = [line |-> read.line, fields |-> read.fields, body |-> read.body]
  BY <1>2, <1>5
<1>7. stage' = "accepted" /\ message' = read /\ tmpOut' = cseq
  BY <1>2, <1>4, <1>6 DEF EraseCSeq, Move, parserVars
<1> QED
  BY <1>7 DEF Rereading

\* What is still read the same keeps RereadInv.
LEMMA RereadOn ==
    ASSUME UNCHANGED inputVars, NEW read, NEW cseq, NEW b,
           origin = {[message |-> read, cseq |-> cseq]},
           Written(read, cseq), IsLayout(read, cseq, b), Rereading(read, cseq, b)'
    PROVE  RereadInv'
<1>1. UNCHANGED <<kind, text>> /\ origin' = {[message |-> read, cseq |-> cseq]}
  BY DEF inputVars
<1>2. Written(read, cseq)' /\ IsLayout(read, cseq, b)'
  BY <1>1, SerialKept
<1> QED
  BY <1>1, <1>2 DEF RereadInv

\* When nothing happens nothing is read.
LEMMA RereadKept ==
    ASSUME UNCHANGED vars, NEW read, NEW cseq, NEW b, Rereading(read, cseq, b)
    PROVE  Rereading(read, cseq, b)'
<1>0. UNCHANGED <<kind, text, stage, position, message, length, tmpOut, outcome>>
  BY DEF vars, inputVars, parserVars
<1>1. PICK N, all : N = Len(Lines(read, cseq)) /\ all = AllFields(read, cseq)
  OBVIOUS
<1>2. /\ Len(Lines(read, cseq))' = N /\ AllFields(read, cseq)' = all
      /\ \A i : FirstFields(read, cseq, i)' = FirstFields(read, cseq, i)
  BY <1>0, <1>1, SerialKept
<1>3. \A l, t : DigitsRead(cseq, l, t)' = DigitsRead(cseq, l, t)
  BY DEF DigitsRead
<1>4. CASE stage = "fields"
  <2>1. PICK i \in 0..N :
          /\ position = b[i + 1]
          /\ message = [line |-> read.line, fields |-> FirstFields(read, cseq, i),
                        body |-> <<>>]
          /\ i = N => read.body = <<>>
    BY <1>1, <1>4 DEF Rereading
  <2>2. tmpOut' = 0 /\ length' = 0 /\ outcome' = "reading"
    BY <1>0, <1>4 DEF Rereading
  <2> QED
    BY <1>0, <1>1, <1>4, <2>1, <2>2, FieldsReread
<1>5. CASE stage = "body"
  BY <1>0, <1>5, BodyReread DEF Rereading
<1>6. CASE stage = "cseq"
  <2>1. PICK l, t : l = length /\ t = tmpOut
    OBVIOUS
  <2>2. /\ message = [line |-> read.line, fields |-> AllFields(read, cseq),
                      body |-> read.body]
        /\ l <= Len(Decimal[cseq]) /\ DigitsRead(cseq, l, t)
        /\ outcome = "reading" \/ (outcome = "accepted" /\ t = cseq)
    BY <1>6, <2>1 DEF Rereading
  <2> QED
    BY <1>0, <1>6, <2>1, <2>2, CSeqReread
<1>7. CASE stage \notin {"fields", "body", "cseq"}
  <2>1. Nothing' = Nothing
    BY DEF Nothing
  <2> QED
    BY <1>0, <1>7, <2>1 DEF Rereading
<1> QED
  BY <1>4, <1>5, <1>6, <1>7

\* Every step keeps RereadInv.
LEMMA RereadStep ==
    ASSUME RtspTypeOK, WritableInv, RereadInv, [RtspNext]_vars
    PROVE  RereadInv'
<1>1. CASE Serialize
  BY <1>1, SerializeReread
<1>2. CASE origin = {} /\ ~Serialize
  <2>1. origin' = origin
    BY <1>2 DEF RtspNext, vars, inputVars, Move, Refuse, ParseMethodLine, ParseStatusLine,
                ParseHeaderField, TakeBody, ParseCSeq, EraseCSeq, ParseParameter,
                ParseParameterName, ParametersEnd
  <2> QED
    BY <1>2, <2>1 DEF RereadInv
<1>3. CASE origin # {} /\ ~Serialize
  <2>1. PICK read, cseq, b :
          /\ origin = {[message |-> read, cseq |-> cseq]}
          /\ Written(read, cseq) /\ IsLayout(read, cseq, b) /\ Rereading(read, cseq, b)
    BY <1>3 DEF RereadInv
  <2>2. text \in Seq(Symbols)
    BY MessageTyped
  <2>3. kind # "names"
    BY <2>1 DEF Written
  <2>4. UNCHANGED inputVars
    BY <1>3 DEF RtspNext, vars, inputVars, Move, Refuse, ParseMethodLine, ParseStatusLine,
                ParseHeaderField, TakeBody, ParseCSeq, EraseCSeq, ParseParameter,
                ParseParameterName, ParametersEnd
  <2>5. CASE ParseMethodLine
    <3>1. StartReread(read, cseq, b)
      BY <2>1, <2>5 DEF StartReread, ParseMethodLine
    <3> QED
      BY <2>1, <2>2, <2>4, <2>5, <3>1, MethodLineReread, RereadOn
  <2>6. CASE ParseStatusLine
    <3>1. StartReread(read, cseq, b)
      BY <2>1, <2>6 DEF StartReread, ParseStatusLine
    <3> QED
      BY <2>1, <2>2, <2>4, <2>6, <3>1, StatusLineReread, RereadOn
  <2>7. CASE ParseHeaderField
    BY <2>1, <2>2, <2>4, <2>7, HeaderFieldReread, RereadOn
  <2>8. CASE TakeBody
    BY <2>1, <2>2, <2>4, <2>8, TakeBodyReread, RereadOn
  <2>9. ASSUME stage = "cseq"
        PROVE  kind = "message"
    <3>1. CASE kind = "parameters"
      BY <2>9, <3>1 DEF WritableInv
    <3> QED
      BY <2>1, <3>1 DEF Written
  <2>10. CASE ParseCSeq
    <3>1. kind = "message"
      BY <2>9, <2>10 DEF ParseCSeq
    <3> QED
      BY <2>1, <2>4, <2>10, <3>1, ParseCSeqReread, RereadOn
  <2>11. CASE EraseCSeq
    <3>1. kind = "message"
      BY <2>9, <2>11 DEF EraseCSeq
    <3> QED
      BY <2>1, <2>4, <2>11, <3>1, EraseReread, RereadOn
  <2>12. CASE ParseParameter
    BY <2>1, <2>2, <2>4, <2>12, ParameterReread, RereadOn
  <2>13. CASE ParseParameterName
    BY <2>3, <2>13 DEF ParseParameterName
  <2>14. CASE ParametersEnd
    BY <2>1, <2>2, <2>4, <2>14, ParametersEndReread, RereadOn
  <2>15. CASE UNCHANGED vars
    BY <2>1, <2>4, <2>15, RereadKept, RereadOn
  <2> QED
    BY <1>3, <2>5, <2>6, <2>7, <2>8, <2>10, <2>11, <2>12, <2>13, <2>14, <2>15 DEF RtspNext
<1> QED
  BY <1>1, <1>2, <1>3

\* At first nothing has been written.
LEMMA InitialReread == RtspInit => WritableInv /\ RereadInv
<1>1. RtspInit => RereadInv
  BY DEF RtspInit, RereadInv
<1>2. RtspInit => WritableInv
  <2>1. RtspInit => text \in Seq(Symbols) /\ kind \in {"message", "parameters", "names"}
    BY TextsAssumption DEF RtspInit
  <2> QED
    BY <2>1, InitialWritable DEF RtspInit, AtStart
<1> QED
  BY <1>1, <1>2

\* At the end what has been read is what was written.
LEMMA RereadIsRoundTrip == RereadInv => RoundTrip
<1> SUFFICES ASSUME RereadInv, origin # {}
             PROVE  stage # "refused" /\ (stage = "accepted" => origin = {Read})
  BY DEF RoundTrip
<1>1. PICK read, cseq, b :
        origin = {[message |-> read, cseq |-> cseq]} /\ Rereading(read, cseq, b)
  BY DEF RereadInv
<1>2. stage # "refused" /\ (stage = "accepted" => message = read /\ tmpOut = cseq)
  BY <1>1 DEF Rereading
<1> QED
  BY <1>1, <1>2 DEF Read

\* A message or a list of parameters that was read and written out again
\* (RtspSerialize.cpp) is accepted by the parser (RtspParser.cpp), which reads
\* exactly what was written: RoundTrip, for texts of every length and every
\* width of a CSeq, with status codes of 100 or more.
THEOREM ReadAgainTheSame == RtspSpec => []RoundTrip
<1> DEFINE IInv == RtspTypeOK /\ ExactInRange /\ WritableInv /\ RereadInv
<1>1. RtspInit => IInv
  BY TypeInit, InitialReread
<1>2. IInv /\ [RtspNext]_vars => IInv'
  BY TypeStep, WritableStep, RereadStep
<1>3. IInv => RoundTrip
  BY RereadIsRoundTrip
<1> QED
  BY <1>1, <1>2, <1>3, PTL DEF RtspSpec
=============================================================================
