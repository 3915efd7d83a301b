-------------------------- MODULE RtspParserProps --------------------------
(***************************************************************************)
(* What a text says, read by its lines instead of from left to right, and  *)
(* what RtspParser has to make of it.                                      *)
(***************************************************************************)
EXTENDS RtspParser

\* The start line is everything before the first line end.
FirstLineEnd == Min({p \in 1..Len(text) : text[p] = "crlf"} \cup {Len(text) + 1})
FieldsStart == FirstLineEnd + 1

BlankBetween(first, end) == first < end /\ \A p \in first..(end - 1) : At(p) \in Blank

\* A word of the start line, from first up to end: the uri of a request.
IsUri(first, end) ==
    /\ At(1) = "method"
    /\ BlankBetween(2, first)
    /\ first < end /\ \A p \in first..(end - 1) : At(p) \notin Blank \cup Control
    /\ BlankBetween(end, FirstLineEnd - 1)
    /\ At(FirstLineEnd - 1) = "proto"

\* The reason phrase of a response, which may hold blanks but no tab.
IsPhrase(first, end) ==
    /\ At(1) = "proto"
    /\ \E status \in 3..(first - 2) :
        /\ BlankBetween(2, status)
        /\ At(status) = "status"
        /\ BlankBetween(status + 1, first)
    /\ first < end /\ end = FirstLineEnd
    /\ At(first) \notin Blank
    /\ \A p \in first..(end - 1) : At(p) \notin Control

\* A line end that white space follows folds the line.
LineEnds == {p \in FieldsStart..Len(text) : At(p) = "crlf" /\ At(p + 1) \notin Blank}

\* The blank line, and nothing else, ends the header.
BlankLines == {p \in 1..Len(text) : At(p) = "crlf" /\ p - 1 \in LineEnds}

HeaderEnd == IF BlankLines = {} THEN Len(text) ELSE Min(BlankLines) - 1

HeaderLineEnds == {p \in LineEnds : p <= HeaderEnd}

\* Where the line begins that ends there, and the colon after its name.
LineStart(end) == 1 + Max({FieldsStart - 1} \cup {p \in LineEnds : p < end})
Colon(end) == Min({p \in LineStart(end)..(end - 1) : At(p) = ":"} \cup {end})

NameOf(end) == Part(LineStart(end), Colon(end))

\* A name of token symbols and a colon; no control character but those that
\* fold the line or come before the value.
IsField(end) ==
    /\ LineStart(end) < Colon(end) /\ Colon(end) < end
    /\ \A p \in LineStart(end)..(Colon(end) - 1) : At(p) \in TokenSymbols
    /\ \A p \in Colon(end)..(end - 1) :
        /\ At(p) # "ctl"
        /\ At(p) = "tab" =>
            \E before \in Colon(end)..(p - 1) :
                /\ before = Colon(end) \/ At(before) = "crlf"
                /\ BlankBetween(before + 1, p + 1)

\* What comes after the colon, but for the white space it begins with.
IsValueOf(value, end) ==
    \E first \in (Colon(end) + 1)..end :
        /\ value = Part(first, end)
        /\ At(first) \notin Blank
        /\ \A p \in (Colon(end) + 1)..(first - 1) : At(p) \in Blank \cup {"crlf"}

\* The first of the lines with this name.
LineOf(name) == Min({end \in HeaderLineEnds : NameOf(end) = name})

\* A start line, fields up to the blank line or the end, a CSeq among them.
IsMessage ==
    /\ At(FirstLineEnd) = "crlf"
    /\ \E first, end \in 1..FirstLineEnd : IsUri(first, end) \/ IsPhrase(first, end)
    /\ HeaderEnd \in LineEnds
    /\ \A end \in HeaderLineEnds : IsField(end)
    /\ \E end \in HeaderLineEnds : NameOf(end) = CSeqName

-----------------------------------------------------------------------------
\* A message is accepted if its lines make one, whatever is folded, empty or
\* blank (289-323, 359-369); the fields are those of the lines, the first
\* of a name, the body is what follows the blank line, and only a CSeq that is
\* not a number is refused beyond that.
ReadAsWritten ==
    kind = "message" =>
        /\ stage = "accepted" =>
            /\ IsMessage
            /\ \E first, end \in 1..FirstLineEnd :
                /\ IsUri(first, end) \/ IsPhrase(first, end)
                /\ message.line = Part(first, end)
            /\ DOMAIN message.fields = {NameOf(end) : end \in HeaderLineEnds} \ {CSeqName}
            /\ \A name \in DOMAIN message.fields :
                IsValueOf(message.fields[name], LineOf(name))
            /\ message.body = Part(HeaderEnd + 2, Len(text) + 1)
        /\ stage = "refused" /\ IsMessage =>
            \/ outcome # "reading"
            \/ IsValueOf(<<>>, LineOf(CSeqName))

\* Whatever was read from a message or from parameters, and serialized
\* (RtspSerialize.cpp 29-108), is read back the same: line, CSeq, fields with
\* empty and folded values, a body that begins with a line end or a space. A
\* status code below 100, which would be written as 100, is no symbol of a text.
RoundTrip ==
    origin # {} =>
        /\ stage # "refused"
        /\ stage = "accepted" => origin = {Read}

-----------------------------------------------------------------------------
(* The inductive invariant.                                                *)

\* The words and fields of a message are made of symbols.
RtspTypeOK ==
    /\ kind \in {"message", "parameters", "names"}
    /\ text \in Seq(Symbols)
    /\ position \in 1..(Len(text) + 1)
    /\ stage \in {"start", "fields", "body", "cseq", "accepted", "refused"}
    /\ message = [line |-> message.line, fields |-> message.fields, body |-> message.body]
    /\ message.line \in Seq(Symbols)
    /\ message.body \in Seq(Symbols)
    /\ message.fields \in [DOMAIN message.fields -> Seq(Symbols)]
    /\ DOMAIN message.fields \subseteq Seq(Symbols)
    /\ IsFiniteSet(DOMAIN message.fields)
    /\ ParserTypeOK

StartRead ==
    /\ At(FirstLineEnd) = "crlf"
    /\ \E first, end \in 1..FirstLineEnd :
        /\ IsUri(first, end) \/ IsPhrase(first, end)
        /\ message.line = Part(first, end)

\* The fields are those of the lines that end before q.
ReadBefore(fields, q) ==
    LET ends == {end \in LineEnds : end < q} IN
    /\ \A end \in ends : IsField(end)
    /\ DOMAIN fields = {NameOf(end) : end \in ends}
    /\ \A name \in DOMAIN fields :
        IsValueOf(fields[name], Min({end \in ends : NameOf(end) = name}))

\* The scan stands between two lines of the header, or behind it.
ScanInv ==
    kind = "message" =>
        /\ stage = "start" => position = 1 /\ message = Nothing
        /\ stage \in {"start", "fields", "body"} => outcome = "reading"
        /\ stage \in {"fields", "body", "cseq"} => StartRead
        /\ stage = "fields" =>
            /\ ReadBefore(message.fields, position)
            /\ position = FieldsStart \/ position - 1 \in LineEnds
            /\ \A p \in BlankLines : position < p
        /\ stage = "body" =>
            /\ ReadBefore(message.fields, position - 1)
            /\ position - 1 \in BlankLines
            /\ \A p \in BlankLines : position - 1 <= p
        /\ stage = "cseq" =>
            /\ HeaderEnd \in LineEnds
            /\ ReadBefore(message.fields, HeaderEnd + 1)
            /\ CSeqName \in DOMAIN message.fields
            /\ message.body = Part(HeaderEnd + 2, Len(text) + 1)
=============================================================================
