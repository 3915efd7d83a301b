----------------------------- MODULE RtspParser -----------------------------
(***************************************************************************)
(* RtspParser.cpp reading a message or the parameters of a body, one       *)
(* header field or parameter a step, and RtspSerialize.cpp writing what    *)
(* was read out again. A text is a sequence of symbols: CR LF is one, any  *)
(* other control character is "ctl" (a tab, which is white space as well,  *)
(* is "tab"), and words nothing looks into ("OPTIONS", "WEBRTSP/0.2", a    *)
(* status code of 100 or more, "CSeq" in any case) are one symbol each.    *)
(***************************************************************************)
EXTENDS CSeqParser, FiniteSets, SequencesExt

CONSTANTS
    Messages,   \* the texts of messages to read
    Bodies      \* the bodies to read as parameters or as names

VARIABLES
    kind,       \* "message", "parameters" or "names"
    text,       \* what is read
    position,   \* where the next symbol is
    stage,      \* "start", "fields", "body", "cseq", "accepted" or "refused"
    message,    \* what has been read: the uri or phrase, the fields, the body
    origin      \* history: {what the text was serialized from}, if it was

inputVars == <<kind, text, origin>>
vars == <<inputVars, position, stage, message, parserVars>>

DigitSymbols == <<"0", "1", "2", "3", "4", "5", "6", "7", "8", "9">>
DigitValue(symbol) == CHOOSE digit \in Digit : DigitSymbols[digit + 1] = symbol

\* Neither control characters nor tspecials.
TokenSymbols == ToSet(DigitSymbols) \cup {"cseq", "method", "status"}
Blank == {"sp", "tab"}
Symbols == TokenSymbols \cup Blank \cup {"proto", ":", "crlf", "ctl"}
Control == {"tab", "crlf", "ctl"}

ASSUME TextsAssumption == Messages \subseteq Seq(Symbols) /\ Bodies \subseteq Seq(Symbols)

CSeqName == <<"cseq">>
Nothing == [line |-> <<>>, fields |-> <<>>, body |-> <<>>]
Read == [message |-> message, cseq |-> tmpOut]

-----------------------------------------------------------------------------
At(p) == IF p \in DOMAIN text THEN text[p] ELSE "eos"
Part(first, end) == SubSeq(text, first, end - 1)

\* The first position from p on that holds none of these symbols.
SkipAll(p, symbols) ==
    CHOOSE q \in p..(Len(text) + 1) :
        At(q) \notin symbols /\ \A r \in p..(q - 1) : At(r) \in symbols

SkipWSP(p) == SkipAll(p, Blank)
GetToken(p) == SkipAll(p, TokenSymbols)
GetURI(p) == SkipAll(p, Symbols \ (Control \cup {"sp"}))
GetReasonPhrase(p) == SkipAll(p, Symbols \ Control)
SkipNotColon(p) == SkipAll(p, Symbols \ {":"})

SkipEOL(p) == IF At(p) = "crlf" THEN p + 1 ELSE p

SkipLWS(p) == IF At(SkipEOL(p)) \in Blank THEN SkipWSP(SkipEOL(p)) ELSE p

\* Slip: a folded line ends the value.
ValueEndUnfolded(p) == SkipAll(p, Symbols \ Control)

\* A folded line end, or white space that follows one.
Folded(p, r) ==
    \E f \in p..r :
        /\ At(f) = "crlf"
        /\ At(f + 1) \in Blank
        /\ \A g \in (f + 1)..r : At(g) \in Blank

\* Where a field's value stops: at a line end that folds nothing, or where
\* it fails.
ValueEnd(p) ==
    CHOOSE q \in p..(Len(text) + 1) :
        LET inside(r) == Folded(p, r) \/ At(r) \in Symbols \ Control
        IN ~inside(q) /\ \A r \in p..(q - 1) : inside(r)

\* std::map::emplace: the first value of a name stays.
emplace(name, value) ==
    IF name \in DOMAIN message.fields
    THEN message
    ELSE [message EXCEPT !.fields =
            [n \in DOMAIN @ \cup {name} |-> IF n = name THEN value ELSE @[n]]]

Refuse ==
    /\ stage' = "refused"
    /\ UNCHANGED <<inputVars, position, message, parserVars>>

Move(to, next, read) ==
    /\ stage' = next
    /\ position' = to
    /\ message' = read
    /\ UNCHANGED <<inputVars, parserVars>>

-----------------------------------------------------------------------------
IsRequest == At(1) = "method" /\ At(2) \notin TokenSymbols

ParseMethodLine ==
    LET uri == SkipWSP(2)
        uriEnd == GetURI(uri)
        protocol == SkipWSP(uriEnd)
    IN
    /\ stage = "start"
    /\ kind = "message"
    /\ IsRequest
    /\ IF /\ 2 < uri /\ uri < uriEnd /\ uriEnd < protocol
          /\ At(protocol) = "proto"
          /\ At(protocol + 1) = "crlf"
       THEN Move(protocol + 2, "fields", [message EXCEPT !.line = Part(uri, uriEnd)])
       ELSE Refuse

ParseStatusLine ==
    LET status == SkipWSP(2)
        phrase == SkipWSP(status + 1)
        phraseEnd == GetReasonPhrase(phrase)
    IN
    /\ stage = "start"
    /\ kind = "message"
    /\ ~IsRequest
    /\ IF /\ At(1) = "proto"
          /\ 2 < status /\ At(status) = "status"
          /\ status + 1 < phrase /\ phrase < phraseEnd
          /\ At(phraseEnd) = "crlf"
       THEN Move(phraseEnd + 1, "fields",
                 [message EXCEPT !.line = Part(phrase, phraseEnd)])
       ELSE Refuse

\* ParseHeaderField, and the test for the blank line that follows it.
ParseHeaderField ==
    LET nameEnd == GetToken(position)
        value == SkipLWS(nameEnd + 1)
        valueEnd == ValueEnd(value)
        next == SkipEOL(valueEnd + 1)
    IN
    /\ stage = "fields"
    /\ kind = "message"
    /\ At(position) # "eos"
    /\ IF position < nameEnd /\ At(nameEnd) = ":" /\ At(valueEnd) = "crlf"
       THEN Move(next, IF next = valueEnd + 1 THEN "fields" ELSE "body",
                 emplace(Part(position, nameEnd), Part(value, valueEnd)))
       ELSE Refuse

\* The rest is the body; there has to be a CSeq.
TakeBody ==
    /\ kind = "message"
    /\ stage = "body" \/ (stage = "fields" /\ At(position) = "eos")
    /\ IF CSeqName \in DOMAIN message.fields /\ message.fields[CSeqName] # <<>>
       THEN Move(Len(text) + 1, "cseq",
                 [message EXCEPT !.body = Part(position, Len(text) + 1)])
       ELSE Refuse

\* ParseCSeq, one character of the field's value a step.
ParseCSeq ==
    LET value == message.fields[CSeqName]
        symbol == value[length + 1]
    IN
    /\ stage = "cseq"
    /\ outcome = "reading"
    /\ IF length = Len(value) THEN TokenEnd
       ELSE IF symbol \in ToSet(DigitSymbols) THEN ReadDigit(DigitValue(symbol))
       ELSE ReadOther
    /\ UNCHANGED <<inputVars, position, stage, message>>

\* The end of ParseRequest and ParseResponse: the CSeq leaves the fields.
EraseCSeq ==
    /\ stage = "cseq"
    /\ outcome # "reading"
    /\ IF outcome = "accepted"
       THEN Move(position, "accepted", [message EXCEPT !.fields =
                [name \in DOMAIN @ \ {CSeqName} |-> @[name]]])
       ELSE Refuse

\* One round of ParseParameters.
ParseParameter ==
    LET nameEnd == SkipNotColon(position)
        value == SkipWSP(nameEnd + 1)
        valueEnd == GetReasonPhrase(value)
    IN
    /\ stage = "fields"
    /\ kind = "parameters"
    /\ At(position) # "eos"
    /\ IF position < nameEnd /\ At(nameEnd) = ":" /\ At(valueEnd) = "crlf"
       THEN Move(valueEnd + 1, "fields",
                 emplace(Part(position, nameEnd), Part(value, valueEnd)))
       ELSE Refuse

\* One round of ParseParametersNames.
ParseParameterName ==
    LET nameEnd == GetToken(position) IN
    /\ stage = "fields"
    /\ kind = "names"
    /\ At(position) # "eos"
    /\ IF position < nameEnd /\ At(nameEnd) = "crlf"
       THEN Move(nameEnd + 1, "fields", emplace(Part(position, nameEnd), <<>>))
       ELSE Refuse

ParametersEnd ==
    /\ stage = "fields"
    /\ kind # "message"
    /\ At(position) = "eos"
    /\ Move(position, "accepted", message)

-----------------------------------------------------------------------------
\* std::to_string.
Decimal[number \in CSeq] ==
    IF number < 10 THEN <<DigitSymbols[number + 1]>>
    ELSE Append(Decimal[number \div 10], DigitSymbols[(number % 10) + 1])

FieldLine(name, value) == name \o <<":", "sp">> \o value \o <<"crlf">>

\* The fields of a message, after its CSeq.
Lines(read, cseq) ==
    LET names == SetToSeq(DOMAIN read.fields)
        fields == [i \in DOMAIN names |-> FieldLine(names[i], read.fields[names[i]])]
    IN  IF kind = "parameters" THEN fields
        ELSE <<FieldLine(CSeqName, Decimal[cseq])>> \o fields

Start(read) ==
    IF kind = "parameters" THEN <<>>
    ELSE IF IsRequest
    THEN <<"method", "sp">> \o read.line \o <<"sp", "proto", "crlf">>
    ELSE <<"proto", "sp", "status", "sp">> \o read.line \o <<"crlf">>

\* Slip: the blank line is forgotten.
SerializedWithoutBlank(read, cseq) ==
    Start(read) \o FlattenSeq(Lines(read, cseq)) \o read.body

Serialized(read, cseq) ==
    Start(read) \o FlattenSeq(Lines(read, cseq))
        \o (IF read.body = <<>> THEN <<>> ELSE <<"crlf">> \o read.body)

FirstStage == IF kind = "message" THEN "start" ELSE "fields"

\* What has been read is written, and it is read again.
Serialize ==
    /\ stage = "accepted"
    /\ origin = {}
    /\ kind # "names"
    /\ text' = Serialized(message, tmpOut)
    /\ origin' = {Read}
    /\ position' = 1
    /\ stage' = FirstStage
    /\ message' = Nothing
    /\ written' = 0 /\ length' = 0 /\ tmpOut' = 0 /\ outcome' = "reading"
    /\ UNCHANGED kind

RtspInit ==
    /\ \/ kind = "message" /\ text \in Messages
       \/ kind \in {"parameters", "names"} /\ text \in Bodies
    /\ origin = {}
    /\ position = 1
    /\ stage = FirstStage
    /\ message = Nothing
    /\ ParserInit

RtspNext ==
    \/ ParseMethodLine
    \/ ParseStatusLine
    \/ ParseHeaderField
    \/ TakeBody
    \/ ParseCSeq
    \/ EraseCSeq
    \/ ParseParameter
    \/ ParseParameterName
    \/ ParametersEnd
    \/ Serialize

RtspSpec == RtspInit /\ [][RtspNext]_vars
=============================================================================
