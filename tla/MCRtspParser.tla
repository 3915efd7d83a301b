---------------------------- MODULE MCRtspParser ----------------------------
(***************************************************************************)
(* RtspParser on every short text, behind start lines and first fields     *)
(* that leave the rest to be read.                                         *)
(***************************************************************************)
EXTENDS RtspParserProps

CONSTANT MaxBlock   \* bound: symbols behind a start line or in a body

Request == <<"method", "sp", "7", "sp", "sp", "proto", "crlf">>
Response == <<"proto", "sp", "status", "sp", "7", "sp", ":", "crlf">>
Field(digits) == CSeqName \o <<":", "sp">> \o digits \o <<"crlf">>

\* Each with something missing or too much.
BrokenStarts == {
    <<>>,
    <<"method">>,
    <<"method", "sp", "7", "sp", "proto">>,
    <<"method", "7", "sp", "7", "sp", "proto", "crlf">>,
    <<"method", "sp", "proto", "crlf">>,
    <<"method", "sp", "7", "sp", "7", "crlf">>,
    <<"method", "sp", "7", "crlf", "sp", "proto", "crlf">>,
    <<"proto", "status", "sp", "7", "crlf">>,
    <<"proto", "sp", "7", "sp", "7", "crlf">>,
    <<"proto", "sp", "status", "sp", "crlf">>,
    <<"proto", "sp", "status", "7", "crlf">>,
    <<"method", "tab", "7", "tab", "sp", "proto", "crlf">>,
    <<"proto", "sp", "status", "sp", "7", "tab", "7", "crlf">>,
    <<"proto", "sp", "status", "sp", "7", "ctl", "crlf">>}

Blocks(symbols, n) == UNION {[1..k -> symbols] : k \in 0..n}
Common == {"7", ":", "sp", "crlf", "ctl"}

\* Shorter with tabs among them.
Texts == Blocks(Common, MaxBlock) \cup Blocks(Common \cup {"tab"}, MaxBlock - 1)

MCMessages ==
    {start \o block : start \in {Request, Response}, block \in Blocks(Common \cup {"cseq"}, MaxBlock - 1)}
    \cup {Request \o Field(<<"1">>) \o block : block \in Texts}
    \cup {Response \o Field(digits) : digits \in
            Blocks({"0", "1", "2", "7"}, 4) \cup [1..2 -> Common]}
    \cup {Request \o one \o other \o Field(<<"2">>) : one, other \in
            {<<name, ":">> \o value \o <<"crlf">> : name \in {"7", "cseq"},
                value \in Blocks({"7", "sp", "crlf"}, 3)}}
    \cup {start \o Field(<<"1">>) : start \in BrokenStarts}

MCBodies == Texts
=============================================================================
