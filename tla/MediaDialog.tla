----------------------------- MODULE MediaDialog -----------------------------
(***************************************************************************)
(* What a WebRTSP server promises the client at the other end of one       *)
(* connection, without saying how: each request is answered at most once,  *)
(* a media session is announced before anything is said in it, the         *)
(* candidates of its peer arrive in the order they were gathered with none *)
(* missing or repeated, and once the session has ended nothing more is     *)
(* said in it.  Ids are never reused.                                      *)
(***************************************************************************)
EXTENDS Naturals, Sequences

CONSTANTS MaxSessions, MaxRequests, MaxCandidates

VARIABLES
    answers,    \* answers[c]: how often the client's request c was answered
    phase,      \* phase[s]: "unknown", "announced" or "ended"
    relayed     \* relayed[s]: the candidates of s sent so far

dialogVars == <<answers, phase, relayed>>

DialogInit ==
    /\ answers = [c \in 1..MaxRequests |-> 0]
    /\ phase = [s \in 1..MaxSessions |-> "unknown"]
    /\ relayed = [s \in 1..MaxSessions |-> <<>>]

AnswerOnce(c) ==
    /\ answers[c] = 0
    /\ answers' = [answers EXCEPT ![c] = 1]

\* A request is answered on its own, or the step answers none.
AnswerOneOrNone ==
    \/ UNCHANGED answers
    \/ \E c \in 1..MaxRequests : AnswerOnce(c)

\* The next batch of candidates, possibly empty, continues the order.
RelayBatch(s) ==
    \E n \in Len(relayed[s])..MaxCandidates :
        relayed' = [relayed EXCEPT ![s] = [i \in 1..n |-> i]]

Announce(s) ==
    /\ phase[s] = "unknown"
    /\ phase' = [phase EXCEPT ![s] = "announced"]
    /\ RelayBatch(s)
    /\ AnswerOneOrNone

Relay(s) ==
    /\ phase[s] = "announced"
    /\ RelayBatch(s)
    /\ UNCHANGED <<answers, phase>>

\* Torn down after its announcement, or refused before it.
End(s) ==
    /\ phase[s] \in {"unknown", "announced"}
    /\ phase' = [phase EXCEPT ![s] = "ended"]
    /\ AnswerOneOrNone
    /\ UNCHANGED relayed

Answer ==
    /\ \E c \in 1..MaxRequests : AnswerOnce(c)
    /\ UNCHANGED <<phase, relayed>>

DialogNext ==
    \/ Answer
    \/ \E s \in 1..MaxSessions : Announce(s) \/ Relay(s) \/ End(s)

DialogSpec == DialogInit /\ [][DialogNext]_dialogVars
=============================================================================
