--------------------------- MODULE CSeqPoolProofs ---------------------------
(***************************************************************************)
(* Requests and responses are matched right across any number of wraps of  *)
(* _nextCSeq, whatever the width of a CSeq and the order of the answers.   *)
(***************************************************************************)
EXTENDS CSeqPool, TLAPS

LEMMA WrapInRange ==
    ASSUME NEW x \in Nat
    PROVE  x % Modulus \in CSeq
BY PoolAssumption DEF CSeq

LEMMA WrapOfSmall ==
    ASSUME NEW x \in Nat, x < Modulus
    PROVE  x % Modulus = x
BY PoolAssumption

LEMMA PoolInitInv == PoolInit => PoolInv
<1> SUFFICES ASSUME PoolInit PROVE PoolInv
  OBVIOUS
<1>1. nextCSeq \in CSeq
  BY WrapInRange DEF PoolInit
<1>2. DOMAIN sentRequests = {}
  BY DEF PoolInit
<1>3. PoolTypeOK
  BY <1>1, <1>2 DEF PoolInit, PoolTypeOK
<1>4. MatchInv
  BY DEF PoolInit, MatchInv
<1>5. FirstRoundInv
  BY <1>2 DEF PoolInit, FirstRoundInv
<1> QED
  BY <1>3, <1>4, <1>5 DEF PoolInv

-----------------------------------------------------------------------------
\* The loop of createRequest ends at a CSeq that no unanswered request has;
\* before the wrap it is the next one.
LEMMA CreateGivesUnused ==
    ASSUME PoolInv, createRequest
    PROVE  \E c \in CSeq :
              /\ ~InUse(c)
              /\ Enter(c)
              /\ issued + 1 < Modulus => c = issued + 1
<1>1. PICK skipped \in 0..(Modulus - 1) :
         /\ ~InUse((nextCSeq + skipped) % Modulus)
         /\ \A n \in 0..(skipped - 1) : InUse((nextCSeq + n) % Modulus)
         /\ Enter((nextCSeq + skipped) % Modulus)
  BY DEF createRequest
<1>2. nextCSeq \in Nat /\ issued \in Nat /\ skipped \in Nat
  BY PoolAssumption DEF PoolInv, PoolTypeOK, CSeq
<1> DEFINE c == (nextCSeq + skipped) % Modulus
<1>3. c \in CSeq
  BY <1>2, WrapInRange
<1>4. ASSUME issued + 1 < Modulus
      PROVE  c = issued + 1
  <2>1. issued < Modulus
    BY <1>2, <1>4, PoolAssumption
  <2>2. nextCSeq = (issued + 1) % Modulus /\ DOMAIN sentRequests \subseteq 1..issued
    BY <2>1 DEF PoolInv, FirstRoundInv
  <2>3. nextCSeq = issued + 1
    BY <1>2, <1>4, <2>2, WrapOfSmall
  <2>4. (nextCSeq + 0) % Modulus = issued + 1
    BY <1>2, <1>4, <2>3, WrapOfSmall
  <2>5. ~InUse(issued + 1)
    BY <1>2, <2>2 DEF InUse
  <2>6. skipped = 0
    BY <1>1, <1>2, <2>4, <2>5
  <2> QED
    BY <2>4, <2>6
<1> QED
  BY <1>1, <1>3, <1>4

LEMMA CreateKeeps ==
    ASSUME PoolInv, createRequest
    PROVE  PoolInv'
<1>1. PICK c \in CSeq :
         /\ ~InUse(c)
         /\ Enter(c)
         /\ issued + 1 < Modulus => c = issued + 1
  BY CreateGivesUnused
<1> DEFINE new == [kind |-> "request", cseq |-> c, serial |-> issued + 1]
<1>2. /\ sentRequests' = [d \in DOMAIN sentRequests \cup {c} |->
                             IF d = c THEN issued + 1 ELSE sentRequests[d]]
      /\ transit' = transit \cup {new}
      /\ issued' = issued + 1
      /\ nextCSeq' = (c + 1) % Modulus
      /\ connection' = connection
  BY <1>1 DEF Enter
<1>3. c \in Nat /\ issued \in Nat
  BY PoolAssumption DEF PoolInv, PoolTypeOK, CSeq
<1>4. new \in Message /\ new.cseq = c /\ new.serial = issued + 1
  BY <1>3 DEF Message
<1>5. \A m \in transit : InUse(m.cseq) /\ sentRequests[m.cseq] = m.serial /\ m.cseq # c
  BY <1>1 DEF PoolInv, MatchInv
<1> HIDE DEF new
<1>6. PoolTypeOK'
  <2>1. nextCSeq' \in CSeq
    BY <1>2, <1>3, WrapInRange
  <2>2. DOMAIN sentRequests' \subseteq CSeq
    BY <1>2 DEF PoolInv, PoolTypeOK
  <2>3. \A d \in DOMAIN sentRequests' : sentRequests'[d] \in Nat
    BY <1>2, <1>3 DEF PoolInv, PoolTypeOK
  <2>4. issued' \in Nat
    BY <1>2, <1>3
  <2>5. transit' \subseteq Message
    BY <1>2, <1>4 DEF PoolInv, PoolTypeOK
  <2>6. connection' \in {"up", "rejected", "failed"}
    BY <1>2 DEF PoolInv, PoolTypeOK
  <2> QED
    BY <2>1, <2>2, <2>3, <2>4, <2>5, <2>6 DEF PoolTypeOK
<1>7. MatchInv'
  <2>1. \A m \in transit' : InUse(m.cseq)' /\ sentRequests'[m.cseq] = m.serial
    BY <1>2, <1>4, <1>5 DEF InUse
  <2>2. \A m, n \in transit' : m.cseq = n.cseq => m = n
    BY <1>2, <1>4, <1>5 DEF PoolInv, MatchInv
  <2>3. connection' # "failed"
    BY <1>2 DEF PoolInv, MatchInv
  <2> QED
    BY <2>1, <2>2, <2>3 DEF MatchInv
<1>8. FirstRoundInv'
  <2>1. ASSUME issued' < Modulus
        PROVE  /\ nextCSeq' = (issued' + 1) % Modulus
               /\ DOMAIN sentRequests' \subseteq 1..issued'
    <3>1. issued + 1 < Modulus /\ issued < Modulus
      BY <1>2, <1>3, <2>1, PoolAssumption
    <3>2. c = issued + 1
      BY <1>1, <3>1
    <3>3. DOMAIN sentRequests \subseteq 1..issued
      BY <3>1 DEF PoolInv, FirstRoundInv
    <3>4. DOMAIN sentRequests' = DOMAIN sentRequests \cup {c}
      BY <1>2
    <3>5. DOMAIN sentRequests' \subseteq 1..(issued + 1)
      BY <1>3, <3>2, <3>3, <3>4
    <3> QED
      BY <1>2, <3>2, <3>5
  <2>2. connection' = "rejected" => issued' >= Modulus
    BY <1>2, <1>3, PoolAssumption DEF PoolInv, FirstRoundInv
  <2> QED
    BY <2>1, <2>2 DEF FirstRoundInv
<1> QED
  BY <1>6, <1>7, <1>8 DEF PoolInv

-----------------------------------------------------------------------------
LEMMA AnswerKeeps ==
    ASSUME PoolInv, NEW m \in transit, Answer(m)
    PROVE  PoolInv'
<1>1. m \in Message /\ InUse(m.cseq) /\ issued \in Nat
  BY DEF PoolInv, PoolTypeOK, MatchInv
<1>2. nextCSeq' = nextCSeq /\ issued' = issued
  BY DEF Answer
<1>3. CASE m.cseq = InvalidCSeq
  <2>1. connection' = "rejected" /\ transit' = {} /\ sentRequests' = <<>>
    BY <1>3 DEF Answer
  <2>2. DOMAIN sentRequests' = {}
    BY <2>1
  <2>3. issued >= Modulus
    <3>1. ~(issued < Modulus)
      BY <1>1, <1>3 DEF PoolInv, FirstRoundInv, InUse, InvalidCSeq
    <3> QED
      BY <1>1, <3>1, PoolAssumption
  <2>4. PoolTypeOK'
    BY <1>2, <2>1, <2>2 DEF PoolInv, PoolTypeOK
  <2>5. MatchInv'
    BY <2>1 DEF MatchInv
  <2>6. FirstRoundInv'
    BY <1>1, <1>2, <2>2, <2>3, PoolAssumption DEF FirstRoundInv
  <2> QED
    BY <2>4, <2>5, <2>6 DEF PoolInv
<1>4. CASE m.cseq # InvalidCSeq
  <2> DEFINE answer == [m EXCEPT !.kind = "response"]
  <2>1. /\ transit' = (transit \ {m}) \cup {answer}
        /\ connection' = connection
        /\ sentRequests' = sentRequests
    BY <1>4 DEF Answer
  <2>2. answer \in Message /\ answer.cseq = m.cseq /\ answer.serial = m.serial
    BY <1>1 DEF Message
  <2> HIDE DEF answer
  <2>3. PoolTypeOK'
    BY <1>2, <2>1, <2>2 DEF PoolInv, PoolTypeOK
  <2>4. MatchInv'
    <3>1. \A n \in transit \ {m} : n.cseq # m.cseq
      BY DEF PoolInv, MatchInv
    <3>2. \A n \in transit' : InUse(n.cseq)' /\ sentRequests'[n.cseq] = n.serial
      BY <2>1, <2>2 DEF PoolInv, MatchInv, InUse
    <3>3. \A n, o \in transit' : n.cseq = o.cseq => n = o
      BY <2>1, <2>2, <3>1 DEF PoolInv, MatchInv
    <3> QED
      BY <2>1, <3>2, <3>3 DEF PoolInv, MatchInv
  <2>5. FirstRoundInv'
    BY <1>2, <2>1 DEF PoolInv, FirstRoundInv
  <2> QED
    BY <2>3, <2>4, <2>5 DEF PoolInv
<1> QED
  BY <1>3, <1>4

LEMMA ResponseKeeps ==
    ASSUME PoolInv, NEW m \in transit, handleResponse(m)
    PROVE  PoolInv'
<1>1. InUse(m.cseq)
  BY DEF PoolInv, MatchInv
<1>2. /\ transit' = transit \ {m}
      /\ sentRequests' = [c \in DOMAIN sentRequests \ {m.cseq} |-> sentRequests[c]]
      /\ connection' = connection
      /\ nextCSeq' = nextCSeq
      /\ issued' = issued
  BY <1>1 DEF handleResponse
<1>3. DOMAIN sentRequests' = DOMAIN sentRequests \ {m.cseq}
  BY <1>2
<1>4. \A c \in DOMAIN sentRequests' : sentRequests'[c] = sentRequests[c]
  BY <1>2
<1>5. PoolTypeOK'
  BY <1>2, <1>3, <1>4 DEF PoolInv, PoolTypeOK
<1>6. MatchInv'
  <2>1. \A n \in transit' : n.cseq # m.cseq
    BY <1>2 DEF PoolInv, MatchInv
  <2>2. \A n \in transit' : InUse(n.cseq)' /\ sentRequests'[n.cseq] = n.serial
    BY <1>2, <1>3, <1>4, <2>1 DEF PoolInv, MatchInv, InUse
  <2> QED
    BY <1>2, <2>2 DEF PoolInv, MatchInv
<1>7. FirstRoundInv'
  BY <1>2, <1>3 DEF PoolInv, FirstRoundInv
<1> QED
  BY <1>5, <1>6, <1>7 DEF PoolInv

-----------------------------------------------------------------------------
THEOREM PoolInvariant == PoolSpec => []PoolInv
<1>1. PoolInit => PoolInv
  BY PoolInitInv
<1>2. PoolInv /\ [PoolNext]_poolVars => PoolInv'
  <2> SUFFICES ASSUME PoolInv, [PoolNext]_poolVars PROVE PoolInv'
    OBVIOUS
  <2>1. CASE createRequest
    BY <2>1, CreateKeeps
  <2>2. CASE \E m \in transit : Answer(m)
    BY <2>2, AnswerKeeps
  <2>3. CASE \E m \in transit : handleResponse(m)
    BY <2>3, ResponseKeeps
  <2>4. CASE UNCHANGED poolVars
    BY <2>4 DEF poolVars, PoolInv, PoolTypeOK, MatchInv, FirstRoundInv, InUse
  <2> QED
    BY <2>1, <2>2, <2>3, <2>4 DEF PoolNext
<1> QED
  BY <1>1, <1>2, PTL DEF PoolSpec

\* createRequest and attachRequest (Session.cpp 45-98) keep _nextCSeq and the
\* keys of _sentRequests within an unsigned, through any number of wraps.
THEOREM PoolTypeCorrect == PoolSpec => []PoolTypeOK
BY PoolInvariant, PTL DEF PoolInv

\* handleResponse (Session.cpp 407-423) finds under a response's CSeq the
\* request that the response answers.
THEOREM ResponsesAlwaysMatch == PoolSpec => []ResponsesMatch
<1>1. PoolInv => ResponsesMatch
  BY DEF PoolInv, MatchInv, ResponsesMatch
<1> QED
  BY <1>1, PoolInvariant, PTL

\* No response is refused as unasked for, and the other end is given no
\* CSeq of zero before the counter has gone all the way round.
THEOREM NoStrangerEver == PoolSpec => []NoStranger
<1>1. PoolInv => NoStranger
  BY DEF PoolInv, MatchInv, FirstRoundInv, NoStranger
<1> QED
  BY <1>1, PoolInvariant, PTL
=============================================================================
