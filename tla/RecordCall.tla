----------------------------- MODULE RecordCall -----------------------------
(***************************************************************************)
(* One recording client and the server at the other end of its connection: *)
(* ServerSession and ClientRecordSession, joined by two FIFO channels.     *)
(* toServer is read by the handlers of ServerSession; its wire is read by  *)
(* the handlers of ClientRecordSession, "heard" messages so far.           *)
(*                                                                         *)
(* Either end may lose the connection at any moment, each notices by       *)
(* itself, and what was in flight may still be read until it does.         *)
(***************************************************************************)
EXTENDS ServerSession

CONSTANTS MaxTakes, MaxOffers, MaxClientRequests

ASSUME CallBoundsAssumption == MaxTakes \in Nat /\ MaxOffers \in Nat

VARIABLES streamer, iceCandidates, recordRequested, session, take, offered, hasty,
          pending, cseq, clientLink, toServer,
          heard,        \* how many messages of wire the client has read
          applied       \* history: the candidates each server session was given

Client == INSTANCE ClientRecordSession

clientVars == <<streamer, iceCandidates, recordRequested, session, take, offered,
                hasty, pending, cseq, clientLink, toServer>>

callVars == <<clientVars, vars, heard, applied>>

-----------------------------------------------------------------------------
(* Server: the request at the head of the channel, or the response.        *)

ServerHandles(m) ==
    \/ m.kind = "response" /\ handleResponse(m.cseq, m.head = "OK")
    \/ /\ m.kind = "request"
       /\ \/ m.head = "OPTIONS" /\ onOptionsRequest
          \/ m.head = "RECORD" /\ onRecordRequest
          \/ m.head = "TEARDOWN" /\ onTeardownRequest(m.session)
          \/ /\ m.head = "SETUP"
             /\ onSetupRequest(m.session, [lines |-> Len(m.body), malformed |-> FALSE])

ServerReceives ==
    /\ link # "closed"
    /\ toServer # <<>>
    /\ LET m == Head(toServer) IN
       /\ ServerHandles(m)
       /\ applied' = IF m.kind = "request" /\ m.head = "SETUP" /\ link' # "closed"
                     THEN [applied EXCEPT ![m.session] = @ \o m.body]
                     ELSE applied
    /\ toServer' = Tail(toServer)
    /\ UNCHANGED <<streamer, iceCandidates, recordRequested, session, pending, cseq,
                   clientLink, take, offered, hasty, heard>>

ServerOwnStep ==
    /\ \/ \E s \in SessionId : PeerCallback(s)
       \/ Writeable
       \/ ConnectionLost
    /\ UNCHANGED <<clientVars, heard, applied>>

ClientHears ==
    /\ heard < Len(wire)
    /\ heard' = heard + 1
    /\ Client!ClientReceives(wire[heard + 1])
    /\ UNCHANGED <<vars, applied>>

ClientActs ==
    /\ Client!ClientOwnStep
    /\ UNCHANGED <<vars, heard, applied>>

-----------------------------------------------------------------------------
CallInit ==
    /\ Client!ClientInit
    /\ Init
    /\ heard = 0
    /\ applied = [s \in SessionId |-> <<>>]

CallNext ==
    \/ ServerReceives
    \/ ServerOwnStep
    \/ ClientHears
    \/ ClientActs

CallSpec == CallInit /\ [][CallNext]_callVars

(* Both event loops run, the network delivers or breaks, and each peer     *)
(* ends its preparation.  Nothing makes the application start or stop.     *)
CallFairness ==
    /\ WF_callVars(ServerReceives)
    /\ WF_callVars(ClientHears)
    /\ WF_callVars(ServerOwnStep /\ \E s \in SessionId : PeerSettles(s))
    /\ WF_callVars(ServerOwnStep /\ Writeable)
    /\ WF_callVars(ClientActs /\ Client!ClientWriteable)
    /\ WF_callVars(ClientActs /\ Client!ClientConnectionLost /\ link = "closed")
    /\ WF_callVars(ServerOwnStep /\ ConnectionLost /\ clientLink \in {"closed", "crashed"})

FairCallSpec == CallSpec /\ CallFairness
=============================================================================
