------------------------------ MODULE PlayCall ------------------------------
(***************************************************************************)
(* One playing client and the server at the other end of its connection:   *)
(* ServerSession and ClientSession, joined by two FIFO channels.  toServer *)
(* is read by the handlers of ServerSession; its wire is read by the       *)
(* handlers of ClientSession, "heard" messages so far.                     *)
(*                                                                         *)
(* ServerSession leaves SUBSCRIBE to its subclass.  The one here answers   *)
(* with the id of the session it starts recording to the client.           *)
(***************************************************************************)
EXTENDS ServerSession

CONSTANTS MaxOffers, MaxClientRequests

VARIABLES receiver, playing, session, recordRequestCSeq, offered, given,
          pending, cseq, clientLink, toServer,
          heard,        \* how many messages of wire the client has read
          applied       \* history: the client's candidates each session was given

Client == INSTANCE ClientSession

clientVars == <<receiver, playing, session, recordRequestCSeq, offered, given,
                pending, cseq, clientLink, toServer>>

playVars == <<clientVars, vars, heard, applied>>

-----------------------------------------------------------------------------
(* The server.                                                             *)

\* An overridden onSubscribeRequest that calls startRecordToClient, which
\* disconnects when there is no peer.
onSubscribeRequest ==
    /\ Accept("SUBSCRIBE", NoId, NoBody)
    /\ nextSessionId \in SessionId
    /\ Answer("OK", nextSessionId)
    /\ \/ /\ CreateMediaSession(NewSession("Subscribe", InvalidCSeq))
          /\ UNCHANGED link
       \/ /\ disconnect
          /\ nextSessionId' = nextSessionId + 1
          /\ UNCHANGED mediaSessions
    /\ UNCHANGED <<sentRequests, nextCSeq, gathered>>

ServerHandles(m) ==
    \/ m.kind = "response" /\ handleResponse(m.cseq, m.head = "OK")
    \/ /\ m.kind = "request"
       /\ \/ m.head = "OPTIONS" /\ onOptionsRequest
          \/ m.head = "DESCRIBE" /\ onDescribeRequest
          \/ m.head = "SUBSCRIBE" /\ onSubscribeRequest
          \/ m.head = "PLAY" /\ onPlayRequest(m.session)
          \/ /\ m.head = "SETUP"
             /\ onSetupRequest(m.session, [lines |-> Len(m.body), malformed |-> FALSE])

ServerReceives ==
    /\ link # "closed"
    /\ toServer # <<>>
    /\ LET m == Head(toServer) IN
       /\ ServerHandles(m)
       /\ applied' = IF m.kind = "request" /\ m.head = "SETUP" /\ link' # "closed"
                     THEN [applied EXCEPT ![m.session] = @ \o m.body]
                     ELSE applied
    /\ toServer' = Tail(toServer)
    /\ UNCHANGED <<receiver, playing, session, recordRequestCSeq, offered, given,
                   pending, cseq, clientLink, heard>>

ServerOwnStep ==
    /\ \/ \E s \in SessionId : PeerCallback(s)
       \/ Writeable
       \/ ConnectionLost
    /\ UNCHANGED <<clientVars, heard, applied>>

(* The client.                                                             *)

ClientHears ==
    /\ heard < Len(wire)
    /\ heard' = heard + 1
    /\ Client!ClientReceives(wire[heard + 1])
    /\ UNCHANGED <<vars, applied>>

ClientActs ==
    /\ Client!ClientOwnStep
    /\ UNCHANGED <<vars, heard, applied>>

-----------------------------------------------------------------------------
PlayInit ==
    /\ Client!ClientInit
    /\ Init
    /\ heard = 0
    /\ applied = [s \in SessionId |-> <<>>]

PlayNext ==
    \/ ServerReceives
    \/ ServerOwnStep
    \/ ClientHears
    \/ ClientActs

PlaySpec == PlayInit /\ [][PlayNext]_playVars

(* Both event loops run, the network delivers or breaks, and each peer     *)
(* ends its preparation.                                                   *)
PlayFairness ==
    /\ WF_playVars(ServerReceives)
    /\ WF_playVars(ClientHears)
    /\ WF_playVars(ServerOwnStep /\ \E s \in SessionId : PeerSettles(s))
    /\ WF_playVars(ServerOwnStep /\ Writeable)
    /\ WF_playVars(ClientActs /\ Client!receiverPrepared)
    /\ WF_playVars(ClientActs /\ Client!ClientWriteable)
    /\ WF_playVars(ClientActs /\ Client!ClientConnectionLost /\ link = "closed")
    /\ WF_playVars(ServerOwnStep /\ ConnectionLost /\ clientLink = "closed")

FairPlaySpec == PlaySpec /\ PlayFairness
=============================================================================
