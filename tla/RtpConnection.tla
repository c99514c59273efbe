---------------------------- MODULE RtpConnection ----------------------------
(***************************************************************************)
(* A page and its server from connect() to a running session: class        *)
(* RtpConnection (index.ts), the ICE side of class RtcConnection (rtc.ts)  *)
(* and what the server does for them (server.rs, client_rtp.rs), over one  *)
(* socket that is FIFO in both directions.                                 *)
(*                                                                         *)
(* sendRequest is taken by its contract (module SignallingConnection): a   *)
(* request is answered in order, timed out or given up when the socket is  *)
(* lost, and a late answer is ignored.  close() leaves it to its timeout.  *)
(* What comes back for candidates is only logged and left out.  What the   *)
(* browser and webrtc-rs make of a description or a candidate is their     *)
(* choice: whatever they are given, they may take it or refuse it.         *)
(* An action is a task of the page with all that its promises queue, or a  *)
(* locked section of the server.  The server sends every notification from *)
(* a task of its own.  Candidates are numbers; a notification of candidate *)
(* 0 says that there are no more.                                          *)
(*                                                                         *)
(* An operator <operation>_<slip> is the operation with a plausible slip;  *)
(* it is no part of Next and shows that a property notices the slip.       *)
(***************************************************************************)
EXTENDS Naturals, Sequences, Functions

CONSTANTS
    MaxLocal, MaxRemote,  \* bounds: candidates gathered by the page and by the server
    MaxCalls,             \* bound: calls of subscribeBroadcast and unsubscribeBroadcast
    MaxEvents             \* bound: candidates and calls together

ASSUME BoundsAssumption ==
    MaxLocal \in Nat /\ MaxRemote \in Nat /\ MaxCalls \in Nat /\ MaxEvents \in Nat

End == 0

VARIABLES
    state,              \* RtpConnection.state
    peer,               \* the peer of the page: "new", "offering" ("offer_rejected"), "offered",
                        \* "answering" ("answer_rejected"), "stable", "closed"
    socket,             \* "none", "connecting" or "open"
    pending,            \* requests whose promise is open
    sent,               \* requests sent, for their ids
    to_server,          \* requests on their way
    to_client,          \* answers and notifications on their way
    signalingConnection, \* whether RtcConnection has one
    gathered,           \* candidates gathered by the page
    localFinished, remoteFinished,          \* the flags of RtcConnection
    cachedLocal, cachedRemote,              \* the caches of RtcConnection
    handed,             \* candidates handed to the peer of the page
    handed_end,         \* whether it was told that there are no more
    refused,            \* those of handed that it refused; while it is "answering" the others
                        \* wait behind the answer
    arrived,            \* history: candidates of the server that arrived
    server,             \* the session there: "none", "offer", "session"
    server_gathered,    \* candidates gathered by the server, End after the last
    notifying,          \* its candidates with a task that sends them
    server_applied,     \* candidates that the peer of the server took
    server_applied_end, \* whether it was told that there are no more
    server_dropped,     \* history: candidates that it refused, and those behind them in a message
    calls,              \* calls made, for their bound
    streamId,           \* whether the page has the stream id of the broadcast
    broadcast,          \* whether the broadcast is in the room
    subscribed,         \* whether it has a target of this client
    gave_up,            \* history: a call ended without its answer
    threw               \* history: "broadcast subscribed but we don't have a stream id"

ice_vars == <<signalingConnection, gathered, localFinished, remoteFinished, cachedLocal,
              cachedRemote, handed, handed_end, refused, arrived>>
server_ice_vars == <<server_gathered, notifying, server_applied, server_applied_end, server_dropped>>
server_vars == <<server, server_ice_vars, broadcast, subscribed>>
request_vars == <<pending, sent, to_server>>
call_vars == <<calls, streamId, gave_up, threw>>
vars == <<state, peer, socket, request_vars, to_client, ice_vars, server_vars, call_vars>>

Down == state \in {"failed", "closed"}

\* With a local description, the senders of the peer have a transport and it
\* gathers candidates.
Described == peer \in {"offered", "answering", "stable", "answer_rejected"}

Bounded == gathered + Len(server_gathered) + calls < MaxEvents

-----------------------------------------------------------------------------
Init ==
    /\ state = "new" /\ peer = "new" /\ socket = "none"
    /\ pending = {} /\ sent = 0 /\ to_server = <<>> /\ to_client = <<>>
    /\ signalingConnection = FALSE /\ gathered = 0
    /\ localFinished = FALSE /\ remoteFinished = FALSE
    /\ cachedLocal = <<>> /\ cachedRemote = <<>>
    /\ handed = <<>> /\ handed_end = FALSE /\ refused = {} /\ arrived = <<>>
    /\ server = "none" /\ server_gathered = <<>> /\ notifying = {}
    /\ server_applied = <<>> /\ server_applied_end = FALSE /\ server_dropped = {}
    /\ calls = 0 /\ streamId = FALSE /\ gave_up = FALSE /\ threw = FALSE
    /\ broadcast = TRUE /\ subscribed = FALSE

sendRequest(type) ==
    LET request == [id |-> sent + 1, type |-> type] IN
    /\ sent' = sent + 1
    /\ pending' = pending \cup {request}
    /\ to_server' = Append(to_server, request)

signalIceCandidates(candidates, finished) ==
    to_server' = Append(to_server, [type |-> "IceCandidates", candidates |-> candidates,
                                    finished |-> finished])

\* The peer is left alone.
doClose_keep_peer ==
    /\ socket' = "none" /\ to_server' = <<>> /\ to_client' = <<>>
    /\ UNCHANGED peer

\* The socket loses its handlers: what is on its way does not arrive any more.
\* LocalStream.removeTrack looks at the state of a transport: while there is none
\* it throws, when the peer is closed and the socket is not.
doClose ==
    /\ peer' = "closed"
    /\ IF Described
       THEN socket' = "none" /\ to_server' = <<>> /\ to_client' = <<>>
       ELSE UNCHANGED <<socket, to_server, to_client>>

setConnectionFailed == state' = "failed" /\ doClose

connect ==
    /\ state = "new"
    /\ state' = "connecting" /\ socket' = "connecting"
    /\ UNCHANGED <<peer, request_vars, to_client, ice_vars, server_vars, call_vars>>

close ==
    /\ state # "closed"
    /\ state' = "closed" /\ doClose
    /\ UNCHANGED <<pending, sent, ice_vars, server_vars, call_vars>>

\* The listener looks at the state first.
onSignallingConnected ==
    /\ socket = "connecting"
    /\ socket' = "open"
    /\ IF Down THEN UNCHANGED <<state, peer>> ELSE state' = "initializing" /\ peer' = "offering"
    /\ UNCHANGED <<request_vars, to_client, ice_vars, server_vars, call_vars>>

\* The rest of it, when the browser has made the offer; a closed peer never does.
LocalOffer ==
    /\ peer = "offering"
    /\ peer' = "offered"
    /\ sendRequest("InitializeSesstion")
    /\ UNCHANGED <<state, socket, to_client, ice_vars, server_vars, call_vars>>

\* createOffer or setLocalDescription rejects: nothing catches it.
OfferRejected ==
    /\ peer = "offering"
    /\ peer' = "offer_rejected"
    /\ UNCHANGED <<state, socket, request_vars, to_client, ice_vars, server_vars, call_vars>>

\* Reported by the state that the signalling connection is in.
signalling_lost_renamed ==
    /\ socket # "none"
    /\ state' = "disconnected" /\ peer' = "closed"
    /\ socket' = "none" /\ to_server' = <<>> /\ to_client' = <<>>
    /\ pending' = {}
    /\ UNCHANGED <<sent, ice_vars, server_vars, call_vars>>

\* The listener of the lost socket fails the connection, unless it is down, then
\* every request is given up.
signalling_lost ==
    /\ socket # "none"
    /\ state' = IF Down THEN state ELSE "failed"
    /\ peer' = "closed" /\ socket' = "none" /\ to_server' = <<>> /\ to_client' = <<>>
    /\ pending' = {}
    /\ streamId' = (streamId /\ \A r \in pending : r.type # "BroadcastUnsubscribe")
    /\ UNCHANGED <<sent, ice_vars, server_vars, calls, gave_up, threw>>

\* The connection state of the peer becomes failed.
rtc_failed ==
    /\ peer \in {"answering", "stable"}
    /\ setConnectionFailed
    /\ UNCHANGED <<pending, sent, ice_vars, server_vars, call_vars>>

-----------------------------------------------------------------------------
(* Candidates of the page.                                                  *)

onLocalIceCandidate ==
    /\ Described /\ ~localFinished /\ gathered < MaxLocal /\ Bounded
    /\ gathered' = gathered + 1
    /\ IF signalingConnection
       THEN signalIceCandidates(<<gathered + 1>>, FALSE) /\ UNCHANGED cachedLocal
       ELSE cachedLocal' = Append(cachedLocal, gathered + 1) /\ UNCHANGED to_server
    /\ UNCHANGED <<state, peer, socket, pending, sent, to_client, signalingConnection, localFinished,
                   remoteFinished, cachedRemote, handed, handed_end, refused, arrived,
                   server_vars, call_vars>>

onLocalIceFinished ==
    /\ Described /\ ~localFinished
    /\ localFinished' = TRUE
    /\ IF signalingConnection THEN signalIceCandidates(<<>>, TRUE) ELSE UNCHANGED to_server
    /\ UNCHANGED <<state, peer, socket, pending, sent, to_client, signalingConnection, gathered,
                   remoteFinished, cachedLocal, cachedRemote, handed, handed_end, refused,
                   arrived, server_vars, call_vars>>

\* addIceCandidate, whose rejection is only logged: behind the answer it waits,
\* with the answer the peer decides, without one it refuses.
addRemoteIceCandidate(c) ==
    /\ handed' = IF c = End THEN handed ELSE Append(handed, c)
    /\ handed_end' = (handed_end \/ c = End)
    /\ \/ peer # "answer_rejected" /\ UNCHANGED refused
       \/ peer # "answering" /\ refused' = refused \cup ({c} \ {End})

\* What comes before the session is cached, the end as a flag.
applyRemoteIceCandidate(c) ==
    /\ arrived' = IF c = End THEN arrived ELSE Append(arrived, c)
    /\ IF signalingConnection
       THEN addRemoteIceCandidate(c) /\ UNCHANGED <<cachedRemote, remoteFinished>>
       ELSE /\ cachedRemote' = IF c = End THEN cachedRemote ELSE Append(cachedRemote, c)
            /\ remoteFinished' = (remoteFinished \/ c = End)
            /\ UNCHANGED <<handed, handed_end, refused>>

\* The cached candidates of the server go to the peer before the answer does: it
\* has no remote description and refuses the first, and those that follow until
\* the answer is under way.
applyCachedRemote ==
    /\ handed' = handed \o cachedRemote
    /\ handed_end' = (handed_end \/ localFinished)
    /\ \E n \in 0 .. Len(cachedRemote) :
         /\ n > 0 \/ cachedRemote = <<>>
         /\ refused' = {cachedRemote[i] : i \in 1 .. n}

\* What was gathered before the session stays in the cache.
processPendingIceCandidates_remote_only ==
    applyCachedRemote /\ UNCHANGED <<cachedLocal, to_server>>

\* Either side is told the end that the other one has reached.
processPendingIceCandidates ==
    /\ IF cachedLocal # <<>> \/ remoteFinished
       THEN signalIceCandidates(cachedLocal, remoteFinished) ELSE UNCHANGED to_server
    /\ cachedLocal' = <<>>
    /\ applyCachedRemote

-----------------------------------------------------------------------------
(* Calls, and the ends of requests.                                         *)

subscribeBroadcast ==
    /\ state = "connected" /\ calls < MaxCalls /\ Bounded /\ ~streamId
    /\ calls' = calls + 1
    /\ sendRequest("BroadcastSubscribe")
    /\ UNCHANGED <<state, peer, socket, to_client, ice_vars, server_vars, streamId, gave_up, threw>>

unsubscribeBroadcast ==
    /\ state = "connected" /\ calls < MaxCalls /\ Bounded
    /\ calls' = calls + 1
    /\ sendRequest("BroadcastUnsubscribe")
    /\ UNCHANGED <<state, peer, socket, to_client, ice_vars, server_vars, streamId, gave_up, threw>>

\* The session is there: RtcConnection gets its signaling connection and
\* starts on the answer.
SessionInitialized ==
    /\ signalingConnection' = TRUE /\ peer' = "answering"
    /\ processPendingIceCandidates
    /\ UNCHANGED <<state, socket, gathered, localFinished, remoteFinished, cachedRemote, arrived>>

\* A session request that went wrong is only logged.
SessionFailed_logged == UNCHANGED <<state, peer, socket, to_server, ice_vars>>

\* Whatever has become of the connection in the meantime.
SessionFailed == setConnectionFailed /\ UNCHANGED ice_vars

Subscribed_no_store(type, result) ==
    /\ streamId' = (streamId /\ type # "BroadcastUnsubscribe")
    /\ threw' = (threw \/ (result = "BroadcastAlreadySubscribed" /\ ~streamId))

\* The rest of subscribeBroadcast and unsubscribeBroadcast.
Subscribed(type, result) ==
    /\ streamId' = ((streamId \/ result = "BroadcastSubscribed") /\ type # "BroadcastUnsubscribe")
    /\ threw' = (threw \/ (result = "BroadcastAlreadySubscribed" /\ ~streamId))

\* The rest of whoever waits for request r.
Settled(r, result) ==
    /\ pending' = pending \ {r}
    /\ IF r.type = "InitializeSesstion"
       THEN /\ IF result = "SessionInitializeSuccess" THEN SessionInitialized ELSE SessionFailed
            /\ UNCHANGED <<streamId, threw>>
       ELSE Subscribed(r.type, result) /\ UNCHANGED <<state, peer, socket, to_server, ice_vars>>
    /\ UNCHANGED sent

timeout(r) ==
    /\ r \in pending
    /\ Settled(r, "RequestTimeout")
    /\ gave_up' = TRUE
    /\ IF Down' THEN to_client' = <<>> ELSE UNCHANGED to_client
    /\ UNCHANGED <<server_vars, calls>>

\* The next message of the socket; nobody waits for a late answer.
handleMessage ==
    /\ to_client # <<>>
    /\ LET m == Head(to_client)
           waiting == {r \in pending : r.id = m.id} IN
       IF m.id = 0
       THEN /\ applyRemoteIceCandidate(m.candidate)
            /\ to_client' = Tail(to_client)
            /\ UNCHANGED <<state, peer, socket, request_vars, signalingConnection, gathered,
                           localFinished, cachedLocal, streamId, threw>>
       ELSE IF waiting = {}
       THEN /\ to_client' = Tail(to_client)
            /\ UNCHANGED <<state, peer, socket, request_vars, ice_vars, streamId, threw>>
       ELSE /\ \E r \in waiting : Settled(r, m.result)
            /\ to_client' = IF Down' THEN <<>> ELSE Tail(to_client)
    /\ UNCHANGED <<server_vars, calls, gave_up>>

\* The browser has taken the answer, and decides on the candidates that wait
\* behind it; a closed peer never says so.
AnswerApplied ==
    /\ peer = "answering"
    /\ peer' = "stable" /\ state' = "connected"
    /\ \E late \in SUBSET Range(handed) : refused' = refused \cup late
    /\ UNCHANGED <<socket, request_vars, to_client, signalingConnection, gathered, localFinished,
                   remoteFinished, cachedLocal, cachedRemote, handed, handed_end, arrived,
                   server_vars, call_vars>>

\* setRemoteDescription rejects: nothing catches it.
AnswerRejected ==
    /\ peer = "answering"
    /\ peer' = "answer_rejected"
    /\ refused' = Range(handed)
    /\ UNCHANGED <<state, socket, request_vars, to_client, signalingConnection, gathered,
                   localFinished, remoteFinished, cachedLocal, cachedRemote, handed, handed_end,
                   arrived, server_vars, call_vars>>

-----------------------------------------------------------------------------
(* The server, which handles one request after the other.                   *)

Request(type) == to_server # <<>> /\ Head(to_server).type = type

Respond(result) ==
    /\ to_server' = Tail(to_server)
    /\ to_client' = Append(to_client, [id |-> Head(to_server).id, result |-> result])
    /\ UNCHANGED <<state, peer, socket, pending, sent, ice_vars, call_vars>>

\* The peer of the server has the offer and begins to gather candidates.
apply_offer ==
    /\ Request("InitializeSesstion") /\ server = "none"
    /\ server' = "offer"
    /\ UNCHANGED <<state, peer, socket, request_vars, to_client, ice_vars, server_ice_vars,
                   broadcast, subscribed, call_vars>>

\* A bad token before, a room that is closed or a failed offer after it.
InitializeRefused ==
    /\ Request("InitializeSesstion")
    /\ Respond("SessionInvalidToken")
    /\ UNCHANGED server_vars

InitializeSession ==
    /\ Request("InitializeSesstion") /\ server = "offer"
    /\ server' = "session"
    /\ Respond("SessionInitializeSuccess")
    /\ UNCHANGED <<server_ice_vars, broadcast, subscribed>>

\* The first n are taken; the handler ends with the one that is refused, and the
\* end of the candidates is only tried behind the last.  Without a peer for the
\* client they are gone.
IceCandidates ==
    /\ Request("IceCandidates")
    /\ IF server = "none" THEN UNCHANGED <<server_applied, server_applied_end, server_dropped>>
       ELSE LET candidates == Head(to_server).candidates IN
            \E n \in 0 .. Len(candidates) :
              /\ server_applied' = server_applied \o SubSeq(candidates, 1, n)
              /\ server_dropped' = server_dropped \cup {candidates[i] : i \in n + 1 .. Len(candidates)}
              /\ \/ UNCHANGED server_applied_end
                 \/ /\ n = Len(candidates) /\ Head(to_server).finished
                    /\ server_applied_end' = TRUE
    /\ to_server' = Tail(to_server)
    /\ UNCHANGED <<state, peer, socket, pending, sent, to_client, ice_vars, server,
                   server_gathered, notifying, broadcast, subscribed, call_vars>>

BroadcastSubscribe ==
    /\ Request("BroadcastSubscribe")
    /\ subscribed' = broadcast
    /\ Respond(IF ~broadcast THEN "BroadcastUnknownId"
               ELSE IF subscribed THEN "BroadcastAlreadySubscribed" ELSE "BroadcastSubscribed")
    /\ UNCHANGED <<server, server_ice_vars, broadcast>>

BroadcastUnsubscribe ==
    /\ Request("BroadcastUnsubscribe")
    /\ subscribed' = FALSE
    /\ Respond(IF broadcast THEN "Success" ELSE "BroadcastUnknownId")
    /\ UNCHANGED <<server, server_ice_vars, broadcast>>

\* The broadcast is dropped with its targets; the page does not listen to
\* NotifyBroadcastEnded.
broadcast_ended ==
    /\ server = "session" /\ broadcast
    /\ broadcast' = FALSE /\ subscribed' = FALSE
    /\ UNCHANGED <<state, peer, socket, request_vars, to_client, ice_vars, server,
                   server_ice_vars, call_vars>>

\* on_ice_candidate: a task is spawned for the candidate.
ServerCandidate(c) ==
    /\ server # "none" /\ socket = "open" /\ End \notin Range(server_gathered)
    /\ c \in {End, Len(server_gathered) + 1} /\ Bounded
    /\ server_gathered' = Append(server_gathered, c)
    /\ notifying' = notifying \cup {c}
    /\ UNCHANGED <<state, peer, socket, request_vars, to_client, ice_vars, server,
                   server_applied, server_applied_end, server_dropped, broadcast, subscribed,
                   call_vars>>

\* The tasks get hold of the signaling client in any order.
signaling_notify(c) ==
    /\ c \in notifying /\ socket = "open"
    /\ notifying' = notifying \ {c}
    /\ to_client' = Append(to_client, [id |-> 0, candidate |-> c])
    /\ UNCHANGED <<state, peer, socket, request_vars, ice_vars, server, server_gathered,
                   server_applied, server_applied_end, server_dropped, broadcast, subscribed,
                   call_vars>>

-----------------------------------------------------------------------------
Next ==
    \/ connect \/ close \/ onSignallingConnected \/ LocalOffer \/ OfferRejected
    \/ signalling_lost \/ rtc_failed
    \/ onLocalIceCandidate \/ onLocalIceFinished
    \/ subscribeBroadcast \/ unsubscribeBroadcast
    \/ handleMessage \/ AnswerApplied \/ AnswerRejected \/ \E r \in pending : timeout(r)
    \/ apply_offer \/ InitializeRefused \/ InitializeSession \/ IceCandidates
    \/ BroadcastSubscribe \/ BroadcastUnsubscribe \/ broadcast_ended
    \/ \E c \in 0 .. MaxRemote : ServerCandidate(c) \/ signaling_notify(c)

\* The browser opens a socket or gives up, and settles what it is asked for, one
\* way or the other; timers run out.  The server, the network and the user owe
\* nothing.
Fairness ==
    /\ WF_vars(onSignallingConnected)
    /\ WF_vars(LocalOffer \/ OfferRejected) /\ WF_vars(AnswerApplied \/ AnswerRejected)
    /\ WF_vars(\E r \in pending : r.type = "InitializeSesstion" /\ timeout(r))

Spec == Init /\ [][Next]_vars /\ Fairness

-----------------------------------------------------------------------------
(* Properties *)

RequestType == {"InitializeSesstion", "BroadcastSubscribe", "BroadcastUnsubscribe"}
Results == {"SessionInvalidToken", "SessionInitializeSuccess", "BroadcastSubscribed",
            "BroadcastAlreadySubscribed", "BroadcastUnknownId", "Success"}

Requests == [id : Nat \ {0}, type : RequestType]
IceMessages == [type : {"IceCandidates"}, candidates : Seq(1 .. MaxLocal), finished : BOOLEAN]
Answers == [id : Nat \ {0}, result : Results]
Notifications == [id : {0}, candidate : 0 .. MaxRemote]

\* The type of the connection, its caches and the messages on their way.
TypeOK ==
    /\ state \in {"new", "connecting", "initializing", "connected", "failed", "closed"}
    /\ peer \in {"new", "offering", "offer_rejected", "offered", "answering", "answer_rejected",
                "stable", "closed"}
    /\ socket \in {"none", "connecting", "open"}
    /\ sent \in Nat /\ pending \subseteq Requests /\ \A r \in pending : r.id <= sent
    /\ to_server \in Seq(Requests \cup IceMessages)
    /\ to_client \in Seq(Answers \cup Notifications)
    /\ gathered \in 0 .. MaxLocal /\ cachedLocal \in Seq(1 .. MaxLocal)
    /\ cachedRemote \in Seq(1 .. MaxRemote)
    /\ handed \in Seq(1 .. MaxRemote) /\ arrived \in Seq(1 .. MaxRemote)
    /\ refused \subseteq 1 .. MaxRemote
    /\ signalingConnection \in BOOLEAN /\ handed_end \in BOOLEAN
    /\ localFinished \in BOOLEAN /\ remoteFinished \in BOOLEAN
    /\ server \in {"none", "offer", "session"}
    /\ server_gathered \in Seq(0 .. MaxRemote) /\ notifying \subseteq 0 .. MaxRemote
    /\ server_applied \in Seq(1 .. MaxLocal) /\ server_applied_end \in BOOLEAN
    /\ server_dropped \subseteq 1 .. MaxLocal
    /\ broadcast \in BOOLEAN /\ subscribed \in BOOLEAN
    /\ calls \in 0 .. MaxCalls /\ streamId \in BOOLEAN
    /\ gave_up \in BOOLEAN /\ threw \in BOOLEAN

\* A connection that failed or was closed is never up again, whatever answer,
\* timeout or browser event is still to come.
NeverBackUp == [][Down => Down']_vars

\* Where candidates of the page are, in the order in which they get on: taken by
\* the peer of the server, in the messages on their way, cached.
Site(k) ==
    IF k = 0 THEN server_applied
    ELSE IF k > Len(to_server) THEN cachedLocal
    ELSE IF to_server[k].type = "IceCandidates" THEN to_server[k].candidates
    ELSE <<>>
Sites == 0 .. Len(to_server) + 1

\* Every candidate of the page, found before or after the session was there, is in
\* one place on its way, none doubled or overtaken; but for those that the handler
\* of the server dropped with a refused one.  The peer of the page is handed what
\* arrived, each once and in the order of arrival, or it is cached.
CandidatesConserved ==
    /\ socket = "open" =>
         /\ UNION {Range(Site(k)) : k \in Sites} = (1 .. gathered) \ server_dropped
         /\ \A k, l \in Sites : \A i \in DOMAIN Site(k), j \in DOMAIN Site(l) :
              k < l \/ (k = l /\ i < j) => Site(k)[i] < Site(l)[j]
    /\ handed \o (IF signalingConnection THEN <<>> ELSE cachedRemote) = arrived

\* When no call is under way, page and server agree on the subscription to a
\* broadcast that runs, and a call never finds a subscription without a stream
\* id; unless a call gave up on its answer.
SubscriptionsAgree ==
    ~gave_up =>
        /\ ~threw
        /\ socket = "open" /\ broadcast
           /\ (\A r \in pending : r.type \notin {"BroadcastSubscribe", "BroadcastUnsubscribe"})
             => streamId = subscribed

\* connect() comes to something; unless the browser rejects the offer or the
\* answer: the rejection is not caught and the connection stays "initializing".
Rejected == peer \in {"offer_rejected", "answer_rejected"}
ConnectSettles == state = "connecting" ~> state \in {"connected", "failed", "closed"} \/ Rejected

\* "If the current signaling connection is `null` the candidate will be cached
\* and applied as soon the signaling connection is provided.", and `null` stands
\* for the end of the candidates (rtc.ts:339-341).
CachedEndIsApplied == signalingConnection /\ remoteFinished => handed_end

\* The same of the cached candidates: none is refused before the browser has seen
\* the answer, when it can judge none of them.
CachedIsApplied == peer = "answering" => refused = {}

\* "Close the connection and free all resources." (index.ts:185): a connection that
\* was closed has no socket.
ClosedFreesSocket == state = "closed" => socket = "none"
=============================================================================
