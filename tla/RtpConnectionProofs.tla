-------------------------- MODULE RtpConnectionProofs --------------------------
(***************************************************************************)
(* A page and its server, for any number of candidates and calls: a        *)
(* connection that is down stays down, a candidate is lost with a refused  *)
(* one only, and page and server agree on the subscription to the          *)
(* broadcast.                                                              *)
(***************************************************************************)
EXTENDS RtpConnection, SequenceTheorems, TLAPS

ToServer == Requests \cup IceMessages
ToClient == Answers \cup Notifications

\* The parts of TypeOK, for the groups of variables that actions leave alone.
PhaseType ==
    /\ state \in {"new", "connecting", "initializing", "connected", "failed", "closed"}
    /\ peer \in {"new", "offering", "offer_rejected", "offered", "answering", "answer_rejected",
                "stable", "closed"}
    /\ socket \in {"none", "connecting", "open"}
PendingType == sent \in Nat /\ pending \subseteq Requests /\ \A r \in pending : r.id <= sent
SentType == to_server \in Seq(ToServer)
AnswerType == to_client \in Seq(ToClient)
IceType ==
    /\ gathered \in 0 .. MaxLocal /\ cachedLocal \in Seq(1 .. MaxLocal)
    /\ cachedRemote \in Seq(1 .. MaxRemote)
    /\ handed \in Seq(1 .. MaxRemote) /\ arrived \in Seq(1 .. MaxRemote)
    /\ refused \subseteq 1 .. MaxRemote
    /\ signalingConnection \in BOOLEAN /\ handed_end \in BOOLEAN
    /\ localFinished \in BOOLEAN /\ remoteFinished \in BOOLEAN
ServerIceType ==
    /\ server_gathered \in Seq(0 .. MaxRemote) /\ notifying \subseteq 0 .. MaxRemote
    /\ server_applied \in Seq(1 .. MaxLocal) /\ server_applied_end \in BOOLEAN
    /\ server_dropped \subseteq 1 .. MaxLocal
RoomType ==
    /\ server \in {"none", "offer", "session"}
    /\ broadcast \in BOOLEAN /\ subscribed \in BOOLEAN
CallType ==
    /\ calls \in 0 .. MaxCalls /\ streamId \in BOOLEAN
    /\ gave_up \in BOOLEAN /\ threw \in BOOLEAN

Typed == /\ PhaseType /\ PendingType /\ SentType /\ AnswerType /\ IceType /\ ServerIceType
         /\ RoomType /\ CallType

\* The phases of a connection.  Messages are on their way only while the peer has
\* a local description, and before that, with a socket or not, the server has
\* heard nothing.  A connection that was closed early may keep its socket.
Gone == peer = "closed" /\ socket = "none"
PhaseInv ==
    /\ Down <=> peer = "closed"
    /\ state = "new" => peer = "new"
    /\ state = "connected" => Described
    /\ socket = "connecting" => peer \in {"new", "closed"}
    /\ peer = "new" => socket # "open"
    /\ peer \notin {"new", "closed"} => socket = "open"
    /\ ~Described => to_server = <<>> /\ to_client = <<>>
    /\ ~Described /\ ~Gone => server = "none" /\ pending = {}
    /\ server = "none" => notifying = {}

\* There is one request for the session, and it is pending until the connection
\* has its signaling connection.
Session(r) == r.type = "InitializeSesstion"
SessionInv ==
    /\ peer \in {"new", "offering"} => ~signalingConnection /\ \A r \in pending : ~Session(r)
    /\ \A r, q \in pending : Session(r) /\ Session(q) => r = q
    /\ \A r \in pending : Session(r) => ~signalingConnection

\* The server has a peer before the page sends a candidate, and the page caches
\* candidates before the session only.
IsAnswer(m) == m.id # 0
IsRequest(m) == m.type # "IceCandidates"
NoCandidates(q) == \A k \in 1 .. Len(q) : IsRequest(q[k])
NoSuccess(q) == \A k \in 1 .. Len(q) : IsAnswer(q[k]) => q[k].result # "SessionInitializeSuccess"
IceInv ==
    peer # "closed" =>
        /\ signalingConnection => cachedLocal = <<>>
        /\ ~signalingConnection => NoCandidates(to_server)
        /\ server = "none" => ~signalingConnection /\ NoSuccess(to_client)

\* The answers that a request can get.
Fits(type, result) ==
    \/ type = "InitializeSesstion" /\ result \in {"SessionInvalidToken", "SessionInitializeSuccess"}
    \/ type = "BroadcastSubscribe"
         /\ result \in {"BroadcastSubscribed", "BroadcastAlreadySubscribed", "BroadcastUnknownId"}
    \/ type = "BroadcastUnsubscribe" /\ result \in {"Success", "BroadcastUnknownId"}

\* Every request under way and every answer under way has its pending request,
\* one of its own: for the requests pending, the messages to the server and
\* those to the client.
Paired(requests, up, down) ==
    /\ \A k \in 1 .. Len(up) : IsRequest(up[k]) => up[k] \in requests
    /\ \A k \in 1 .. Len(down) : IsAnswer(down[k]) =>
         \E r \in requests : r.id = down[k].id /\ Fits(r.type, down[k].result)
    /\ \A j, k \in 1 .. Len(up) :
         IsRequest(up[j]) /\ IsRequest(up[k]) /\ up[j].id = up[k].id => j = k
    /\ \A j, k \in 1 .. Len(down) :
         IsAnswer(down[j]) /\ IsAnswer(down[k]) /\ down[j].id = down[k].id => j = k
    /\ \A j \in 1 .. Len(up), k \in 1 .. Len(down) :
         IsRequest(up[j]) /\ IsAnswer(down[k]) => up[j].id # down[k].id
RequestInv ==
    /\ \A r, q \in pending : r.id = q.id => r = q
    /\ ~gave_up => Paired(pending, to_server, to_client)

\* The answers to calls that are under way, taken one after the other, lead from
\* what the page knows (has) to what the server has: the last of them tells, and
\* none says that there is a subscription unless the one before it leaves one.
IsCallAnswer(m) ==
    IsAnswer(m) /\ m.result \notin {"SessionInvalidToken", "SessionInitializeSuccess"}
IsAlready(m) == IsAnswer(m) /\ m.result = "BroadcastAlreadySubscribed"
Leaves(m) == m.result \in {"BroadcastSubscribed", "BroadcastAlreadySubscribed"}
NoCallAnswer(q, first, last) == \A k \in 1 .. Len(q) : first <= k /\ k <= last => ~IsCallAnswer(q[k])
Founded(q, has) ==
    \A k \in 1 .. Len(q) : IsAlready(q[k]) =>
        /\ NoCallAnswer(q, 1, k - 1) => has
        /\ \A j \in 1 .. k - 1 : IsCallAnswer(q[j]) /\ NoCallAnswer(q, j + 1, k - 1) => Leaves(q[j])
Tells(q, has, subscription) ==
    /\ \A k \in 1 .. Len(q) : IsAnswer(q[k]) => q[k].result # "BroadcastUnknownId"
    /\ NoCallAnswer(q, 1, Len(q)) => has = subscription
    /\ \A k \in 1 .. Len(q) :
         IsCallAnswer(q[k]) /\ NoCallAnswer(q, k + 1, Len(q)) => subscription = Leaves(q[k])
CallInv ==
    /\ peer = "new" \/ socket = "connecting" => ~streamId /\ ~subscribed
    /\ ~gave_up =>
        /\ ~threw /\ Founded(to_client, streamId)
        /\ socket = "open" /\ broadcast => Tells(to_client, streamId, subscribed)

\* A way is a function from the places that candidates pass, 0 .. n, to those
\* that are there: each of the items, in order.
Spread(way, n, items) ==
    /\ \A k \in 0 .. n : \A i \in DOMAIN way[k] : way[k][i] \in items
    /\ \A c \in items : \E k \in 0 .. n : \E i \in DOMAIN way[k] : way[k][i] = c
    /\ \A k, l \in 0 .. n : \A i \in DOMAIN way[k], j \in DOMAIN way[l] :
         k < l \/ (k = l /\ i < j) => way[k][i] < way[l][j]

\* The way from the peer of the page to the peer of the server: from the last
\* place, the cache, through the messages on their way to the first.
Carried(m) == IF IsRequest(m) THEN <<>> ELSE m.candidates
Way(first, queue, last) ==
    [k \in 0 .. Len(queue) + 1 |->
        IF k = 0 THEN first ELSE IF k > Len(queue) THEN last ELSE Carried(queue[k])]
OnTheWay(first, queue, last, items) == Spread(Way(first, queue, last), Len(queue) + 1, items)
Kept == (1 .. gathered) \ server_dropped
WayOpen ==
    /\ server_dropped \subseteq 1 .. gathered
    /\ ~Gone => OnTheWay(server_applied, to_server, cachedLocal, Kept)

\* What has arrived from the server is handed to the peer, or cached.
Arrived == handed \o (IF signalingConnection THEN <<>> ELSE cachedRemote) = arrived

IInv == /\ Typed /\ PhaseInv /\ SessionInv /\ IceInv /\ WayOpen /\ Arrived
        /\ RequestInv /\ CallInv
-----------------------------------------------------------------------------
(* Types.                                                                   *)
Locals == 1 .. MaxLocal

LEMMA AppendType ==
  ASSUME NEW S, NEW s \in Seq(S), NEW e \in S
  PROVE  Append(s, e) \in Seq(S)
  BY AppendProperties

LEMMA AppendOut ==
  ASSUME NEW S, NEW s \in Seq(S), NEW t \in Seq(S), NEW e \in S
  PROVE  s \o Append(t, e) = Append(s \o t, e)
<1>1. Append(t, e) = t \o <<e>> /\ s \o t \in Seq(S) /\ <<e>> \in Seq(S)
  BY AppendIsConcat, ConcatProperties
<1>2. Append(s \o t, e) = (s \o t) \o <<e>>
  BY <1>1, AppendIsConcat
<1> QED BY <1>1, <1>2, ConcatAssociative

LEMMA AppendAt ==
  ASSUME NEW S, NEW s \in Seq(S), NEW e
  PROVE  /\ Len(s) \in Nat /\ Len(Append(s, e)) = Len(s) + 1
         /\ \A k \in 1 .. Len(s) : Append(s, e)[k] = s[k]
         /\ Append(s, e)[Len(s) + 1] = e
  OBVIOUS

LEMMA TailAt ==
  ASSUME NEW S, NEW s \in Seq(S), s # <<>>
  PROVE  /\ Len(s) \in Nat \ {0} /\ Len(Tail(s)) = Len(s) - 1
         /\ \A k \in 1 .. Len(s) - 1 : Tail(s)[k] = s[k + 1]
         /\ Head(s) = s[1]
  OBVIOUS

\* A prefix, and what is behind it.
LEMMA PrefixOf ==
  ASSUME NEW S, NEW s \in Seq(S), NEW n \in 0 .. Len(s)
  PROVE  /\ Len(s) \in Nat /\ n \in Nat
         /\ SubSeq(s, 1, n) \in Seq(S) /\ Len(SubSeq(s, 1, n)) = n
         /\ \A i \in 1 .. n : SubSeq(s, 1, n)[i] = s[i] /\ s[i] \in S
         /\ {s[i] : i \in n + 1 .. Len(s)} \subseteq S
<1>1. Len(s) \in Nat /\ n \in Nat /\ n <= Len(s) /\ \A i \in 1 .. Len(s) : s[i] \in S
  BY LenProperties, ElementOfSeq
<1>2. \A i \in 1 .. n : s[i] \in S
  BY <1>1
<1>3. SubSeq(s, 1, n) \in Seq(S) /\ Len(SubSeq(s, 1, n)) = (IF 1 <= n THEN n - 1 + 1 ELSE 0)
      /\ \A i \in 1 .. n - 1 + 1 : SubSeq(s, 1, n)[i] = s[1 + i - 1]
  BY <1>1, <1>2, SubSeqProperties
<1>4. Len(SubSeq(s, 1, n)) = n /\ n - 1 + 1 = n /\ \A i \in 1 .. n : 1 + i - 1 = i
  BY <1>1, <1>3
<1> QED BY <1>1, <1>2, <1>3, <1>4

LEMMA TypeInit == Init => TypeOK
<1> SUFFICES ASSUME Init PROVE TypeOK
  OBVIOUS
<1>1. /\ to_server \in Seq(ToServer) /\ to_client \in Seq(ToClient)
      /\ cachedLocal \in Seq(1 .. MaxLocal) /\ server_applied \in Seq(1 .. MaxLocal)
      /\ cachedRemote \in Seq(1 .. MaxRemote) /\ handed \in Seq(1 .. MaxRemote)
      /\ arrived \in Seq(1 .. MaxRemote) /\ server_gathered \in Seq(0 .. MaxRemote)
  BY DEF Init
<1>2. gathered \in 0 .. MaxLocal /\ calls \in 0 .. MaxCalls
  BY BoundsAssumption DEF Init
<1> QED BY <1>1, <1>2 DEF Init, TypeOK, ToServer, ToClient

\* A request that is sent is pending under an id above all others.
LEMMA SendType ==
  ASSUME TypeOK, NEW type \in RequestType, sendRequest(type)
  PROVE  /\ sent' \in Nat /\ pending' \subseteq Requests /\ \A r \in pending' : r.id <= sent'
         /\ to_server' \in Seq(ToServer)
<1> DEFINE request == [id |-> sent + 1, type |-> type]
<1>1. /\ sent \in Nat /\ pending \subseteq Requests /\ \A r \in pending : r.id \in Nat /\ r.id <= sent
      /\ to_server \in Seq(ToServer)
  BY DEF TypeOK, Requests, ToServer
<1>2. /\ sent' = sent + 1 /\ pending' = pending \cup {request}
      /\ to_server' = Append(to_server, request)
  BY DEF sendRequest
<1>3. request \in Requests /\ request.id = sent + 1
  BY <1>1 DEF Requests
<1> HIDE DEF request
<1>4. request \in ToServer
  BY <1>3 DEF ToServer
<1>5. to_server' \in Seq(ToServer)
  BY <1>1, <1>2, <1>4, AppendProperties
<1> QED BY <1>1, <1>2, <1>3, <1>5

LEMMA SignalType ==
  ASSUME TypeOK, NEW candidates \in Seq(1 .. MaxLocal), NEW finished \in BOOLEAN,
         signalIceCandidates(candidates, finished)
  PROVE  to_server' \in Seq(ToServer)
<1> DEFINE m == [type |-> "IceCandidates", candidates |-> candidates, finished |-> finished]
<1>1. to_server \in Seq(ToServer) /\ to_server' = Append(to_server, m)
  BY DEF TypeOK, ToServer, signalIceCandidates
<1>2. m \in IceMessages
  BY DEF IceMessages
<1> HIDE DEF m
<1> QED BY <1>1, <1>2, AppendProperties DEF ToServer

LEMMA RespondType ==
  ASSUME TypeOK, to_server # <<>>, Head(to_server).type # "IceCandidates",
         NEW result \in Results, Respond(result)
  PROVE  /\ to_server' \in Seq(ToServer) /\ to_client' \in Seq(ToClient)
         /\ Head(to_server) \in Requests
<1> DEFINE m == [id |-> Head(to_server).id, result |-> result]
<1>1. to_server \in Seq(ToServer) /\ to_client \in Seq(ToClient)
  BY DEF TypeOK, ToServer, ToClient
<1>2. Head(to_server) \in ToServer /\ to_server' \in Seq(ToServer)
  BY <1>1, HeadTailProperties DEF Respond
<1>3. Head(to_server) \in Requests
  BY <1>2 DEF ToServer, IceMessages
<1>4. m \in Answers /\ to_client' = Append(to_client, m)
  BY <1>3 DEF Answers, Requests, Respond
<1> HIDE DEF m
<1>5. to_client' \in Seq(ToClient)
  BY <1>1, <1>4, AppendProperties DEF ToClient
<1> QED BY <1>2, <1>3, <1>5

\* What the rest of a request leaves alone, and what it may do to the others.
LEMMA SettledType ==
  ASSUME TypeOK, NEW r \in pending, NEW result, Settled(r, result)
  PROVE  /\ UNCHANGED <<sent, gathered, localFinished, remoteFinished, cachedRemote, arrived>>
         /\ pending' = pending \ {r}
         /\ state' \in {state, "failed"} /\ peer' \in {peer, "answering", "closed"}
         /\ socket' \in {socket, "none"}
         /\ signalingConnection' \in BOOLEAN /\ streamId' \in BOOLEAN /\ threw' \in BOOLEAN
         /\ handed_end' \in BOOLEAN /\ refused' \subseteq 1 .. MaxRemote
         /\ to_server' \in Seq(ToServer)
         /\ cachedLocal' \in Seq(1 .. MaxLocal) /\ handed' \in Seq(1 .. MaxRemote)
<1>1. /\ to_server \in Seq(ToServer) /\ cachedLocal \in Seq(1 .. MaxLocal)
      /\ handed \in Seq(1 .. MaxRemote) /\ cachedRemote \in Seq(1 .. MaxRemote)
      /\ signalingConnection \in BOOLEAN /\ streamId \in BOOLEAN /\ threw \in BOOLEAN
      /\ handed_end \in BOOLEAN /\ localFinished \in BOOLEAN /\ remoteFinished \in BOOLEAN
      /\ refused \subseteq 1 .. MaxRemote
  BY DEF TypeOK, ToServer
<1>2. CASE ~Session(r)
  BY <1>1, <1>2 DEF Settled, Subscribed, ice_vars, Session
<1>3. CASE Session(r) /\ result # "SessionInitializeSuccess"
  <2>1. /\ to_server' \in {<<>>, to_server} /\ state' = "failed" /\ peer' = "closed"
        /\ socket' \in {socket, "none"}
    BY <1>3 DEF Settled, SessionFailed, setConnectionFailed, doClose, Session
  <2>2. to_server' \in Seq(ToServer)
    BY <1>1, <2>1, EmptySeq
  <2> QED BY <1>1, <1>3, <2>1, <2>2 DEF Settled, SessionFailed, ice_vars, Session
<1>4. CASE Session(r) /\ result = "SessionInitializeSuccess"
  <2>1. SessionInitialized /\ UNCHANGED <<streamId, threw, sent>> /\ pending' = pending \ {r}
    BY <1>4 DEF Settled, Session
  <2>2. to_server' \in Seq(ToServer)
    BY <1>1, <2>1, SignalType DEF SessionInitialized, processPendingIceCandidates
  <2>3. cachedLocal' \in Seq(1 .. MaxLocal) /\ handed' \in Seq(1 .. MaxRemote)
    BY <1>1, <2>1, ConcatProperties, EmptySeq
        DEF SessionInitialized, processPendingIceCandidates, applyCachedRemote
  <2>4. refused' \subseteq 1 .. MaxRemote
    <3>1. PICK n \in 0 .. Len(cachedRemote) : refused' = {cachedRemote[i] : i \in 1 .. n}
      BY <2>1 DEF SessionInitialized, processPendingIceCandidates, applyCachedRemote
    <3>2. \A i \in 1 .. n : cachedRemote[i] \in 1 .. MaxRemote
      BY <1>1, PrefixOf
    <3> QED BY <3>1, <3>2
  <2> QED BY <1>1, <2>1, <2>2, <2>3, <2>4
      DEF SessionInitialized, processPendingIceCandidates, applyCachedRemote
<1> QED BY <1>2, <1>3, <1>4

LEMMA TypeParts == TypeOK <=> Typed
  BY DEF TypeOK, Typed, PhaseType, PendingType, SentType, AnswerType, IceType, ServerIceType,
         RoomType, CallType, ToServer, ToClient

LEMMA TypeKept ==
  ASSUME Typed
  PROVE  /\ UNCHANGED <<state, peer, socket>> => PhaseType'
         /\ UNCHANGED <<sent, pending>> => PendingType'
         /\ UNCHANGED to_server => SentType'
         /\ UNCHANGED to_client => AnswerType'
         /\ UNCHANGED request_vars => PendingType' /\ SentType'
         /\ UNCHANGED ice_vars => IceType'
         /\ UNCHANGED server_ice_vars => ServerIceType'
         /\ UNCHANGED <<server, broadcast, subscribed>> => RoomType'
         /\ UNCHANGED server_vars => ServerIceType' /\ RoomType'
         /\ UNCHANGED call_vars => CallType'
<1>1. /\ UNCHANGED <<sent, pending>> => PendingType'
      /\ UNCHANGED request_vars => PendingType'
  BY DEF Typed, PendingType, request_vars
<1>2. UNCHANGED to_server \/ UNCHANGED request_vars => SentType'
  BY DEF Typed, SentType, request_vars
<1>3. UNCHANGED server_ice_vars \/ UNCHANGED server_vars => ServerIceType'
  BY DEF Typed, ServerIceType, server_vars, server_ice_vars
<1>4. UNCHANGED <<server, broadcast, subscribed>> \/ UNCHANGED server_vars => RoomType'
  BY DEF Typed, RoomType, server_vars
<1>5. UNCHANGED ice_vars => IceType'
  BY DEF Typed, IceType, ice_vars
<1>6. UNCHANGED call_vars => CallType'
  BY DEF Typed, CallType, call_vars
<1>7. UNCHANGED <<state, peer, socket>> => PhaseType'
  BY DEF Typed, PhaseType
<1>8. UNCHANGED to_client => AnswerType'
  BY DEF Typed, AnswerType
<1> QED BY <1>1, <1>2, <1>3, <1>4, <1>5, <1>6, <1>7, <1>8

\* Of a settled request, for the parts that it touches.
LEMMA SettledParts ==
  ASSUME Typed, NEW r \in pending, NEW result, Settled(r, result)
  PROVE  PhaseType' /\ PendingType' /\ SentType' /\ IceType'
<1>1. TypeOK
  BY TypeParts
<1>2. PhaseType'
  BY <1>1, SettledType DEF Typed, PhaseType
<1>3. PendingType'
  BY <1>1, SettledType DEF Typed, PendingType
<1>4. SentType'
  BY <1>1, SettledType DEF SentType
<1>5. IceType'
  BY <1>1, SettledType DEF Typed, IceType
<1> QED BY <1>2, <1>3, <1>4, <1>5

LEMMA TypeNext == Typed /\ [Next]_vars => Typed'
<1> SUFFICES ASSUME Typed, [Next]_vars PROVE Typed'
  OBVIOUS
<1>t. Typed /\ TypeOK
  BY TypeParts
<1>e. <<>> \in Seq(ToServer) /\ <<>> \in Seq(ToClient)
  OBVIOUS
<1>1. CASE connect \/ onSignallingConnected \/ OfferRejected
  <2>1. PhaseType'
    BY <1>t, <1>1 DEF Typed, PhaseType, connect, onSignallingConnected, OfferRejected
  <2> QED BY <1>t, <1>1, <2>1, TypeKept DEF Typed, connect, onSignallingConnected, OfferRejected
<1>2. CASE close \/ signalling_lost \/ rtc_failed
  <2>1. /\ to_server' \in {<<>>, to_server} /\ to_client' \in {<<>>, to_client}
        /\ pending' \subseteq pending /\ sent' = sent
        /\ state' \in {state, "failed", "closed"} /\ peer' = "closed" /\ socket' \in {socket, "none"}
        /\ UNCHANGED <<ice_vars, server_vars, calls, gave_up, threw>>
        /\ UNCHANGED streamId \/ signalling_lost
    BY <1>2 DEF close, signalling_lost, rtc_failed, setConnectionFailed, doClose, call_vars
  <2>2. streamId' \in BOOLEAN
    BY <1>t, <2>1 DEF signalling_lost, Typed, CallType
  <2>3. PhaseType' /\ CallType'
    BY <1>t, <2>1, <2>2 DEF Typed, PhaseType, CallType
  <2>4. PendingType'
    BY <1>t, <2>1 DEF Typed, PendingType
  <2>5. SentType' /\ AnswerType'
    BY <1>e, <1>t, <2>1 DEF Typed, SentType, AnswerType
  <2> QED BY <1>t, <2>1, <2>3, <2>4, <2>5, TypeKept DEF Typed
<1>3. CASE LocalOffer
  <2>1. PendingType' /\ SentType'
    BY <1>t, <1>3, SendType DEF LocalOffer, RequestType, PendingType, SentType
  <2>2. PhaseType'
    BY <1>t, <1>3 DEF LocalOffer, Typed, PhaseType
  <2> QED BY <1>t, <1>3, <2>1, <2>2, TypeKept DEF Typed, LocalOffer
<1>4. CASE onLocalIceCandidate
  <2>1. gathered \in Nat /\ gathered < MaxLocal /\ gathered + 1 \in 1 .. MaxLocal
    BY <1>t, <1>4, BoundsAssumption DEF Typed, IceType, onLocalIceCandidate
  <2>2. <<gathered + 1>> \in Seq(1 .. MaxLocal)
    BY <2>1
  <2>3. SentType'
    BY <1>t, <1>4, <2>2, SignalType, TypeKept DEF SentType, onLocalIceCandidate
  <2>4. cachedLocal' \in Seq(1 .. MaxLocal)
    <3>1. cachedLocal' \in {cachedLocal, Append(cachedLocal, gathered + 1)}
      BY <1>4 DEF onLocalIceCandidate
    <3>2. cachedLocal \in Seq(1 .. MaxLocal)
      BY <1>t DEF Typed, IceType
    <3> QED BY <2>1, <3>1, <3>2, AppendType
  <2>5. IceType'
    BY <1>t, <1>4, <2>1, <2>4 DEF Typed, IceType, onLocalIceCandidate
  <2> QED BY <1>t, <1>4, <2>3, <2>5, TypeKept DEF Typed, onLocalIceCandidate
<1>5. CASE onLocalIceFinished
  <2>1. <<>> \in Seq(1 .. MaxLocal)
    OBVIOUS
  <2>2. SentType'
    BY <1>t, <1>5, <2>1, SignalType, TypeKept DEF SentType, onLocalIceFinished
  <2>3. IceType'
    BY <1>t, <1>5 DEF Typed, IceType, onLocalIceFinished
  <2> QED BY <1>t, <1>5, <2>2, <2>3, TypeKept DEF Typed, onLocalIceFinished
<1>6. CASE subscribeBroadcast \/ unsubscribeBroadcast
  <2>1. PendingType' /\ SentType'
    BY <1>t, <1>6, SendType DEF subscribeBroadcast, unsubscribeBroadcast, RequestType,
                                PendingType, SentType
  <2>2. CallType'
    BY <1>t, <1>6, BoundsAssumption DEF Typed, CallType, subscribeBroadcast, unsubscribeBroadcast
  <2> QED BY <1>t, <1>6, <2>1, <2>2, TypeKept DEF Typed, subscribeBroadcast, unsubscribeBroadcast
<1>7. CASE handleMessage
  <2> DEFINE m == Head(to_client)
             waiting == {r \in pending : r.id = m.id}
  <2>1. m \in ToClient /\ Tail(to_client) \in Seq(ToClient)
    BY <1>t, <1>7, HeadTailProperties DEF Typed, AnswerType, handleMessage
  <2>2. UNCHANGED <<server_vars, calls, gave_up>>
    BY <1>7 DEF handleMessage
  <2>3. CASE m.id = 0
    <3>1. m.candidate \in 0 .. MaxRemote
      BY <2>1, <2>3 DEF Answers, Notifications, ToClient
    <3>2. /\ applyRemoteIceCandidate(m.candidate) /\ to_client' = Tail(to_client)
          /\ UNCHANGED <<state, peer, socket, request_vars, signalingConnection, gathered,
                         localFinished, cachedLocal, streamId, threw>>
      BY <1>7, <2>3 DEF handleMessage
    <3> HIDE DEF m
    <3>3. m.candidate # End => m.candidate \in 1 .. MaxRemote
      BY <3>1, BoundsAssumption DEF End
    <3>4. /\ arrived' \in Seq(1 .. MaxRemote) /\ handed' \in Seq(1 .. MaxRemote)
          /\ cachedRemote' \in Seq(1 .. MaxRemote)
      <4>1. /\ arrived' \in {arrived, Append(arrived, m.candidate)}
            /\ handed' \in {handed, Append(handed, m.candidate)}
            /\ cachedRemote' \in {cachedRemote, Append(cachedRemote, m.candidate)}
            /\ m.candidate = End => UNCHANGED <<arrived, handed, cachedRemote>>
        BY <3>2 DEF applyRemoteIceCandidate, addRemoteIceCandidate
      <4>2. /\ arrived \in Seq(1 .. MaxRemote) /\ handed \in Seq(1 .. MaxRemote)
            /\ cachedRemote \in Seq(1 .. MaxRemote)
        BY <1>t DEF Typed, IceType
      <4> QED BY <3>3, <4>1, <4>2, AppendType
    <3>5. handed_end' \in BOOLEAN /\ remoteFinished' \in BOOLEAN
      BY <1>t, <3>2 DEF Typed, IceType, applyRemoteIceCandidate, addRemoteIceCandidate
    <3>6. refused' \subseteq 1 .. MaxRemote
      BY <1>t, <3>2, <3>3 DEF Typed, IceType, applyRemoteIceCandidate, addRemoteIceCandidate, End
    <3>7. IceType'
      BY <1>t, <3>2, <3>4, <3>5, <3>6 DEF Typed, IceType
    <3>8. CallType'
      BY <1>t, <2>2, <3>2, TypeKept DEF Typed, CallType
    <3>9. AnswerType'
      BY <2>1, <3>2 DEF AnswerType
    <3> QED BY <1>t, <2>2, <3>2, <3>7, <3>8, <3>9, TypeKept DEF Typed
  <2>4. CASE m.id # 0 /\ waiting = {}
    <3>1. /\ to_client' = Tail(to_client)
          /\ UNCHANGED <<state, peer, socket, request_vars, ice_vars, streamId, threw>>
      BY <1>7, <2>4 DEF handleMessage
    <3>2. CallType'
      BY <1>t, <2>2, <3>1 DEF Typed, CallType
    <3>3. AnswerType'
      BY <2>1, <3>1 DEF AnswerType
    <3> QED BY <1>t, <2>2, <3>1, <3>2, <3>3, TypeKept DEF Typed
  <2>5. CASE m.id # 0 /\ waiting # {}
    <3>1. PICK r \in pending : Settled(r, m.result)
      BY <1>7, <2>5 DEF handleMessage
    <3>2. to_client' \in {<<>>, Tail(to_client)}
      BY <1>7, <2>5 DEF handleMessage
    <3> HIDE DEF m
    <3>3. AnswerType'
      BY <1>e, <2>1, <3>2 DEF AnswerType
    <3>4. CallType'
      BY <1>t, <2>2, <3>1, SettledType DEF Typed, CallType
    <3> QED BY <1>t, <2>2, <3>1, <3>3, <3>4, SettledParts, TypeKept DEF Typed
  <2> QED BY <2>3, <2>4, <2>5
<1>8. CASE \E r \in pending : timeout(r)
  <2>1. PICK r \in pending : timeout(r)
    BY <1>8
  <2>2. /\ Settled(r, "RequestTimeout") /\ to_client' \in {<<>>, to_client} /\ gave_up' = TRUE
        /\ UNCHANGED <<server_vars, calls>>
    BY <2>1 DEF timeout
  <2>3. AnswerType'
    BY <1>e, <1>t, <2>2 DEF Typed, AnswerType
  <2>4. CallType'
    BY <1>t, <2>2, SettledType DEF Typed, CallType
  <2> QED BY <1>t, <2>2, <2>3, <2>4, SettledParts, TypeKept DEF Typed
<1>9. CASE apply_offer \/ broadcast_ended
  <2>1. RoomType'
    BY <1>t, <1>9 DEF Typed, RoomType, apply_offer, broadcast_ended
  <2> QED BY <1>t, <1>9, <2>1, TypeKept DEF Typed, apply_offer, broadcast_ended
<1>10. CASE InitializeRefused \/ InitializeSession \/ BroadcastSubscribe \/ BroadcastUnsubscribe
  <2>1. PICK result \in Results : Respond(result)
    BY <1>10 DEF InitializeRefused, InitializeSession, BroadcastSubscribe, BroadcastUnsubscribe, Results
  <2>2. to_server # <<>> /\ Head(to_server).type # "IceCandidates"
    BY <1>10 DEF InitializeRefused, InitializeSession, BroadcastSubscribe, BroadcastUnsubscribe, Request
  <2>3. SentType' /\ AnswerType'
    BY <1>t, <2>1, <2>2, RespondType DEF SentType, AnswerType
  <2>4. UNCHANGED server_ice_vars /\ RoomType'
    BY <1>t, <1>10 DEF InitializeRefused, InitializeSession, BroadcastSubscribe, BroadcastUnsubscribe,
                       server_vars, Typed, RoomType
  <2> QED BY <1>t, <2>1, <2>3, <2>4, TypeKept DEF Typed, Respond
<1>11. CASE IceCandidates
  <2>1. Head(to_server) \in ToServer /\ Tail(to_server) \in Seq(ToServer)
    BY <1>t, <1>11, HeadTailProperties DEF IceCandidates, Request, Typed, SentType
  <2>2. Head(to_server) \in IceMessages
    BY <1>11, <2>1 DEF IceCandidates, Request, ToServer, Requests, RequestType
  <2> DEFINE candidates == Head(to_server).candidates
             finished == Head(to_server).finished
  <2>3. candidates \in Seq(1 .. MaxLocal) /\ finished \in BOOLEAN
    BY <2>2 DEF IceMessages
  <2>4. /\ to_server' = Tail(to_server)
        /\ UNCHANGED <<state, peer, socket, pending, sent, to_client, ice_vars, server,
                       server_gathered, notifying, broadcast, subscribed, call_vars>>
        /\ \/ UNCHANGED <<server_applied, server_applied_end, server_dropped>>
           \/ \E n \in 0 .. Len(candidates) :
                /\ server_applied' = server_applied \o SubSeq(candidates, 1, n)
                /\ server_dropped' = server_dropped \cup {candidates[i] : i \in n + 1 .. Len(candidates)}
                /\ server_applied_end' \in {server_applied_end, TRUE}
    BY <1>11 DEF IceCandidates
  <2> HIDE DEF candidates, finished
  <2>5. \A n \in 0 .. Len(candidates) :
          /\ SubSeq(candidates, 1, n) \in Seq(1 .. MaxLocal)
          /\ {candidates[i] : i \in n + 1 .. Len(candidates)} \subseteq 1 .. MaxLocal
    BY <2>3, PrefixOf
  <2>6. /\ server_applied' \in Seq(1 .. MaxLocal) /\ server_applied_end' \in BOOLEAN
        /\ server_dropped' \subseteq 1 .. MaxLocal
    <3>1. /\ server_applied \in Seq(1 .. MaxLocal) /\ server_applied_end \in BOOLEAN
          /\ server_dropped \subseteq 1 .. MaxLocal
      BY <1>t DEF Typed, ServerIceType
    <3>2. CASE UNCHANGED <<server_applied, server_applied_end, server_dropped>>
      BY <3>1, <3>2
    <3>3. ASSUME NEW n \in 0 .. Len(candidates),
                 server_applied' = server_applied \o SubSeq(candidates, 1, n)
          PROVE  server_applied' \in Seq(1 .. MaxLocal)
      BY <2>5, <3>1, <3>3, ConcatProperties
    <3> QED BY <2>4, <2>5, <3>1, <3>2, <3>3
  <2>7. ServerIceType' /\ SentType'
    BY <1>t, <2>1, <2>4, <2>6 DEF Typed, ServerIceType, SentType
  <2> QED BY <1>t, <2>4, <2>7, TypeKept DEF Typed
<1>12. CASE \E c \in 0 .. MaxRemote : ServerCandidate(c)
  <2>1. PICK c \in 0 .. MaxRemote : ServerCandidate(c)
    BY <1>12
  <2>2. ServerIceType'
    BY <1>t, <2>1, AppendProperties DEF Typed, ServerIceType, ServerCandidate
  <2> QED BY <1>t, <2>1, <2>2, TypeKept DEF Typed, ServerCandidate
<1>13. CASE \E c \in 0 .. MaxRemote : signaling_notify(c)
  <2>1. PICK c \in 0 .. MaxRemote : signaling_notify(c)
    BY <1>13
  <2> DEFINE m == [id |-> 0, candidate |-> c]
  <2>2. m \in ToClient
    BY DEF ToClient, Notifications
  <2>3. to_client' = Append(to_client, m)
    BY <2>1 DEF signaling_notify
  <2> HIDE DEF m
  <2>4. AnswerType'
    BY <1>t, <2>2, <2>3, AppendProperties DEF Typed, AnswerType
  <2>5. ServerIceType'
    BY <1>t, <2>1 DEF Typed, ServerIceType, signaling_notify
  <2> QED BY <1>t, <2>1, <2>4, <2>5, TypeKept DEF Typed, signaling_notify
<1>14. CASE AnswerApplied \/ AnswerRejected
  <2>1. /\ peer' \in {"stable", "answer_rejected"} /\ state' \in {state, "connected"}
        /\ refused' \subseteq refused \cup Range(handed)
        /\ UNCHANGED <<socket, request_vars, to_client, signalingConnection, gathered, localFinished,
                       remoteFinished, cachedLocal, cachedRemote, handed, handed_end, arrived,
                       server_vars, call_vars>>
    BY <1>14 DEF AnswerApplied, AnswerRejected
  <2>2. Range(handed) \subseteq 1 .. MaxRemote
    BY <1>t, RangeOfSeq DEF Typed, IceType
  <2>3. IceType'
    BY <1>t, <2>1, <2>2 DEF Typed, IceType
  <2>4. PhaseType'
    BY <1>t, <2>1 DEF Typed, PhaseType
  <2> QED BY <1>t, <2>1, <2>3, <2>4, TypeKept DEF Typed
<1>15. CASE UNCHANGED vars
  BY <1>t, <1>15, TypeKept DEF Typed, vars
<1> QED BY <1>1, <1>2, <1>3, <1>4, <1>5, <1>6, <1>7, <1>8, <1>9, <1>10, <1>11, <1>12, <1>13, <1>14,
           <1>15 DEF Next

-----------------------------------------------------------------------------
(* Phases, the request for the session, and what the server has by then.    *)

\* A connection that is closed loses its socket, or has nothing on its way.
LEMMA ClosedCases ==
  ASSUME PhaseInv, doClose
  PROVE  /\ peer' = "closed" /\ to_server' = <<>> /\ to_client' = <<>> /\ socket' \in {socket, "none"}
         /\ socket' = "none" \/ (~Described /\ UNCHANGED socket)
  BY DEF PhaseInv, doClose

\* What becomes of the request for the session, and of any other.
LEMMA SettledCases ==
  ASSUME PhaseInv, NEW r \in pending, NEW result, Settled(r, result)
  PROVE  /\ pending' = pending \ {r} /\ sent' = sent
         /\ \/ /\ ~Session(r) /\ UNCHANGED <<state, peer, socket, to_server, ice_vars>>
               /\ Subscribed(r.type, result)
            \/ /\ Session(r) /\ result # "SessionInitializeSuccess"
               /\ state' = "failed" /\ peer' = "closed" /\ socket' = "none" /\ to_server' = <<>>
               /\ to_client' = <<>> /\ UNCHANGED <<ice_vars, streamId, threw>>
            \/ /\ Session(r) /\ result = "SessionInitializeSuccess"
               /\ SessionInitialized /\ UNCHANGED <<streamId, threw>>
<1>1. Described \/ (socket = "none" /\ to_server = <<>> /\ to_client = <<>>)
  BY DEF PhaseInv, Gone
<1> QED BY <1>1 DEF Settled, SessionFailed, setConnectionFailed, doClose, Session

\* The ends of a connection, and the steps that are about its peer only.
LEMMA PhaseNext == Typed /\ PhaseInv /\ [Next]_vars => PhaseInv'
<1> SUFFICES ASSUME Typed, PhaseInv, [Next]_vars PROVE PhaseInv'
  OBVIOUS
<1> USE DEF PhaseInv, Down, Described, Gone
<1>1. CASE \/ connect \/ onSignallingConnected \/ AnswerApplied \/ LocalOffer
           \/ OfferRejected \/ AnswerRejected
  BY <1>1 DEF connect, onSignallingConnected, AnswerApplied, LocalOffer, OfferRejected, AnswerRejected,
              request_vars, server_vars, server_ice_vars
<1>2. CASE close \/ signalling_lost \/ rtc_failed
  BY <1>2 DEF close, signalling_lost, rtc_failed, setConnectionFailed, doClose, server_vars,
              server_ice_vars
<1>3. ASSUME Described, UNCHANGED <<state, peer, socket>>, server' = "none" => notifying' = {}
      PROVE  PhaseInv'
  BY <1>3
<1>4. ASSUME NEW r \in pending, NEW result, Settled(r, result),
             Described \/ (Gone /\ result # "SessionInitializeSuccess"),
             to_client = <<>> => to_client' = <<>>, UNCHANGED <<server, notifying>>
      PROVE  PhaseInv'
  BY <1>4, SettledCases DEF SessionInitialized
<1>5. CASE onLocalIceCandidate \/ onLocalIceFinished \/ subscribeBroadcast \/ unsubscribeBroadcast
  <2>1. Described /\ UNCHANGED <<state, peer, socket, server, notifying>>
    BY <1>5 DEF onLocalIceCandidate, onLocalIceFinished, subscribeBroadcast, unsubscribeBroadcast,
                server_vars, server_ice_vars
  <2> QED BY <1>3, <2>1
<1>6. CASE handleMessage
  <2>1. Described /\ to_client # <<>> /\ UNCHANGED <<server, notifying>>
    BY <1>6 DEF handleMessage, server_vars, server_ice_vars
  <2>2. CASE UNCHANGED <<state, peer, socket>>
    BY <1>3, <2>1, <2>2
  <2>3. CASE ~UNCHANGED <<state, peer, socket>>
    BY <1>4, <1>6, <2>1, <2>3 DEF handleMessage
  <2> QED BY <2>2, <2>3
<1>7. CASE \E r \in pending : timeout(r)
  <2>1. PICK r \in pending : timeout(r)
    BY <1>7
  <2>2. /\ Settled(r, "RequestTimeout") /\ (to_client' = to_client \/ to_client' = <<>>)
        /\ UNCHANGED <<server, notifying>>
    BY <2>1 DEF timeout, server_vars, server_ice_vars
  <2> QED BY <1>4, <2>2
<1>8. CASE \/ apply_offer \/ InitializeRefused \/ InitializeSession \/ IceCandidates
           \/ BroadcastSubscribe \/ BroadcastUnsubscribe
  <2>1. Described /\ UNCHANGED <<state, peer, socket, notifying>> /\ (server' = "none" => server = "none")
    BY <1>8 DEF apply_offer, InitializeRefused, InitializeSession, IceCandidates, BroadcastSubscribe,
                BroadcastUnsubscribe, Request, Respond, server_vars, server_ice_vars
  <2> QED BY <1>3, <2>1
<1>9. CASE broadcast_ended \/ \E c \in 0 .. MaxRemote : ServerCandidate(c) \/ signaling_notify(c)
  <2>1. /\ server # "none" /\ UNCHANGED <<state, peer, socket, pending, to_server, server>>
        /\ UNCHANGED to_client \/ (socket = "open" /\ notifying # {})
    BY <1>9 DEF broadcast_ended, ServerCandidate, signaling_notify, request_vars
  <2>2. to_client' = to_client \/ Described
    BY <2>1
  <2> QED BY <2>1, <2>2
<1>10. CASE UNCHANGED vars
  BY <1>10 DEF vars, request_vars, server_vars, server_ice_vars
<1> QED BY <1>1, <1>2, <1>5, <1>6, <1>7, <1>8, <1>9, <1>10 DEF Next

LEMMA SessionNext == Typed /\ PhaseInv /\ SessionInv /\ [Next]_vars => SessionInv'
<1> SUFFICES ASSUME Typed, PhaseInv, SessionInv, [Next]_vars PROVE SessionInv'
  OBVIOUS
<1> USE DEF SessionInv, Session
<1>1. CASE connect \/ onSignallingConnected \/ OfferRejected \/ AnswerApplied \/ AnswerRejected
  BY <1>1 DEF PhaseInv, connect, onSignallingConnected, OfferRejected, AnswerApplied, AnswerRejected,
              request_vars, ice_vars
<1>2. CASE LocalOffer
  BY <1>2 DEF LocalOffer, sendRequest, ice_vars
<1>3. CASE close \/ signalling_lost \/ rtc_failed
  BY <1>3 DEF close, signalling_lost, rtc_failed, setConnectionFailed, doClose, ice_vars
<1>4. CASE onLocalIceCandidate \/ onLocalIceFinished
  <2>1. UNCHANGED <<peer, pending, signalingConnection>>
    BY <1>4 DEF onLocalIceCandidate, onLocalIceFinished
  <2> QED BY <2>1
<1>5. CASE subscribeBroadcast \/ unsubscribeBroadcast
  BY <1>5 DEF subscribeBroadcast, unsubscribeBroadcast, sendRequest, ice_vars
<1>6. ASSUME NEW r \in pending, NEW result, Settled(r, result)
      PROVE  SessionInv'
  BY <1>6, SettledCases DEF SessionInitialized, ice_vars
<1>7. CASE handleMessage
  BY <1>6, <1>7 DEF handleMessage, request_vars, ice_vars
<1>8. CASE \E r \in pending : timeout(r)
  BY <1>6, <1>8 DEF timeout
<1>9. CASE \/ apply_offer \/ InitializeRefused \/ InitializeSession \/ IceCandidates
           \/ BroadcastSubscribe \/ BroadcastUnsubscribe
  BY <1>9 DEF apply_offer, InitializeRefused, InitializeSession, IceCandidates, BroadcastSubscribe,
              BroadcastUnsubscribe, Respond, request_vars, ice_vars
<1>10. CASE broadcast_ended \/ \E c \in 0 .. MaxRemote : ServerCandidate(c) \/ signaling_notify(c)
  <2>1. UNCHANGED <<peer, pending, signalingConnection>>
    BY <1>10 DEF broadcast_ended, ServerCandidate, signaling_notify, request_vars, ice_vars
  <2> QED BY <2>1
<1>11. CASE UNCHANGED vars
  BY <1>11 DEF vars, request_vars, ice_vars
<1> QED BY <1>1, <1>2, <1>3, <1>4, <1>5, <1>7, <1>8, <1>9, <1>10, <1>11 DEF Next

\* Queues without a message of one kind, when a message of another kind is
\* added, and when the first is taken.
LEMMA QueueKinds ==
  ASSUME NEW S, NEW q \in Seq(S), NEW m
  PROVE  /\ NoCandidates(q) /\ IsRequest(m) => NoCandidates(Append(q, m))
         /\ NoSuccess(q) /\ (IsAnswer(m) => m.result # "SessionInitializeSuccess")
              => NoSuccess(Append(q, m))
         /\ q # <<>> /\ NoCandidates(q) => NoCandidates(Tail(q)) /\ IsRequest(Head(q))
         /\ q # <<>> /\ NoSuccess(q) => NoSuccess(Tail(q))
         /\ q # <<>> /\ NoSuccess(q) /\ IsAnswer(Head(q))
              => Head(q).result # "SessionInitializeSuccess"
<1>1. Len(q) \in Nat
  OBVIOUS
<1>2. NoCandidates(q) /\ IsRequest(m) => NoCandidates(Append(q, m))
  BY <1>1, AppendAt DEF NoCandidates
<1>3. NoSuccess(q) /\ (IsAnswer(m) => m.result # "SessionInitializeSuccess") => NoSuccess(Append(q, m))
  BY <1>1, AppendAt DEF NoSuccess
<1>4. q # <<>> /\ NoCandidates(q) => NoCandidates(Tail(q)) /\ IsRequest(Head(q))
  BY <1>1, TailAt DEF NoCandidates
<1>5. q # <<>> /\ NoSuccess(q) => NoSuccess(Tail(q))
  BY <1>1, TailAt DEF NoSuccess
<1>6. q # <<>> /\ NoSuccess(q) /\ IsAnswer(Head(q)) => Head(q).result # "SessionInitializeSuccess"
  BY <1>1, TailAt DEF NoSuccess
<1> QED BY <1>2, <1>3, <1>4, <1>5, <1>6

LEMMA IceNext == Typed /\ PhaseInv /\ SessionInv /\ IceInv /\ [Next]_vars => IceInv'
<1> SUFFICES ASSUME Typed, PhaseInv, SessionInv, IceInv, [Next]_vars PROVE IceInv'
  OBVIOUS
<1>t. /\ to_server \in Seq(ToServer) /\ to_client \in Seq(ToClient)
      /\ signalingConnection \in BOOLEAN
  BY DEF Typed, SentType, AnswerType, IceType
<1>1. CASE connect \/ onSignallingConnected \/ OfferRejected \/ AnswerApplied \/ AnswerRejected
  <2>1. /\ UNCHANGED <<to_server, to_client, signalingConnection, cachedLocal, server>>
        /\ peer = "closed" => peer' = "closed"
    BY <1>1 DEF PhaseInv, Down, connect, onSignallingConnected, OfferRejected, AnswerApplied,
                AnswerRejected, request_vars, ice_vars, server_vars
  <2> QED BY <2>1 DEF IceInv
<1>2. ASSUME NEW type \in RequestType, sendRequest(type), peer' # "new", peer # "closed",
             UNCHANGED <<to_client, ice_vars, server_vars>>
      PROVE  IceInv'
  <2> DEFINE m == [id |-> sent + 1, type |-> type]
  <2>1. to_server' = Append(to_server, m) /\ IsRequest(m)
    BY <1>2 DEF sendRequest, RequestType, IsRequest
  <2> HIDE DEF m
  <2>2. NoCandidates(to_server) => NoCandidates(to_server')
    BY <1>t, <2>1, QueueKinds
  <2>3. UNCHANGED <<to_client, signalingConnection, cachedLocal, server>>
    BY <1>2 DEF ice_vars, server_vars
  <2> QED BY <1>2, <2>2, <2>3 DEF IceInv
<1>3. CASE LocalOffer
  BY <1>2, <1>3 DEF LocalOffer, RequestType
<1>4. CASE subscribeBroadcast \/ unsubscribeBroadcast
  <2>1. peer \notin {"new", "closed"} /\ peer' = peer
    BY <1>4 DEF subscribeBroadcast, unsubscribeBroadcast, PhaseInv, Described
  <2> QED BY <1>2, <1>4, <2>1 DEF subscribeBroadcast, unsubscribeBroadcast, RequestType
<1>5. CASE close \/ signalling_lost \/ rtc_failed
  BY <1>5 DEF close, signalling_lost, rtc_failed, setConnectionFailed, doClose, IceInv
<1>6. CASE onLocalIceCandidate \/ onLocalIceFinished
  <2>1. /\ peer' = peer /\ peer \notin {"new", "closed"}
        /\ UNCHANGED <<to_client, signalingConnection, server>>
        /\ signalingConnection => cachedLocal' = cachedLocal
        /\ ~signalingConnection => to_server' = to_server
    BY <1>6 DEF onLocalIceCandidate, onLocalIceFinished, Described, server_vars
  <2> QED BY <1>t, <2>1 DEF IceInv
<1>7. ASSUME NEW r \in pending, NEW result, Settled(r, result),
             result = "SessionInitializeSuccess" => server # "none",
             NoSuccess(to_client) => NoSuccess(to_client'), UNCHANGED server
      PROVE  IceInv'
  <2>1. CASE ~Session(r) \/ result # "SessionInitializeSuccess"
    <3>1. \/ peer' = "closed"
          \/ UNCHANGED <<peer, to_server, signalingConnection, cachedLocal>>
      BY <1>7, <2>1, SettledCases DEF ice_vars
    <3> QED BY <1>7, <3>1 DEF IceInv
  <2>2. CASE Session(r) /\ result = "SessionInitializeSuccess"
    <3>1. signalingConnection' /\ peer' = "answering" /\ cachedLocal' = <<>>
      BY <1>7, <2>2, SettledCases DEF SessionInitialized, processPendingIceCandidates
    <3> QED BY <1>7, <2>2, <3>1 DEF IceInv
  <2> QED BY <2>1, <2>2
<1>8. CASE handleMessage
  <2> DEFINE m == Head(to_client)
             waiting == {r \in pending : r.id = m.id}
  <2>1. to_client # <<>> /\ peer # "closed" /\ UNCHANGED server
    BY <1>8 DEF handleMessage, PhaseInv, Described, server_vars
  <2>2. NoSuccess(to_client) => NoSuccess(Tail(to_client)) /\ NoSuccess(<<>>)
    BY <1>t, <2>1, QueueKinds DEF NoSuccess
  <2>3. CASE m.id = 0 \/ waiting = {}
    <3>1. UNCHANGED <<peer, to_server, signalingConnection, cachedLocal>>
      BY <1>8, <2>3 DEF handleMessage, request_vars, ice_vars
    <3>2. to_client' = Tail(to_client)
      BY <1>8, <2>3 DEF handleMessage
    <3> QED BY <2>1, <2>2, <3>1, <3>2 DEF IceInv
  <2>4. CASE m.id # 0 /\ waiting # {}
    <3>1. PICK r \in pending : Settled(r, m.result)
      BY <1>8, <2>4 DEF handleMessage
    <3>2. to_client' \in {<<>>, Tail(to_client)}
      BY <1>8, <2>4 DEF handleMessage
    <3>3. m.result = "SessionInitializeSuccess" => server # "none"
      BY <1>t, <2>1, <2>4, QueueKinds DEF IceInv, IsAnswer
    <3> QED BY <1>7, <2>1, <2>2, <3>1, <3>2, <3>3
  <2> QED BY <2>3, <2>4
<1>9. CASE \E r \in pending : timeout(r)
  <2>1. PICK r \in pending : timeout(r)
    BY <1>9
  <2>2. /\ Settled(r, "RequestTimeout") /\ to_client' \in {<<>>, to_client}
        /\ UNCHANGED server
    BY <2>1 DEF timeout, server_vars
  <2>3. NoSuccess(<<>>)
    BY DEF NoSuccess
  <2> QED BY <1>7, <2>2, <2>3
<1>10. CASE InitializeRefused \/ InitializeSession \/ BroadcastSubscribe \/ BroadcastUnsubscribe
  <2>1. PICK result \in Results :
          Respond(result) /\ (server' # "none" \/ result # "SessionInitializeSuccess")
    BY <1>10 DEF InitializeRefused, InitializeSession, BroadcastSubscribe, BroadcastUnsubscribe, Results
  <2>2. to_server # <<>>
    BY <1>10 DEF InitializeRefused, InitializeSession, BroadcastSubscribe, BroadcastUnsubscribe, Request
  <2> DEFINE m == [id |-> Head(to_server).id, result |-> result]
  <2>3. /\ to_server' = Tail(to_server) /\ to_client' = Append(to_client, m) /\ m.result = result
        /\ UNCHANGED <<peer, signalingConnection, cachedLocal>>
    BY <2>1 DEF Respond, ice_vars
  <2>4. server' = server \/ server' # "none"
    BY <1>10 DEF InitializeRefused, InitializeSession, BroadcastSubscribe, BroadcastUnsubscribe,
                 server_vars
  <2> HIDE DEF m
  <2>5. NoCandidates(to_server) => NoCandidates(to_server')
    BY <1>t, <2>2, <2>3, QueueKinds
  <2>6. result # "SessionInitializeSuccess" /\ NoSuccess(to_client) => NoSuccess(to_client')
    BY <1>t, <2>3, QueueKinds
  <2> QED BY <2>1, <2>3, <2>4, <2>5, <2>6 DEF IceInv
<1>11. CASE IceCandidates
  <2>1. /\ to_server # <<>> /\ ~IsRequest(Head(to_server)) /\ peer # "closed"
        /\ UNCHANGED <<peer, to_client, signalingConnection, cachedLocal, server>>
    BY <1>11 DEF IceCandidates, Request, IsRequest, PhaseInv, Described, ice_vars
  <2>2. signalingConnection
    BY <1>t, <2>1, QueueKinds DEF IceInv
  <2> QED BY <2>1, <2>2 DEF IceInv
<1>12. CASE apply_offer \/ broadcast_ended \/ \E c \in 0 .. MaxRemote : ServerCandidate(c)
  <2>1. /\ UNCHANGED <<peer, to_server, to_client, signalingConnection, cachedLocal>>
        /\ server' = server \/ server' # "none"
    BY <1>12 DEF apply_offer, broadcast_ended, ServerCandidate, request_vars, ice_vars, server_ice_vars
  <2> QED BY <2>1 DEF IceInv
<1>13. CASE \E c \in 0 .. MaxRemote : signaling_notify(c)
  <2>1. PICK c \in 0 .. MaxRemote : signaling_notify(c)
    BY <1>13
  <2> DEFINE m == [id |-> 0, candidate |-> c]
  <2>2. to_client' = Append(to_client, m) /\ ~IsAnswer(m)
    BY <2>1 DEF signaling_notify, IsAnswer
  <2>3. UNCHANGED <<peer, to_server, signalingConnection, cachedLocal, server>>
    BY <2>1 DEF signaling_notify, request_vars, ice_vars
  <2> HIDE DEF m
  <2>4. NoSuccess(to_client) => NoSuccess(to_client')
    BY <1>t, <2>2, QueueKinds
  <2> QED BY <2>3, <2>4 DEF IceInv
<1>14. CASE UNCHANGED vars
  <2>1. UNCHANGED <<peer, to_server, to_client, signalingConnection, cachedLocal, server>>
    BY <1>14 DEF vars, request_vars, ice_vars, server_vars
  <2> QED BY <2>1 DEF IceInv
<1> QED BY <1>1, <1>3, <1>4, <1>5, <1>6, <1>8, <1>9, <1>10, <1>11, <1>12, <1>13, <1>14 DEF Next

-----------------------------------------------------------------------------
(* Requests and their answers.                                              *)

LEMMA PairedNone == ASSUME NEW requests PROVE Paired(requests, <<>>, <<>>)
  BY DEF Paired

\* A message is added.
LEMMA PairedSend ==
  ASSUME NEW S, NEW T, NEW up \in Seq(S), NEW down \in Seq(T), NEW requests, NEW m,
         Paired(requests, up, down), \A r \in requests : r.id # m.id
  PROVE  Paired(requests \cup {m}, Append(up, m), down)
<1> DEFINE q == Append(up, m)
<1>1. /\ Len(up) \in Nat /\ Len(down) \in Nat /\ Len(q) = Len(up) + 1
      /\ \A k \in 1 .. Len(up) : q[k] = up[k]
      /\ q[Len(up) + 1] = m
  BY AppendAt
<1> HIDE DEF q
<1>2. \A k \in 1 .. Len(q) : k \in 1 .. Len(up) \/ k = Len(up) + 1
  BY <1>1
<1>3. \A k \in 1 .. Len(q) : IsRequest(q[k]) => q[k] \in requests \cup {m}
  BY <1>1, <1>2 DEF Paired
<1>4. \A k \in 1 .. Len(down) : IsAnswer(down[k]) =>
        \E r \in requests : r.id = down[k].id /\ Fits(r.type, down[k].result) /\ r.id # m.id
  BY DEF Paired
<1>5. \A k \in 1 .. Len(up) : IsRequest(up[k]) => up[k].id # m.id
  BY DEF Paired
<1>6. \A j, k \in 1 .. Len(q) : IsRequest(q[j]) /\ IsRequest(q[k]) /\ q[j].id = q[k].id => j = k
  BY <1>1, <1>2, <1>5 DEF Paired
<1>7. \A j \in 1 .. Len(q), k \in 1 .. Len(down) :
        IsRequest(q[j]) /\ IsAnswer(down[k]) => q[j].id # down[k].id
  BY <1>1, <1>2, <1>4 DEF Paired
<1>8. Paired(requests \cup {m}, q, down)
  BY <1>3, <1>4, <1>6, <1>7 DEF Paired
<1> QED BY <1>8 DEF q

LEMMA PairedSignal ==
  ASSUME NEW S, NEW up \in Seq(S), NEW down, NEW requests, NEW m,
         Paired(requests, up, down), ~IsRequest(m)
  PROVE  Paired(requests, Append(up, m), down)
<1> DEFINE q == Append(up, m)
<1>1. /\ Len(up) \in Nat /\ Len(q) = Len(up) + 1
      /\ \A k \in 1 .. Len(up) : q[k] = up[k]
      /\ q[Len(up) + 1] = m
  BY AppendAt
<1> HIDE DEF q
<1>2. \A k \in 1 .. Len(q) : IsRequest(q[k]) => k \in 1 .. Len(up) /\ q[k] = up[k]
  BY <1>1
<1>3. Paired(requests, q, down)
  BY <1>2 DEF Paired
<1> QED BY <1>3 DEF q

LEMMA PairedNotify ==
  ASSUME NEW T, NEW up, NEW down \in Seq(T), NEW requests, NEW m,
         Paired(requests, up, down), ~IsAnswer(m)
  PROVE  Paired(requests, up, Append(down, m))
<1> DEFINE q == Append(down, m)
<1>1. /\ Len(down) \in Nat /\ Len(q) = Len(down) + 1
      /\ \A k \in 1 .. Len(down) : q[k] = down[k]
      /\ q[Len(down) + 1] = m
  BY AppendAt
<1> HIDE DEF q
<1>2. \A k \in 1 .. Len(q) : IsAnswer(q[k]) => k \in 1 .. Len(down) /\ q[k] = down[k]
  BY <1>1
<1>3. Paired(requests, up, q)
  BY <1>2 DEF Paired
<1> QED BY <1>3 DEF q

\* The first message is taken.
LEMMA PairedTake ==
  ASSUME NEW S, NEW up \in Seq(S), up # <<>>, NEW down, NEW requests, Paired(requests, up, down)
  PROVE  /\ Paired(requests, Tail(up), down)
         /\ IsRequest(Head(up)) =>
              /\ Head(up) \in requests
              /\ \A k \in 1 .. Len(Tail(up)) : IsRequest(Tail(up)[k]) => Tail(up)[k].id # Head(up).id
              /\ \A k \in 1 .. Len(down) : IsAnswer(down[k]) => down[k].id # Head(up).id
<1> DEFINE q == Tail(up)
<1>1. /\ Len(up) \in Nat \ {0} /\ Len(q) = Len(up) - 1
      /\ \A k \in 1 .. Len(up) - 1 : q[k] = up[k + 1]
      /\ Head(up) = up[1]
  BY TailAt
<1> HIDE DEF q
<1>2. \A k \in 1 .. Len(q) : k + 1 \in 1 .. Len(up) /\ q[k] = up[k + 1] /\ k + 1 # 1
  BY <1>1
<1>3. 1 \in 1 .. Len(up)
  BY <1>1
<1>4. Paired(requests, q, down)
  <2>1. \A k \in 1 .. Len(q) : IsRequest(q[k]) => q[k] \in requests
    BY <1>2 DEF Paired
  <2>2. \A j, k \in 1 .. Len(q) : IsRequest(q[j]) /\ IsRequest(q[k]) /\ q[j].id = q[k].id => j = k
    <3> SUFFICES ASSUME NEW j \in 1 .. Len(q), NEW k \in 1 .. Len(q), IsRequest(q[j]),
                        IsRequest(q[k]), q[j].id = q[k].id
                 PROVE  j = k
      OBVIOUS
    <3>1. j + 1 = k + 1
      BY <1>2 DEF Paired
    <3> QED BY <3>1
  <2>3. \A j \in 1 .. Len(q), k \in 1 .. Len(down) :
          IsRequest(q[j]) /\ IsAnswer(down[k]) => q[j].id # down[k].id
    BY <1>2 DEF Paired
  <2> QED BY <2>1, <2>2, <2>3 DEF Paired
<1>5. ASSUME IsRequest(Head(up))
      PROVE  /\ Head(up) \in requests
             /\ \A k \in 1 .. Len(q) : IsRequest(q[k]) => q[k].id # Head(up).id
             /\ \A k \in 1 .. Len(down) : IsAnswer(down[k]) => down[k].id # Head(up).id
  BY <1>1, <1>2, <1>3, <1>5 DEF Paired
<1> QED BY <1>4, <1>5 DEF q

LEMMA PairedDrop ==
  ASSUME NEW T, NEW up, NEW down \in Seq(T), down # <<>>, NEW requests, Paired(requests, up, down)
  PROVE  /\ Paired(requests, up, Tail(down))
         /\ IsAnswer(Head(down)) =>
              /\ \E r \in requests : r.id = Head(down).id /\ Fits(r.type, Head(down).result)
              /\ \A k \in 1 .. Len(Tail(down)) :
                   IsAnswer(Tail(down)[k]) => Tail(down)[k].id # Head(down).id
              /\ \A k \in 1 .. Len(up) : IsRequest(up[k]) => up[k].id # Head(down).id
<1> DEFINE q == Tail(down)
<1>1. /\ Len(down) \in Nat \ {0} /\ Len(q) = Len(down) - 1
      /\ \A k \in 1 .. Len(down) - 1 : q[k] = down[k + 1]
      /\ Head(down) = down[1]
  BY TailAt
<1> HIDE DEF q
<1>2. \A k \in 1 .. Len(q) : k + 1 \in 1 .. Len(down) /\ q[k] = down[k + 1] /\ k + 1 # 1
  BY <1>1
<1>3. 1 \in 1 .. Len(down)
  BY <1>1
<1>4. Paired(requests, up, q)
  <2>1. \A k \in 1 .. Len(q) : IsAnswer(q[k]) =>
          \E r \in requests : r.id = q[k].id /\ Fits(r.type, q[k].result)
    BY <1>2 DEF Paired
  <2>2. \A j, k \in 1 .. Len(q) : IsAnswer(q[j]) /\ IsAnswer(q[k]) /\ q[j].id = q[k].id => j = k
    <3> SUFFICES ASSUME NEW j \in 1 .. Len(q), NEW k \in 1 .. Len(q), IsAnswer(q[j]),
                        IsAnswer(q[k]), q[j].id = q[k].id
                 PROVE  j = k
      OBVIOUS
    <3>1. j + 1 = k + 1
      BY <1>2 DEF Paired
    <3> QED BY <3>1
  <2>3. \A j \in 1 .. Len(up), k \in 1 .. Len(q) :
          IsRequest(up[j]) /\ IsAnswer(q[k]) => up[j].id # q[k].id
    BY <1>2 DEF Paired
  <2> QED BY <2>1, <2>2, <2>3 DEF Paired
<1>5. ASSUME IsAnswer(Head(down))
      PROVE  /\ \E r \in requests : r.id = Head(down).id /\ Fits(r.type, Head(down).result)
             /\ \A k \in 1 .. Len(q) : IsAnswer(q[k]) => q[k].id # Head(down).id
             /\ \A k \in 1 .. Len(up) : IsRequest(up[k]) => up[k].id # Head(down).id
  BY <1>1, <1>2, <1>3, <1>5 DEF Paired
<1> QED BY <1>4, <1>5 DEF q

\* A request is answered.
LEMMA PairedAnswer ==
  ASSUME NEW S, NEW T, NEW up \in Seq(S), up # <<>>, NEW down \in Seq(T), NEW requests,
         Paired(requests, up, down), IsRequest(Head(up)), NEW m, m.id = Head(up).id,
         Fits(Head(up).type, m.result)
  PROVE  Paired(requests, Tail(up), Append(down, m))
<1> DEFINE p == Tail(up)
           q == Append(down, m)
<1>1. /\ Paired(requests, p, down) /\ Head(up) \in requests
      /\ \A k \in 1 .. Len(p) : IsRequest(p[k]) => p[k].id # m.id
      /\ \A k \in 1 .. Len(down) : IsAnswer(down[k]) => down[k].id # m.id
  BY PairedTake
<1>2. /\ Len(down) \in Nat /\ Len(q) = Len(down) + 1
      /\ \A k \in 1 .. Len(down) : q[k] = down[k]
      /\ q[Len(down) + 1] = m
  BY AppendAt
<1> HIDE DEF p, q
<1>3. \A k \in 1 .. Len(q) :
        \/ k \in 1 .. Len(down) /\ q[k] = down[k]
        \/ k = Len(down) + 1 /\ q[k] = m
  <2> SUFFICES ASSUME NEW k \in 1 .. Len(q), k # Len(down) + 1
               PROVE  k \in 1 .. Len(down) /\ q[k] = down[k]
    BY <1>2
  <2>1. k \in 1 .. Len(down)
    BY <1>2
  <2> QED BY <1>2, <2>1
<1>4. \A k \in 1 .. Len(q) : IsAnswer(q[k]) =>
        \E r \in requests : r.id = q[k].id /\ Fits(r.type, q[k].result)
  BY <1>1, <1>3 DEF Paired
<1>5. \A j, k \in 1 .. Len(q) : IsAnswer(q[j]) /\ IsAnswer(q[k]) /\ q[j].id = q[k].id => j = k
  BY <1>1, <1>3 DEF Paired
<1>6. \A j \in 1 .. Len(p), k \in 1 .. Len(q) :
        IsRequest(p[j]) /\ IsAnswer(q[k]) => p[j].id # q[k].id
  BY <1>1, <1>3 DEF Paired
<1>7. Paired(requests, p, q)
  BY <1>1, <1>4, <1>5, <1>6 DEF Paired
<1> QED BY <1>7 DEF p, q

\* An answer arrives.
LEMMA PairedSettle ==
  ASSUME NEW T, NEW up, NEW down \in Seq(T), down # <<>>, NEW requests,
         Paired(requests, up, down), IsAnswer(Head(down)), NEW r, r.id = Head(down).id
  PROVE  Paired(requests \ {r}, up, Tail(down))
<1> DEFINE q == Tail(down)
<1>1. /\ Paired(requests, up, q)
      /\ \A k \in 1 .. Len(q) : IsAnswer(q[k]) => q[k].id # r.id
      /\ \A k \in 1 .. Len(up) : IsRequest(up[k]) => up[k].id # r.id
  BY PairedDrop
<1> HIDE DEF q
<1>2. \A k \in 1 .. Len(up) : IsRequest(up[k]) => up[k] \in requests \ {r}
  BY <1>1 DEF Paired
<1>3. \A k \in 1 .. Len(q) : IsAnswer(q[k]) =>
        \E s \in requests \ {r} : s.id = q[k].id /\ Fits(s.type, q[k].result)
  BY <1>1 DEF Paired
<1>4. Paired(requests \ {r}, up, q)
  BY <1>1, <1>2, <1>3 DEF Paired
<1> QED BY <1>4 DEF q

LEMMA RequestNext == Typed /\ PhaseInv /\ RequestInv /\ [Next]_vars => RequestInv'
<1> SUFFICES ASSUME Typed, PhaseInv, RequestInv, [Next]_vars PROVE RequestInv'
  OBVIOUS
<1>t. /\ to_server \in Seq(ToServer) /\ to_client \in Seq(ToClient)
      /\ sent \in Nat /\ \A r \in pending : r.id \in Nat /\ r.id <= sent
      /\ \A r, q \in pending : r.id = q.id => r = q
  BY DEF Typed, SentType, AnswerType, PendingType, Requests, RequestInv
<1>k. ~gave_up => Paired(pending, to_server, to_client)
  BY DEF RequestInv
<1>1. ASSUME UNCHANGED <<pending, to_server, to_client, gave_up>> PROVE RequestInv'
  BY <1>1 DEF RequestInv
<1>2. ASSUME NEW type, sendRequest(type), UNCHANGED <<to_client, gave_up>> PROVE RequestInv'
  <2> DEFINE m == [id |-> sent + 1, type |-> type]
  <2>1. /\ to_server' = Append(to_server, m) /\ pending' = pending \cup {m} /\ m.id = sent + 1
    BY <1>2 DEF sendRequest
  <2> HIDE DEF m
  <2>2. \A r \in pending : r.id # m.id
    BY <1>t, <2>1
  <2>3. Paired(pending, to_server, to_client) => Paired(pending', to_server', to_client)
    BY <1>t, <2>1, <2>2, PairedSend
  <2>4. \A r, q \in pending' : r.id = q.id => r = q
    BY <1>t, <2>1, <2>2
  <2> QED BY <1>2, <1>k, <2>3, <2>4 DEF RequestInv
<1>3. ASSUME NEW candidates, NEW finished, signalIceCandidates(candidates, finished),
             UNCHANGED <<pending, to_client, gave_up>>
      PROVE  RequestInv'
  <2> DEFINE m == [type |-> "IceCandidates", candidates |-> candidates, finished |-> finished]
  <2>1. to_server' = Append(to_server, m) /\ ~IsRequest(m)
    BY <1>3 DEF signalIceCandidates, IsRequest
  <2> HIDE DEF m
  <2>2. Paired(pending, to_server, to_client) => Paired(pending, to_server', to_client)
    BY <1>t, <2>1, PairedSignal
  <2> QED BY <1>3, <1>k, <1>t, <2>2 DEF RequestInv
<1>4. CASE \/ connect \/ onSignallingConnected \/ OfferRejected \/ AnswerApplied \/ AnswerRejected
           \/ apply_offer \/ broadcast_ended
  BY <1>1, <1>4 DEF connect, onSignallingConnected, OfferRejected, AnswerApplied, AnswerRejected,
                    apply_offer, broadcast_ended, request_vars, call_vars
<1>5. CASE LocalOffer \/ subscribeBroadcast \/ unsubscribeBroadcast
  BY <1>2, <1>5 DEF LocalOffer, subscribeBroadcast, unsubscribeBroadcast, call_vars
<1>6. CASE close \/ signalling_lost \/ rtc_failed
  <2>1. to_server' = <<>> /\ to_client' = <<>> /\ pending' \subseteq pending
    BY <1>6, ClosedCases DEF close, signalling_lost, rtc_failed, setConnectionFailed
  <2> QED BY <1>t, <2>1, PairedNone DEF RequestInv
<1>7. CASE onLocalIceCandidate \/ onLocalIceFinished
  BY <1>1, <1>3, <1>7 DEF onLocalIceCandidate, onLocalIceFinished, call_vars
<1>8. CASE handleMessage
  <2> DEFINE m == Head(to_client)
             waiting == {r \in pending : r.id = m.id}
  <2>1. to_client # <<>> /\ UNCHANGED gave_up
    BY <1>8 DEF handleMessage
  <2>2. CASE m.id = 0 \/ waiting = {}
    <3>1. UNCHANGED <<pending, to_server>>
      BY <1>8, <2>2 DEF handleMessage, request_vars
    <3>2. to_client' = Tail(to_client)
      BY <1>8, <2>2 DEF handleMessage
    <3>3. ~gave_up => Paired(pending, to_server, to_client')
      BY <1>t, <1>k, <2>1, <3>2, PairedDrop
    <3> QED BY <1>t, <2>1, <3>1, <3>3 DEF RequestInv
  <2>3. CASE m.id # 0 /\ waiting # {}
    <3>1. PICK r \in waiting : Settled(r, m.result)
      BY <1>8, <2>3 DEF handleMessage
    <3>2. to_client' = IF Down' THEN <<>> ELSE Tail(to_client)
      BY <1>8, <2>3 DEF handleMessage
    <3>3. pending' = pending \ {r} /\ r.id = m.id /\ IsAnswer(m)
      BY <2>3, <3>1, SettledCases DEF IsAnswer
    <3>4. ~gave_up => Paired(pending', to_server, Tail(to_client))
      BY <1>t, <1>k, <2>1, <3>3, PairedSettle
    <3>5. CASE Session(r) /\ m.result # "SessionInitializeSuccess"
      <4>1. to_server' = <<>> /\ to_client' = <<>>
        BY <3>1, <3>5, SettledCases
      <4> QED BY <1>t, <3>3, <4>1, PairedNone DEF RequestInv
    <3>6. CASE ~Session(r)
      <4>1. UNCHANGED <<to_server, state>>
        BY <3>1, <3>6, SettledCases
      <4>2. ~Down
        BY <2>1 DEF PhaseInv, Described
      <4>3. to_client' = Tail(to_client)
        BY <3>2, <4>1, <4>2 DEF Down
      <4> QED BY <1>t, <2>1, <3>3, <3>4, <4>1, <4>3 DEF RequestInv
    <3>7. CASE Session(r) /\ m.result = "SessionInitializeSuccess"
      <4>1. SessionInitialized
        BY <3>1, <3>7, SettledCases
      <4>2. ~Down /\ UNCHANGED state
        BY <2>1, <4>1 DEF PhaseInv, Described, SessionInitialized
      <4>3. to_client' = Tail(to_client)
        BY <3>2, <4>2 DEF Down
      <4>4. \/ to_server' = to_server
            \/ signalIceCandidates(cachedLocal, remoteFinished)
        BY <4>1 DEF SessionInitialized, processPendingIceCandidates
      <4> DEFINE i == [type |-> "IceCandidates", candidates |-> cachedLocal, finished |-> remoteFinished]
      <4>5. \/ to_server' = to_server
            \/ to_server' = Append(to_server, i) /\ ~IsRequest(i)
        BY <4>4 DEF signalIceCandidates, IsRequest
      <4> HIDE DEF i
      <4>6. ~gave_up => Paired(pending', to_server', to_client')
        BY <1>t, <3>4, <4>3, <4>5, PairedSignal
      <4> QED BY <1>t, <2>1, <3>3, <4>6 DEF RequestInv
    <3> QED BY <3>5, <3>6, <3>7
  <2> QED BY <2>2, <2>3
<1>9. CASE \E r \in pending : timeout(r)
  <2>1. PICK r \in pending : timeout(r)
    BY <1>9
  <2>2. pending' = pending \ {r} /\ gave_up' = TRUE
    BY <2>1, SettledCases DEF timeout
  <2> QED BY <1>t, <2>2 DEF RequestInv
<1>10. CASE InitializeRefused \/ InitializeSession \/ BroadcastSubscribe \/ BroadcastUnsubscribe
  <2>1. PICK result \in Results : Respond(result) /\ Fits(Head(to_server).type, result)
    BY <1>10 DEF InitializeRefused, InitializeSession, BroadcastSubscribe, BroadcastUnsubscribe,
                 Request, Results, Fits
  <2>2. to_server # <<>> /\ IsRequest(Head(to_server))
    BY <1>10 DEF InitializeRefused, InitializeSession, BroadcastSubscribe, BroadcastUnsubscribe,
                 Request, IsRequest
  <2> DEFINE m == [id |-> Head(to_server).id, result |-> result]
  <2>3. /\ to_server' = Tail(to_server) /\ to_client' = Append(to_client, m)
        /\ m.id = Head(to_server).id /\ m.result = result
        /\ UNCHANGED <<pending, gave_up>>
    BY <2>1 DEF Respond, call_vars
  <2> HIDE DEF m
  <2>4. ~gave_up => Paired(pending, to_server', to_client')
    BY <1>t, <1>k, <2>1, <2>2, <2>3, PairedAnswer
  <2> QED BY <1>t, <2>3, <2>4 DEF RequestInv
<1>11. CASE IceCandidates
  <2>1. /\ to_server # <<>> /\ to_server' = Tail(to_server)
        /\ UNCHANGED <<pending, to_client, gave_up>>
    BY <1>11 DEF IceCandidates, Request, call_vars
  <2>2. ~gave_up => Paired(pending, to_server', to_client)
    BY <1>t, <1>k, <2>1, PairedTake
  <2> QED BY <1>t, <2>1, <2>2 DEF RequestInv
<1>12. CASE \E c \in 0 .. MaxRemote : ServerCandidate(c)
  BY <1>1, <1>12 DEF ServerCandidate, request_vars, call_vars
<1>13. CASE \E c \in 0 .. MaxRemote : signaling_notify(c)
  <2>1. PICK c \in 0 .. MaxRemote : signaling_notify(c)
    BY <1>13
  <2> DEFINE m == [id |-> 0, candidate |-> c]
  <2>2. to_client' = Append(to_client, m) /\ ~IsAnswer(m)
    BY <2>1 DEF signaling_notify, IsAnswer
  <2>3. UNCHANGED <<pending, to_server, gave_up>>
    BY <2>1 DEF signaling_notify, request_vars, call_vars
  <2> HIDE DEF m
  <2>4. ~gave_up => Paired(pending, to_server, to_client')
    BY <1>t, <1>k, <2>2, PairedNotify
  <2> QED BY <1>t, <2>3, <2>4 DEF RequestInv
<1>14. CASE UNCHANGED vars
  BY <1>1, <1>14 DEF vars, request_vars, call_vars
<1> QED BY <1>4, <1>5, <1>6, <1>7, <1>8, <1>9, <1>10, <1>11, <1>12, <1>13, <1>14 DEF Next

-----------------------------------------------------------------------------
(* Calls and the answers to them.                                           *)

LEMMA NoAnswersTell ==
  ASSUME NEW has, NEW subscription
  PROVE  /\ Founded(<<>>, has)
         /\ has = subscription => Tells(<<>>, has, subscription)
  BY DEF Founded, Tells

\* An answer is added, or another message.
LEMMA AnswerAdded ==
  ASSUME NEW T, NEW q \in Seq(T), NEW m, NEW has, NEW subscription
  PROVE  /\ Founded(q, has) /\ (IsAlready(m) => Tells(q, has, TRUE)) => Founded(Append(q, m), has)
         /\ Tells(q, has, subscription) /\ ~IsCallAnswer(m) => Tells(Append(q, m), has, subscription)
         /\ Tells(q, has, subscription) /\ IsCallAnswer(m) /\ m.result # "BroadcastUnknownId"
              => Tells(Append(q, m), has, Leaves(m))
<1> DEFINE s == Append(q, m)
           n == Len(q)
<1>1. n \in Nat /\ Len(s) = n + 1 /\ (\A k \in 1 .. n : s[k] = q[k]) /\ s[n + 1] = m
  BY AppendAt
<1> HIDE DEF s, n
<1>2. \A first, last \in Int : last <= n => (NoCallAnswer(s, first, last) <=> NoCallAnswer(q, first, last))
  BY <1>1 DEF NoCallAnswer, n
<1>3. \A k \in 1 .. n + 1 : k # n + 1 => k \in 1 .. n
  BY <1>1
<1>4. ASSUME Founded(q, has), IsAlready(m) => Tells(q, has, TRUE) PROVE Founded(s, has)
  <2>1. ASSUME NEW k \in 1 .. n, IsAlready(s[k])
        PROVE  /\ NoCallAnswer(s, 1, k - 1) => has
               /\ \A j \in 1 .. k - 1 :
                    IsCallAnswer(s[j]) /\ NoCallAnswer(s, j + 1, k - 1) => Leaves(s[j])
    <3>1. IsAlready(q[k]) /\ k - 1 <= n /\ k - 1 \in Int
      BY <1>1, <2>1
    <3>2. \A j \in 1 .. k - 1 : s[j] = q[j] /\ j \in Int /\ j + 1 \in Int
      BY <1>1
    <3> QED BY <1>2, <1>4, <3>1, <3>2 DEF Founded, n
  <2>2. ASSUME IsAlready(m)
        PROVE  /\ NoCallAnswer(s, 1, n) => has
               /\ \A j \in 1 .. n : IsCallAnswer(s[j]) /\ NoCallAnswer(s, j + 1, n) => Leaves(s[j])
    <3>1. \A j \in 1 .. n : s[j] = q[j] /\ j + 1 \in Int
      BY <1>1
    <3>2. n \in Int /\ n <= n
      BY <1>1
    <3>3. NoCallAnswer(s, 1, n) <=> NoCallAnswer(q, 1, n)
      BY <1>2, <3>2
    <3>4. \A j \in 1 .. n : NoCallAnswer(s, j + 1, n) <=> NoCallAnswer(q, j + 1, n)
      BY <1>2, <3>1, <3>2
    <3>5. Tells(q, has, TRUE)
      BY <1>4, <2>2
    <3> QED BY <3>1, <3>3, <3>4, <3>5 DEF Tells, n, Leaves
  <2>3. n + 1 - 1 = n
    BY <1>1
  <2>4. \A k \in 1 .. Len(s) : IsAlready(s[k]) =>
          /\ NoCallAnswer(s, 1, k - 1) => has
          /\ \A j \in 1 .. k - 1 : IsCallAnswer(s[j]) /\ NoCallAnswer(s, j + 1, k - 1) => Leaves(s[j])
    <3> TAKE k \in 1 .. Len(s)
    <3>1. CASE k \in 1 .. n
      BY <2>1, <3>1
    <3>2. CASE k = n + 1
      BY <1>1, <2>2, <2>3, <3>2
    <3> QED BY <1>1, <1>3, <3>1, <3>2
  <2> QED BY <2>4 DEF Founded
<1>5. ASSUME Tells(q, has, subscription), ~IsCallAnswer(m) PROVE Tells(s, has, subscription)
  <2>1. \A k \in 1 .. n + 1 : IsAnswer(s[k]) => s[k].result # "BroadcastUnknownId"
    BY <1>1, <1>3, <1>5 DEF Tells, IsCallAnswer, n
  <2>2. NoCallAnswer(s, 1, n + 1) => NoCallAnswer(q, 1, n)
    BY <1>1, <1>2 DEF NoCallAnswer
  <2>3. \A k \in 1 .. n : NoCallAnswer(s, k + 1, n + 1) => NoCallAnswer(q, k + 1, n)
    BY <1>1, <1>2 DEF NoCallAnswer
  <2> QED BY <1>1, <1>3, <1>5, <2>1, <2>2, <2>3 DEF Tells, n
<1>6. ASSUME Tells(q, has, subscription), IsCallAnswer(m), m.result # "BroadcastUnknownId"
      PROVE  Tells(s, has, Leaves(m))
  <2>1. \A k \in 1 .. n + 1 : IsAnswer(s[k]) => s[k].result # "BroadcastUnknownId"
    BY <1>1, <1>3, <1>6 DEF Tells, n
  <2>2. \A k \in 0 .. n : ~NoCallAnswer(s, k + 1, n + 1)
    BY <1>1, <1>6 DEF NoCallAnswer
  <2>3. ~NoCallAnswer(s, 1, n + 1)
    BY <1>1, <1>6 DEF NoCallAnswer
  <2> QED BY <1>1, <1>3, <2>1, <2>2, <2>3 DEF Tells
<1>7. /\ Founded(q, has) /\ (IsAlready(m) => Tells(q, has, TRUE)) => Founded(s, has)
      /\ Tells(q, has, subscription) /\ ~IsCallAnswer(m) => Tells(s, has, subscription)
      /\ Tells(q, has, subscription) /\ IsCallAnswer(m) /\ m.result # "BroadcastUnknownId"
           => Tells(s, has, Leaves(m))
  BY <1>4, <1>5, <1>6
<1> QED BY <1>7 DEF s

\* The first message is taken, and what the page knows after it is now.
LEMMA AnswerTaken ==
  ASSUME NEW T, NEW q \in Seq(T), q # <<>>, NEW has, NEW now, NEW subscription,
         IF IsCallAnswer(Head(q)) THEN Leaves(Head(q)) => now ELSE now = has
  PROVE  /\ Founded(q, has) => Founded(Tail(q), now)
         /\ Tells(q, has, subscription) /\ (IsCallAnswer(Head(q)) => now = Leaves(Head(q)))
              => Tells(Tail(q), now, subscription)
<1> DEFINE s == Tail(q)
           n == Len(s)
<1>1. /\ n \in Nat /\ Len(q) = n + 1 /\ (\A k \in 1 .. n : s[k] = q[k + 1]) /\ Head(q) = q[1]
  BY TailAt
<1> HIDE DEF s, n
<1>2. \A k \in 1 .. n + 1 : k = 1 \/ (k - 1 \in 1 .. n /\ k = k - 1 + 1)
  BY <1>1
<1>3. \A first \in 1 .. n + 1, last \in 0 .. n :
        NoCallAnswer(s, first, last) <=> NoCallAnswer(q, first + 1, last + 1)
  <2> TAKE first \in 1 .. n + 1, last \in 0 .. n
  <2>1. ASSUME NoCallAnswer(s, first, last), NEW k \in 1 .. n + 1, first + 1 <= k, k <= last + 1
        PROVE  ~IsCallAnswer(q[k])
    <3>1. k - 1 \in 1 .. n /\ first <= k - 1 /\ k - 1 <= last /\ q[k - 1 + 1] = s[k - 1]
      BY <1>1, <2>1
    <3>2. ~IsCallAnswer(s[k - 1]) /\ k - 1 + 1 = k
      BY <2>1, <3>1 DEF NoCallAnswer, n
    <3> QED BY <3>1, <3>2
  <2>2. ASSUME NoCallAnswer(q, first + 1, last + 1), NEW k \in 1 .. n, first <= k, k <= last
        PROVE  ~IsCallAnswer(s[k])
    <3>1. k + 1 \in 1 .. n + 1 /\ first + 1 <= k + 1 /\ k + 1 <= last + 1
      BY <1>1, <2>2
    <3> QED BY <1>1, <2>2, <3>1 DEF NoCallAnswer
  <2> QED BY <1>1, <2>1, <2>2 DEF NoCallAnswer, n
<1>4. \A last \in 0 .. n : ~IsCallAnswer(q[1]) /\ NoCallAnswer(s, 1, last) => NoCallAnswer(q, 1, last + 1)
  <2> SUFFICES ASSUME NEW last \in 0 .. n, ~IsCallAnswer(q[1]), NoCallAnswer(s, 1, last)
               PROVE  NoCallAnswer(q, 1, last + 1)
    OBVIOUS
  <2>1. NoCallAnswer(q, 2, last + 1)
    BY <1>1, <1>3
  <2> QED BY <1>1, <2>1 DEF NoCallAnswer
<1>5. ASSUME Founded(q, has) PROVE Founded(s, now)
  <2> SUFFICES ASSUME NEW k \in 1 .. n, IsAlready(s[k])
               PROVE  /\ NoCallAnswer(s, 1, k - 1) => now
                      /\ \A j \in 1 .. k - 1 :
                           IsCallAnswer(s[j]) /\ NoCallAnswer(s, j + 1, k - 1) => Leaves(s[j])
    BY DEF Founded, n
  <2>1. k + 1 \in 1 .. Len(q) /\ k + 1 - 1 = k - 1 + 1 /\ k - 1 \in 0 .. n /\ k + 1 - 1 = k
    BY <1>1
  <2>2. IsAlready(q[k + 1])
    BY <1>1
  <2>3. /\ NoCallAnswer(q, 1, k) => has
        /\ \A j \in 1 .. k : IsCallAnswer(q[j]) /\ NoCallAnswer(q, j + 1, k) => Leaves(q[j])
    BY <1>5, <2>1, <2>2 DEF Founded
  <2>4. ASSUME NoCallAnswer(s, 1, k - 1) PROVE now
    <3>1. CASE IsCallAnswer(q[1])
      <4>1. NoCallAnswer(q, 1 + 1, k)
        BY <1>1, <1>3, <2>1, <2>4
      <4>2. 1 \in 1 .. k
        BY <1>1
      <4> QED BY <1>1, <2>3, <3>1, <4>1, <4>2
    <3>2. CASE ~IsCallAnswer(q[1])
      BY <1>1, <1>4, <2>1, <2>3, <2>4, <3>2
    <3> QED BY <3>1, <3>2
  <2>5. ASSUME NEW j \in 1 .. k - 1, IsCallAnswer(s[j]), NoCallAnswer(s, j + 1, k - 1)
        PROVE  Leaves(s[j])
    <3>1. j \in 1 .. n /\ j + 1 \in 1 .. k /\ j + 1 \in 1 .. n + 1
      BY <1>1
    <3>2. NoCallAnswer(q, j + 1 + 1, k)
      BY <1>3, <2>1, <2>5, <3>1
    <3>3. s[j] = q[j + 1]
      BY <1>1, <3>1
    <3> QED BY <2>3, <2>5, <3>1, <3>2, <3>3
  <2> QED BY <2>4, <2>5
<1>6. ASSUME Tells(q, has, subscription), IsCallAnswer(Head(q)) => now = Leaves(Head(q))
      PROVE  Tells(s, now, subscription)
  <2>1. n \in 0 .. n /\ 1 \in 1 .. n + 1 /\ \A k \in 1 .. n : k + 1 \in 1 .. n + 1
    BY <1>1
  <2>2. \A k \in 1 .. n : IsAnswer(s[k]) => s[k].result # "BroadcastUnknownId"
    BY <1>1, <1>6, <2>1 DEF Tells
  <2>3. ASSUME NEW k \in 1 .. n, IsCallAnswer(s[k]), NoCallAnswer(s, k + 1, n)
        PROVE  subscription = Leaves(s[k])
    <3>1. NoCallAnswer(q, k + 1 + 1, n + 1)
      BY <1>3, <2>1, <2>3
    <3>2. s[k] = q[k + 1]
      BY <1>1
    <3> QED BY <1>1, <1>6, <2>1, <2>3, <3>1, <3>2 DEF Tells
  <2>4. ASSUME NoCallAnswer(s, 1, n) PROVE now = subscription
    <3>1. CASE IsCallAnswer(q[1])
      <4>1. NoCallAnswer(q, 1 + 1, n + 1)
        BY <1>3, <2>1, <2>4
      <4> QED BY <1>1, <1>6, <2>1, <3>1, <4>1 DEF Tells
    <3>2. CASE ~IsCallAnswer(q[1])
      <4>1. NoCallAnswer(q, 1, n + 1)
        BY <1>4, <2>1, <2>4, <3>2
      <4> QED BY <1>1, <1>6, <3>2, <4>1 DEF Tells
    <3> QED BY <3>1, <3>2
  <2> QED BY <2>2, <2>3, <2>4 DEF Tells, n
<1>7. /\ Founded(q, has) => Founded(s, now)
      /\ Tells(q, has, subscription) /\ (IsCallAnswer(Head(q)) => now = Leaves(Head(q)))
           => Tells(s, now, subscription)
  BY <1>5, <1>6
<1> QED BY <1>7 DEF s

LEMMA CallNext == Typed /\ PhaseInv /\ RequestInv /\ CallInv /\ [Next]_vars => CallInv'
<1> SUFFICES ASSUME Typed, PhaseInv, RequestInv, CallInv, [Next]_vars PROVE CallInv'
  OBVIOUS
<1>t. /\ to_server \in Seq(ToServer) /\ to_client \in Seq(ToClient) /\ streamId \in BOOLEAN
      /\ subscribed \in BOOLEAN /\ broadcast \in BOOLEAN /\ gave_up \in BOOLEAN
  BY DEF Typed, SentType, AnswerType, CallType, RoomType
<1>1. ASSUME UNCHANGED <<to_client, streamId, threw, gave_up, broadcast, subscribed>>,
             peer' = "new" \/ socket' = "connecting" => peer = "new" \/ socket = "connecting",
             socket' = "open" => socket = "open"
      PROVE  CallInv'
  <2>1. peer' = "new" \/ socket' = "connecting" => ~streamId' /\ ~subscribed'
    BY <1>1 DEF CallInv
  <2>2. ~gave_up' => ~threw' /\ Founded(to_client', streamId')
    BY <1>1 DEF CallInv
  <2>3. ~gave_up' /\ socket' = "open" /\ broadcast' => Tells(to_client', streamId', subscribed')
    BY <1>1 DEF CallInv
  <2>4. ~gave_up' =>
          /\ ~threw' /\ Founded(to_client', streamId')
          /\ socket' = "open" /\ broadcast' => Tells(to_client', streamId', subscribed')
    BY <2>2, <2>3, Zenon
  <2> QED BY <2>1, <2>4, Zenon DEF CallInv
<1>2. CASE connect \/ OfferRejected \/ AnswerApplied \/ AnswerRejected \/ apply_offer
  <2>1. /\ UNCHANGED <<to_client, streamId, threw, gave_up, broadcast, subscribed>>
        /\ peer' = "new" \/ socket' = "connecting" => peer = "new" \/ socket = "connecting"
        /\ socket' = "open" => socket = "open"
    BY <1>2 DEF PhaseInv, connect, OfferRejected, AnswerApplied, AnswerRejected, apply_offer,
                request_vars, call_vars, server_vars
  <2> QED BY <1>1, <2>1
<1>3. CASE onSignallingConnected
  <2>1. /\ to_client = <<>> /\ to_client' = <<>> /\ socket = "connecting" /\ socket' = "open"
        /\ peer' # "new" /\ UNCHANGED <<streamId, threw, gave_up, broadcast, subscribed>>
    BY <1>3 DEF onSignallingConnected, PhaseInv, Down, Described, call_vars, server_vars
  <2>2. streamId = subscribed
    BY <1>t, <2>1 DEF CallInv
  <2> QED BY <2>1, <2>2, NoAnswersTell DEF CallInv
<1>4. CASE LocalOffer \/ subscribeBroadcast \/ unsubscribeBroadcast
  BY <1>1, <1>4 DEF LocalOffer, subscribeBroadcast, unsubscribeBroadcast, call_vars, server_vars
<1>5. CASE close \/ signalling_lost \/ rtc_failed
  <2>1. CASE signalling_lost
    <3>1. to_client' = <<>> /\ socket' = "none" /\ peer' = "closed" /\ UNCHANGED <<threw, gave_up>>
      BY <2>1 DEF signalling_lost
    <3> QED BY <3>1, NoAnswersTell DEF CallInv
  <2>2. CASE close \/ rtc_failed
    <3>1. doClose /\ UNCHANGED <<streamId, threw, gave_up, broadcast, subscribed>>
      BY <2>2 DEF close, rtc_failed, setConnectionFailed, call_vars, server_vars
    <3>2. peer' = "closed" /\ to_client' = <<>> /\ (socket' = "none" \/ UNCHANGED <<socket, to_client>>)
      BY <3>1, ClosedCases DEF doClose
    <3> QED BY <3>1, <3>2, NoAnswersTell DEF CallInv
  <2> QED BY <1>5, <2>1, <2>2
<1>6. CASE onLocalIceCandidate \/ onLocalIceFinished
  BY <1>1, <1>6 DEF onLocalIceCandidate, onLocalIceFinished, call_vars, server_vars
<1>7. CASE handleMessage
  <2> DEFINE m == Head(to_client)
             waiting == {r \in pending : r.id = m.id}
  <2>1. /\ to_client # <<>> /\ socket = "open" /\ ~Down /\ peer # "new"
        /\ UNCHANGED <<gave_up, broadcast, subscribed>>
    BY <1>7 DEF handleMessage, PhaseInv, Described, Down, server_vars
  <2>2. CASE m.id = 0
    <3>1. to_client' = Tail(to_client) /\ UNCHANGED <<peer, socket, streamId, threw>>
      BY <1>7, <2>2 DEF handleMessage
    <3>2. ~IsCallAnswer(m)
      BY <2>2 DEF IsCallAnswer, IsAnswer
    <3> QED BY <1>t, <2>1, <3>1, <3>2, AnswerTaken DEF CallInv
  <2>3. CASE m.id # 0 /\ gave_up
    <3>1. peer' # "new" /\ socket' # "connecting"
      <4>1. UNCHANGED <<peer, socket>> \/ \E r \in pending : Settled(r, m.result)
        BY <1>7, <2>3 DEF handleMessage
      <4> QED BY <2>1, <4>1, SettledCases DEF SessionInitialized
    <3> QED BY <2>1, <2>3, <3>1 DEF CallInv
  <2>4. CASE m.id # 0 /\ ~gave_up
    <3>1. PICK q \in pending : q.id = m.id /\ Fits(q.type, m.result)
      BY <1>t, <2>1, <2>4, PairedDrop DEF RequestInv, IsAnswer
    <3>2. PICK r \in waiting : Settled(r, m.result)
      BY <1>7, <2>4, <3>1 DEF handleMessage
    <3>3. Fits(r.type, m.result)
      BY <3>1, <3>2 DEF RequestInv
    <3>4. to_client' = IF Down' THEN <<>> ELSE Tail(to_client)
      BY <1>7, <2>4, <3>1 DEF handleMessage
    <3>5. CASE Session(r)
      <4>1. ~IsCallAnswer(m)
        BY <3>3, <3>5 DEF Fits, Session, IsCallAnswer
      <4>2. CASE m.result # "SessionInitializeSuccess"
        <5>1. /\ to_client' = <<>> /\ socket' = "none" /\ peer' = "closed"
              /\ UNCHANGED <<streamId, threw>>
          BY <3>2, <3>5, <4>2, SettledCases
        <5> QED BY <2>1, <5>1, NoAnswersTell DEF CallInv
      <4>3. CASE m.result = "SessionInitializeSuccess"
        <5>1. peer' = "answering" /\ UNCHANGED <<state, socket, streamId, threw>>
          BY <3>2, <3>5, <4>3, SettledCases DEF SessionInitialized
        <5>2. to_client' = Tail(to_client)
          BY <2>1, <3>4, <5>1 DEF Down
        <5> QED BY <1>t, <2>1, <4>1, <5>1, <5>2, AnswerTaken DEF CallInv
      <4> QED BY <4>2, <4>3
    <3>6. CASE ~Session(r)
      <4>1. UNCHANGED <<state, peer, socket>> /\ Subscribed(r.type, m.result)
        BY <3>2, <3>6, SettledCases
      <4>2. to_client' = Tail(to_client)
        BY <2>1, <3>4, <4>1 DEF Down
      <4>3. IsCallAnswer(m) /\ m.result # "SessionInitializeSuccess"
        BY <2>4, <3>3, <3>6 DEF Fits, Session, IsCallAnswer, IsAnswer
      <4>4. Founded(to_client, streamId) /\ ~threw
        BY <2>4 DEF CallInv
      <4>5. IsAlready(m) => streamId
        <5>1. Head(to_client) = to_client[1] /\ 1 \in 1 .. Len(to_client)
          BY <1>t, <2>1, TailAt
        <5>2. NoCallAnswer(to_client, 1, 1 - 1)
          BY DEF NoCallAnswer
        <5> QED BY <4>4, <5>1, <5>2 DEF Founded
      <4>6. ~threw'
        BY <2>4, <4>1, <4>4, <4>5 DEF Subscribed, IsAlready, IsAnswer
      <4>7. m.result # "BroadcastUnknownId" => streamId' = Leaves(m)
        <5>1. streamId' = ((streamId \/ m.result = "BroadcastSubscribed")
                             /\ r.type # "BroadcastUnsubscribe")
          BY <4>1 DEF Subscribed
        <5>2. CASE r.type = "BroadcastSubscribe" /\ m.result = "BroadcastSubscribed"
          BY <5>1, <5>2 DEF Leaves
        <5>3. CASE r.type = "BroadcastSubscribe" /\ m.result = "BroadcastAlreadySubscribed"
          BY <2>4, <4>5, <5>1, <5>3 DEF Leaves, IsAlready, IsAnswer
        <5>4. CASE r.type = "BroadcastUnsubscribe" /\ m.result = "Success"
          BY <5>1, <5>4 DEF Leaves
        <5> QED BY <3>3, <3>6, <5>2, <5>3, <5>4 DEF Fits, Session
      <4>8. Leaves(m) => streamId'
        BY <4>7 DEF Leaves
      <4>9. Founded(to_client', streamId')
        BY <1>t, <2>1, <4>2, <4>3, <4>4, <4>8, AnswerTaken
      <4>10. ASSUME broadcast PROVE Tells(to_client', streamId', subscribed)
        <5>1. Tells(to_client, streamId, subscribed)
          BY <2>1, <2>4, <4>10 DEF CallInv
        <5>2. m.result # "BroadcastUnknownId"
          <6>1. Head(to_client) = to_client[1] /\ 1 \in 1 .. Len(to_client)
            BY <1>t, <2>1, TailAt
          <6> QED BY <4>3, <5>1, <6>1 DEF Tells, IsCallAnswer
        <5> QED BY <1>t, <2>1, <4>2, <4>3, <4>7, <4>8, <5>1, <5>2, AnswerTaken
      <4> QED BY <2>1, <4>1, <4>6, <4>9, <4>10 DEF CallInv
    <3> QED BY <3>5, <3>6
  <2> QED BY <1>t, <2>2, <2>3, <2>4
<1>8. CASE \E r \in pending : timeout(r)
  <2>1. PICK r \in pending : timeout(r)
    BY <1>8
  <2>2. /\ Settled(r, "RequestTimeout") /\ gave_up' = TRUE /\ UNCHANGED subscribed
    BY <2>1 DEF timeout, server_vars
  <2>3. (peer' = "new" => peer = "new") /\ (socket' = "connecting" => socket = "connecting")
    BY <2>2, SettledCases DEF SessionInitialized
  <2>4. ~streamId => ~streamId'
    <3>1. UNCHANGED streamId \/ Subscribed(r.type, "RequestTimeout")
      BY <2>2, SettledCases
    <3> QED BY <3>1 DEF Subscribed
  <2> QED BY <2>2, <2>3, <2>4 DEF CallInv
<1>9. CASE InitializeRefused \/ InitializeSession
  <2>1. PICK result \in {"SessionInvalidToken", "SessionInitializeSuccess"} : Respond(result)
    BY <1>9 DEF InitializeRefused, InitializeSession
  <2> DEFINE m == [id |-> Head(to_server).id, result |-> result]
  <2>2. /\ to_client' = Append(to_client, m) /\ ~IsCallAnswer(m) /\ ~IsAlready(m)
        /\ UNCHANGED <<peer, socket, streamId, threw, gave_up>>
    BY <2>1 DEF Respond, call_vars, IsCallAnswer, IsAlready
  <2>3. UNCHANGED <<broadcast, subscribed>>
    BY <1>9 DEF InitializeRefused, InitializeSession, server_vars
  <2> HIDE DEF m
  <2> QED BY <1>t, <2>2, <2>3, AnswerAdded DEF CallInv
<1>10. CASE BroadcastSubscribe \/ BroadcastUnsubscribe
  <2>1. to_server # <<>> /\ Head(to_server).type # "IceCandidates"
    BY <1>10 DEF BroadcastSubscribe, BroadcastUnsubscribe, Request
  <2>2. socket = "open" /\ peer # "new"
    BY <2>1 DEF PhaseInv, Described
  <2>3. PICK result \in {"BroadcastUnknownId", "BroadcastAlreadySubscribed", "BroadcastSubscribed", "Success"} :
          /\ Respond(result)
          /\ broadcast => result # "BroadcastUnknownId"
          /\ broadcast => subscribed' = (result \in {"BroadcastSubscribed", "BroadcastAlreadySubscribed"})
          /\ result = "BroadcastAlreadySubscribed" => broadcast /\ subscribed
    <3>1. CASE BroadcastUnsubscribe
      <4>1. CASE broadcast
        <5>1. Respond("Success") /\ subscribed' = FALSE
          BY <3>1, <4>1 DEF BroadcastUnsubscribe
        <5>2. ("Success" \in {"BroadcastSubscribed", "BroadcastAlreadySubscribed"}) = FALSE
          OBVIOUS
        <5> QED BY <5>1, <5>2
      <4>2. CASE ~broadcast
        BY <3>1, <4>2 DEF BroadcastUnsubscribe
      <4> QED BY <4>1, <4>2
    <3>2. CASE BroadcastSubscribe
      <4>1. CASE ~broadcast
        BY <3>2, <4>1 DEF BroadcastSubscribe
      <4>2. CASE broadcast /\ subscribed
        BY <1>t, <3>2, <4>2 DEF BroadcastSubscribe
      <4>3. CASE broadcast /\ ~subscribed
        BY <1>t, <3>2, <4>3 DEF BroadcastSubscribe
      <4> QED BY <4>1, <4>2, <4>3
    <3> QED BY <1>10, <3>1, <3>2
  <2> DEFINE m == [id |-> Head(to_server).id, result |-> result]
  <2>4. Head(to_server).id # 0
    BY <1>t, <2>1, <2>3, TypeParts, RespondType DEF Requests, Results
  <2>5. /\ to_client' = Append(to_client, m) /\ m.result = result /\ m.id # 0
        /\ UNCHANGED <<peer, socket, streamId, threw, gave_up>>
    BY <2>3, <2>4 DEF Respond, call_vars
  <2>6. broadcast' = broadcast
    BY <1>10 DEF BroadcastSubscribe, BroadcastUnsubscribe
  <2> HIDE DEF m
  <2>7. IsCallAnswer(m) /\ (IsAlready(m) => broadcast /\ subscribed = TRUE)
    BY <1>t, <2>3, <2>5 DEF IsCallAnswer, IsAnswer, IsAlready
  <2>8. ASSUME ~gave_up
        PROVE  /\ ~threw /\ Founded(to_client', streamId)
               /\ broadcast => Tells(to_client', streamId, subscribed')
    <3>1. ~threw /\ Founded(to_client, streamId) /\ (broadcast => Tells(to_client, streamId, subscribed))
      BY <2>2, <2>8 DEF CallInv
    <3>2. broadcast => subscribed' = Leaves(m)
      BY <2>3, <2>5 DEF Leaves
    <3>3. Founded(to_client', streamId)
      BY <1>t, <2>5, <2>7, <3>1, AnswerAdded
    <3>4. broadcast => Tells(to_client', streamId, Leaves(m))
      BY <1>t, <2>3, <2>5, <2>7, <3>1, AnswerAdded
    <3> QED BY <3>1, <3>2, <3>3, <3>4
  <2> QED BY <2>2, <2>5, <2>6, <2>8 DEF CallInv
<1>11. CASE broadcast_ended
  <2>1. /\ UNCHANGED <<peer, socket, to_client, streamId, threw, gave_up>>
        /\ ~broadcast' /\ ~subscribed'
    BY <1>11 DEF broadcast_ended, call_vars
  <2> QED BY <2>1 DEF CallInv
<1>12. CASE IceCandidates \/ \E c \in 0 .. MaxRemote : ServerCandidate(c)
  BY <1>1, <1>12 DEF IceCandidates, ServerCandidate, call_vars
<1>13. CASE \E c \in 0 .. MaxRemote : signaling_notify(c)
  <2>1. PICK c \in 0 .. MaxRemote : signaling_notify(c)
    BY <1>13
  <2> DEFINE m == [id |-> 0, candidate |-> c]
  <2>2. /\ to_client' = Append(to_client, m) /\ ~IsCallAnswer(m) /\ ~IsAlready(m)
        /\ UNCHANGED <<peer, socket, streamId, threw, gave_up, broadcast, subscribed>>
    BY <2>1 DEF signaling_notify, call_vars, IsCallAnswer, IsAlready, IsAnswer
  <2> HIDE DEF m
  <2> QED BY <1>t, <2>2, AnswerAdded DEF CallInv
<1>14. CASE UNCHANGED vars
  BY <1>1, <1>14 DEF vars, call_vars, server_vars
<1> QED BY <1>2, <1>3, <1>4, <1>5, <1>6, <1>7, <1>8, <1>9, <1>10, <1>11, <1>12, <1>13, <1>14 DEF Next

-----------------------------------------------------------------------------
(* Candidates of the page.                                                  *)

\* A place that holds none is put in between.
LEMMA SpreadInsert ==
  ASSUME NEW n \in Nat, NEW items, NEW way, NEW longer, NEW place \in 0 .. n + 1,
         Spread(way, n, items), longer[place] = <<>>,
         \A k \in 0 .. n : k < place => longer[k] = way[k],
         \A k \in 0 .. n : place <= k => longer[k + 1] = way[k]
  PROVE  Spread(longer, n + 1, items)
<1>1. \A k \in 0 .. n + 1 : \A i : i \in DOMAIN longer[k] =>
        \E o \in 0 .. n : /\ longer[k] = way[o] /\ i \in DOMAIN way[o]
                          /\ o = IF k < place THEN k ELSE k - 1
                          /\ k # place
  <2> SUFFICES ASSUME NEW k \in 0 .. n + 1, NEW i, i \in DOMAIN longer[k]
               PROVE  \E o \in 0 .. n : /\ longer[k] = way[o] /\ i \in DOMAIN way[o]
                                        /\ o = IF k < place THEN k ELSE k - 1
                                        /\ k # place
    OBVIOUS
  <2>1. k # place
    <3>1. DOMAIN <<>> = {}
      OBVIOUS
    <3> QED BY <3>1
  <2>2. CASE k < place
    <3>1. k \in 0 .. n
      BY <2>2
    <3> QED BY <2>1, <2>2, <3>1
  <2>3. CASE place < k
    <3>1. k - 1 \in 0 .. n /\ place <= k - 1 /\ k - 1 + 1 = k /\ ~(k < place)
      BY <2>3
    <3>2. longer[k - 1 + 1] = way[k - 1]
      BY <3>1
    <3>3. longer[k] = way[k - 1]
      BY <3>1, <3>2
    <3> QED BY <2>1, <3>1, <3>3
  <2> QED BY <2>1, <2>2, <2>3
<1>2. \A o \in 0 .. n : \E k \in 0 .. n + 1 : longer[k] = way[o]
  <2> TAKE o \in 0 .. n
  <2>1. CASE o < place
    BY <2>1
  <2>2. CASE place <= o
    <3>1. o + 1 \in 0 .. n + 1
      OBVIOUS
    <3> QED BY <2>2, <3>1
  <2> QED BY <2>1, <2>2
<1>3. /\ \A k \in 0 .. n : \A i \in DOMAIN way[k] : way[k][i] \in items
      /\ \A c \in items : \E k \in 0 .. n : \E i \in DOMAIN way[k] : way[k][i] = c
  BY DEF Spread
<1>4. \A k \in 0 .. n + 1 : \A i \in DOMAIN longer[k] : longer[k][i] \in items
  BY <1>1, <1>3
<1>5. \A c \in items : \E k \in 0 .. n + 1 : \E i \in DOMAIN longer[k] : longer[k][i] = c
  <2> TAKE c \in items
  <2>1. PICK o \in 0 .. n : \E i \in DOMAIN way[o] : way[o][i] = c
    BY <1>3
  <2>2. PICK k \in 0 .. n + 1 : longer[k] = way[o]
    BY <1>2
  <2> QED BY <2>1, <2>2
<1>6. ASSUME NEW k \in 0 .. n + 1, NEW l \in 0 .. n + 1,
             NEW i \in DOMAIN longer[k], NEW j \in DOMAIN longer[l],
             k < l \/ (k = l /\ i < j)
      PROVE  longer[k][i] < longer[l][j]
  <2>1. PICK o \in 0 .. n : /\ longer[k] = way[o] /\ i \in DOMAIN way[o]
                            /\ o = (IF k < place THEN k ELSE k - 1) /\ k # place
    BY <1>1
  <2>2. PICK u \in 0 .. n : /\ longer[l] = way[u] /\ j \in DOMAIN way[u]
                            /\ u = (IF l < place THEN l ELSE l - 1) /\ l # place
    BY <1>1
  <2>3. k < l => o < u
    BY <2>1, <2>2
  <2>4. k = l => o = u
    BY <2>1, <2>2
  <2> QED BY <1>6, <2>1, <2>2, <2>3, <2>4 DEF Spread
<1> QED BY <1>4, <1>5, <1>6 DEF Spread

\* The next candidate comes to the last place.
LEMMA SpreadExtend ==
  ASSUME NEW n \in Nat, NEW items \in SUBSET Nat, NEW next \in Nat, \A x \in items : x < next,
         NEW V, NEW way, NEW grown, Spread(way, n, items), way[n] \in Seq(V), grown[n] = Append(way[n], next),
         \A k \in 0 .. n : k < n => grown[k] = way[k]
  PROVE  Spread(grown, n, items \cup {next})
<1>1. /\ Len(way[n]) \in Nat /\ DOMAIN way[n] = 1 .. Len(way[n])
      /\ DOMAIN grown[n] = 1 .. Len(way[n]) + 1
      /\ \A i \in 1 .. Len(way[n]) : grown[n][i] = way[n][i]
      /\ grown[n][Len(way[n]) + 1] = next
  <2>1. Append(way[n], next) \in Seq(V \cup {next})
    <3>1. way[n] \in Seq(V \cup {next})
      OBVIOUS
    <3> QED BY <3>1, AppendType
  <2> QED BY <2>1, AppendAt, LenProperties
<1>2. \A k \in 0 .. n : \A i : i \in DOMAIN grown[k] =>
        \/ i \in DOMAIN way[k] /\ grown[k][i] = way[k][i]
        \/ k = n /\ i = Len(way[n]) + 1 /\ grown[k][i] = next
  <2> SUFFICES ASSUME NEW k \in 0 .. n, NEW i, i \in DOMAIN grown[k]
               PROVE  \/ i \in DOMAIN way[k] /\ grown[k][i] = way[k][i]
                      \/ k = n /\ i = Len(way[n]) + 1 /\ grown[k][i] = next
    OBVIOUS
  <2>1. CASE k < n
    BY <2>1
  <2>2. CASE k = n /\ i # Len(way[n]) + 1
    <3>1. i \in 1 .. Len(way[n])
      BY <1>1, <2>2
    <3> QED BY <1>1, <2>2, <3>1
  <2>3. CASE k = n /\ i = Len(way[n]) + 1
    BY <1>1, <2>3
  <2> QED BY <2>1, <2>2, <2>3
<1>3. /\ \A k \in 0 .. n : \A i \in DOMAIN way[k] : way[k][i] \in items
      /\ \A c \in items : \E k \in 0 .. n : \E i \in DOMAIN way[k] : way[k][i] = c
  BY DEF Spread
<1>4. \A k \in 0 .. n : \A i \in DOMAIN grown[k] : grown[k][i] \in items \cup {next}
  <2> TAKE k \in 0 .. n
  <2> TAKE i \in DOMAIN grown[k]
  <2>1. \A c \in items : c \in items \cup {next}
    OBVIOUS
  <2>2. CASE i \in DOMAIN way[k] /\ grown[k][i] = way[k][i]
    BY <1>3, <2>1, <2>2
  <2>3. CASE grown[k][i] = next
    BY <2>3
  <2> QED BY <1>2, <2>2, <2>3
<1>5. \A k \in 0 .. n : \A i \in DOMAIN way[k] : i \in DOMAIN grown[k] /\ grown[k][i] = way[k][i]
  <2> TAKE k \in 0 .. n
  <2>1. CASE k < n
    BY <2>1
  <2>2. CASE k = n
    <3> TAKE i \in DOMAIN way[k]
    <3>1. i \in 1 .. Len(way[n]) /\ i \in 1 .. Len(way[n]) + 1
      BY <1>1, <2>2
    <3> QED BY <1>1, <2>2, <3>1
  <2> QED BY <2>1, <2>2
<1>6. \A c \in items \cup {next} : \E k \in 0 .. n : \E i \in DOMAIN grown[k] : grown[k][i] = c
  <2> TAKE c \in items \cup {next}
  <2>1. CASE c = next
    <3>1. n \in 0 .. n /\ Len(way[n]) + 1 \in DOMAIN grown[n]
      BY <1>1
    <3> QED BY <1>1, <2>1, <3>1
  <2>2. CASE c \in items
    <3>1. PICK k \in 0 .. n : \E i \in DOMAIN way[k] : way[k][i] = c
      BY <1>3, <2>2
    <3> QED BY <1>5, <3>1
  <2> QED BY <2>1, <2>2
<1>7. ASSUME NEW k \in 0 .. n, NEW l \in 0 .. n,
             NEW i \in DOMAIN grown[k], NEW j \in DOMAIN grown[l],
             k < l \/ (k = l /\ i < j)
      PROVE  grown[k][i] < grown[l][j]
  <2>1. CASE i \in DOMAIN way[k] /\ grown[k][i] = way[k][i]
    <3>1. CASE j \in DOMAIN way[l] /\ grown[l][j] = way[l][j]
      BY <1>7, <2>1, <3>1 DEF Spread
    <3>2. CASE grown[l][j] = next
      <4>1. way[k][i] \in items
        BY <1>3, <2>1
      <4> QED BY <2>1, <3>2, <4>1
    <3> QED BY <1>2, <3>1, <3>2
  <2>2. CASE k = n /\ i = Len(way[n]) + 1
    <3>1. l = n /\ i < j
      BY <1>7, <2>2
    <3>2. j \in 1 .. Len(way[n]) + 1
      BY <1>1, <3>1
    <3> QED BY <1>1, <2>2, <3>1, <3>2
  <2> QED BY <1>2, <2>1, <2>2
<1> QED BY <1>4, <1>6, <1>7 DEF Spread

\* What is at the second place comes to the first.
LEMMA SpreadMerge ==
  ASSUME NEW n \in Nat \ {0}, NEW items, NEW V, NEW way, NEW shorter,
         Spread(way, n, items), way[0] \in Seq(V), way[1] \in Seq(V),
         shorter[0] = way[0] \o way[1],
         \A k \in 1 .. n - 1 : shorter[k] = way[k + 1]
  PROVE  Spread(shorter, n - 1, items)
<1> DEFINE m == Len(way[0])
<1>1. /\ m \in Nat /\ Len(way[1]) \in Nat
      /\ DOMAIN way[0] = 1 .. m /\ DOMAIN way[1] = 1 .. Len(way[1])
      /\ DOMAIN shorter[0] = 1 .. m + Len(way[1])
      /\ \A i \in 1 .. m : shorter[0][i] = way[0][i]
      /\ \A i \in 1 .. m + Len(way[1]) : m < i => shorter[0][i] = way[1][i - m]
  <2>1. /\ m \in Nat /\ Len(way[1]) \in Nat
        /\ DOMAIN way[0] = 1 .. m /\ DOMAIN way[1] = 1 .. Len(way[1])
    BY LenProperties
  <2>2. shorter[0] \in Seq(V) /\ Len(shorter[0]) = m + Len(way[1])
    BY ConcatProperties
  <2>3. DOMAIN shorter[0] = 1 .. m + Len(way[1])
    BY <2>2, LenProperties
  <2>4. \A i \in 1 .. m + Len(way[1]) :
          shorter[0][i] = IF i <= m THEN way[0][i] ELSE way[1][i - m]
    BY ConcatProperties
  <2> HIDE DEF m
  <2>5. \A i \in 1 .. m : i \in 1 .. m + Len(way[1]) /\ i <= m
    BY <2>1
  <2>6. \A i \in 1 .. m + Len(way[1]) : m < i => ~(i <= m)
    BY <2>1
  <2> QED BY <2>1, <2>3, <2>4, <2>5, <2>6
<1> HIDE DEF m
<1>2. 0 \in 0 .. n /\ 1 \in 0 .. n /\ 0 \in 0 .. n - 1
  OBVIOUS
<1>3. \A k \in 0 .. n - 1 : \A i : i \in DOMAIN shorter[k] =>
        \/ k = 0 /\ i \in DOMAIN way[0] /\ shorter[k][i] = way[0][i]
        \/ k = 0 /\ i \in Nat /\ m < i /\ i - m \in DOMAIN way[1] /\ shorter[k][i] = way[1][i - m]
        \/ k \in 1 .. n - 1 /\ k + 1 \in 0 .. n /\ shorter[k] = way[k + 1]
  <2> SUFFICES ASSUME NEW k \in 0 .. n - 1, NEW i, i \in DOMAIN shorter[k]
               PROVE  \/ k = 0 /\ i \in DOMAIN way[0] /\ shorter[k][i] = way[0][i]
                      \/ /\ k = 0 /\ i \in Nat /\ m < i /\ i - m \in DOMAIN way[1]
                         /\ shorter[k][i] = way[1][i - m]
                      \/ k \in 1 .. n - 1 /\ k + 1 \in 0 .. n /\ shorter[k] = way[k + 1]
    OBVIOUS
  <2>1. CASE k # 0
    <3>1. k \in 1 .. n - 1 /\ k + 1 \in 0 .. n
      BY <2>1
    <3> QED BY <3>1
  <2>2. CASE k = 0
    <3>1. i \in 1 .. m + Len(way[1])
      BY <1>1, <2>2
    <3>2. CASE i <= m
      <4>1. i \in 1 .. m
        BY <1>1, <3>1, <3>2
      <4> QED BY <1>1, <2>2, <4>1
    <3>3. CASE m < i
      <4>1. i - m \in 1 .. Len(way[1]) /\ i \in Nat
        BY <1>1, <3>1, <3>3
      <4> QED BY <1>1, <2>2, <3>1, <3>3, <4>1
    <3> QED BY <1>1, <3>1, <3>2, <3>3
  <2> QED BY <2>1, <2>2
<1>4. /\ \A k \in 0 .. n : \A i \in DOMAIN way[k] : way[k][i] \in items
      /\ \A c \in items : \E k \in 0 .. n : \E i \in DOMAIN way[k] : way[k][i] = c
  BY DEF Spread
<1>5. \A k \in 0 .. n - 1 : \A i \in DOMAIN shorter[k] : shorter[k][i] \in items
  BY <1>2, <1>3, <1>4
<1>6. \A c \in items : \E k \in 0 .. n - 1 : \E i \in DOMAIN shorter[k] : shorter[k][i] = c
  <2> TAKE c \in items
  <2>1. PICK k \in 0 .. n : \E i \in DOMAIN way[k] : way[k][i] = c
    BY <1>4
  <2>2. PICK i \in DOMAIN way[k] : way[k][i] = c
    BY <2>1
  <2>3. CASE k = 0
    <3>1. i \in 1 .. m /\ i \in 1 .. m + Len(way[1])
      BY <1>1, <2>3
    <3> QED BY <1>1, <1>2, <2>2, <2>3, <3>1
  <2>4. CASE k = 1
    <3>1. i \in 1 .. Len(way[1])
      BY <1>1, <2>4
    <3>2. i + m \in 1 .. m + Len(way[1]) /\ m < i + m /\ i + m - m = i
      BY <1>1, <3>1
    <3>3. \E x \in 1 .. m + Len(way[1]) : shorter[0][x] = way[1][i]
      <4> DEFINE x == i + m
      <4>1. x \in 1 .. m + Len(way[1]) /\ m < x /\ x - m = i
        BY <1>1, <3>1, <3>2
      <4> HIDE DEF x
      <4>2. shorter[0][x] = way[1][x - m]
        BY <1>1, <4>1
      <4> QED BY <4>1, <4>2
    <3> QED BY <1>1, <1>2, <2>2, <2>4, <3>3
  <2>5. CASE k # 0 /\ k # 1
    <3>1. k - 1 \in 1 .. n - 1 /\ k - 1 + 1 = k /\ k - 1 \in 0 .. n - 1
      BY <2>5
    <3>2. shorter[k - 1] = way[k]
      BY <3>1
    <3> QED BY <2>2, <3>1, <3>2
  <2> QED BY <2>3, <2>4, <2>5
<1>7. ASSUME NEW k \in 0 .. n - 1, NEW l \in 0 .. n - 1,
             NEW i \in DOMAIN shorter[k], NEW j \in DOMAIN shorter[l],
             k < l \/ (k = l /\ i < j)
      PROVE  shorter[k][i] < shorter[l][j]
  <2>1. CASE k = 0 /\ l = 0
    <3>1. i \in 1 .. m + Len(way[1]) /\ j \in 1 .. m + Len(way[1]) /\ i < j
      <4>1. i \in DOMAIN shorter[0] /\ j \in DOMAIN shorter[0]
        BY <2>1
      <4>2. ~(k < l)
        BY <2>1
      <4> QED BY <1>1, <1>7, <4>1, <4>2
    <3>2. CASE j <= m
      <4>1. i \in 1 .. m /\ j \in 1 .. m
        BY <1>1, <3>1, <3>2
      <4>2. way[0][i] < way[0][j]
        BY <1>1, <1>2, <3>1, <4>1 DEF Spread
      <4> QED BY <1>1, <2>1, <3>1, <4>1, <4>2
    <3>3. CASE i <= m /\ m < j
      <4>1. i \in 1 .. m /\ j - m \in 1 .. Len(way[1])
        BY <1>1, <3>1, <3>3
      <4>2. way[0][i] < way[1][j - m]
        <5>1. i \in DOMAIN way[0] /\ j - m \in DOMAIN way[1] /\ 0 < 1
          BY <1>1, <4>1
        <5>2. \A x \in DOMAIN way[0], y \in DOMAIN way[1] :
                0 < 1 \/ (0 = 1 /\ x < y) => way[0][x] < way[1][y]
          BY <1>2 DEF Spread
        <5> QED BY <5>1, <5>2
      <4> QED BY <1>1, <2>1, <3>1, <3>3, <4>1, <4>2
    <3>4. CASE m < i
      <4>1. i - m \in 1 .. Len(way[1]) /\ j - m \in 1 .. Len(way[1]) /\ i - m < j - m /\ m < j
        BY <1>1, <3>1, <3>4
      <4>2. way[1][i - m] < way[1][j - m]
        BY <1>1, <1>2, <4>1 DEF Spread
      <4> QED BY <1>1, <2>1, <3>1, <3>4, <4>1, <4>2
    <3> QED BY <1>1, <3>1, <3>2, <3>3, <3>4
  <2>2. CASE k = 0 /\ l # 0
    <3>1. l \in 1 .. n - 1 /\ l + 1 \in 0 .. n /\ 0 < l + 1 /\ 1 < l + 1
      BY <2>2
    <3>2. shorter[l] = way[l + 1]
      BY <3>1
    <3>3. \/ i \in DOMAIN way[0] /\ shorter[k][i] = way[0][i]
          \/ i - m \in DOMAIN way[1] /\ shorter[k][i] = way[1][i - m]
      BY <1>3, <2>2
    <3> QED BY <1>2, <3>1, <3>2, <3>3 DEF Spread
  <2>3. CASE k # 0
    <3>1. k \in 1 .. n - 1 /\ l \in 1 .. n - 1 /\ k + 1 \in 0 .. n /\ l + 1 \in 0 .. n
      BY <1>7, <2>3
    <3>2. shorter[k] = way[k + 1] /\ shorter[l] = way[l + 1]
      BY <3>1
    <3>3. k + 1 < l + 1 \/ (k + 1 = l + 1 /\ i < j)
      BY <1>7
    <3> QED BY <3>1, <3>2, <3>3 DEF Spread
  <2> QED BY <2>1, <2>2, <2>3
<1> QED BY <1>5, <1>6, <1>7 DEF Spread

\* A place is left with its first items only.
Behind(s, kept) == {s[i] : i \in kept + 1 .. Len(s)}
Cut(way, n, place, kept) ==
    [k \in 0 .. n |-> IF k = place THEN SubSeq(way[place], 1, kept) ELSE way[k]]
LEMMA SpreadCut ==
  ASSUME NEW n \in Nat, NEW items \in SUBSET Nat, NEW way, NEW place \in 0 .. n,
         Spread(way, n, items), way[place] \in Seq(Locals), NEW kept \in 0 .. Len(way[place])
  PROVE  /\ Behind(way[place], kept) \subseteq items
         /\ Spread(Cut(way, n, place, kept), n, items \ Behind(way[place], kept))
<1> DEFINE m == Len(way[place])
           gone == Behind(way[place], kept)
           cut == Cut(way, n, place, kept)
<1>1. cut[place] = SubSeq(way[place], 1, kept) /\ \A k \in 0 .. n : k # place => cut[k] = way[k]
  BY DEF Cut
<1> HIDE DEF cut
<1>2. /\ m \in Nat /\ kept \in Nat /\ kept <= m /\ DOMAIN way[place] = 1 .. m
      /\ DOMAIN cut[place] = 1 .. kept /\ \A i \in 1 .. kept : cut[place][i] = way[place][i]
  BY <1>1, PrefixOf, LenProperties
<1>3. /\ \A k \in 0 .. n : \A i \in DOMAIN way[k] : way[k][i] \in items
      /\ \A c \in items : \E k \in 0 .. n : \E i \in DOMAIN way[k] : way[k][i] = c
  BY DEF Spread
<1>4. \A c : c \in gone <=> \E j \in kept + 1 .. m : way[place][j] = c
  BY DEF Behind
<1> HIDE DEF m, gone
<1>5. \A j \in kept + 1 .. m : j \in DOMAIN way[place]
  BY <1>2
<1>6. gone \subseteq items
  BY <1>3, <1>4, <1>5
<1>7. ASSUME NEW k \in 0 .. n, NEW i \in DOMAIN cut[k]
      PROVE  /\ i \in DOMAIN way[k] /\ cut[k][i] = way[k][i]
             /\ k = place => i \in 1 .. kept
  <2>1. CASE k = place
    <3>1. i \in 1 .. kept /\ i \in 1 .. m
      BY <1>2, <2>1
    <3> QED BY <1>2, <2>1, <3>1
  <2>2. CASE k # place
    BY <1>1, <2>2
  <2> QED BY <2>1, <2>2
<1>8. ASSUME NEW k \in 0 .. n, NEW i \in DOMAIN cut[k] PROVE way[k][i] \notin gone
  <2> SUFFICES ASSUME NEW j \in kept + 1 .. m, way[place][j] = way[k][i] PROVE FALSE
    BY <1>4
  <2>1. i \in DOMAIN way[k] /\ j \in DOMAIN way[place] /\ way[k][i] \in Nat
    BY <1>3, <1>5, <1>7
  <2>2. CASE k < place \/ (k = place /\ i < j)
    <3>1. way[k][i] < way[place][j]
      BY <2>1, <2>2 DEF Spread
    <3> QED BY <2>1, <3>1
  <2>3. CASE place < k
    <3>1. way[place][j] < way[k][i]
      BY <2>1, <2>3 DEF Spread
    <3> QED BY <2>1, <3>1
  <2>4. k = place => i < j
    BY <1>2, <1>7
  <2> QED BY <2>2, <2>3, <2>4
<1>9. \A k \in 0 .. n : \A i \in DOMAIN cut[k] : cut[k][i] \in items \ gone
  BY <1>3, <1>7, <1>8
<1>10. \A c \in items \ gone : \E k \in 0 .. n : \E i \in DOMAIN cut[k] : cut[k][i] = c
  <2> TAKE c \in items \ gone
  <2>1. PICK k \in 0 .. n : \E i \in DOMAIN way[k] : way[k][i] = c
    BY <1>3
  <2>2. PICK i \in DOMAIN way[k] : way[k][i] = c
    BY <2>1
  <2>3. CASE k = place
    <3>1. i \in 1 .. m /\ i \notin kept + 1 .. m
      BY <1>2, <1>4, <2>2, <2>3
    <3>2. i \in 1 .. kept
      BY <1>2, <3>1
    <3> QED BY <1>2, <2>2, <2>3, <3>2
  <2>4. CASE k # place
    BY <1>1, <2>2, <2>4
  <2> QED BY <2>3, <2>4
<1>11. ASSUME NEW k \in 0 .. n, NEW l \in 0 .. n,
             NEW i \in DOMAIN cut[k], NEW j \in DOMAIN cut[l],
             k < l \/ (k = l /\ i < j)
      PROVE  cut[k][i] < cut[l][j]
  BY <1>7, <1>11 DEF Spread
<1>12. Spread(cut, n, items \ gone)
  BY <1>9, <1>10, <1>11 DEF Spread
<1> QED BY <1>6, <1>12 DEF gone, cut

LEMMA WayPlaces ==
  ASSUME NEW queue \in Seq(ToServer), NEW first, NEW last
  PROVE  /\ Len(queue) \in Nat
         /\ Way(first, queue, last)[0] = first
         /\ Way(first, queue, last)[Len(queue) + 1] = last
         /\ \A k \in 1 .. Len(queue) : Way(first, queue, last)[k] = Carried(queue[k])
<1>1. Len(queue) \in Nat
  OBVIOUS
<1>2. \A k \in 0 .. Len(queue) + 1 :
        Way(first, queue, last)[k] = IF k = 0 THEN first ELSE IF k > Len(queue) THEN last
                                     ELSE Carried(queue[k])
  BY DEF Way
<1>3. 0 \in 0 .. Len(queue) + 1 /\ Len(queue) + 1 \in 0 .. Len(queue) + 1
        /\ Len(queue) + 1 # 0 /\ Len(queue) + 1 > Len(queue)
  BY <1>1
<1>4. \A k \in 1 .. Len(queue) : k \in 0 .. Len(queue) + 1 /\ k # 0 /\ ~(k > Len(queue))
  BY <1>1
<1> QED BY <1>1, <1>2, <1>3, <1>4

LEMMA CarriedType ==
  ASSUME NEW m \in ToServer PROVE Carried(m) \in Seq(Locals)
<1>1. CASE IsRequest(m)
  BY <1>1, EmptySeq DEF Carried
<1>2. CASE ~IsRequest(m)
  <2>1. m \in IceMessages
    BY <1>2 DEF ToServer, Requests, RequestType, IsRequest
  <2> QED BY <1>2, <2>1 DEF Carried, IceMessages, Locals
<1> QED BY <1>1, <1>2

LEMMA NoneOnTheWay ==
  ASSUME NEW queue \in Seq(ToServer), NEW first, NEW last, DOMAIN first = {}, DOMAIN last = {}
  PROVE  Len(queue) = 0 => OnTheWay(first, queue, last, {})
<1> DEFINE way == Way(first, queue, last)
<1>1. way[0] = first /\ way[Len(queue) + 1] = last
  BY WayPlaces
<1> SUFFICES ASSUME Len(queue) = 0 PROVE OnTheWay(first, queue, last, {})
  OBVIOUS
<1> HIDE DEF way
<1>2. Len(queue) + 1 = 1
  OBVIOUS
<1>3. \A k \in 0 .. 1 : DOMAIN way[k] = {}
  BY <1>1, <1>2
<1>4. Spread(way, 1, {})
  BY <1>3 DEF Spread
<1> QED BY <1>2, <1>4 DEF OnTheWay, way

\* A message is added, with none or with all of the cached candidates.
LEMMA WaySend ==
  ASSUME NEW queue \in Seq(ToServer), NEW first, NEW last, NEW items, NEW m,
         OnTheWay(first, queue, last, items), Append(queue, m) \in Seq(ToServer)
  PROVE  /\ Carried(m) = <<>> => OnTheWay(first, Append(queue, m), last, items)
         /\ Carried(m) = last => OnTheWay(first, Append(queue, m), <<>>, items)
<1> DEFINE q == Append(queue, m)
           n == Len(queue)
<1>1. n \in Nat /\ Len(q) = n + 1 /\ (\A k \in 1 .. n : q[k] = queue[k]) /\ q[n + 1] = m
  BY AppendAt
<1>2. q \in Seq(ToServer)
  OBVIOUS
<1> HIDE DEF q
<1> DEFINE way == Way(first, queue, last)
<1>3. way[0] = first /\ way[n + 1] = last /\ \A k \in 1 .. n : way[k] = Carried(queue[k])
  BY WayPlaces
<1>4. Spread(way, n + 1, items)
  BY DEF OnTheWay
<1>5. ASSUME Carried(m) = <<>> PROVE OnTheWay(first, q, last, items)
  <2> DEFINE longer == Way(first, q, last)
  <2>1. /\ longer[0] = first /\ longer[Len(q) + 1] = last
        /\ \A k \in 1 .. Len(q) : longer[k] = Carried(q[k])
    BY <1>2, WayPlaces
  <2> HIDE DEF longer, way, n
  <2>2. longer[n + 1] = <<>> /\ n + 1 \in 0 .. n + 1 + 1
    BY <1>1, <1>5, <2>1
  <2>3. \A k \in 0 .. n + 1 : k < n + 1 => longer[k] = way[k]
    <3> SUFFICES ASSUME NEW k \in 0 .. n + 1, k < n + 1 PROVE longer[k] = way[k]
      OBVIOUS
    <3>1. CASE k = 0
      BY <1>3, <2>1, <3>1
    <3>2. CASE k \in 1 .. n
      <4>1. k \in 1 .. Len(q)
        BY <1>1, <3>2
      <4> QED BY <1>1, <1>3, <2>1, <3>2, <4>1
    <3> QED BY <1>1, <3>1, <3>2
  <2>4. \A k \in 0 .. n + 1 : n + 1 <= k => longer[k + 1] = way[k]
    <3> SUFFICES ASSUME NEW k \in 0 .. n + 1, n + 1 <= k PROVE longer[k + 1] = way[k]
      OBVIOUS
    <3>1. k = n + 1
      BY <1>1
    <3> QED BY <1>1, <1>3, <2>1, <3>1
  <2> DEFINE p == n + 1
  <2>5. /\ p \in Nat /\ p \in 0 .. p + 1 /\ Spread(way, p, items) /\ longer[p] = <<>>
        /\ \A k \in 0 .. p : k < p => longer[k] = way[k]
        /\ \A k \in 0 .. p : p <= k => longer[k + 1] = way[k]
    BY <1>1, <1>4, <2>2, <2>3, <2>4
  <2> HIDE DEF p
  <2>6. Spread(longer, p + 1, items)
    BY <2>5, SpreadInsert
  <2> QED BY <1>1, <2>6 DEF OnTheWay, longer, p
<1>6. ASSUME Carried(m) = last PROVE OnTheWay(first, q, <<>>, items)
  <2> DEFINE longer == Way(first, q, <<>>)
  <2>1. /\ longer[0] = first /\ longer[Len(q) + 1] = <<>>
        /\ \A k \in 1 .. Len(q) : longer[k] = Carried(q[k])
    BY <1>2, WayPlaces
  <2> HIDE DEF longer, way, n
  <2>2. longer[n + 1 + 1] = <<>> /\ n + 1 + 1 \in 0 .. n + 1 + 1
    BY <1>1, <2>1
  <2>3. \A k \in 0 .. n + 1 : longer[k] = way[k]
    <3> SUFFICES ASSUME NEW k \in 0 .. n + 1 PROVE longer[k] = way[k]
      OBVIOUS
    <3>1. CASE k = 0
      BY <1>3, <2>1, <3>1
    <3>2. CASE k \in 1 .. n
      <4>1. k \in 1 .. Len(q)
        BY <1>1, <3>2
      <4> QED BY <1>1, <1>3, <2>1, <3>2, <4>1
    <3>3. CASE k = n + 1
      <4>1. k \in 1 .. Len(q)
        BY <1>1, <3>3
      <4> QED BY <1>1, <1>3, <1>6, <2>1, <3>3, <4>1
    <3> QED BY <1>1, <3>1, <3>2, <3>3
  <2>4. \A k \in 0 .. n + 1 : n + 1 + 1 <= k => longer[k + 1] = way[k]
    BY <1>1
  <2> DEFINE p == n + 1
  <2>5. /\ p \in Nat /\ p + 1 \in 0 .. p + 1 /\ Spread(way, p, items) /\ longer[p + 1] = <<>>
        /\ \A k \in 0 .. p : k < p + 1 => longer[k] = way[k]
        /\ \A k \in 0 .. p : p + 1 <= k => longer[k + 1] = way[k]
    BY <1>1, <1>4, <2>2, <2>3, <2>4
  <2> HIDE DEF p
  <2>6. Spread(longer, p + 1, items)
    BY <2>5, SpreadInsert
  <2> QED BY <1>1, <2>6 DEF OnTheWay, longer, p
<1>7. /\ Carried(m) = <<>> => OnTheWay(first, q, last, items)
      /\ Carried(m) = last => OnTheWay(first, q, <<>>, items)
  BY <1>5, <1>6
<1> QED BY <1>7 DEF q

\* A candidate is found and cached.
LEMMA WayGather ==
  ASSUME NEW queue \in Seq(ToServer), NEW first, NEW last \in Seq(Locals), NEW items \in SUBSET Nat,
         OnTheWay(first, queue, last, items), NEW next \in Nat, \A x \in items : x < next, NEW more
  PROVE  more = Append(last, next) => OnTheWay(first, queue, more, items \cup {next})
<1> DEFINE way == Way(first, queue, last)
           grown == Way(first, queue, more)
           n == Len(queue)
<1>1. /\ n \in Nat /\ way[0] = first /\ way[n + 1] = last
      /\ \A k \in 1 .. n : way[k] = Carried(queue[k])
  BY WayPlaces
<1>g. /\ grown[0] = first /\ grown[n + 1] = more
      /\ \A k \in 1 .. n : grown[k] = Carried(queue[k])
  BY WayPlaces
<1>2. Spread(way, n + 1, items)
  BY DEF OnTheWay
<1> HIDE DEF way, grown, n
<1>3. \A k \in 0 .. n + 1 : k < n + 1 => grown[k] = way[k]
  <2> SUFFICES ASSUME NEW k \in 0 .. n + 1, k < n + 1 PROVE grown[k] = way[k]
    OBVIOUS
  <2>1. k = 0 \/ k \in 1 .. n
    BY <1>1
  <2> QED BY <1>1, <1>g, <2>1
<1> SUFFICES ASSUME more = Append(last, next) PROVE OnTheWay(first, queue, more, items \cup {next})
  OBVIOUS
<1>4. way[n + 1] \in Seq(Locals) /\ grown[n + 1] = Append(way[n + 1], next) /\ n + 1 \in Nat
  BY <1>1, <1>g
<1>5. Spread(grown, n + 1, items \cup {next})
  BY <1>2, <1>3, <1>4, SpreadExtend
<1> QED BY <1>5 DEF OnTheWay, grown, n

\* The first message is taken, and the first of its candidates are handed.
LEMMA WayTake ==
  ASSUME NEW queue \in Seq(ToServer), queue # <<>>, NEW first \in Seq(Locals), NEW last,
         NEW items \in SUBSET Nat, OnTheWay(first, queue, last, items),
         NEW candidates, candidates = Carried(Head(queue)), NEW kept \in 0 .. Len(candidates)
  PROVE  /\ Behind(candidates, kept) \subseteq items
         /\ OnTheWay(first \o SubSeq(candidates, 1, kept), Tail(queue), last,
                     items \ Behind(candidates, kept))
<1> DEFINE q == Tail(queue)
           n == Len(q)
           applies == first \o SubSeq(candidates, 1, kept)
           gone == Behind(candidates, kept)
<1>1. n \in Nat /\ Len(queue) = n + 1 /\ (\A k \in 1 .. n : q[k] = queue[k + 1]) /\ Head(queue) = queue[1]
  BY TailAt
<1>2. q \in Seq(ToServer) /\ candidates \in Seq(Locals)
  BY HeadTailProperties, CarriedType
<1>3. SubSeq(candidates, 1, kept) \in Seq(Locals)
  BY <1>2, PrefixOf
<1> HIDE DEF q, n, applies, gone
<1> DEFINE way == Way(first, queue, last)
           cut == Cut(way, n + 1 + 1, 1, kept)
           shorter == Way(applies, q, last)
<1>4. /\ way[0] = first /\ way[n + 1 + 1] = last
      /\ \A k \in 1 .. n + 1 : way[k] = Carried(queue[k])
  BY <1>1, WayPlaces
<1>5. /\ shorter[0] = applies /\ shorter[n + 1] = last
      /\ \A k \in 1 .. n : shorter[k] = Carried(q[k])
  BY <1>2, WayPlaces DEF n
<1>6. Spread(way, n + 1 + 1, items)
  BY <1>1 DEF OnTheWay
<1> HIDE DEF way, shorter
<1>7. way[1] = candidates
  BY <1>1, <1>4
<1>8. /\ 1 \in 0 .. n + 1 + 1 /\ cut[1] = SubSeq(candidates, 1, kept) /\ cut[0] = way[0]
      /\ \A k \in 0 .. n + 1 + 1 : k # 1 => cut[k] = way[k]
  BY <1>1, <1>7 DEF Cut
<1> HIDE DEF cut
<1> DEFINE p == n + 1 + 1
<1>9. p \in Nat \ {0} /\ p - 1 = n + 1 /\ Spread(way, p, items)
  BY <1>1, <1>6
<1> HIDE DEF p
<1>10. gone \subseteq items /\ Spread(cut, p, items \ gone)
  <2>1. p \in Nat /\ 1 \in 0 .. p /\ way[1] \in Seq(Locals) /\ kept \in 0 .. Len(way[1])
    BY <1>2, <1>7, <1>9
  <2>2. Behind(way[1], kept) \subseteq items /\ Spread(Cut(way, p, 1, kept), p, items \ Behind(way[1], kept))
    BY <1>9, <2>1, SpreadCut
  <2> QED BY <1>7, <2>2 DEF gone, cut, p
<1>11. shorter[0] = cut[0] \o cut[1] /\ cut[0] \in Seq(Locals) /\ cut[1] \in Seq(Locals)
  BY <1>4, <1>5, <1>8, <1>3 DEF applies
<1>12. \A k \in 1 .. n + 1 : shorter[k] = cut[k + 1]
  <2> TAKE k \in 1 .. n + 1
  <2>1. cut[k + 1] = way[k + 1]
    BY <1>1, <1>8
  <2>2. CASE k \in 1 .. n
    <3>1. k + 1 \in 1 .. n + 1
      BY <1>1, <2>2
    <3> QED BY <1>1, <1>4, <1>5, <2>1, <2>2, <3>1
  <2>3. CASE k = n + 1
    BY <1>4, <1>5, <2>1, <2>3
  <2> QED BY <1>1, <2>2, <2>3
<1>13. Spread(shorter, n + 1, items \ gone)
  <2>1. \A k \in 1 .. p - 1 : shorter[k] = cut[k + 1]
    BY <1>12, <1>9
  <2>2. Spread(shorter, p - 1, items \ gone)
    BY <1>11, <1>9, <1>10, <2>1, SpreadMerge
  <2> QED BY <1>9, <2>2
<1>14. OnTheWay(applies, q, last, items \ gone)
  BY <1>13 DEF OnTheWay, shorter, n
<1> QED BY <1>10, <1>14 DEF applies, q, gone

LEMMA WayNext ==
  ASSUME Typed, Typed', PhaseInv, SessionInv, IceInv, WayOpen, [Next]_vars
  PROVE  WayOpen'
<1>t. /\ to_server \in Seq(ToServer) /\ to_server' \in Seq(ToServer) /\ to_client \in Seq(ToClient)
      /\ cachedLocal \in Seq(Locals) /\ server_applied \in Seq(Locals) /\ gathered \in Nat
      /\ signalingConnection \in BOOLEAN /\ Kept \in SUBSET Nat
  BY BoundsAssumption DEF Typed, SentType, AnswerType, IceType, ServerIceType, Locals, Kept
<1>1. ASSUME UNCHANGED <<server_applied, to_server, cachedLocal, gathered, server_dropped>>,
             Gone => Gone'
      PROVE  WayOpen'
  BY <1>1 DEF WayOpen, Kept
<1>2. ASSUME NEW m, to_server' = Append(to_server, m), Carried(m) = <<>>, Gone => Gone',
             UNCHANGED <<server_applied, cachedLocal, gathered, server_dropped>>
      PROVE  WayOpen'
  <2>1. ~Gone => OnTheWay(server_applied, Append(to_server, m), cachedLocal, Kept)
    BY <1>t, <1>2, WaySend DEF WayOpen
  <2> QED BY <1>2, <2>1 DEF WayOpen, Kept
<1>3. CASE \/ connect \/ onSignallingConnected \/ OfferRejected \/ AnswerApplied \/ AnswerRejected
           \/ apply_offer \/ broadcast_ended
  <2>1. /\ UNCHANGED <<server_applied, to_server, cachedLocal, gathered, server_dropped>>
        /\ ~(peer = "closed" /\ socket = "none") \/ apply_offer \/ broadcast_ended
    BY <1>3 DEF connect, onSignallingConnected, OfferRejected, AnswerApplied, AnswerRejected,
                apply_offer, broadcast_ended, PhaseInv, Down, request_vars, ice_vars, server_vars,
                server_ice_vars
  <2>2. Gone => Gone'
    BY <2>1 DEF Gone, apply_offer, broadcast_ended
  <2> QED BY <1>1, <2>1, <2>2
<1>4. ASSUME NEW type \in RequestType, sendRequest(type), Gone => Gone',
             UNCHANGED <<server_applied, cachedLocal, gathered, server_dropped>>
      PROVE  WayOpen'
  <2> DEFINE m == [id |-> sent + 1, type |-> type]
  <2>1. to_server' = Append(to_server, m) /\ Carried(m) = <<>>
    BY <1>4 DEF sendRequest, Carried, IsRequest, RequestType
  <2> HIDE DEF m
  <2> QED BY <1>2, <1>4, <2>1
<1>5. CASE LocalOffer \/ subscribeBroadcast \/ unsubscribeBroadcast
  <2>1. Gone => Gone'
    BY <1>5 DEF LocalOffer, subscribeBroadcast, unsubscribeBroadcast, Gone
  <2> QED BY <1>4, <1>5, <2>1 DEF LocalOffer, subscribeBroadcast, unsubscribeBroadcast, RequestType,
                                  ice_vars, server_vars, server_ice_vars
<1>6. CASE close \/ signalling_lost \/ rtc_failed
  <2>1. UNCHANGED <<server_applied, cachedLocal, gathered, server_dropped>> /\ peer' = "closed"
    BY <1>6 DEF close, signalling_lost, rtc_failed, setConnectionFailed, doClose, ice_vars, server_vars,
                server_ice_vars
  <2>2. socket' = "none" \/ UNCHANGED <<socket, to_server>>
    BY <1>6 DEF close, signalling_lost, rtc_failed, setConnectionFailed, doClose
  <2>3. CASE socket' = "none"
    <3>1. Gone' /\ UNCHANGED <<gathered, server_dropped>>
      BY <2>1, <2>3 DEF Gone
    <3> QED BY <3>1 DEF WayOpen
  <2>4. CASE UNCHANGED <<socket, to_server>>
    BY <1>1, <2>1, <2>4 DEF Gone
  <2> QED BY <2>2, <2>3, <2>4
<1>7. CASE onLocalIceCandidate
  <2> DEFINE next == gathered + 1
             more == Append(cachedLocal, next)
             m == [type |-> "IceCandidates", candidates |-> <<next>>, finished |-> FALSE]
  <2>1. /\ ~Gone /\ peer # "closed" /\ UNCHANGED <<server_applied, server_dropped>> /\ gathered' = next
    BY <1>7 DEF onLocalIceCandidate, Described, Gone, server_vars, server_ice_vars
  <2>2. next \in Nat /\ (\A x \in Kept : x < next) /\ server_dropped \subseteq 1 .. next
    BY <1>t DEF Kept, WayOpen
  <2>3. Kept' = Kept \cup {next}
    BY <1>t, <2>1 DEF Kept, WayOpen
  <2> HIDE DEF next
  <2>4. OnTheWay(server_applied, to_server, more, Kept \cup {next})
    <3>1. more = Append(cachedLocal, next)
      OBVIOUS
    <3> HIDE DEF more
    <3> QED BY <1>t, <2>1, <2>2, <3>1, WayGather DEF WayOpen
  <2>5. CASE signalingConnection
    <3>1. cachedLocal = <<>> /\ cachedLocal' = <<>>
      BY <1>7, <2>1, <2>5 DEF onLocalIceCandidate, IceInv
    <3>2. more = <<next>>
      BY <3>1
    <3>3. to_server' = Append(to_server, m) /\ Carried(m) = more
      BY <1>7, <2>5, <3>2 DEF onLocalIceCandidate, signalIceCandidates, Carried, IsRequest, next
    <3> HIDE DEF more, m
    <3>4. OnTheWay(server_applied, to_server', <<>>, Kept \cup {next})
      BY <1>t, <2>4, <3>3, WaySend
    <3> QED BY <2>1, <2>2, <2>3, <3>1, <3>4 DEF WayOpen
  <2>6. CASE ~signalingConnection
    <3>1. to_server' = to_server /\ cachedLocal' = more
      BY <1>7, <2>6 DEF onLocalIceCandidate, next
    <3> HIDE DEF more
    <3> QED BY <2>1, <2>2, <2>3, <2>4, <3>1 DEF WayOpen
  <2> QED BY <2>5, <2>6
<1>8. CASE onLocalIceFinished
  <2> DEFINE m == [type |-> "IceCandidates", candidates |-> <<>>, finished |-> TRUE]
  <2>1. UNCHANGED <<peer, socket, server_applied, cachedLocal, gathered, server_dropped>>
    BY <1>8 DEF onLocalIceFinished, server_vars, server_ice_vars
  <2>2. to_server' = to_server \/ to_server' = Append(to_server, m)
    BY <1>8 DEF onLocalIceFinished, signalIceCandidates
  <2>3. Carried(m) = <<>>
    BY DEF Carried, IsRequest
  <2>4. Gone => Gone'
    BY <2>1 DEF Gone
  <2> HIDE DEF m
  <2> QED BY <1>1, <1>2, <2>1, <2>2, <2>3, <2>4
<1>9. ASSUME NEW r \in pending, NEW result, Settled(r, result),
             result = "SessionInitializeSuccess" => Described,
             UNCHANGED <<server_applied, server_dropped>>
      PROVE  WayOpen'
  <2>1. CASE ~Session(r)
    <3>1. UNCHANGED <<peer, socket, to_server, cachedLocal, gathered>>
      BY <1>9, <2>1, SettledCases DEF ice_vars
    <3> QED BY <1>1, <1>9, <3>1 DEF Gone
  <2>2. CASE Session(r) /\ result # "SessionInitializeSuccess"
    <3>1. Gone' /\ UNCHANGED gathered
      BY <1>9, <2>2, SettledCases DEF Gone, ice_vars
    <3> QED BY <1>9, <3>1 DEF WayOpen
  <2>3. CASE Session(r) /\ result = "SessionInitializeSuccess"
    <3> DEFINE m == [type |-> "IceCandidates", candidates |-> cachedLocal, finished |-> remoteFinished]
    <3>1. SessionInitialized /\ ~Gone
      BY <1>9, <2>3, SettledCases DEF Described, Gone
    <3>2. /\ UNCHANGED gathered /\ cachedLocal' = <<>>
          /\ \/ to_server' = to_server /\ cachedLocal = <<>>
             \/ to_server' = Append(to_server, m)
      BY <3>1 DEF SessionInitialized, processPendingIceCandidates, signalIceCandidates
    <3>3. Carried(m) = cachedLocal
      BY DEF Carried, IsRequest
    <3> HIDE DEF m
    <3>4. CASE to_server' = to_server /\ cachedLocal = <<>>
      BY <1>1, <1>9, <3>1, <3>2, <3>4
    <3>5. CASE to_server' = Append(to_server, m)
      <4>1. OnTheWay(server_applied, to_server', <<>>, Kept)
        BY <1>t, <3>1, <3>3, <3>5, WaySend DEF WayOpen
      <4> QED BY <1>9, <3>2, <4>1 DEF WayOpen, Kept
    <3> QED BY <3>2, <3>4, <3>5
  <2> QED BY <2>1, <2>2, <2>3
<1>10. CASE handleMessage
  <2>1. UNCHANGED <<server_applied, server_dropped>> /\ Described
    BY <1>10 DEF handleMessage, PhaseInv, server_vars, server_ice_vars
  <2>2. CASE UNCHANGED <<peer, socket, to_server, cachedLocal, gathered>>
    BY <1>1, <2>1, <2>2 DEF Gone
  <2>3. CASE ~UNCHANGED <<peer, socket, to_server, cachedLocal, gathered>>
    BY <1>9, <1>10, <2>1, <2>3 DEF handleMessage, request_vars, ice_vars
  <2> QED BY <2>2, <2>3
<1>11. CASE \E r \in pending : timeout(r)
  BY <1>9, <1>11 DEF timeout, server_vars, server_ice_vars
<1>12. CASE InitializeRefused \/ InitializeSession \/ BroadcastSubscribe \/ BroadcastUnsubscribe
  <2>1. /\ to_server # <<>> /\ IsRequest(Head(to_server)) /\ to_server' = Tail(to_server)
        /\ UNCHANGED <<peer, socket, cachedLocal, gathered, server_applied, server_dropped>>
    BY <1>12 DEF InitializeRefused, InitializeSession, BroadcastSubscribe, BroadcastUnsubscribe,
                 Request, IsRequest, Respond, ice_vars, server_vars, server_ice_vars
  <2>2. Carried(Head(to_server)) = <<>> /\ ~Gone
    BY <2>1 DEF Carried, PhaseInv, Described, Gone
  <2>3. OnTheWay(server_applied, Tail(to_server), cachedLocal, Kept)
    <3> DEFINE none == <<>>
    <3>1. 0 \in 0 .. Len(none) /\ SubSeq(none, 1, 0) = <<>> /\ Behind(none, 0) = {}
      BY SubSeqEmpty DEF Behind
    <3>2. server_applied \o <<>> = server_applied /\ Kept \ {} = Kept
      BY <1>t, ConcatEmptySeq
    <3>3. OnTheWay(server_applied, to_server, cachedLocal, Kept) /\ none = Carried(Head(to_server))
      BY <2>2 DEF WayOpen
    <3> HIDE DEF none
    <3>4. OnTheWay(server_applied \o SubSeq(none, 1, 0), Tail(to_server), cachedLocal,
                   Kept \ Behind(none, 0))
      BY <1>t, <2>1, <3>1, <3>3, WayTake
    <3> QED BY <3>1, <3>2, <3>4
  <2> QED BY <2>1, <2>3 DEF WayOpen, Kept
<1>13. CASE IceCandidates
  <2> DEFINE candidates == Head(to_server).candidates
  <2>1. /\ to_server # <<>> /\ ~IsRequest(Head(to_server)) /\ Described
        /\ to_server' = Tail(to_server) /\ UNCHANGED <<peer, socket, cachedLocal, gathered>>
    BY <1>13 DEF IceCandidates, Request, IsRequest, PhaseInv, ice_vars
  <2>2. signalingConnection
    BY <1>t, <2>1, QueueKinds DEF IceInv, Described
  <2>3. server # "none"
    BY <2>1, <2>2 DEF IceInv, Described
  <2>4. PICK n \in 0 .. Len(candidates) :
          /\ server_applied' = server_applied \o SubSeq(candidates, 1, n)
          /\ server_dropped' = server_dropped \cup Behind(candidates, n)
    BY <1>13, <2>3 DEF IceCandidates, Behind
  <2>5. candidates = Carried(Head(to_server))
    BY <2>1 DEF Carried
  <2> HIDE DEF candidates
  <2>6. /\ Behind(candidates, n) \subseteq Kept
        /\ OnTheWay(server_applied', to_server', cachedLocal, Kept \ Behind(candidates, n))
    BY <1>t, <2>1, <2>4, <2>5, WayTake DEF WayOpen, Described, Gone
  <2>7. Kept' = Kept \ Behind(candidates, n) /\ server_dropped' \subseteq 1 .. gathered
    BY <2>1, <2>4, <2>6 DEF Kept, WayOpen
  <2> QED BY <2>1, <2>6, <2>7 DEF WayOpen
<1>14. CASE \E c \in 0 .. MaxRemote : ServerCandidate(c) \/ signaling_notify(c)
  BY <1>1, <1>14 DEF ServerCandidate, signaling_notify, request_vars, ice_vars, Gone
<1>15. CASE UNCHANGED vars
  BY <1>1, <1>15 DEF vars, request_vars, ice_vars, server_vars, server_ice_vars, Gone
<1> QED BY <1>3, <1>5, <1>6, <1>7, <1>8, <1>10, <1>11, <1>12, <1>13, <1>14, <1>15 DEF Next

LEMMA ArrivedNext ==
  ASSUME Typed, PhaseInv, SessionInv, Arrived, [Next]_vars
  PROVE  Arrived'
<1>t. /\ cachedRemote \in Seq(1 .. MaxRemote) /\ handed \in Seq(1 .. MaxRemote)
      /\ arrived \in Seq(1 .. MaxRemote) /\ signalingConnection \in BOOLEAN
  BY DEF Typed, IceType
<1>e. handed \o <<>> = handed
  BY <1>t, ConcatEmptySeq
<1>1. ASSUME UNCHANGED <<handed, signalingConnection, cachedRemote, arrived>> PROVE Arrived'
  BY <1>1 DEF Arrived
<1>2. ASSUME NEW r \in pending, NEW result, Settled(r, result) PROVE Arrived'
  <2>1. CASE ~Session(r) \/ result # "SessionInitializeSuccess"
    BY <1>1, <1>2, <2>1, SettledCases DEF ice_vars
  <2>2. CASE Session(r) /\ result = "SessionInitializeSuccess"
    <3>1. SessionInitialized
      BY <1>2, <2>2, SettledCases
    <3>2. /\ signalingConnection' = TRUE /\ handed' = handed \o cachedRemote /\ arrived' = arrived
      BY <3>1 DEF SessionInitialized, processPendingIceCandidates, applyCachedRemote
    <3>3. handed \o cachedRemote = arrived
      BY <2>2 DEF SessionInv, Arrived
    <3>4. arrived \o <<>> = arrived
      BY <1>t, ConcatEmptySeq
    <3> QED BY <3>2, <3>3, <3>4 DEF Arrived
  <2> QED BY <2>1, <2>2
<1>3. ASSUME NEW c \in 0 .. MaxRemote, applyRemoteIceCandidate(c), UNCHANGED signalingConnection
      PROVE  Arrived'
  <2>1. CASE c = End
    BY <1>1, <1>3, <2>1 DEF applyRemoteIceCandidate, addRemoteIceCandidate
  <2>2. CASE c # End
    <3>1. c \in 1 .. MaxRemote /\ arrived' = Append(arrived, c)
      BY <1>3, <2>2, BoundsAssumption DEF End, applyRemoteIceCandidate
    <3>2. CASE signalingConnection
      <4>1. handed' = Append(handed, c) /\ handed = arrived
        BY <1>e, <1>3, <2>2, <3>2 DEF applyRemoteIceCandidate, addRemoteIceCandidate, Arrived
      <4>2. Append(handed, c) \in Seq(1 .. MaxRemote)
        BY <1>t, <3>1, AppendType
      <4>3. handed' \o <<>> = handed'
        BY <4>1, <4>2, ConcatEmptySeq
      <4> QED BY <1>3, <3>1, <3>2, <4>1, <4>3 DEF Arrived
    <3>3. CASE ~signalingConnection
      <4>1. handed' = handed /\ cachedRemote' = Append(cachedRemote, c)
        BY <1>3, <2>2, <3>3 DEF applyRemoteIceCandidate, addRemoteIceCandidate
      <4>2. handed \o cachedRemote = arrived
        BY <3>3 DEF Arrived
      <4>3. handed \o Append(cachedRemote, c) = Append(handed \o cachedRemote, c)
        BY <1>t, <3>1, AppendOut
      <4> QED BY <1>3, <3>1, <3>3, <4>1, <4>2, <4>3 DEF Arrived
    <3> QED BY <1>t, <3>2, <3>3
  <2> QED BY <2>1, <2>2
<1>4. CASE handleMessage
  <2> DEFINE m == Head(to_client)
  <2>1. CASE m.id = 0
    <3>1. applyRemoteIceCandidate(m.candidate) /\ UNCHANGED signalingConnection
      BY <1>4, <2>1 DEF handleMessage
    <3>2. m \in ToClient
      BY <1>4, HeadTailProperties DEF handleMessage, Typed, AnswerType
    <3>3. m.candidate \in 0 .. MaxRemote
      BY <2>1, <3>2 DEF ToClient, Answers, Notifications
    <3> QED BY <1>3, <3>1, <3>3
  <2>2. CASE m.id # 0
    BY <1>1, <1>2, <1>4, <2>2 DEF handleMessage, ice_vars
  <2> QED BY <2>1, <2>2
<1>5. CASE \E r \in pending : timeout(r)
  BY <1>2, <1>5 DEF timeout
<1>6. CASE \/ connect \/ close \/ onSignallingConnected \/ LocalOffer \/ signalling_lost \/ rtc_failed
           \/ onLocalIceCandidate \/ onLocalIceFinished \/ subscribeBroadcast \/ unsubscribeBroadcast
           \/ OfferRejected \/ AnswerApplied \/ AnswerRejected
  <2>1. UNCHANGED <<handed, signalingConnection, cachedRemote, arrived>>
    BY <1>6 DEF connect, close, onSignallingConnected, LocalOffer, signalling_lost, rtc_failed,
                onLocalIceCandidate, onLocalIceFinished, subscribeBroadcast, unsubscribeBroadcast,
                OfferRejected, AnswerApplied, AnswerRejected, ice_vars
  <2> QED BY <1>1, <2>1
<1>7. CASE \/ apply_offer \/ InitializeRefused \/ InitializeSession \/ IceCandidates
           \/ BroadcastSubscribe \/ BroadcastUnsubscribe \/ broadcast_ended
           \/ \E c \in 0 .. MaxRemote : ServerCandidate(c) \/ signaling_notify(c)
           \/ UNCHANGED vars
  <2>1. UNCHANGED <<handed, signalingConnection, cachedRemote, arrived>>
    BY <1>7 DEF apply_offer, InitializeRefused, InitializeSession, IceCandidates, BroadcastSubscribe,
                BroadcastUnsubscribe, broadcast_ended, ServerCandidate, signaling_notify, Respond,
                ice_vars, vars
  <2> QED BY <1>1, <2>1
<1> QED BY <1>4, <1>5, <1>6, <1>7 DEF Next

-----------------------------------------------------------------------------
(* The invariants of the specification, and what follows from them.         *)

LEMMA InvInit == Init => IInv
<1> SUFFICES ASSUME Init PROVE IInv
  OBVIOUS
<1>1. Typed
  BY TypeInit, TypeParts
<1>2. PhaseInv /\ SessionInv /\ RequestInv
  BY PairedNone DEF Init, PhaseInv, Down, Described, Gone, SessionInv, Session, RequestInv
<1>3. NoCandidates(<<>>) /\ NoSuccess(<<>>)
  BY DEF NoCandidates, NoSuccess
<1>4. IceInv
  BY <1>3 DEF Init, IceInv
<1>5. WayOpen
  <2>1. to_server \in Seq(ToServer) /\ Len(to_server) = 0
        /\ DOMAIN server_applied = {} /\ DOMAIN cachedLocal = {}
    BY DEF Init
  <2>2. Kept = {} /\ server_dropped \subseteq 1 .. gathered
    BY DEF Init, Kept
  <2> QED BY <2>1, <2>2, NoneOnTheWay DEF WayOpen
<1>6. Arrived
  <2>1. <<>> \o <<>> = <<>>
    BY EmptySeq, ConcatEmptySeq
  <2> QED BY <2>1 DEF Init, Arrived
<1>7. CallInv
  BY NoAnswersTell DEF Init, CallInv
<1> QED BY <1>1, <1>2, <1>4, <1>5, <1>6, <1>7 DEF IInv

LEMMA InvNext == IInv /\ [Next]_vars => IInv'
<1> SUFFICES ASSUME IInv, [Next]_vars PROVE IInv'
  OBVIOUS
<1>1. Typed /\ PhaseInv /\ SessionInv /\ IceInv /\ WayOpen /\ Arrived /\ RequestInv /\ CallInv
  BY DEF IInv
<1>2. Typed'
  BY <1>1, TypeNext
<1>3. PhaseInv' /\ SessionInv' /\ IceInv'
  BY <1>1, PhaseNext, SessionNext, IceNext
<1>4. WayOpen' /\ Arrived'
  BY <1>1, <1>2, WayNext, ArrivedNext
<1>5. RequestInv' /\ CallInv'
  BY <1>1, RequestNext, CallNext
<1> QED BY <1>2, <1>3, <1>4, <1>5 DEF IInv

LEMMA Invariant == Spec => []IInv
  BY InvInit, InvNext, PTL DEF Spec

LEMMA Conserved == IInv => CandidatesConserved
<1> SUFFICES ASSUME IInv PROVE CandidatesConserved
  OBVIOUS
<1> DEFINE way == Way(server_applied, to_server, cachedLocal)
           n == Len(to_server) + 1
<1>1. to_server \in Seq(ToServer)
  BY DEF IInv, Typed, SentType
<1>2. \A k \in 0 .. n : Site(k) = way[k]
  <2> SUFFICES ASSUME NEW k \in 0 .. n PROVE Site(k) = way[k]
    OBVIOUS
  <2>1. /\ Len(to_server) \in Nat /\ way[0] = server_applied /\ way[n] = cachedLocal
        /\ \A l \in 1 .. Len(to_server) : way[l] = Carried(to_server[l])
    BY <1>1, WayPlaces
  <2> HIDE DEF way
  <2>2. k = 0 \/ k \in 1 .. Len(to_server) \/ k = n
    BY <2>1
  <2>3. n > Len(to_server) /\ n # 0 /\ \A l \in 1 .. Len(to_server) : ~(l > Len(to_server)) /\ l # 0
    BY <2>1
  <2> HIDE DEF n
  <2> QED BY <2>1, <2>2, <2>3 DEF Site, Carried, IsRequest
<1> HIDE DEF way
<1>3. ASSUME socket = "open"
      PROVE  /\ UNION {Range(Site(k)) : k \in Sites} = Kept
             /\ \A k, l \in Sites : \A i \in DOMAIN Site(k), j \in DOMAIN Site(l) :
                  k < l \/ (k = l /\ i < j) => Site(k)[i] < Site(l)[j]
  <2>1. Spread(way, n, Kept)
    BY <1>3 DEF IInv, WayOpen, OnTheWay, Gone, way
  <2>2. Sites = 0 .. n
    BY DEF Sites
  <2> HIDE DEF n
  <2>3. \A c : c \in UNION {Range(Site(k)) : k \in 0 .. n} <=> c \in Kept
    <3> DEFINE them == Kept
    <3>1. \A c : c \in them <=> \E k \in 0 .. n : \E i \in DOMAIN way[k] : way[k][i] = c
      BY <2>1 DEF Spread
    <3> HIDE DEF them
    <3>2. \A k \in 0 .. n : \A c : c \in Range(Site(k)) <=> \E i \in DOMAIN way[k] : way[k][i] = c
      BY <1>2, Zenon DEF Range
    <3>3. \A c : c \in UNION {Range(Site(k)) : k \in 0 .. n} <=> \E k \in 0 .. n : c \in Range(Site(k))
      OBVIOUS
    <3>4. \A c : c \in UNION {Range(Site(k)) : k \in 0 .. n} <=> c \in them
      BY <3>1, <3>2, <3>3
    <3> QED BY <3>4 DEF them
  <2>4. \A k, l \in 0 .. n : \A i \in DOMAIN Site(k), j \in DOMAIN Site(l) :
          k < l \/ (k = l /\ i < j) => Site(k)[i] < Site(l)[j]
    BY <1>2, <2>1 DEF Spread
  <2> QED BY <2>2, <2>3, <2>4
<1> QED BY <1>3 DEF CandidatesConserved, IInv, Arrived, Kept

LEMMA Agreed == IInv => SubscriptionsAgree
<1> SUFFICES ASSUME IInv, ~gave_up PROVE SubscriptionsAgree
  BY DEF SubscriptionsAgree
<1>1. ~threw /\ (socket = "open" /\ broadcast => Tells(to_client, streamId, subscribed))
  BY DEF IInv, CallInv
<1>2. Paired(pending, to_server, to_client)
  BY DEF IInv, RequestInv
<1>3. ASSUME socket = "open", broadcast,
             \A r \in pending : r.type \notin {"BroadcastSubscribe", "BroadcastUnsubscribe"}
      PROVE  streamId = subscribed
  <2>1. \A k \in 1 .. Len(to_client) : ~IsCallAnswer(to_client[k])
    <3> SUFFICES ASSUME NEW k \in 1 .. Len(to_client), IsCallAnswer(to_client[k]) PROVE FALSE
      OBVIOUS
    <3>1. PICK r \in pending : Fits(r.type, to_client[k].result)
      BY <1>2 DEF Paired, IsCallAnswer
    <3> QED BY <1>3, <3>1 DEF Fits, IsCallAnswer
  <2> QED BY <1>1, <1>3, <2>1 DEF Tells, NoCallAnswer
<1> QED BY <1>1, <1>3 DEF SubscriptionsAgree

\* The variables stay in their types.
THEOREM TypeCorrect == Spec => []TypeOK
<1>1. IInv => TypeOK
  BY TypeParts DEF IInv
<1> QED BY <1>1, Invariant, PTL

\* No candidate is doubled or overtaken between the page and the peer of the
\* server, through the cache of RtcConnection and the messages of the socket,
\* whenever the session comes, and none is lost but those that the handler of the
\* server drops with a refused one; and every candidate that arrives at the page
\* is handed to its peer, once and in order, or cached.
THEOREM CandidatesAreConserved == Spec => []CandidatesConserved
  BY Invariant, Conserved, PTL

\* A page whose calls were all answered, and that waits for none, has the stream
\* id of a running broadcast exactly when the server has the subscription; and no
\* call meets a subscription of which the page has no stream id.
THEOREM PageAndServerAgree == Spec => []SubscriptionsAgree
  BY Invariant, Agreed, PTL

\* No step leads from "failed" or "closed" to another state: not a late answer,
\* not the timeout of a request, not an event of the peer.
THEOREM DownStaysDown == Spec => NeverBackUp
<1>1. IInv /\ [Next]_vars => [Down => Down']_vars
  <2> SUFFICES ASSUME IInv, Next, Down PROVE Down'
    OBVIOUS
  <2>1. /\ peer = "closed" /\ to_server = <<>> /\ to_client = <<>> /\ state \in {"failed", "closed"}
    BY DEF IInv, PhaseInv, Down, Described
  <2>2. CASE close \/ onSignallingConnected \/ signalling_lost \/ rtc_failed
    BY <2>2 DEF close, onSignallingConnected, signalling_lost, rtc_failed, setConnectionFailed, Down
  <2>3. CASE \E r \in pending : timeout(r)
    <3>1. PICK r \in pending : Settled(r, "RequestTimeout")
      BY <2>3 DEF timeout
    <3>2. state' \in {state, "failed"}
      BY <3>1, SettledCases DEF IInv
    <3> QED BY <2>1, <3>2 DEF Down
  <2>4. CASE broadcast_ended \/ \E c \in 0 .. MaxRemote : ServerCandidate(c) \/ signaling_notify(c)
    BY <2>1, <2>4 DEF broadcast_ended, ServerCandidate, signaling_notify, Down
  <2> QED BY <2>1, <2>2, <2>3, <2>4
      DEF Next, connect, LocalOffer, OfferRejected, onLocalIceCandidate, onLocalIceFinished, Described,
          subscribeBroadcast, unsubscribeBroadcast, handleMessage, AnswerApplied, AnswerRejected,
          apply_offer, InitializeRefused, InitializeSession, IceCandidates, BroadcastSubscribe,
          BroadcastUnsubscribe, Request
<1> QED BY <1>1, Invariant, PTL DEF Spec, NeverBackUp

================================================================================
