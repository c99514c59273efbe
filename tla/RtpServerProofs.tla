---------------------------- MODULE RtpServerProofs ----------------------------
(***************************************************************************)
(* For any number of connections, rooms and tokens: a token is spent once, *)
(* whoever is in a room was let in by a token for it, and an open          *)
(* connection that is in a room has its peer.                              *)
(***************************************************************************)
EXTENDS RtpServer, TLAPS

LEMMA ZeroIsNoId == Zero \notin ClientId /\ Zero \notin Rooms /\ ClientId \subseteq Nat
  BY ServerAssumption DEF Zero, ClientId

Handler == [at : {"idle", "rtp", "offer", "join"}, room : Rooms \cup {Zero},
            peer_removed : BOOLEAN]

LEMMA IdleIsHandler == Idle \in Handler
  BY DEF Idle, Handler

LEMMA HandlersTyped == TypeOK => handler \in [ClientId -> Handler]
  BY DEF TypeOK, Handler

\* What requests and the cleanup do to a client's handler keeps it a handler.
LEMMA HandlerStep ==
  ASSUME TypeOK, NEW c \in ClientId
  PROVE  /\ \A at \in {"offer", "join"} :
              [handler EXCEPT ![c].at = at] \in [ClientId -> Handler]
         /\ \A gone \in BOOLEAN :
              [handler EXCEPT ![c].peer_removed = gone] \in [ClientId -> Handler]
         /\ \A room \in Rooms \cup {Zero} :
              [handler EXCEPT ![c].at = "rtp", ![c].room = room] \in [ClientId -> Handler]
<1>1. handler \in [ClientId -> Handler] /\ handler[c] \in Handler
  BY HandlersTyped
<1>2. \A at \in {"offer", "join"} : [handler[c] EXCEPT !.at = at] \in Handler
  BY <1>1 DEF Handler
<1>3. \A gone \in BOOLEAN : [handler[c] EXCEPT !.peer_removed = gone] \in Handler
  BY <1>1 DEF Handler
<1>4. \A room \in Rooms \cup {Zero} :
        [handler[c] EXCEPT !.at = "rtp", !.room = room] \in Handler
  BY <1>1 DEF Handler
<1> QED BY <1>1, <1>2, <1>3, <1>4

LEMMA TypeInit == Init => TypeOK
<1> SUFFICES ASSUME Init PROVE TypeOK
  OBVIOUS
<1>1. handler \in [ClientId -> Handler]
  BY IdleIsHandler DEF Init
<1> QED BY <1>1, ServerAssumption DEF Init, TypeOK, Handler

LEMMA TypeNext == TypeOK /\ [Next]_vars => TypeOK'
<1> SUFFICES ASSUME TypeOK, [Next]_vars PROVE TypeOK'
  OBVIOUS
<1> USE DEF accept_vars, token_vars, cleanup_vars
<1>1. CASE AcceptSocket
  BY <1>1, ServerAssumption DEF AcceptSocket, TypeOK, ClientId
<1>2. ASSUME NEW c \in ClientId, PushSubscriber(c) PROVE TypeOK'
  BY <1>2 DEF PushSubscriber, TypeOK
<1>3. ASSUME NEW c \in ClientId, RegisterClient(c) PROVE TypeOK'
  BY <1>3 DEF RegisterClient, TypeOK
<1>4. ASSUME NEW c \in ClientId, CloseConnection(c) PROVE TypeOK'
  <2>1. /\ connection' \in [ClientId -> {"none", "open", "closed"}]
        /\ cleanup' \in [ClientId -> {"none", "spawned", "done"}]
    BY <1>4 DEF CloseConnection, TypeOK
  <2> QED BY <1>4, <2>1 DEF CloseConnection, TypeOK
<1>5. ASSUME NEW c \in ClientId, ReaderStops(c) PROVE TypeOK'
  BY <1>5 DEF ReaderStops, TypeOK
<1>6. ASSUME NEW c \in ClientId, Cleanup(c) PROVE TypeOK'
  <2>1. /\ rtp_cleanup' \in [ClientId -> {"none", "spawned", "done"}]
        /\ handler' \in [ClientId -> Handler]
    <3>1. CASE c \in rtp_clients
      <4> DEFINE gone == handler[c].at \in {"offer", "join"}
      <4>1. handler' = [handler EXCEPT ![c].peer_removed = gone]
        BY <1>6, <3>1 DEF Cleanup
      <4>2. gone \in BOOLEAN
        OBVIOUS
      <4> HIDE DEF gone
      <4>3. [handler EXCEPT ![c].peer_removed = gone] \in [ClientId -> Handler]
        BY <4>2, HandlerStep
      <4>4. handler' \in [ClientId -> Handler]
        BY <4>1, <4>3
      <4> QED BY <1>6, <3>1, <4>4 DEF Cleanup, TypeOK
    <3>2. CASE c \notin rtp_clients
      BY <1>6, <3>2, HandlersTyped DEF Cleanup, TypeOK
    <3> QED BY <3>1, <3>2
  <2> QED BY <1>6, <2>1 DEF Cleanup, DisturbIf, TypeOK, Handler
<1>7. ASSUME NEW c \in ClientId, RoomCleanup(c) PROVE TypeOK'
  BY <1>7 DEF RoomCleanup, TypeOK
<1>8. ASSUME NEW c \in ClientId, RtpCleanup(c) PROVE TypeOK'
  BY <1>8 DEF RtpCleanup, TypeOK
<1>9. ASSUME NEW c \in ClientId, NEW t \in Token, TakeToken(c, t) PROVE TypeOK'
  <2>1. /\ handler' \in [ClientId -> Handler]
        /\ admitted' \in [Token -> ClientId \cup {Zero}]
    <3>1. CASE t \in expired
      BY <1>9, <3>1, HandlersTyped DEF TakeToken, TypeOK
    <3>2. CASE t \notin expired
      <4>1. /\ t \in tokens
            /\ handler' = [handler EXCEPT ![c].at = "rtp", ![c].room = target_room[t]]
            /\ admitted' = [admitted EXCEPT ![t] = c]
        BY <1>9, <3>2 DEF TakeToken
      <4>2. target_room[t] \in Rooms \cup {Zero}
        BY DEF TypeOK
      <4>3. handler' \in [ClientId -> Handler]
        BY <4>1, <4>2, HandlerStep
      <4> QED BY <4>1, <4>3 DEF TypeOK
    <3> QED BY <3>1, <3>2
  <2> QED BY <1>9, <2>1 DEF TakeToken, DisturbIf, TypeOK, Handler
<1>10. ASSUME NEW c \in ClientId, GetRtpClient(c) \/ ApplyOffer(c) \/ JoinRoom(c)
       PROVE  TypeOK'
  <2>1. handler' \in [ClientId -> Handler]
    <3>1. (\E point \in {"offer", "join"} : GoOn(c, point)) \/ Fail(c)
      BY <1>10 DEF GetRtpClient, ApplyOffer, JoinRoom, Fail
    <3>2. ASSUME NEW point \in {"offer", "join"}, GoOn(c, point)
          PROVE  handler' \in [ClientId -> Handler]
      BY <3>2, HandlerStep DEF GoOn
    <3>3. CASE Fail(c)
      BY <3>3, IdleIsHandler, HandlersTyped DEF Fail
    <3> QED BY <3>1, <3>2, <3>3
  <2>2. rtp_clients' \subseteq ClientId
    BY <1>10 DEF GetRtpClient, ApplyOffer, JoinRoom, TypeOK
  <2>3. /\ members' \in [Rooms -> SUBSET ClientId]
        /\ client_rooms' \in [ClientId -> Rooms \cup {Zero}]
    <3>1. CASE JoinRoom(c)
      <4>1. handler[c].room \in Rooms \cup {Zero}
        <5>1. handler[c] \in Handler
          BY HandlersTyped
        <5> QED BY <5>1 DEF Handler
      <4>2. /\ members' = [members EXCEPT ![handler[c].room] = @ \cup {c}]
            /\ client_rooms' = [client_rooms EXCEPT ![c] = handler[c].room]
        BY <3>1 DEF JoinRoom
      <4>3. client_rooms' \in [ClientId -> Rooms \cup {Zero}]
        BY <4>1, <4>2 DEF TypeOK
      <4>4. members' \in [Rooms -> SUBSET ClientId]
        BY <4>2 DEF TypeOK
      <4> QED BY <4>3, <4>4
    <3>2. CASE GetRtpClient(c) \/ ApplyOffer(c)
      BY <3>2 DEF GetRtpClient, ApplyOffer, TypeOK
    <3> QED BY <1>10, <3>1, <3>2
  <2> QED BY <1>10, <2>1, <2>2, <2>3 DEF GetRtpClient, ApplyOffer, JoinRoom, TypeOK, Handler
<1>11. ASSUME NEW t \in Token, NEW r \in Rooms, CreateJoinToken(t, r) PROVE TypeOK'
  BY <1>11 DEF CreateJoinToken, TypeOK
<1>12. ASSUME NEW t \in Token, TokenExpires(t) PROVE TypeOK'
  BY <1>12 DEF TokenExpires, TypeOK
<1>13. CASE Tick
  BY <1>13 DEF Tick, TypeOK
<1>14. CASE UNCHANGED vars
  BY <1>14 DEF vars, TypeOK
<1> QED BY <1>1, <1>2, <1>3, <1>4, <1>5, <1>6, <1>7, <1>8, <1>9, <1>10, <1>11, <1>12,
           <1>13, <1>14 DEF Next, Session

-----------------------------------------------------------------------------
\* What makes AdmittedByToken inductive: a token that may still be spent was
\* issued for a room and not spent, and a request under way has a room.
AdmissionInv ==
    /\ \A c \in ClientId : handler[c].at # "idle" => handler[c].room \in Rooms
    /\ \A t \in tokens : target_room[t] # Zero /\ admitted[t] = Zero
    /\ \A t \in Token : admitted[t] # Zero => target_room[t] # Zero
    /\ AdmittedByToken

\* What TokenSpentOnce says of one step.
SpentStaysSpent ==
    \A t \in Token : admitted[t] # Zero =>
        admitted'[t] = admitted[t] /\ t \notin tokens /\ t \notin tokens'

\* Steps that spend no token and admit nobody: what clients hold only shrinks.
LEMMA NobodyAdmitted ==
  ASSUME TypeOK, AdmissionInv, UNCHANGED <<target_room, admitted>>,
         tokens' \subseteq tokens,
         \A c \in ClientId :
           /\ handler'[c].at # "idle" => handler[c].at # "idle"
           /\ \/ handler'[c].room = handler[c].room
              \/ handler'[c].room = Zero /\ handler'[c].at = "idle"
           /\ client_rooms'[c] \in {client_rooms[c], Zero},
         \A r \in Rooms : members'[r] \subseteq members[r]
  PROVE  AdmissionInv' /\ SpentStaysSpent
<1>1. SpentStaysSpent
  BY DEF AdmissionInv, SpentStaysSpent
<1>2. \A c \in ClientId : handler'[c].at # "idle" => handler'[c].room \in Rooms
  BY DEF AdmissionInv
<1>3. AdmittedByToken'
  BY ZeroIsNoId DEF AdmissionInv, AdmittedByToken
<1> QED BY <1>1, <1>2, <1>3 DEF AdmissionInv, TypeOK

LEMMA AdmissionInit == Init => AdmissionInv
  BY ZeroIsNoId DEF Init, AdmissionInv, AdmittedByToken, Idle

LEMMA AdmissionNext == TypeOK /\ AdmissionInv /\ [Next]_vars => AdmissionInv' /\ SpentStaysSpent
<1> SUFFICES ASSUME TypeOK, AdmissionInv, [Next]_vars PROVE AdmissionInv' /\ SpentStaysSpent
  OBVIOUS
<1> USE DEF accept_vars, token_vars, cleanup_vars
<1>1. CASE UNCHANGED <<token_vars, client_rooms, members, handler>>
  BY <1>1, NobodyAdmitted
<1>2. ASSUME NEW c \in ClientId, Cleanup(c) PROVE AdmissionInv' /\ SpentStaysSpent
  <2>1. \A d \in ClientId : handler'[d].at = handler[d].at /\ handler'[d].room = handler[d].room
    <3>1. CASE c \in rtp_clients
      BY <1>2, <3>1 DEF Cleanup, TypeOK
    <3>2. CASE c \notin rtp_clients
      BY <1>2, <3>2 DEF Cleanup
    <3> QED BY <3>1, <3>2
  <2>2. \A d \in ClientId : client_rooms'[d] \in {client_rooms[d], Zero}
    BY <1>2 DEF Cleanup, TypeOK
  <2>3. UNCHANGED <<tokens, target_room, admitted, members>>
    BY <1>2 DEF Cleanup
  <2> QED BY <2>1, <2>2, <2>3, NobodyAdmitted
<1>3. ASSUME NEW c \in ClientId, RoomCleanup(c) PROVE AdmissionInv' /\ SpentStaysSpent
  <2>1. \A r \in Rooms : members'[r] \subseteq members[r]
    BY <1>3 DEF RoomCleanup, TypeOK
  <2> QED BY <1>3, <2>1, NobodyAdmitted DEF RoomCleanup
<1>4. CASE Tick
  BY <1>4, NobodyAdmitted DEF Tick
<1>5. ASSUME NEW t \in Token, TokenExpires(t) PROVE AdmissionInv' /\ SpentStaysSpent
  BY <1>5, NobodyAdmitted DEF TokenExpires
<1>6. ASSUME NEW t \in Token, NEW r \in Rooms, CreateJoinToken(t, r)
      PROVE  AdmissionInv' /\ SpentStaysSpent
  <2>1. /\ tokens' = tokens \cup {t}
        /\ target_room[t] = Zero /\ target_room' = [target_room EXCEPT ![t] = r]
        /\ UNCHANGED <<admitted, handler, client_rooms, members>>
    BY <1>6 DEF CreateJoinToken
  <2>2. admitted[t] = Zero
    BY <2>1 DEF AdmissionInv
  <2>3. \A u \in Token \ {t} : target_room'[u] = target_room[u]
    BY <2>1 DEF TypeOK
  <2>4. target_room'[t] # Zero
    BY <2>1, ZeroIsNoId DEF TypeOK
  <2>5. SpentStaysSpent
    BY <2>1, <2>2 DEF AdmissionInv, SpentStaysSpent
  <2>6. AdmittedByToken'
    BY <2>1, <2>2, <2>3, ZeroIsNoId DEF AdmissionInv, AdmittedByToken
  <2> QED BY <2>1, <2>2, <2>3, <2>4, <2>5, <2>6 DEF AdmissionInv, TypeOK
<1>7. ASSUME NEW c \in ClientId, NEW t \in Token, TakeToken(c, t)
      PROVE  AdmissionInv' /\ SpentStaysSpent
  <2>1. CASE t \in expired
    BY <1>7, <2>1, NobodyAdmitted DEF TakeToken
  <2>2. CASE t \notin expired
    <3>1. /\ t \in tokens /\ tokens' = tokens \ {t}
          /\ handler' = [handler EXCEPT ![c].at = "rtp", ![c].room = target_room[t]]
          /\ admitted' = [admitted EXCEPT ![t] = c]
          /\ UNCHANGED <<target_room, client_rooms, members>>
      BY <1>7, <2>2 DEF TakeToken
    <3>2. admitted[t] = Zero /\ target_room[t] \in Rooms
      BY <3>1 DEF AdmissionInv, TypeOK
    <3>3. /\ admitted'[t] = c
          /\ \A u \in Token \ {t} : admitted'[u] = admitted[u]
      BY <3>1 DEF TypeOK
    <3>4. /\ handler'[c].room = target_room[t]
          /\ \A d \in ClientId \ {c} : handler'[d] = handler[d]
      BY <3>1 DEF TypeOK
    <3>5. SpentStaysSpent
      BY <3>1, <3>2, <3>3 DEF AdmissionInv, SpentStaysSpent
    <3>6. AdmittedByToken'
      <4> SUFFICES ASSUME NEW d \in ClientId, NEW r \in Rooms,
                          d \in members[r] \/ client_rooms[d] = r \/ handler'[d].room = r
                   PROVE  \E u \in Token : admitted'[u] = d /\ target_room[u] = r
        BY <3>1 DEF AdmittedByToken
      <4>1. CASE d = c /\ handler'[d].room = r
        BY <3>3, <3>4, <4>1
      <4>2. CASE d \in members[r] \/ client_rooms[d] = r \/ handler[d].room = r
        <5>1. PICK u \in Token : admitted[u] = d /\ target_room[u] = r
          BY <4>2 DEF AdmissionInv, AdmittedByToken
        <5>2. u # t
          BY <3>2, <5>1, ZeroIsNoId
        <5> QED BY <3>3, <5>1, <5>2
      <4> QED BY <3>4, <4>1, <4>2
    <3>7. \A d \in ClientId : handler'[d].at # "idle" => handler'[d].room \in Rooms
      BY <3>2, <3>4 DEF AdmissionInv
    <3>8. \A u \in tokens' : target_room'[u] # Zero /\ admitted'[u] = Zero
      BY <3>1, <3>3 DEF AdmissionInv, TypeOK
    <3>9. \A u \in Token : admitted'[u] # Zero => target_room'[u] # Zero
      BY <3>1, <3>2, <3>3, ZeroIsNoId DEF AdmissionInv
    <3> QED BY <3>5, <3>6, <3>7, <3>8, <3>9 DEF AdmissionInv
  <2> QED BY <2>1, <2>2
<1>8. ASSUME NEW c \in ClientId, GetRtpClient(c) \/ ApplyOffer(c)
      PROVE  AdmissionInv' /\ SpentStaysSpent
  <2>1. UNCHANGED <<tokens, target_room, admitted, client_rooms, members>>
    BY <1>8 DEF GetRtpClient, ApplyOffer
  <2>2. handler[c].at # "idle"
    BY <1>8 DEF GetRtpClient, ApplyOffer
  <2>3. (\E point \in {"offer", "join"} : GoOn(c, point)) \/ Fail(c)
    BY <1>8 DEF GetRtpClient, ApplyOffer
  <2>4. \A d \in ClientId :
          /\ handler'[d].at # "idle" => handler[d].at # "idle"
          /\ \/ handler'[d].room = handler[d].room
             \/ handler'[d].room = Zero /\ handler'[d].at = "idle"
    BY <2>2, <2>3 DEF GoOn, Fail, Idle, TypeOK
  <2> QED BY <2>1, <2>4, NobodyAdmitted
<1>9. ASSUME NEW c \in ClientId, JoinRoom(c) PROVE AdmissionInv' /\ SpentStaysSpent
  <2>1. handler[c].at # "idle" /\ handler[c].room \in Rooms
    BY <1>9 DEF JoinRoom, AdmissionInv
  <2>2. /\ UNCHANGED <<tokens, target_room, admitted>>
        /\ handler' = [handler EXCEPT ![c] = Idle]
        /\ client_rooms' = [client_rooms EXCEPT ![c] = handler[c].room]
        /\ members' = [members EXCEPT ![handler[c].room] = @ \cup {c}]
    BY <1>9 DEF JoinRoom
  <2>3. SpentStaysSpent
    BY <2>2 DEF AdmissionInv, SpentStaysSpent
  <2>4. \A d \in ClientId, r \in Rooms :
          d \in members'[r] \/ client_rooms'[d] = r \/ handler'[d].room = r =>
          d \in members[r] \/ client_rooms[d] = r \/ handler[d].room = r
    BY <2>1, <2>2, ZeroIsNoId DEF TypeOK, Idle
  <2>5. AdmittedByToken'
    BY <2>2, <2>4 DEF AdmissionInv, AdmittedByToken
  <2>6. \A d \in ClientId : handler'[d].at # "idle" => handler'[d].room \in Rooms
    BY <2>2 DEF AdmissionInv, TypeOK, Idle
  <2> QED BY <2>2, <2>3, <2>5, <2>6 DEF AdmissionInv
<1>10. ASSUME NEW c \in ClientId,
              \/ PushSubscriber(c) \/ RegisterClient(c) \/ CloseConnection(c)
              \/ ReaderStops(c) \/ RtpCleanup(c)
       PROVE  UNCHANGED <<token_vars, client_rooms, members, handler>>
  BY <1>10 DEF PushSubscriber, RegisterClient, CloseConnection, ReaderStops, RtpCleanup
<1>11. CASE AcceptSocket
  BY <1>1, <1>11 DEF AcceptSocket
<1>12. CASE UNCHANGED vars
  BY <1>1, <1>12 DEF vars
<1> QED BY <1>1, <1>2, <1>3, <1>4, <1>5, <1>6, <1>7, <1>8, <1>9, <1>10, <1>11, <1>12
        DEF Next, Session

-----------------------------------------------------------------------------
\* What makes OpenSessionIsWhole inductive: nothing is cleaned up before the
\* connection closes, and a request that has its peer finds it in the map.
Whole(c) ==
    connection[c] # "closed" =>
        /\ cleanup[c] = "none" /\ room_cleanup[c] = Zero /\ rtp_cleanup[c] = "none"
        /\ handler[c].at \in {"offer", "join"} \/ client_rooms[c] # Zero => c \in rtp_clients
        /\ client_rooms[c] # Zero => c \in members[client_rooms[c]]

WholeInv == \A c \in ClientId :
    /\ c > client_id_index => connection[c] = "none"
    /\ Whole(c)

LEMMA WholeInit == Init => WholeInv
  BY DEF Init, WholeInv, Whole, Idle

\* A step that takes nothing from a client keeps it whole.
LEMMA WholeKept ==
  ASSUME NEW c \in ClientId, Whole(c),
         connection[c] = "closed" => connection'[c] = "closed",
         cleanup'[c] = cleanup[c], room_cleanup'[c] = room_cleanup[c],
         rtp_cleanup'[c] = rtp_cleanup[c], client_rooms'[c] = client_rooms[c],
         handler'[c].at \in {"offer", "join"} => handler[c].at \in {"offer", "join"},
         c \in rtp_clients => c \in rtp_clients',
         \A r \in Rooms : c \in members[r] => c \in members'[r],
         client_rooms[c] \in Rooms \cup {Zero}
  PROVE  Whole(c)'
  BY DEF Whole

LEMMA WholeNext == TypeOK /\ AdmissionInv /\ WholeInv /\ [Next]_vars => WholeInv'
<1> SUFFICES ASSUME TypeOK, AdmissionInv, WholeInv, [Next]_vars PROVE WholeInv'
  OBVIOUS
<1> USE DEF accept_vars, token_vars, cleanup_vars
<1>a. \A c \in ClientId : client_rooms[c] \in Rooms \cup {Zero}
  BY DEF TypeOK
<1>b. \A c \in ClientId : Whole(c) /\ (c > client_id_index => connection[c] = "none")
  BY DEF WholeInv
<1>1. CASE AcceptSocket
  <2>1. /\ client_id_index' = client_id_index + 1 /\ client_id_index + 1 \in ClientId
        /\ connection' = [connection EXCEPT ![client_id_index + 1] = "open"]
        /\ UNCHANGED <<cleanup_vars, client_rooms, handler, rtp_clients, members>>
    BY <1>1 DEF AcceptSocket
  <2>2. client_id_index \in Nat
    BY ServerAssumption DEF TypeOK
  <2>3. connection[client_id_index + 1] = "none"
    BY <1>b, <2>1, <2>2
  <2>4. ASSUME NEW c \in ClientId
        PROVE  /\ connection[c] = "closed" => connection'[c] = "closed"
               /\ c > client_id_index' => connection'[c] = "none"
    BY <1>b, <2>1, <2>2, <2>3, ZeroIsNoId DEF TypeOK
  <2> QED BY <1>a, <1>b, <2>1, <2>4, WholeKept DEF WholeInv
<1>2. ASSUME NEW c \in ClientId, CloseConnection(c) PROVE WholeInv'
  <2>1. /\ connection[c] = "open" /\ connection' = [connection EXCEPT ![c] = "closed"]
        /\ UNCHANGED <<client_id_index, room_cleanup, rtp_cleanup, client_rooms, handler,
                       rtp_clients, members>>
    BY <1>2 DEF CloseConnection
  <2>2. Whole(c)' /\ ~(c > client_id_index')
    BY <1>b, <2>1 DEF Whole, TypeOK
  <2>3. ASSUME NEW d \in ClientId \ {c}
        PROVE  connection'[d] = connection[d] /\ cleanup'[d] = cleanup[d]
    BY <1>2, <2>1 DEF CloseConnection, TypeOK
  <2>4. ASSUME NEW d \in ClientId \ {c}
        PROVE  Whole(d)' /\ (d > client_id_index' => connection'[d] = "none")
    BY <1>a, <1>b, <2>1, <2>3, <2>4, WholeKept
  <2> QED BY <2>2, <2>4 DEF WholeInv
<1>3. ASSUME NEW c \in ClientId, Cleanup(c) PROVE WholeInv'
  <2>1. /\ cleanup[c] = "spawned"
        /\ UNCHANGED <<client_id_index, connection, members>>
        /\ rtp_clients' = rtp_clients \ {c}
    BY <1>3 DEF Cleanup
  <2>2. connection[c] = "closed"
    BY <1>b, <2>1 DEF Whole
  <2>3. ASSUME NEW d \in ClientId \ {c}
        PROVE  /\ cleanup'[d] = cleanup[d] /\ room_cleanup'[d] = room_cleanup[d]
               /\ client_rooms'[d] = client_rooms[d] /\ rtp_cleanup'[d] = rtp_cleanup[d]
               /\ handler'[d] = handler[d]
    <3>1. CASE c \in rtp_clients
      BY <1>3, <3>1 DEF Cleanup, TypeOK
    <3>2. CASE c \notin rtp_clients
      BY <1>3, <3>2 DEF Cleanup, TypeOK
    <3> QED BY <3>1, <3>2
  <2>4. ASSUME NEW d \in ClientId \ {c} PROVE Whole(d)'
    BY <1>a, <1>b, <2>1, <2>3, <2>4, WholeKept
  <2>5. Whole(c)'
    BY <2>1, <2>2 DEF Whole
  <2> QED BY <1>b, <2>1, <2>4, <2>5 DEF WholeInv
<1>4. ASSUME NEW c \in ClientId, RoomCleanup(c) \/ RtpCleanup(c) PROVE WholeInv'
  <2>1. /\ room_cleanup[c] # Zero \/ rtp_cleanup[c] = "spawned"
        /\ UNCHANGED <<client_id_index, connection, cleanup, client_rooms, handler, rtp_clients>>
    BY <1>4 DEF RoomCleanup, RtpCleanup
  <2>2. connection[c] = "closed"
    BY <1>b, <2>1 DEF Whole
  <2>3. ASSUME NEW d \in ClientId \ {c}
        PROVE  /\ room_cleanup'[d] = room_cleanup[d] /\ rtp_cleanup'[d] = rtp_cleanup[d]
               /\ \A r \in Rooms : d \in members[r] => d \in members'[r]
    BY <1>4 DEF RoomCleanup, RtpCleanup, TypeOK
  <2>4. ASSUME NEW d \in ClientId \ {c} PROVE Whole(d)'
    BY <1>a, <1>b, <2>1, <2>3, <2>4, WholeKept
  <2>5. Whole(c)'
    BY <2>1, <2>2 DEF Whole
  <2> QED BY <1>b, <2>1, <2>4, <2>5 DEF WholeInv
<1>5. ASSUME NEW c \in ClientId, GetRtpClient(c) \/ ApplyOffer(c) PROVE WholeInv'
  <2>1. UNCHANGED <<client_id_index, connection, cleanup_vars, client_rooms, members>>
    BY <1>5 DEF GetRtpClient, ApplyOffer
  <2>2. /\ (\E point \in {"offer", "join"} : GoOn(c, point)) \/ Fail(c)
        /\ rtp_clients \subseteq rtp_clients'
        /\ handler[c].at = "offer" \/ c \in rtp_clients' \/ Fail(c)
    BY <1>5 DEF GetRtpClient, ApplyOffer
  <2>3. ASSUME NEW d \in ClientId \ {c} PROVE handler'[d] = handler[d]
    BY <2>2 DEF GoOn, Fail, TypeOK
  <2>4. ASSUME NEW d \in ClientId \ {c} PROVE Whole(d)'
    BY <1>a, <1>b, <2>1, <2>2, <2>3, <2>4, WholeKept
  <2>5. Fail(c) => handler'[c].at = "idle"
    BY DEF Fail, Idle, TypeOK
  <2>6. Whole(c)'
    BY <1>b, <2>1, <2>2, <2>5 DEF Whole
  <2> QED BY <1>b, <2>1, <2>4, <2>6 DEF WholeInv
<1>6. ASSUME NEW c \in ClientId, JoinRoom(c) PROVE WholeInv'
  <2>1. /\ handler[c].at = "join" /\ handler[c].room \in Rooms
        /\ handler' = [handler EXCEPT ![c] = Idle]
        /\ client_rooms' = [client_rooms EXCEPT ![c] = handler[c].room]
        /\ members' = [members EXCEPT ![handler[c].room] = @ \cup {c}]
        /\ UNCHANGED <<client_id_index, connection, cleanup_vars, rtp_clients>>
    BY <1>6 DEF JoinRoom, AdmissionInv
  <2>2. ASSUME NEW d \in ClientId \ {c}
        PROVE  /\ handler'[d] = handler[d] /\ client_rooms'[d] = client_rooms[d]
               /\ \A r \in Rooms : d \in members[r] => d \in members'[r]
    BY <2>1 DEF TypeOK
  <2>3. ASSUME NEW d \in ClientId \ {c} PROVE Whole(d)'
    BY <1>a, <1>b, <2>1, <2>2, <2>3, WholeKept
  <2>4. /\ client_rooms'[c] = handler[c].room /\ c \in members'[handler[c].room]
    BY <2>1 DEF TypeOK
  <2>5. Whole(c)'
    BY <1>b, <2>1, <2>4 DEF Whole
  <2> QED BY <1>b, <2>1, <2>3, <2>5 DEF WholeInv
<1>7. ASSUME NEW c \in ClientId, NEW t \in Token, TakeToken(c, t) PROVE WholeInv'
  <2>1. UNCHANGED <<client_id_index, connection, cleanup_vars, client_rooms, members, rtp_clients>>
    BY <1>7 DEF TakeToken
  <2>2. ASSUME NEW d \in ClientId, handler'[d].at \in {"offer", "join"}
        PROVE  handler[d].at \in {"offer", "join"}
    <3>1. CASE t \in expired
      BY <1>7, <2>2, <3>1 DEF TakeToken
    <3>2. CASE t \notin expired
      <4>1. handler' = [handler EXCEPT ![c].at = "rtp", ![c].room = target_room[t]]
        BY <1>7, <3>2 DEF TakeToken
      <4> QED BY <2>2, <4>1 DEF TypeOK
    <3> QED BY <3>1, <3>2
  <2> QED BY <1>a, <1>b, <2>1, <2>2, WholeKept DEF WholeInv
<1>8. CASE UNCHANGED <<client_id_index, connection, cleanup_vars, client_rooms, members,
                       handler, rtp_clients>>
  BY <1>8 DEF WholeInv, Whole
<1>9. ASSUME NEW c \in ClientId, PushSubscriber(c) \/ RegisterClient(c) \/ ReaderStops(c)
      PROVE  WholeInv'
  BY <1>8, <1>9 DEF PushSubscriber, RegisterClient, ReaderStops
<1>10. ASSUME NEW t \in Token, TokenExpires(t) \/ \E r \in Rooms : CreateJoinToken(t, r)
       PROVE  WholeInv'
  BY <1>8, <1>10 DEF TokenExpires, CreateJoinToken
<1>11. CASE Tick \/ UNCHANGED vars
  BY <1>8, <1>11 DEF Tick, vars
<1> QED BY <1>1, <1>2, <1>3, <1>4, <1>5, <1>6, <1>7, <1>9, <1>10, <1>11 DEF Next, Session

-----------------------------------------------------------------------------
LEMMA InvCorrect == Spec => [](TypeOK /\ AdmissionInv /\ WholeInv)
<1>1. Init => TypeOK /\ AdmissionInv /\ WholeInv
  BY TypeInit, AdmissionInit, WholeInit
<1>2. TypeOK /\ AdmissionInv /\ WholeInv /\ [Next]_vars => (TypeOK /\ AdmissionInv /\ WholeInv)'
  BY TypeNext, AdmissionNext, WholeNext
<1> QED BY <1>1, <1>2, PTL DEF Spec

\* The state of the server is well typed.
THEOREM TypeCorrect == Spec => []TypeOK
<1> QED BY InvCorrect, PTL

\* Whoever is in a room, or about to be, was admitted by a token for that room.
THEOREM AdmissionsByToken == Spec => []AdmittedByToken
<1>1. AdmissionInv => AdmittedByToken
  BY DEF AdmissionInv
<1> QED BY <1>1, InvCorrect, PTL

\* What the server notes about the session of an open connection is true,
\* however its requests overlap with those and the cleanup of others.
THEOREM OpenSessionsAreWhole == Spec => []OpenSessionIsWhole
<1>1. WholeInv => OpenSessionIsWhole
  BY DEF WholeInv, Whole, OpenSessionIsWhole
<1> QED BY <1>1, InvCorrect, PTL

\* A token is spent once and on one client.
THEOREM TokensSpentOnce == Spec => TokenSpentOnce
<1>1. TypeOK /\ AdmissionInv /\ [Next]_vars => SpentStaysSpent
  BY AdmissionNext
<1>2. SpentStaysSpent => \A t \in Token : admitted[t] # Zero =>
          admitted'[t] = admitted[t] /\ t \notin tokens /\ t \notin tokens'
  BY DEF SpentStaysSpent
<1> QED BY <1>1, <1>2, InvCorrect, PTL DEF Spec, TokenSpentOnce
=============================================================================
