------------------------------ MODULE RtpServer ------------------------------
(***************************************************************************)
(* The RTP server's session life cycle (src/server/src/rtp_server/         *)
(* server.rs): accepting connections, join tokens, InitializeSession and   *)
(* the cleanup after a connection is closed.                               *)
(*                                                                         *)
(* The server's mutex is held only within single steps of these procedures *)
(* and released between them, so every locked section is one action and    *)
(* the sections of different clients and tasks interleave.  Connections    *)
(* are those of module SignalingClient seen from here: open, then closed,  *)
(* with a read loop that may start another request after the close until   *)
(* it notices.  Rooms are seen as the sets of their members (module Room). *)
(*                                                                         *)
(* An operator <operation>_<slip> is the operation with a plausible slip;  *)
(* it is no part of Next and shows that a property notices the slip.       *)
(***************************************************************************)
EXTENDS Integers, FiniteSets

CONSTANTS
    MaxClients,     \* bound: connections accepted
    Rooms,          \* ids of the rooms that exist; nothing deletes a room
    Token           \* the random strings create_join_token may draw

Zero == 0           \* the key InitializeSession looks for in client_rooms

ASSUME ServerAssumption == MaxClients \in Nat /\ Rooms \subseteq Nat \ {Zero}

ClientId == 1 .. MaxClients

VARIABLES
    client_id_index,    \* RtpServer.client_id_index
    accept,             \* how far the accept loop got with the client
    connection,         \* the SignalingClient of the id
    reading,            \* its read loop has not seen the shutdown
    clients,            \* RtpServer.clients
    client_rooms,       \* RtpServer.client_rooms, Zero where there is none
    rtp_clients,        \* keys of RtpServer.rtp_clients
    tokens,             \* keys of RtpServer.tokens
    target_room,        \* RoomToken.target_room; Zero: never issued
    expired,            \* issued tokens older than expires_after
    handler,            \* handle_request of the client: step, room, dead peer
    members,            \* Room.clients of each room
    cleanup,            \* the task of connection_closed
    room_cleanup,       \* the room its spawned remove_client is for, or Zero
    rtp_cleanup,        \* the spawned RtpClient::close
    admitted,           \* history: the client a token was spent on, or Zero
    disturbed           \* history: clients whose cleanup may miss something

accept_vars == <<client_id_index, accept>>
token_vars == <<tokens, target_room, expired, admitted>>
cleanup_vars == <<cleanup, room_cleanup, rtp_cleanup>>
vars == <<accept_vars, connection, reading, clients, client_rooms, rtp_clients,
          token_vars, handler, members, cleanup_vars, disturbed>>

-----------------------------------------------------------------------------
(* A request is at one of these points, between two locked sections.        *)
Idle == [at |-> "idle", room |-> Zero, peer_removed |-> FALSE]

Init ==
    /\ client_id_index = 0
    /\ accept = [c \in ClientId |-> "none"]
    /\ connection = [c \in ClientId |-> "none"]
    /\ reading = [c \in ClientId |-> FALSE]
    /\ clients = {}
    /\ client_rooms = [c \in ClientId |-> Zero]
    /\ rtp_clients = {}
    /\ tokens = {} /\ expired = {}
    /\ target_room = [t \in Token |-> Zero]
    /\ handler = [c \in ClientId |-> Idle]
    /\ members = [r \in Rooms |-> {}]
    /\ cleanup = [c \in ClientId |-> "none"]
    /\ room_cleanup = [c \in ClientId |-> Zero]
    /\ rtp_cleanup = [c \in ClientId |-> "none"]
    /\ admitted = [t \in Token |-> Zero]
    /\ disturbed = {}

-----------------------------------------------------------------------------
(* The accept loop.  It takes one client through its steps at a time: an id *)
(* under the lock, from_socket (which starts the client's tasks), then the  *)
(* subscriber, then the entry in `clients`.                                 *)
AcceptSocket ==
    LET c == client_id_index + 1 IN
    /\ c \in ClientId
    /\ \A d \in ClientId : accept[d] \in {"none", "registered"}
    /\ client_id_index' = c
    /\ accept' = [accept EXCEPT ![c] = "connected"]
    /\ connection' = [connection EXCEPT ![c] = "open"]
    /\ reading' = [reading EXCEPT ![c] = TRUE]
    /\ UNCHANGED <<clients, client_rooms, rtp_clients, token_vars, handler,
                   members, cleanup_vars, disturbed>>

PushSubscriber(c) ==
    /\ accept[c] = "connected"
    /\ accept' = [accept EXCEPT ![c] = "subscribed"]
    /\ UNCHANGED <<client_id_index, connection, reading, clients, client_rooms,
                   rtp_clients, token_vars, handler, members, cleanup_vars, disturbed>>

RegisterClient(c) ==
    /\ accept[c] = "subscribed"
    /\ accept' = [accept EXCEPT ![c] = "registered"]
    /\ clients' = clients \cup {c}
    /\ UNCHANGED <<client_id_index, connection, reading, client_rooms, rtp_clients,
                   token_vars, handler, members, cleanup_vars, disturbed>>

-----------------------------------------------------------------------------
(* The connection goes down.  connection_closed reaches the subscribers     *)
(* there are at that moment, and ours only spawns a task.                   *)
CloseConnection(c) ==
    /\ connection[c] = "open"
    /\ connection' = [connection EXCEPT ![c] = "closed"]
    /\ cleanup' = IF accept[c] = "connected" THEN cleanup
                  ELSE [cleanup EXCEPT ![c] = "spawned"]
    /\ UNCHANGED <<accept_vars, reading, clients, client_rooms, rtp_clients,
                   token_vars, handler, members, room_cleanup, rtp_cleanup, disturbed>>

\* The loop sees the shutdown when no handler is running.
ReaderStops(c) ==
    /\ connection[c] = "closed"
    /\ reading[c]
    /\ handler[c] = Idle
    /\ reading' = [reading EXCEPT ![c] = FALSE]
    /\ UNCHANGED <<accept_vars, connection, clients, client_rooms, rtp_clients,
                   token_vars, handler, members, cleanup_vars, disturbed>>

\* What the cleanup of a client cannot see: that the accept loop has yet to
\* register it, that a request of it goes on, that it is in a second room.
Overlooked(c) ==
    \/ accept[c] # "registered"
    \/ handler[c] # Idle
    \/ \E r \in Rooms \ {client_rooms[c]} : c \in members[r]
DisturbIf(c, P) == disturbed' = IF P THEN disturbed \cup {c} ELSE disturbed

\* Only a client that is in a room is taken apart.
Cleanup_of_members(c) ==
    /\ cleanup[c] = "spawned"
    /\ cleanup' = [cleanup EXCEPT ![c] = "done"]
    /\ clients' = clients \ {c}
    /\ client_rooms' = [client_rooms EXCEPT ![c] = Zero]
    /\ room_cleanup' = [room_cleanup EXCEPT ![c] = client_rooms[c]]
    /\ IF client_rooms[c] # Zero
       THEN /\ rtp_clients' = rtp_clients \ {c}
            /\ rtp_cleanup' = [rtp_cleanup EXCEPT ![c] = "spawned"]
       ELSE UNCHANGED <<rtp_clients, rtp_cleanup>>
    /\ DisturbIf(c, Overlooked(c))
    /\ UNCHANGED <<accept_vars, connection, reading, token_vars, handler, members>>

\* The spawned task, under the server's lock.  A running handler keeps its
\* clone of the RtpClient that is taken out of the map here.
Cleanup(c) ==
    /\ cleanup[c] = "spawned"
    /\ cleanup' = [cleanup EXCEPT ![c] = "done"]
    /\ clients' = clients \ {c}
    /\ client_rooms' = [client_rooms EXCEPT ![c] = Zero]
    /\ room_cleanup' = [room_cleanup EXCEPT ![c] = client_rooms[c]]
    /\ rtp_clients' = rtp_clients \ {c}
    /\ IF c \in rtp_clients
       THEN /\ rtp_cleanup' = [rtp_cleanup EXCEPT ![c] = "spawned"]
            /\ handler' = [handler EXCEPT ![c].peer_removed =
                             handler[c].at \in {"offer", "join"}]
       ELSE UNCHANGED <<rtp_cleanup, handler>>
    /\ DisturbIf(c, Overlooked(c))
    /\ UNCHANGED <<accept_vars, connection, reading, token_vars, members>>

\* The spawned Room::remove_client.
RoomCleanup(c) ==
    /\ room_cleanup[c] # Zero
    /\ members' = [members EXCEPT ![room_cleanup[c]] = @ \ {c}]
    /\ room_cleanup' = [room_cleanup EXCEPT ![c] = Zero]
    /\ UNCHANGED <<accept_vars, connection, reading, clients, client_rooms, rtp_clients,
                   token_vars, handler, cleanup, rtp_cleanup, disturbed>>

\* The spawned RtpClient::close.
RtpCleanup(c) ==
    /\ rtp_cleanup[c] = "spawned"
    /\ rtp_cleanup' = [rtp_cleanup EXCEPT ![c] = "done"]
    /\ UNCHANGED <<accept_vars, connection, reading, clients, client_rooms, rtp_clients,
                   token_vars, handler, members, cleanup, room_cleanup, disturbed>>

-----------------------------------------------------------------------------
(* Join tokens.                                                             *)
CreateJoinToken(t, r) ==
    /\ target_room[t] = Zero
    /\ tokens' = tokens \cup {t}
    /\ target_room' = [target_room EXCEPT ![t] = r]
    /\ UNCHANGED <<accept_vars, connection, reading, clients, client_rooms, rtp_clients,
                   expired, admitted, handler, members, cleanup_vars, disturbed>>

\* Time passes.
TokenExpires(t) ==
    /\ target_room[t] # Zero
    /\ t \notin expired
    /\ expired' = expired \cup {t}
    /\ UNCHANGED <<accept_vars, connection, reading, clients, client_rooms, rtp_clients,
                   tokens, target_room, admitted, handler, members, cleanup_vars,
                   disturbed>>

\* RtpServer::tick.
Tick ==
    /\ tokens \cap expired # {}
    /\ tokens' = tokens \ expired
    /\ UNCHANGED <<accept_vars, connection, reading, clients, client_rooms, rtp_clients,
                   target_room, expired, admitted, handler, members, cleanup_vars,
                   disturbed>>

-----------------------------------------------------------------------------
(* InitializeSession with the right version, in its four locked sections.   *)
(* Every error ends the request where it stands and undoes nothing.         *)
GoOn(c, point) == handler' = [handler EXCEPT ![c].at = point]
Fail(c) == handler' = [handler EXCEPT ![c] = Idle]

\* contains_key(&0): the id that is looked up is not the client's.
AlreadyInitialized == Zero \in ClientId /\ client_rooms[Zero] # Zero

\* The token is looked at but stays valid.
TakeToken_kept(c, t) ==
    /\ connection[c] # "none" /\ reading[c]
    /\ handler[c] = Idle
    /\ t \in tokens \ expired
    /\ DisturbIf(c, cleanup[c] = "done")
    /\ handler' = [handler EXCEPT ![c].at = "rtp", ![c].room = target_room[t]]
    /\ admitted' = [admitted EXCEPT ![t] = c]
    /\ UNCHANGED <<accept_vars, connection, reading, clients, client_rooms, rtp_clients,
                   tokens, target_room, expired, members, cleanup_vars>>

\* The room of any valid token is taken.
TakeToken_other_room(c, t) ==
    /\ connection[c] # "none" /\ reading[c]
    /\ handler[c] = Idle
    /\ t \in tokens \ expired
    /\ tokens' = tokens \ {t}
    /\ DisturbIf(c, cleanup[c] = "done")
    /\ \E u \in tokens :
         handler' = [handler EXCEPT ![c].at = "rtp", ![c].room = target_room[u]]
    /\ admitted' = [admitted EXCEPT ![t] = c]
    /\ UNCHANGED <<accept_vars, connection, reading, clients, client_rooms, rtp_clients,
                   target_room, expired, members, cleanup_vars>>

TakeToken(c, t) ==
    /\ connection[c] # "none" /\ reading[c]
    /\ handler[c] = Idle
    /\ ~AlreadyInitialized
    /\ t \in tokens
    /\ tokens' = tokens \ {t}
    /\ DisturbIf(c, cleanup[c] = "done")
    /\ IF t \in expired
       THEN UNCHANGED <<handler, admitted>>
       ELSE /\ handler' = [handler EXCEPT ![c].at = "rtp", ![c].room = target_room[t]]
            /\ admitted' = [admitted EXCEPT ![t] = c]
    /\ UNCHANGED <<accept_vars, connection, reading, clients, client_rooms, rtp_clients,
                   target_room, expired, members, cleanup_vars>>

\* The peer in the map is used again, or a new one is entered.
GetRtpClient(c) ==
    /\ handler[c].at = "rtp"
    /\ \/ rtp_clients' = rtp_clients \cup {c} /\ GoOn(c, "offer")
       \/ c \notin rtp_clients /\ Fail(c) /\ UNCHANGED rtp_clients
    /\ UNCHANGED <<accept_vars, connection, reading, clients, client_rooms, token_vars,
                   members, cleanup_vars, disturbed>>

\* A failed offer takes the peer out of the map again.
ApplyOffer_undone(c) ==
    /\ handler[c].at = "offer"
    /\ \/ GoOn(c, "join") /\ UNCHANGED rtp_clients
       \/ Fail(c) /\ rtp_clients' = rtp_clients \ {c}
    /\ UNCHANGED <<accept_vars, connection, reading, clients, client_rooms,
                   token_vars, members, cleanup_vars, disturbed>>

\* Under the RtpClient's lock.  A closed peer takes no offer.
ApplyOffer(c) ==
    /\ handler[c].at = "offer"
    /\ \/ /\ ~(handler[c].peer_removed /\ rtp_cleanup[c] = "done")
          /\ GoOn(c, "join")
       \/ Fail(c)
    /\ UNCHANGED <<accept_vars, connection, reading, clients, client_rooms, rtp_clients,
                   token_vars, members, cleanup_vars, disturbed>>

\* Room::add_client and the entry in client_rooms, under the server's lock.
JoinRoom_swapped(c) ==     \* the room is entered into the set of clients
    /\ handler[c].at = "join"
    /\ members' = [members EXCEPT ![handler[c].room] = @ \cup {handler[c].room}]
    /\ client_rooms' = [client_rooms EXCEPT ![c] = handler[c].room]
    /\ handler' = [handler EXCEPT ![c] = Idle]
    /\ UNCHANGED <<accept_vars, connection, reading, clients, rtp_clients, token_vars,
                   cleanup_vars, disturbed>>

JoinRoom(c) ==
    /\ handler[c].at = "join"
    /\ members' = [members EXCEPT ![handler[c].room] = @ \cup {c}]
    /\ client_rooms' = [client_rooms EXCEPT ![c] = handler[c].room]
    /\ handler' = [handler EXCEPT ![c] = Idle]
    /\ UNCHANGED <<accept_vars, connection, reading, clients, rtp_clients, token_vars,
                   cleanup_vars, disturbed>>

-----------------------------------------------------------------------------
Session(c) == (\E t \in Token : TakeToken(c, t)) \/ GetRtpClient(c) \/ ApplyOffer(c) \/ JoinRoom(c)

Next ==
    \/ AcceptSocket
    \/ \E c \in ClientId :
        \/ PushSubscriber(c) \/ RegisterClient(c)
        \/ CloseConnection(c) \/ ReaderStops(c)
        \/ Cleanup(c) \/ RoomCleanup(c) \/ RtpCleanup(c)
        \/ Session(c)
    \/ \E t \in Token :
        \/ \E r \in Rooms : CreateJoinToken(t, r)
        \/ TokenExpires(t)
    \/ Tick

\* Spawned tasks run and the lock of the server is fair.
Fairness ==
    \A c \in ClientId :
        WF_vars(Cleanup(c)) /\ WF_vars(RoomCleanup(c)) /\ WF_vars(RtpCleanup(c))

Spec == Init /\ [][Next]_vars /\ Fairness

-----------------------------------------------------------------------------
(* Properties *)

\* The type of the server's state.
TypeOK ==
    /\ client_id_index \in 0 .. MaxClients
    /\ accept \in [ClientId -> {"none", "connected", "subscribed", "registered"}]
    /\ connection \in [ClientId -> {"none", "open", "closed"}]
    /\ reading \in [ClientId -> BOOLEAN]
    /\ clients \subseteq ClientId /\ rtp_clients \subseteq ClientId
    /\ disturbed \subseteq ClientId
    /\ client_rooms \in [ClientId -> Rooms \cup {Zero}]
    /\ tokens \subseteq Token /\ expired \subseteq Token
    /\ target_room \in [Token -> Rooms \cup {Zero}]
    /\ handler \in [ClientId -> [at : {"idle", "rtp", "offer", "join"},
                                 room : Rooms \cup {Zero}, peer_removed : BOOLEAN]]
    /\ members \in [Rooms -> SUBSET ClientId]
    /\ cleanup \in [ClientId -> {"none", "spawned", "done"}]
    /\ room_cleanup \in [ClientId -> Rooms \cup {Zero}]
    /\ rtp_cleanup \in [ClientId -> {"none", "spawned", "done"}]
    /\ admitted \in [Token -> ClientId \cup {Zero}]

\* Whoever is in a room, now or about to be, was let in by a token that was
\* issued for that very room and spent on that client.
AdmittedByToken ==
    \A c \in ClientId, r \in Rooms :
        c \in members[r] \/ client_rooms[c] = r \/ handler[c].room = r =>
            \E t \in Token : admitted[t] = c /\ target_room[t] = r

\* A token admits once: spent is spent, and never for another client, whatever
\* requests of several clients present it at the same time.
TokenSpentOnce ==
    [][\A t \in Token : admitted[t] # Zero =>
          admitted'[t] = admitted[t] /\ t \notin tokens /\ t \notin tokens']_vars

\* While a connection is open, what the server notes about its session is true:
\* the client is in the room and has a peer that nobody closes.
OpenSessionIsWhole ==
    \A c \in ClientId :
        connection[c] = "open" /\ client_rooms[c] # Zero =>
            /\ c \in members[client_rooms[c]]
            /\ c \in rtp_clients
            /\ rtp_cleanup[c] = "none"

\* After a close, whatever the order of the spawned tasks and of what the client
\* was doing, the server forgets the client and it is in no room at all.  The
\* code leaves three exceptions: the accept loop had not registered the client
\* when its cleanup ran; a request was under way then or was started after it;
\* the client was in a second room, let in twice by the look-up of key Zero.
Gone(c) ==
    /\ c \notin clients /\ c \notin rtp_clients /\ client_rooms[c] = Zero
    /\ room_cleanup[c] = Zero /\ rtp_cleanup[c] # "spawned"
    /\ \A r \in Rooms : c \notin members[r]
CloseCleansUp ==
    \A c \in ClientId : cleanup[c] = "spawned" ~> c \in disturbed \/ Gone(c)

=============================================================================
