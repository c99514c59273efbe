-------------------------------- MODULE Room --------------------------------
(***************************************************************************)
(* A room of the RTP server (src/server/src/rtp_server/room.rs): its       *)
(* members, their broadcasts, the task that drives each broadcast and the  *)
(* notifications every member is sent.                                     *)
(*                                                                         *)
(* A Room lives behind one mutex, so every method of `impl Room` is one    *)
(* atomic action.  The task of a broadcast is not under that mutex: it     *)
(* polls on its own and locks the room only to take itself out of the map, *)
(* so polling and finishing are separate actions that interleave with the  *)
(* methods.  The inside of the poll function is the module Broadcast.      *)
(*                                                                         *)
(* An operator <operation>_<slip> is the operation with a plausible slip;  *)
(* it is no part of Next and shows that a property notices the slip.       *)
(***************************************************************************)
EXTENDS Integers, FiniteSets

CONSTANTS
    ClientId,       \* the signaling clients that may enter the room
    BroadcastId,    \* the ids generate_broadcast_id may draw
    Label,          \* what start compares: kind and lower-cased name
    MaxListed       \* bound: entries of one client's list in client_broadcasts

ASSUME MaxListedAssumption == MaxListed \in Nat

VARIABLES
    clients,            \* Room.clients (and client_user_ids, its twin)
    client_broadcasts,  \* Vec<BroadcastId> of each client, as a bag
    broadcasts,         \* Room.broadcasts
    users_seen,         \* per client: joined minus left, per user, it was told
    broadcasts_seen     \* per client: started minus ended, per id, it was told

vars == <<clients, client_broadcasts, broadcasts, users_seen, broadcasts_seen>>

-----------------------------------------------------------------------------
(* ClientBroadcast.  `shutdown` says that the shutdown oneshot was sent;    *)
(* `task` says whether the spawned task is still polling or has seen the    *)
(* end and is about to lock the room.                                       *)
ClientBroadcast ==
    [client_id : ClientId, label : Label, targets : SUBSET ClientId,
     shutdown : BOOLEAN, task : {"polling", "ended"}]

Running == DOMAIN broadcasts

\* The entries of the client's Vec: the ids it holds at least once.
Listed(c) == {b \in BroadcastId : client_broadcasts[c][b] > 0}

-----------------------------------------------------------------------------
(* Notifications.  They go into the unbounded FIFO queue of each receiver   *)
(* while the room is locked, so what a member was told, read in order, is   *)
(* the running balance of the messages sent to it.                          *)
\* Arrivals are told, departures are not.
Tell_arrivals_only(seen, to, item, delta) ==
    [c \in ClientId |->
        IF c \in to /\ delta > 0 THEN [seen[c] EXCEPT ![item] = @ + delta] ELSE seen[c]]

Tell(seen, to, item, delta) ==
    [c \in ClientId |->
        IF c \in to THEN [seen[c] EXCEPT ![item] = @ + delta] ELSE seen[c]]

\* A snapshot message: one entry for each of `items`.
Snapshot(domain, items) == [x \in domain |-> IF x \in items THEN 1 ELSE 0]

-----------------------------------------------------------------------------
Init ==
    /\ clients = {}
    /\ client_broadcasts = [c \in ClientId |-> Snapshot(BroadcastId, {})]
    /\ broadcasts = [b \in {} |-> {}]
    /\ users_seen = [c \in ClientId |-> Snapshot(ClientId, {})]
    /\ broadcasts_seen = [c \in ClientId |-> Snapshot(BroadcastId, {})]

\* A client with several broadcasts keeps them.
ShutDown_single(ids) ==
    [b \in Running |-> IF ids = {b} THEN [broadcasts[b] EXCEPT !.shutdown = TRUE]
                                   ELSE broadcasts[b]]

\* shutdown_broadcast, for a set of ids: those no longer in the map are skipped.
ShutDown(ids) ==
    [b \in Running |-> IF b \in ids THEN [broadcasts[b] EXCEPT !.shutdown = TRUE]
                                    ELSE broadcasts[b]]

\* NotifyBroadcasts leaves out those that are already being shut down.
add_client_hide_ending(c) ==
    /\ c \notin clients
    /\ clients' = clients \cup {c}
    /\ users_seen' = [Tell(users_seen, clients, c, 1) EXCEPT
                        ![c] = Snapshot(ClientId, clients \cup {c})]
    /\ broadcasts_seen' = [broadcasts_seen EXCEPT
         ![c] = Snapshot(BroadcastId, {b \in Running : ~broadcasts[b].shutdown})]
    /\ UNCHANGED <<client_broadcasts, broadcasts>>

add_client(c) ==
    /\ c \notin clients
    /\ clients' = clients \cup {c}
    \* NotifyUserJoined to the others, then NotifyUsers to the new client ...
    /\ users_seen' = [Tell(users_seen, clients, c, 1) EXCEPT
                        ![c] = Snapshot(ClientId, clients \cup {c})]
    \* ... and NotifyBroadcasts with everything that is still in the map.
    /\ broadcasts_seen' = [broadcasts_seen EXCEPT ![c] = Snapshot(BroadcastId, Running)]
    /\ UNCHANGED <<client_broadcasts, broadcasts>>

\* The connection of the client is gone: what it was told goes with it.
remove_client(c) ==
    /\ c \in clients
    /\ clients' = clients \ {c}
    /\ client_broadcasts' = [client_broadcasts EXCEPT ![c] = Snapshot(BroadcastId, {})]
    /\ broadcasts' = ShutDown(Listed(c))
    /\ users_seen' = [Tell(users_seen, clients \ {c}, c, -1) EXCEPT
                        ![c] = Snapshot(ClientId, {})]
    /\ broadcasts_seen' = [broadcasts_seen EXCEPT ![c] = Snapshot(BroadcastId, {})]

\* Only a broadcast somebody watches blocks another one.
Duplicates_watched(c, l) ==
    {b \in Listed(c) \cap Running :
        broadcasts[b].label = l /\ broadcasts[b].targets # {}}

\* The broadcasts of the client that block a second one with the same label.
Duplicates(c, l) == {b \in Listed(c) \cap Running : broadcasts[b].label = l}

StartResult(c, l) ==
    CASE c \notin clients          -> "RoomNotJoined"
      [] BroadcastId \subseteq Running /\ c \in clients -> "InternalError"
      [] OTHER -> IF Duplicates(c, l) # {} THEN "BroadcastAlreadyRunning"
                                           ELSE "BroadcastStarted"

\* generate_broadcast_id draws any id that is not in the map at that moment.
client_broadcast_start(c, b, l) ==
    /\ StartResult(c, l) = "BroadcastStarted"
    /\ b \notin Running
    /\ client_broadcasts[c][b] < MaxListed
    /\ client_broadcasts' = [client_broadcasts EXCEPT ![c][b] = @ + 1]
    /\ broadcasts' = [x \in Running \cup {b} |->
                        IF x = b
                        THEN [client_id |-> c, label |-> l, targets |-> {},
                              shutdown |-> FALSE, task |-> "polling"]
                        ELSE broadcasts[x]]
    /\ broadcasts_seen' = Tell(broadcasts_seen, clients, b, 1)
    /\ UNCHANGED <<clients, users_seen>>

StopResult(c, b) == IF b \in Listed(c) THEN "Success" ELSE "BroadcastUnknownId"

\* The id is taken off the list without a look whether it is there.
client_broadcast_stop_unchecked(c, b) ==
    /\ b \in Running
    /\ client_broadcasts' = [client_broadcasts EXCEPT ![c][b] = @ - 1]
    /\ broadcasts' = ShutDown({b})
    /\ UNCHANGED <<clients, users_seen, broadcasts_seen>>

client_broadcast_stop(c, b) ==
    /\ StopResult(c, b) = "Success"
    /\ client_broadcasts' = [client_broadcasts EXCEPT ![c][b] = @ - 1]
    /\ broadcasts' = ShutDown({b})
    /\ UNCHANGED <<clients, users_seen, broadcasts_seen>>

SubscribeResult(c, b) ==
    IF b \notin Running THEN "BroadcastUnknownId"
    ELSE IF c \in broadcasts[b].targets THEN "BroadcastAlreadySubscribed"
    ELSE "Success"

\* Neither asks whether the client is (still) a member.
client_broadcast_subscribe(c, b) ==
    /\ SubscribeResult(c, b) = "Success"
    /\ broadcasts' = [broadcasts EXCEPT ![b].targets = @ \cup {c}]
    /\ UNCHANGED <<clients, client_broadcasts, users_seen, broadcasts_seen>>

client_broadcast_unsubscribe(c, b) ==
    /\ b \in Running
    /\ c \in broadcasts[b].targets
    /\ broadcasts' = [broadcasts EXCEPT ![b].targets = @ \ {c}]
    /\ UNCHANGED <<clients, client_broadcasts, users_seen, broadcasts_seen>>

-----------------------------------------------------------------------------
(* The task of a broadcast.  poll looks at the shutdown signal first, then  *)
(* drains the targets whose stream is over, then reads the source.          *)
Polling_if_watched(b) ==
    b \in Running /\ broadcasts[b].task = "polling" /\ broadcasts[b].targets # {}

Polling(b) == b \in Running /\ broadcasts[b].task = "polling"

poll_shutdown(b) ==
    /\ Polling(b)
    /\ broadcasts[b].shutdown
    /\ broadcasts' = [broadcasts EXCEPT ![b].task = "ended"]
    /\ UNCHANGED <<clients, client_broadcasts, users_seen, broadcasts_seen>>

\* The streams of the targets in `gone` are over; `outcome` is "ended" when the
\* source yields End or is exhausted, else the task goes on.
poll_streams(b, gone, outcome) ==
    /\ Polling(b)
    /\ ~broadcasts[b].shutdown
    /\ gone \subseteq broadcasts[b].targets
    /\ broadcasts' = [broadcasts EXCEPT ![b].targets = @ \ gone, ![b].task = outcome]
    /\ UNCHANGED <<clients, client_broadcasts, users_seen, broadcasts_seen>>

\* The task has locked the room.  The owner's list is left as it is.
finish_broadcast(b) ==
    /\ b \in Running
    /\ broadcasts[b].task = "ended"
    /\ broadcasts' = [x \in Running \ {b} |-> broadcasts[x]]
    /\ broadcasts_seen' = Tell(broadcasts_seen, clients, b, -1)
    /\ UNCHANGED <<clients, client_broadcasts, users_seen>>

-----------------------------------------------------------------------------
Next ==
    \/ \E c \in ClientId : add_client(c) \/ remove_client(c)
    \/ \E c \in ClientId, b \in BroadcastId :
        \/ \E l \in Label : client_broadcast_start(c, b, l)
        \/ client_broadcast_stop(c, b)
        \/ client_broadcast_subscribe(c, b)
        \/ client_broadcast_unsubscribe(c, b)
    \/ \E b \in BroadcastId :
        \/ poll_shutdown(b)
        \/ \E gone \in SUBSET ClientId, outcome \in {"polling", "ended"} :
             poll_streams(b, gone, outcome)
        \/ finish_broadcast(b)

\* The runtime keeps polling a woken task and the room's mutex is fair, so a
\* task that was told to stop is polled and then gets the room.
Fairness ==
    \A b \in BroadcastId :
        WF_vars(poll_shutdown(b)) /\ WF_vars(finish_broadcast(b))

Spec == Init /\ [][Next]_vars /\ Fairness

-----------------------------------------------------------------------------
(* Properties *)

\* The type of the room's state.
TypeOK ==
    /\ clients \subseteq ClientId
    /\ client_broadcasts \in [ClientId -> [BroadcastId -> Nat]]
    /\ Running \subseteq BroadcastId
    /\ broadcasts \in [Running -> ClientBroadcast]
    /\ users_seen \in [ClientId -> [ClientId -> Int]]
    /\ broadcasts_seen \in [ClientId -> [BroadcastId -> Int]]

\* A member that adds up NotifyUsers, NotifyUserJoined and NotifyUserLeft holds
\* each present user exactly once and nobody else, however joins and leaves
\* of other clients interleave with its own (add_client, remove_client).
MembersKnowMembers ==
    \A c \in clients : users_seen[c] = Snapshot(ClientId, clients)

\* A member that adds up NotifyBroadcasts, Started and Ended holds exactly the
\* broadcasts of the map, each once: a client that joins while a broadcast is
\* being shut down is neither left with it forever nor told its end twice.
MembersKnowBroadcasts ==
    \A c \in clients : broadcasts_seen[c] = Snapshot(BroadcastId, Running)

\* A broadcast nobody asked to stop belongs to a member and is in the list of
\* that member, the only place remove_client and stop look: no broadcast can
\* outlive its owner's stay in the room without being told to end.
NoOrphanBroadcast ==
    \A b \in Running :
        ~broadcasts[b].shutdown =>
            /\ broadcasts[b].client_id \in clients
            /\ b \in Listed(broadcasts[b].client_id)

\* One client never has two broadcasts with one label that both go on, although
\* the duplicate check of start only walks the client's own list, which loses
\* an id at stop while the broadcast is still in the map.
OneBroadcastPerLabel ==
    \A b1, b2 \in Running :
        /\ ~broadcasts[b1].shutdown /\ ~broadcasts[b2].shutdown
        /\ broadcasts[b1].client_id = broadcasts[b2].client_id
        /\ broadcasts[b1].label = broadcasts[b2].label
        => b1 = b2

\* What was shut down, by its owner or because the owner left, leaves the map.
ShutdownCompletes ==
    \A b \in BroadcastId :
        (b \in Running /\ broadcasts[b].shutdown) ~> (b \notin Running)

=============================================================================
