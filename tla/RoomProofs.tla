------------------------------ MODULE RoomProofs ------------------------------
(***************************************************************************)
(* The safety of a room for any sets of clients, ids and labels.  What     *)
(* members were told needs only the types; one broadcast per label needs   *)
(* that running broadcasts are listed with their owner.                    *)
(***************************************************************************)
EXTENDS Room, TLAPS

\* The two inductive invariants: what members know and what broadcasts run.
KnowledgeInv == TypeOK /\ MembersKnowMembers /\ MembersKnowBroadcasts

BroadcastInv == TypeOK /\ NoOrphanBroadcast /\ OneBroadcastPerLabel

\* Telling a set of clients keeps the type of the users' balances ...
LEMMA TellUsersType ==
    ASSUME TypeOK, NEW to, NEW u \in ClientId, NEW delta \in {1, -1}
    PROVE  Tell(users_seen, to, u, delta) \in [ClientId -> [ClientId -> Int]]
  BY DEF Tell, TypeOK

\* ... and of the broadcasts' balances.
LEMMA TellBroadcastsType ==
    ASSUME TypeOK, NEW to, NEW b \in BroadcastId, NEW delta \in {1, -1}
    PROVE  Tell(broadcasts_seen, to, b, delta) \in [ClientId -> [BroadcastId -> Int]]
  BY DEF Tell, TypeOK

\* A snapshot is a balance.
LEMMA SnapshotType ==
    ASSUME NEW D, NEW items
    PROVE  Snapshot(D, items) \in [D -> Int] /\ Snapshot(D, items) \in [D -> Nat]
  BY DEF Snapshot

\* Changing one broadcast of the map keeps the keys and the types of the map.
LEMMA UpdateType ==
    ASSUME TypeOK, NEW b \in Running, NEW r \in ClientBroadcast
    PROVE  /\ DOMAIN [broadcasts EXCEPT ![b] = r] = Running
           /\ [broadcasts EXCEPT ![b] = r] \in [Running -> ClientBroadcast]
  BY DEF TypeOK, Running

\* Shutting ids down keeps the keys and the types of the map, ...
LEMMA ShutDownType ==
    ASSUME TypeOK, NEW ids
    PROVE  /\ DOMAIN ShutDown(ids) = Running
           /\ ShutDown(ids) \in [Running -> ClientBroadcast]
  BY DEF ShutDown, TypeOK, Running, ClientBroadcast

\* ... the owner and label of each broadcast, and whoever was stopped before.
LEMMA ShutDownKeeps ==
    ASSUME TypeOK, NEW ids, NEW b \in Running
    PROVE  /\ ShutDown(ids)[b].client_id = broadcasts[b].client_id
           /\ ShutDown(ids)[b].label = broadcasts[b].label
           /\ ~ShutDown(ids)[b].shutdown => ~broadcasts[b].shutdown /\ b \notin ids
  BY DEF ShutDown, TypeOK, Running, ClientBroadcast

-----------------------------------------------------------------------------
\* Every state of the room is well typed.
LEMMA TypeInit == Init => TypeOK
  BY SnapshotType DEF Init, TypeOK, Running

LEMMA TypeNext == TypeOK /\ [Next]_vars => TypeOK'
<1> SUFFICES ASSUME TypeOK, [Next]_vars PROVE TypeOK'
  OBVIOUS
<1>1. ASSUME NEW c \in ClientId, add_client(c) PROVE TypeOK'
  <2>1. users_seen' \in [ClientId -> [ClientId -> Int]]
    <3>1. Tell(users_seen, clients, c, 1) \in [ClientId -> [ClientId -> Int]]
      BY TellUsersType
    <3> QED BY <1>1, <3>1, SnapshotType DEF add_client
  <2>2. broadcasts_seen' \in [ClientId -> [BroadcastId -> Int]]
    BY <1>1, SnapshotType DEF add_client, TypeOK
  <2> QED BY <1>1, <2>1, <2>2 DEF add_client, TypeOK, Running
<1>2. ASSUME NEW c \in ClientId, remove_client(c) PROVE TypeOK'
  <2>1. users_seen' \in [ClientId -> [ClientId -> Int]]
    <3>1. Tell(users_seen, clients \ {c}, c, -1) \in [ClientId -> [ClientId -> Int]]
      BY TellUsersType
    <3> QED BY <1>2, <3>1, SnapshotType DEF remove_client
  <2>2. broadcasts_seen' \in [ClientId -> [BroadcastId -> Int]]
    BY <1>2, SnapshotType DEF remove_client, TypeOK
  <2>3. client_broadcasts' \in [ClientId -> [BroadcastId -> Nat]]
    BY <1>2, SnapshotType DEF remove_client, TypeOK
  <2>4. Running' = Running /\ broadcasts' \in [Running -> ClientBroadcast]
    BY <1>2, ShutDownType DEF remove_client, Running
  <2> QED BY <1>2, <2>1, <2>2, <2>3, <2>4 DEF remove_client, TypeOK
<1>3. ASSUME NEW c \in ClientId, NEW b \in BroadcastId, NEW l \in Label,
             client_broadcast_start(c, b, l)
      PROVE TypeOK'
  <2>1. client_broadcasts' \in [ClientId -> [BroadcastId -> Nat]]
    BY <1>3 DEF client_broadcast_start, TypeOK
  <2>2. /\ Running' = Running \cup {b}
        /\ broadcasts' \in [Running \cup {b} -> ClientBroadcast]
    BY <1>3 DEF client_broadcast_start, TypeOK, Running, ClientBroadcast
  <2>3. broadcasts_seen' \in [ClientId -> [BroadcastId -> Int]]
    <3>1. Tell(broadcasts_seen, clients, b, 1) \in [ClientId -> [BroadcastId -> Int]]
      BY TellBroadcastsType
    <3> QED BY <1>3, <3>1 DEF client_broadcast_start
  <2> QED BY <1>3, <2>1, <2>2, <2>3 DEF client_broadcast_start, TypeOK
<1>4. ASSUME NEW c \in ClientId, NEW b \in BroadcastId, client_broadcast_stop(c, b)
      PROVE TypeOK'
  <2>1. client_broadcasts' \in [ClientId -> [BroadcastId -> Nat]]
    BY <1>4 DEF client_broadcast_stop, StopResult, Listed, TypeOK
  <2>2. Running' = Running /\ broadcasts' \in [Running -> ClientBroadcast]
    BY <1>4, ShutDownType DEF client_broadcast_stop, Running
  <2> QED BY <1>4, <2>1, <2>2 DEF client_broadcast_stop, TypeOK
<1>5. ASSUME NEW c \in ClientId, NEW b \in BroadcastId,
             client_broadcast_subscribe(c, b) \/ client_broadcast_unsubscribe(c, b)
      PROVE TypeOK'
  <2>1. b \in Running /\ \E T \in SUBSET ClientId :
             broadcasts' = [broadcasts EXCEPT ![b].targets = T]
    BY <1>5 DEF client_broadcast_subscribe, client_broadcast_unsubscribe,
                SubscribeResult, TypeOK, ClientBroadcast
  <2>2. Running' = Running /\ broadcasts' \in [Running -> ClientBroadcast]
    <3>1. PICK r \in ClientBroadcast : broadcasts' = [broadcasts EXCEPT ![b] = r]
      <4>1. broadcasts[b] \in ClientBroadcast
        BY <2>1 DEF TypeOK
      <4>2. PICK T \in SUBSET ClientId : broadcasts' = [broadcasts EXCEPT ![b].targets = T]
        BY <2>1
      <4>3. [broadcasts[b] EXCEPT !.targets = T] \in ClientBroadcast
        BY <4>1 DEF ClientBroadcast
      <4> QED BY <4>2, <4>3
    <3> QED BY <2>1, <3>1, UpdateType DEF Running
  <2> QED BY <1>5, <2>2 DEF client_broadcast_subscribe, client_broadcast_unsubscribe, TypeOK
<1>6. ASSUME NEW b \in BroadcastId, NEW gone \in SUBSET ClientId,
             NEW outcome \in {"polling", "ended"},
             poll_shutdown(b) \/ poll_streams(b, gone, outcome)
      PROVE TypeOK'
  <2>1. b \in Running /\ \E T \in SUBSET ClientId, o \in {"polling", "ended"} :
             broadcasts' = [broadcasts EXCEPT ![b].targets = T, ![b].task = o]
    <3>1. CASE poll_shutdown(b)
      <4>1. b \in Running /\ broadcasts[b] \in ClientBroadcast
        BY <3>1 DEF poll_shutdown, Polling, TypeOK
      <4>2. broadcasts' = [broadcasts EXCEPT ![b].targets = broadcasts[b].targets,
                                             ![b].task = "ended"]
        BY <3>1, <4>1 DEF poll_shutdown, TypeOK, Running, ClientBroadcast
      <4> QED BY <4>1, <4>2 DEF ClientBroadcast
    <3>2. CASE poll_streams(b, gone, outcome)
      BY <3>2 DEF poll_streams, Polling, TypeOK, ClientBroadcast
    <3> QED BY <1>6, <3>1, <3>2
  <2>2. Running' = Running /\ broadcasts' \in [Running -> ClientBroadcast]
    <3>1. PICK r \in ClientBroadcast : broadcasts' = [broadcasts EXCEPT ![b] = r]
      <4>1. broadcasts[b] \in ClientBroadcast
        BY <2>1 DEF TypeOK
      <4>2. PICK T \in SUBSET ClientId, o \in {"polling", "ended"} :
              broadcasts' = [broadcasts EXCEPT ![b].targets = T, ![b].task = o]
        BY <2>1
      <4>3. [broadcasts[b] EXCEPT !.targets = T, !.task = o] \in ClientBroadcast
        BY <4>1 DEF ClientBroadcast
      <4>4. broadcasts' = [broadcasts EXCEPT ![b] =
                             [broadcasts[b] EXCEPT !.targets = T, !.task = o]]
        BY <2>1, <4>2 DEF TypeOK
      <4> QED BY <4>3, <4>4
    <3> QED BY <2>1, <3>1, UpdateType DEF Running
  <2> QED BY <1>6, <2>2 DEF poll_shutdown, poll_streams, TypeOK
<1>7. ASSUME NEW b \in BroadcastId, finish_broadcast(b) PROVE TypeOK'
  <2>1. broadcasts_seen' \in [ClientId -> [BroadcastId -> Int]]
    <3>1. Tell(broadcasts_seen, clients, b, -1) \in [ClientId -> [BroadcastId -> Int]]
      BY TellBroadcastsType
    <3> QED BY <1>7, <3>1 DEF finish_broadcast
  <2>2. Running' = Running \ {b} /\ broadcasts' \in [Running \ {b} -> ClientBroadcast]
    BY <1>7 DEF finish_broadcast, TypeOK, Running
  <2> QED BY <1>7, <2>1, <2>2 DEF finish_broadcast, TypeOK
<1>8. CASE UNCHANGED vars
  BY <1>8 DEF vars, TypeOK, Running
<1> QED BY <1>1, <1>2, <1>3, <1>4, <1>5, <1>6, <1>7, <1>8 DEF Next

\* The state of a room has its type in every reachable state.
THEOREM TypeCorrect == Spec => []TypeOK
<1> QED BY TypeInit, TypeNext, PTL DEF Spec

-----------------------------------------------------------------------------
(* What a member was told.  One lemma says what a single message to every   *)
(* member does to a balance that was right.                                 *)
LEMMA TellAdds ==
    ASSUME NEW D, NEW seen, NEW to, NEW items, NEW x \in D,
           x \notin items, NEW m \in ClientId, m \in to, seen[m] = Snapshot(D, items)
    PROVE  Tell(seen, to, x, 1)[m] = Snapshot(D, items \cup {x})
<1>1. Tell(seen, to, x, 1)[m] = [Snapshot(D, items) EXCEPT ![x] = @ + 1]
  BY DEF Tell
<1>2. Snapshot(D, items)[x] = 0
  BY DEF Snapshot
<1>3. Tell(seen, to, x, 1)[m] = [Snapshot(D, items) EXCEPT ![x] = 1]
  BY <1>1, <1>2 DEF Snapshot
<1> QED BY <1>3 DEF Snapshot

LEMMA TellRemoves ==
    ASSUME NEW D, NEW seen, NEW to, NEW items, NEW x \in D,
           x \in items, NEW m \in ClientId, m \in to, seen[m] = Snapshot(D, items)
    PROVE  Tell(seen, to, x, -1)[m] = Snapshot(D, items \ {x})
<1>1. Tell(seen, to, x, -1)[m] = [Snapshot(D, items) EXCEPT ![x] = @ + (-1)]
  BY DEF Tell
<1>2. Snapshot(D, items)[x] = 1
  BY DEF Snapshot
<1>3. Tell(seen, to, x, -1)[m] = [Snapshot(D, items) EXCEPT ![x] = 0]
  BY <1>1, <1>2 DEF Snapshot
<1> QED BY <1>3 DEF Snapshot

\* A room nobody is in has nobody to inform.
LEMMA KnowledgeInit == Init => MembersKnowMembers /\ MembersKnowBroadcasts
  BY DEF Init, MembersKnowMembers, MembersKnowBroadcasts

LEMMA MembersNext == TypeOK /\ MembersKnowMembers /\ [Next]_vars => MembersKnowMembers'
<1> SUFFICES ASSUME TypeOK, MembersKnowMembers, [Next]_vars,
                    NEW m \in clients'
             PROVE  users_seen'[m] = Snapshot(ClientId, clients')
  BY DEF MembersKnowMembers, Snapshot
<1>1. ASSUME NEW c \in ClientId, add_client(c)
      PROVE  users_seen'[m] = Snapshot(ClientId, clients')
  <2>1. CASE m = c
    <3>1. Tell(users_seen, clients, c, 1) \in [ClientId -> [ClientId -> Int]]
      BY TellUsersType
    <3> QED BY <1>1, <2>1, <3>1 DEF add_client
  <2>2. CASE m # c
    <3>1. m \in clients /\ users_seen[m] = Snapshot(ClientId, clients)
      BY <1>1, <2>2 DEF add_client, MembersKnowMembers
    <3>2. Tell(users_seen, clients, c, 1)[m] = Snapshot(ClientId, clients \cup {c})
      <4>1. c \notin clients /\ m \in ClientId
        BY <1>1, <3>1 DEF add_client, TypeOK
      <4> QED BY <3>1, <4>1, TellAdds
    <3>3. users_seen'[m] = Tell(users_seen, clients, c, 1)[m]
      BY <1>1, <2>2 DEF add_client, Tell
    <3> QED BY <1>1, <3>2, <3>3 DEF add_client
  <2> QED BY <2>1, <2>2
<1>2. ASSUME NEW c \in ClientId, remove_client(c)
      PROVE  users_seen'[m] = Snapshot(ClientId, clients')
  <2>1. m # c /\ m \in clients /\ users_seen[m] = Snapshot(ClientId, clients)
    BY <1>2 DEF remove_client, MembersKnowMembers
  <2>2. Tell(users_seen, clients \ {c}, c, -1)[m] = Snapshot(ClientId, clients \ {c})
    <3>1. m \in clients \ {c} /\ m \in ClientId /\ c \in clients
      BY <1>2, <2>1 DEF remove_client, TypeOK
    <3> QED BY <2>1, <3>1, TellRemoves
  <2>3. users_seen'[m] = Tell(users_seen, clients \ {c}, c, -1)[m]
    BY <1>2, <2>1 DEF remove_client, Tell
  <2> QED BY <1>2, <2>2, <2>3 DEF remove_client
<1>3. ASSUME UNCHANGED <<clients, users_seen>>
      PROVE  users_seen'[m] = Snapshot(ClientId, clients')
  BY <1>3 DEF MembersKnowMembers
<1>4. CASE \E c \in ClientId : add_client(c) \/ remove_client(c)
  BY <1>1, <1>2, <1>4
<1>5. CASE \E c \in ClientId, b \in BroadcastId :
             \/ \E l \in Label : client_broadcast_start(c, b, l)
             \/ client_broadcast_stop(c, b)
             \/ client_broadcast_subscribe(c, b)
             \/ client_broadcast_unsubscribe(c, b)
  BY <1>3, <1>5 DEF client_broadcast_start, client_broadcast_stop,
                    client_broadcast_subscribe, client_broadcast_unsubscribe
<1>6. CASE \E b \in BroadcastId :
             \/ poll_shutdown(b)
             \/ \E gone \in SUBSET ClientId, outcome \in {"polling", "ended"} :
                  poll_streams(b, gone, outcome)
             \/ finish_broadcast(b)
  BY <1>3, <1>6 DEF poll_shutdown, poll_streams, finish_broadcast
<1>7. CASE UNCHANGED vars
  BY <1>3, <1>7 DEF vars
<1> QED BY <1>4, <1>5, <1>6, <1>7 DEF Next

LEMMA KnownBroadcastsNext ==
    TypeOK /\ MembersKnowBroadcasts /\ [Next]_vars => MembersKnowBroadcasts'
<1> SUFFICES ASSUME TypeOK, MembersKnowBroadcasts, [Next]_vars,
                    NEW m \in clients'
             PROVE  broadcasts_seen'[m] = Snapshot(BroadcastId, Running')
  BY DEF MembersKnowBroadcasts, Snapshot
<1>1. ASSUME NEW c \in ClientId, add_client(c)
      PROVE  broadcasts_seen'[m] = Snapshot(BroadcastId, Running')
  <2>1. Running' = Running
    BY <1>1 DEF add_client, Running
  <2> QED BY <1>1, <2>1 DEF add_client, MembersKnowBroadcasts, TypeOK
<1>2. ASSUME NEW c \in ClientId, remove_client(c)
      PROVE  broadcasts_seen'[m] = Snapshot(BroadcastId, Running')
  <2>1. Running' = Running
    BY <1>2, ShutDownType DEF remove_client, Running
  <2> QED BY <1>2, <2>1 DEF remove_client, MembersKnowBroadcasts, TypeOK
<1>3. ASSUME NEW c \in ClientId, NEW b \in BroadcastId, NEW l \in Label,
             client_broadcast_start(c, b, l)
      PROVE  broadcasts_seen'[m] = Snapshot(BroadcastId, Running')
  <2>1. m \in clients /\ broadcasts_seen[m] = Snapshot(BroadcastId, Running)
    BY <1>3 DEF client_broadcast_start, MembersKnowBroadcasts
  <2>2. Tell(broadcasts_seen, clients, b, 1)[m] = Snapshot(BroadcastId, Running \cup {b})
    <3>1. b \notin Running /\ m \in ClientId
      BY <1>3, <2>1 DEF client_broadcast_start, TypeOK
    <3> QED BY <2>1, <3>1, TellAdds
  <2>3. Running' = Running \cup {b}
    BY <1>3 DEF client_broadcast_start, Running
  <2> QED BY <1>3, <2>2, <2>3 DEF client_broadcast_start
<1>4. ASSUME NEW b \in BroadcastId, finish_broadcast(b)
      PROVE  broadcasts_seen'[m] = Snapshot(BroadcastId, Running')
  <2>1. m \in clients /\ broadcasts_seen[m] = Snapshot(BroadcastId, Running)
    BY <1>4 DEF finish_broadcast, MembersKnowBroadcasts
  <2>2. Tell(broadcasts_seen, clients, b, -1)[m] = Snapshot(BroadcastId, Running \ {b})
    <3>1. b \in Running /\ m \in ClientId
      BY <1>4, <2>1 DEF finish_broadcast, TypeOK
    <3> QED BY <2>1, <3>1, TellRemoves
  <2>3. Running' = Running \ {b}
    BY <1>4 DEF finish_broadcast, Running
  <2> QED BY <1>4, <2>2, <2>3 DEF finish_broadcast
<1>5. ASSUME UNCHANGED <<clients, broadcasts_seen>>, Running' = Running
      PROVE  broadcasts_seen'[m] = Snapshot(BroadcastId, Running')
  BY <1>5 DEF MembersKnowBroadcasts
<1>6. ASSUME NEW c \in ClientId, NEW b \in BroadcastId,
             \/ client_broadcast_stop(c, b)
             \/ client_broadcast_subscribe(c, b)
             \/ client_broadcast_unsubscribe(c, b)
      PROVE  broadcasts_seen'[m] = Snapshot(BroadcastId, Running')
  <2>1. CASE client_broadcast_stop(c, b)
    BY <1>5, <2>1, ShutDownType DEF client_broadcast_stop, Running
  <2>2. CASE client_broadcast_subscribe(c, b) \/ client_broadcast_unsubscribe(c, b)
    BY <1>5, <2>2 DEF client_broadcast_subscribe, client_broadcast_unsubscribe,
                      TypeOK, Running
  <2> QED BY <1>6, <2>1, <2>2
<1>7. ASSUME NEW b \in BroadcastId, NEW gone \in SUBSET ClientId,
             NEW outcome \in {"polling", "ended"},
             poll_shutdown(b) \/ poll_streams(b, gone, outcome)
      PROVE  broadcasts_seen'[m] = Snapshot(BroadcastId, Running')
  BY <1>5, <1>7 DEF poll_shutdown, poll_streams, TypeOK, Running
<1>8. CASE UNCHANGED vars
  BY <1>5, <1>8 DEF vars, Running
<1> QED BY <1>1, <1>2, <1>3, <1>4, <1>6, <1>7, <1>8 DEF Next

LEMMA KnowledgeCorrect == Spec => []KnowledgeInv
<1>1. Init => KnowledgeInv
  BY TypeInit, KnowledgeInit DEF KnowledgeInv
<1>2. KnowledgeInv /\ [Next]_vars => KnowledgeInv'
  BY TypeNext, MembersNext, KnownBroadcastsNext DEF KnowledgeInv
<1> QED BY <1>1, <1>2, PTL DEF Spec

\* The joins and leaves a member was told of add up to who is in the room.
THEOREM MembersInformed == Spec => []MembersKnowMembers
<1>1. KnowledgeInv => MembersKnowMembers
  BY DEF KnowledgeInv
<1> QED BY <1>1, KnowledgeCorrect, PTL

\* The starts and ends a member was told of add up to what runs in the room.
THEOREM BroadcastsAnnounced == Spec => []MembersKnowBroadcasts
<1>1. KnowledgeInv => MembersKnowBroadcasts
  BY DEF KnowledgeInv
<1> QED BY <1>1, KnowledgeCorrect, PTL

-----------------------------------------------------------------------------
(* Which broadcasts run.  A step that neither adds a broadcast, nor changes *)
(* owner, label or shutdown of one, nor touches members and lists is        *)
(* harmless; that leaves joining, leaving, starting and stopping.           *)
LEMMA BroadcastFrame ==
    ASSUME BroadcastInv, Running' \subseteq Running,
           UNCHANGED <<clients, client_broadcasts>>,
           \A x \in Running' : /\ broadcasts'[x].client_id = broadcasts[x].client_id
                               /\ broadcasts'[x].label = broadcasts[x].label
                               /\ broadcasts'[x].shutdown = broadcasts[x].shutdown
    PROVE  NoOrphanBroadcast' /\ OneBroadcastPerLabel'
  BY DEF BroadcastInv, NoOrphanBroadcast, OneBroadcastPerLabel, Listed

LEMMA BroadcastInit == Init => NoOrphanBroadcast /\ OneBroadcastPerLabel
  BY DEF Init, NoOrphanBroadcast, OneBroadcastPerLabel, Running

LEMMA BroadcastNext ==
    BroadcastInv /\ [Next]_vars => NoOrphanBroadcast' /\ OneBroadcastPerLabel'
<1> SUFFICES ASSUME BroadcastInv, [Next]_vars
             PROVE  NoOrphanBroadcast' /\ OneBroadcastPerLabel'
  OBVIOUS
<1>t. TypeOK
  BY DEF BroadcastInv
<1>1. ASSUME NEW c \in ClientId, add_client(c)
      PROVE  NoOrphanBroadcast' /\ OneBroadcastPerLabel'
  BY <1>1 DEF add_client, BroadcastInv, NoOrphanBroadcast, OneBroadcastPerLabel,
              Running, Listed
<1>2. ASSUME NEW c \in ClientId, remove_client(c)
      PROVE  NoOrphanBroadcast' /\ OneBroadcastPerLabel'
  <2>1. Running' = Running
    BY <1>t, <1>2, ShutDownType DEF remove_client, Running
  <2>2. \A b \in Running :
          /\ broadcasts'[b].client_id = broadcasts[b].client_id
          /\ broadcasts'[b].label = broadcasts[b].label
          /\ ~broadcasts'[b].shutdown => ~broadcasts[b].shutdown /\ b \notin Listed(c)
    BY <1>t, <1>2, ShutDownKeeps DEF remove_client
  <2>3. \A d \in ClientId \ {c} : client_broadcasts'[d] = client_broadcasts[d]
    BY <1>t, <1>2 DEF remove_client, TypeOK
  <2>4. NoOrphanBroadcast'
    <3> SUFFICES ASSUME NEW b \in Running, ~broadcasts'[b].shutdown
                 PROVE  /\ broadcasts'[b].client_id \in clients'
                        /\ client_broadcasts'[broadcasts'[b].client_id][b] > 0
      BY <1>t, <2>1 DEF NoOrphanBroadcast, Listed, TypeOK
    <3>1. PICK d \in ClientId : d = broadcasts[b].client_id
      BY <1>t DEF TypeOK, ClientBroadcast
    <3>2. d \in clients /\ client_broadcasts[d][b] > 0 /\ d # c
      BY <1>t, <2>2, <3>1 DEF BroadcastInv, NoOrphanBroadcast, Listed, TypeOK
    <3>3. d \in clients' /\ client_broadcasts'[d][b] > 0
      BY <1>2, <2>3, <3>2 DEF remove_client
    <3> QED BY <2>2, <3>1, <3>3
  <2>5. OneBroadcastPerLabel'
    BY <2>1, <2>2 DEF BroadcastInv, OneBroadcastPerLabel
  <2> QED BY <2>4, <2>5
<1>3. ASSUME NEW c \in ClientId, NEW b \in BroadcastId, NEW l \in Label,
             client_broadcast_start(c, b, l)
      PROVE  NoOrphanBroadcast' /\ OneBroadcastPerLabel'
  <2>1. /\ Running' = Running \cup {b}
        /\ broadcasts'[b].client_id = c
        /\ broadcasts'[b].label = l
        /\ \A x \in Running : x # b /\ broadcasts'[x] = broadcasts[x]
    BY <1>3 DEF client_broadcast_start, Running
  <2>2. /\ c \in clients /\ clients' = clients
        /\ Duplicates(c, l) = {}
    BY <1>3 DEF client_broadcast_start, StartResult
  <2>3. /\ client_broadcasts'[c][b] > 0
        /\ \A d \in ClientId, x \in BroadcastId :
             client_broadcasts'[d][x] >= client_broadcasts[d][x]
    BY <1>t, <1>3 DEF client_broadcast_start, TypeOK
  <2>4. NoOrphanBroadcast'
    <3> SUFFICES ASSUME NEW x \in Running \cup {b}, ~broadcasts'[x].shutdown
                 PROVE  /\ broadcasts'[x].client_id \in clients
                        /\ client_broadcasts'[broadcasts'[x].client_id][x] > 0
      BY <1>t, <2>1, <2>2 DEF NoOrphanBroadcast, Listed, TypeOK
    <3>1. CASE x = b
      BY <2>1, <2>2, <2>3, <3>1
    <3>2. CASE x \in Running
      <4>1. PICK d \in ClientId : d = broadcasts[x].client_id
        BY <1>t, <3>2 DEF TypeOK, ClientBroadcast
      <4>2. d \in clients /\ client_broadcasts[d][x] > 0 /\ x \in BroadcastId
        BY <1>t, <2>1, <3>2, <4>1 DEF BroadcastInv, NoOrphanBroadcast, Listed, TypeOK
      <4>3. client_broadcasts'[d][x] > 0
        <5>1. /\ client_broadcasts[d][x] \in Nat /\ client_broadcasts'[d][x] \in Nat
              /\ client_broadcasts'[d][x] >= client_broadcasts[d][x]
          BY <1>t, <2>3, <4>2, TypeNext DEF TypeOK
        <5> QED BY <4>2, <5>1
      <4> QED BY <2>1, <3>2, <4>1, <4>2, <4>3
    <3> QED BY <3>1, <3>2
  <2>5. OneBroadcastPerLabel'
    <3>1. \A x \in Running :
            ~broadcasts[x].shutdown /\ broadcasts[x].client_id = c
              => broadcasts[x].label # l
      BY <2>2 DEF BroadcastInv, NoOrphanBroadcast, Duplicates
    <3> QED BY <2>1, <3>1 DEF BroadcastInv, OneBroadcastPerLabel
  <2> QED BY <2>4, <2>5
<1>4. ASSUME NEW c \in ClientId, NEW b \in BroadcastId, client_broadcast_stop(c, b)
      PROVE  NoOrphanBroadcast' /\ OneBroadcastPerLabel'
  <2>1. Running' = Running
    BY <1>t, <1>4, ShutDownType DEF client_broadcast_stop, Running
  <2>2. \A x \in Running :
          /\ broadcasts'[x].client_id = broadcasts[x].client_id
          /\ broadcasts'[x].label = broadcasts[x].label
          /\ ~broadcasts'[x].shutdown => ~broadcasts[x].shutdown /\ x # b
    BY <1>t, <1>4, ShutDownKeeps DEF client_broadcast_stop
  <2>3. \A d \in ClientId, x \in BroadcastId \ {b} :
          client_broadcasts'[d][x] = client_broadcasts[d][x]
    BY <1>t, <1>4 DEF client_broadcast_stop, TypeOK
  <2>4. NoOrphanBroadcast'
    <3> SUFFICES ASSUME NEW x \in Running, ~broadcasts'[x].shutdown
                 PROVE  /\ broadcasts'[x].client_id \in clients
                        /\ client_broadcasts'[broadcasts'[x].client_id][x] > 0
      BY <1>t, <1>4, <2>1 DEF client_broadcast_stop, NoOrphanBroadcast, Listed, TypeOK
    <3>1. PICK d \in ClientId : d = broadcasts[x].client_id
      BY <1>t DEF TypeOK, ClientBroadcast
    <3>2. d \in clients /\ client_broadcasts[d][x] > 0 /\ x \in BroadcastId \ {b}
      BY <1>t, <2>2, <3>1 DEF BroadcastInv, NoOrphanBroadcast, Listed, TypeOK
    <3> QED BY <2>2, <2>3, <3>1, <3>2
  <2>5. OneBroadcastPerLabel'
    BY <2>1, <2>2 DEF BroadcastInv, OneBroadcastPerLabel
  <2> QED BY <2>4, <2>5
<1>5. ASSUME NEW c \in ClientId, NEW b \in BroadcastId,
             client_broadcast_subscribe(c, b) \/ client_broadcast_unsubscribe(c, b)
      PROVE  NoOrphanBroadcast' /\ OneBroadcastPerLabel'
  <2>1. /\ UNCHANGED <<clients, client_broadcasts>>
        /\ b \in Running
        /\ \E T \in SUBSET ClientId : broadcasts' = [broadcasts EXCEPT ![b].targets = T]
    BY <1>t, <1>5 DEF client_broadcast_subscribe, client_broadcast_unsubscribe,
                      SubscribeResult, TypeOK, ClientBroadcast
  <2>2. /\ Running' = Running
        /\ \A x \in Running : /\ broadcasts'[x].client_id = broadcasts[x].client_id
                              /\ broadcasts'[x].label = broadcasts[x].label
                              /\ broadcasts'[x].shutdown = broadcasts[x].shutdown
    BY <1>t, <2>1 DEF TypeOK, Running, ClientBroadcast
  <2> QED BY <2>1, <2>2, BroadcastFrame
<1>6. ASSUME NEW b \in BroadcastId, NEW gone \in SUBSET ClientId,
             NEW outcome \in {"polling", "ended"},
             poll_shutdown(b) \/ poll_streams(b, gone, outcome)
      PROVE  NoOrphanBroadcast' /\ OneBroadcastPerLabel'
  <2>1. UNCHANGED <<clients, client_broadcasts>>
    BY <1>6 DEF poll_shutdown, poll_streams
  <2>2. /\ Running' = Running
        /\ \A x \in Running : /\ broadcasts'[x].client_id = broadcasts[x].client_id
                              /\ broadcasts'[x].label = broadcasts[x].label
                              /\ broadcasts'[x].shutdown = broadcasts[x].shutdown
    <3>1. CASE poll_shutdown(b)
      BY <1>t, <3>1 DEF poll_shutdown, TypeOK, Running, ClientBroadcast
    <3>2. CASE poll_streams(b, gone, outcome)
      BY <1>t, <3>2 DEF poll_streams, TypeOK, Running, ClientBroadcast
    <3> QED BY <1>6, <3>1, <3>2
  <2> QED BY <2>1, <2>2, BroadcastFrame
<1>7. ASSUME NEW b \in BroadcastId, finish_broadcast(b)
      PROVE  NoOrphanBroadcast' /\ OneBroadcastPerLabel'
  BY <1>7, BroadcastFrame DEF finish_broadcast, Running
<1>8. CASE UNCHANGED vars
  BY <1>8, BroadcastFrame DEF vars, Running
<1> QED BY <1>1, <1>2, <1>3, <1>4, <1>5, <1>6, <1>7, <1>8 DEF Next

LEMMA BroadcastsCorrect == Spec => []BroadcastInv
<1>1. Init => BroadcastInv
  BY TypeInit, BroadcastInit DEF BroadcastInv
<1>2. BroadcastInv /\ [Next]_vars => BroadcastInv'
  BY TypeNext, BroadcastNext DEF BroadcastInv
<1> QED BY <1>1, <1>2, PTL DEF Spec

\* No broadcast outlives its owner's stay unasked: one that nobody asked to stop
\* is in the list of a member, who takes it along when leaving.
THEOREM BroadcastsOwned == Spec => []NoOrphanBroadcast
<1>1. BroadcastInv => NoOrphanBroadcast
  BY DEF BroadcastInv
<1> QED BY <1>1, BroadcastsCorrect, PTL

\* One client never has two broadcasts going on under one label, whatever ids
\* are drawn.
THEOREM LabelsUnique == Spec => []OneBroadcastPerLabel
<1>1. BroadcastInv => OneBroadcastPerLabel
  BY DEF BroadcastInv
<1> QED BY <1>1, BroadcastsCorrect, PTL

=============================================================================
