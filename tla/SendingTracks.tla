---------------------------- MODULE SendingTracks ----------------------------
(***************************************************************************)
(* The sending half of one client: the tracks of its RtpClient             *)
(* (client_rtp.rs), the requests with which it subscribes to broadcasts    *)
(* (server.rs) and what the room keeps of them (room.rs).                  *)
(*                                                                         *)
(* A track is free when it has no event handler; a subscription takes the  *)
(* first free one or adds one to the peer.  The requests of a client are   *)
(* handled one after the other, each in three sections: the kind is read   *)
(* under the lock of the room, the target is made under that of the        *)
(* client, and the room is locked again to enter it.  Broadcasts end in    *)
(* between.  Packets and their numbers are left to SequencePatcher.        *)
(*                                                                         *)
(* An operator <operation>_<slip> is the operation with a plausible slip;  *)
(* it is no part of Next and shows that a property notices the slip.       *)
(***************************************************************************)
EXTENDS Naturals

CONSTANTS
    Broadcast,      \* ids of broadcasts of the room
    MaxTracks,      \* bound: tracks added
    MaxTargets,     \* bound: targets created
    Capacity        \* slots of the channel of a target: 16

ASSUME BoundsAssumption == MaxTracks \in Nat /\ MaxTargets \in Nat /\ Capacity \in Nat \ {0}

Track == 1 .. MaxTracks
Target == 1 .. MaxTargets
None == 0

VARIABLES
    broadcasts,     \* Room::broadcasts
    targets,        \* the target this client has in each of them
    polled,         \* broadcasts whose future has not ended
    request,        \* the request under way: section, broadcast, target
    peer,           \* "open" or "closed"
    sending_tracks, \* the tracks of RtpClient::sending_tracks, in their order
    loop,           \* where the task of a track is
    event_handler,  \* the target of each track
    asking,         \* the target a task waits to hand a key frame request to
    track,          \* the track of each target made so far
    events          \* key frame requests in the channel of each target

room_vars == <<broadcasts, targets, polled>>
track_vars == <<sending_tracks, loop>>
target_vars == <<event_handler, track>>
key_frame_vars == <<asking, events>>
vars == <<room_vars, request, peer, track_vars, target_vars, key_frame_vars>>

NoRequest == [at |-> "none", broadcast |-> None, target |-> None]
Held == {targets[b] : b \in Broadcast} \cup {request.target}

-----------------------------------------------------------------------------
Init ==
    /\ broadcasts = {} /\ polled = {}
    /\ targets = [b \in Broadcast |-> None]
    /\ request = NoRequest
    /\ peer = "open" /\ sending_tracks = {}
    /\ loop = [t \in Track |-> "none"]
    /\ event_handler = [t \in Track |-> None]
    /\ asking = [t \in Track |-> None]
    /\ track = [n \in Target |-> None]
    /\ events = [n \in Target |-> 0]

\* What the drop of targets does: their tracks are free again, whoever has them.
Freed(dropped) ==
    event_handler' = [t \in Track |->
                        IF t \in {track[n] : n \in dropped \ {None}} THEN None ELSE event_handler[t]]

BroadcastSubscribe(b) ==
    /\ request = NoRequest /\ peer = "open" /\ b \in broadcasts
    /\ request' = [at |-> "kind", broadcast |-> b, target |-> None]
    /\ UNCHANGED <<room_vars, peer, track_vars, target_vars, key_frame_vars>>

create_sending_track(t) ==
    /\ peer = "open"
    /\ t \in Track \ sending_tracks /\ \A u \in 1 .. t - 1 : u \in sending_tracks
    /\ sending_tracks' = sending_tracks \cup {t}
    /\ loop' = [loop EXCEPT ![t] = "running"]

\* The first track without a handler, of whatever kind and whether or not its
\* loop still runs.
FreeTrack(t) ==
    LET free == {u \in sending_tracks : event_handler[u] = None} IN
    IF free # {} THEN t \in free /\ (\A u \in free : t <= u) /\ UNCHANGED track_vars
    ELSE create_sending_track(t)

create_broadcast_target(n) ==
    /\ request.at = "kind"
    /\ track[n] = None /\ \A m \in 1 .. n - 1 : track[m] # None
    /\ \E t \in Track : /\ FreeTrack(t)
                        /\ event_handler' = [event_handler EXCEPT ![t] = n]
                        /\ track' = [track EXCEPT ![n] = t]
    /\ request' = [at |-> "target", broadcast |-> request.broadcast, target |-> n]
    /\ UNCHANGED <<room_vars, peer, key_frame_vars>>

\* add_track fails on a closed peer and its result is unwrapped: the task that
\* reads the requests of the client is gone.
create_broadcast_target_panics ==
    /\ request.at = "kind" /\ peer = "closed"
    /\ \A t \in sending_tracks : event_handler[t] # None
    /\ request' = [at |-> "panicked", broadcast |-> None, target |-> None]
    /\ UNCHANGED <<room_vars, peer, track_vars, target_vars, key_frame_vars>>

Refused == request.broadcast \notin broadcasts \/ targets[request.broadcast] # None

\* The target of a refused request is forgotten, not dropped.
client_broadcast_subscribe_leak ==
    /\ request.at = "target"
    /\ targets' = IF Refused THEN targets
                  ELSE [targets EXCEPT ![request.broadcast] = request.target]
    /\ request' = NoRequest
    /\ UNCHANGED <<broadcasts, polled, peer, track_vars, target_vars, key_frame_vars>>

\* Answered by BroadcastSubscribed, or refused and the target dropped.
client_broadcast_subscribe ==
    /\ request.at = "target"
    /\ targets' = IF Refused THEN targets
                  ELSE [targets EXCEPT ![request.broadcast] = request.target]
    /\ Freed(IF Refused THEN {request.target} ELSE {})
    /\ request' = NoRequest
    /\ UNCHANGED <<broadcasts, polled, peer, track_vars, track, key_frame_vars>>

client_broadcast_unsubscribe(b) ==
    /\ request = NoRequest /\ b \in broadcasts /\ targets[b] # None
    /\ targets' = [targets EXCEPT ![b] = None]
    /\ Freed({targets[b]})
    /\ UNCHANGED <<broadcasts, polled, request, peer, track_vars, track, key_frame_vars>>

-----------------------------------------------------------------------------
(* The room, to which somebody else broadcasts.                             *)

client_broadcast_start(b) ==
    /\ b \notin broadcasts
    /\ broadcasts' = broadcasts \cup {b} /\ polled' = polled \cup {b}
    /\ UNCHANGED <<targets, request, peer, track_vars, target_vars, key_frame_vars>>

\* The future ends; nothing is polled or dropped until its task has the room.
broadcast_ends(b) ==
    /\ b \in polled
    /\ polled' = polled \ {b}
    /\ UNCHANGED <<broadcasts, targets, request, peer, track_vars, target_vars, key_frame_vars>>

\* The targets outlive the broadcast.
finish_broadcast_keep(b) ==
    /\ b \in broadcasts \ polled
    /\ broadcasts' = broadcasts \ {b}
    /\ UNCHANGED <<targets, polled, request, peer, track_vars, target_vars, key_frame_vars>>

\* The broadcast leaves the room and is dropped with its targets.
finish_broadcast(b) ==
    /\ b \in broadcasts \ polled
    /\ broadcasts' = broadcasts \ {b}
    /\ targets' = [targets EXCEPT ![b] = None]
    /\ Freed({targets[b]})
    /\ UNCHANGED <<polled, request, peer, track_vars, track, key_frame_vars>>

\* The broadcast takes a key frame request of this client.
poll_next(b) ==
    /\ b \in polled /\ targets[b] # None /\ events[targets[b]] > 0
    /\ events' = [events EXCEPT ![targets[b]] = @ - 1]
    /\ UNCHANGED <<room_vars, request, peer, track_vars, target_vars, asking>>

-----------------------------------------------------------------------------
(* The task of a track.                                                     *)

LoopAt(t, pc) == loop[t] = pc /\ asking[t] = None

\* A picture loss indication; without a handler it is dropped.
handle_rtcp(t) ==
    /\ LoopAt(t, "running") /\ peer = "open" /\ event_handler[t] # None
    /\ asking' = [asking EXCEPT ![t] = event_handler[t]]
    /\ UNCHANGED <<room_vars, request, peer, track_vars, target_vars, events>>

\* There is always a slot.
KeyFrameAsked_unbounded(t) ==
    /\ asking[t] # None
    /\ events' = [events EXCEPT ![asking[t]] = @ + 1]
    /\ asking' = [asking EXCEPT ![t] = None]
    /\ UNCHANGED <<room_vars, request, peer, track_vars, target_vars>>

\* The send waits for a slot and fails when the target was dropped.
KeyFrameAsked(t) ==
    LET n == asking[t] IN
    /\ n # None
    /\ IF n \in Held
       THEN events[n] < Capacity /\ events' = [events EXCEPT ![n] = @ + 1]
       ELSE UNCHANGED events
    /\ asking' = [asking EXCEPT ![t] = None]
    /\ UNCHANGED <<room_vars, request, peer, track_vars, target_vars>>

\* Reading fails when the peer is closed, or the client gave up the track.
handle_rtcp_error(t) ==
    /\ LoopAt(t, "running")
    /\ loop' = [loop EXCEPT ![t] = "ended"]
    /\ UNCHANGED <<room_vars, request, peer, sending_tracks, target_vars, key_frame_vars>>

\* Taken off the peer; sending_tracks still has it.
remove_track(t) ==
    /\ LoopAt(t, "ended")
    /\ loop' = [loop EXCEPT ![t] = "removed"]
    /\ UNCHANGED <<room_vars, request, peer, sending_tracks, target_vars, key_frame_vars>>

\* The connection closed.
close ==
    /\ peer = "open"
    /\ peer' = "closed"
    /\ UNCHANGED <<room_vars, request, track_vars, target_vars, key_frame_vars>>

-----------------------------------------------------------------------------
Next ==
    \/ \E b \in Broadcast :
          \/ client_broadcast_start(b) \/ broadcast_ends(b) \/ finish_broadcast(b) \/ poll_next(b)
          \/ BroadcastSubscribe(b) \/ client_broadcast_unsubscribe(b)
    \/ \E n \in Target : create_broadcast_target(n)
    \/ create_broadcast_target_panics \/ client_broadcast_subscribe \/ close
    \/ \E t \in Track :
          handle_rtcp(t) \/ KeyFrameAsked(t) \/ handle_rtcp_error(t) \/ remove_track(t)

\* Tasks that can run do; a broadcast reads its targets (module Broadcast).
Fairness ==
    /\ \A b \in Broadcast : WF_vars(finish_broadcast(b)) /\ WF_vars(poll_next(b))
    /\ \A t \in Track : WF_vars(KeyFrameAsked(t)) /\ WF_vars(remove_track(t))
    /\ WF_vars(client_broadcast_subscribe)

Spec == Init /\ [][Next]_vars /\ Fairness

-----------------------------------------------------------------------------
(* Properties *)

\* The type of tracks, targets and the request under way.
TypeOK ==
    /\ broadcasts \subseteq Broadcast /\ polled \subseteq broadcasts
    /\ targets \in [Broadcast -> Target \cup {None}]
    /\ request \in [at : {"none", "kind", "target", "panicked"},
                    broadcast : Broadcast \cup {None}, target : Target \cup {None}]
    /\ peer \in {"open", "closed"}
    /\ sending_tracks \subseteq Track
    /\ loop \in [Track -> {"none", "running", "ended", "removed"}]
    /\ event_handler \in [Track -> Target \cup {None}]
    /\ asking \in [Track -> Target \cup {None}]
    /\ track \in [Target -> Track \cup {None}]
    /\ events \in [Target -> 0 .. Capacity]

\* A track carries one broadcast, and no track is kept for nothing, however a
\* subscription went: its handler is the target that the room or the request
\* under way holds, and each of these has its track.
HandlersAreSubscriptions ==
    /\ \A n \in Held \ {None} : event_handler[track[n]] = n
    /\ \A t \in Track : event_handler[t] \in Held \cup {None}

\* A task that hands over a key frame request comes back to its packets, even
\* when the broadcast ends or the client unsubscribes meanwhile.
KeyFrameRequestEnds == \A t \in Track : asking[t] # None ~> asking[t] = None

=============================================================================
