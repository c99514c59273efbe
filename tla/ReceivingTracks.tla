--------------------------- MODULE ReceivingTracks ---------------------------
(***************************************************************************)
(* The receiving half of an RtpClient (client_rtp.rs): the tracks a client *)
(* sends to the server, the io loop of each, and the sources that          *)
(* broadcasts read from them.                                              *)
(*                                                                         *)
(* A track is entered under its stream id by whoever comes first, the      *)
(* request that starts a broadcast or the track event of the peer.  Both,  *)
(* and the end of a loop, hold the lock of the client; the loops and the   *)
(* dropping of a source hold only that of the handler.  A loop hands what  *)
(* it reads to the handler it found when it looked: the handler may be     *)
(* replaced before the send is done.  A handler is named by its source.    *)
(*                                                                         *)
(* An operator <operation>_<slip> is the operation with a plausible slip;  *)
(* it is no part of Next and shows that a property notices the slip.       *)
(***************************************************************************)
EXTENDS Naturals, Sequences

CONSTANTS
    Stream,         \* stream ids
    MaxTracks,      \* bound: tracks ever entered
    MaxSources,     \* bound: sources ever created
    Capacity        \* slots of the channel of a source: 16

ASSUME BoundsAssumption == MaxTracks \in Nat /\ MaxSources \in Nat /\ Capacity \in Nat \ {0}

Track == 1 .. MaxTracks
Source == 1 .. MaxSources
None == 0

VARIABLES
    stream,             \* stream id of each track entered so far, in their order
    receiving_tracks,   \* the tracks that are registered
    loop,               \* where the task of a track is
    binding,            \* of a track: "awaited", "sent" or "lost"
    media,              \* whether the remote track can still be read
    handler,            \* source whose handler a track has
    sending,            \* <<source, event>> the task of a track waits to send
    source,             \* state of each source
    source_track,
    joined,             \* history: where the loop was when the source came
    mounted,            \* sources that know the ssrc of their track
    events,             \* the channel of each source
    unmounting          \* sources with a task that sends them their end

entry_vars == <<stream, receiving_tracks>>
remote_vars == <<binding, media>>
track_vars == <<entry_vars, remote_vars, loop>>
channel_vars == <<events, unmounting>>
source_vars == <<source, source_track, joined, mounted>>
vars == <<track_vars, handler, sending, source_vars, channel_vars>>

Entered == DOMAIN stream
Live(s) == source[s] = "live"

-----------------------------------------------------------------------------
Init ==
    /\ stream = <<>> /\ receiving_tracks = {}
    /\ loop = [t \in Track |-> "none"]
    /\ binding = [t \in Track |-> "awaited"]
    /\ media = [t \in Track |-> "open"]
    /\ handler = [t \in Track |-> None]
    /\ sending = [t \in Track |-> <<>>]
    /\ source = [s \in Source |-> "none"]
    /\ source_track = [s \in Source |-> None]
    /\ joined = [s \in Source |-> "none"]
    /\ mounted = {} /\ unmounting = {}
    /\ events = [s \in Source |-> <<>>]

\* The track registered for a stream, or a new one with its loop spawned.
TrackFor(id, t) ==
    LET known == {u \in receiving_tracks : stream[u] = id} IN
    IF known # {}
    THEN t \in known /\ UNCHANGED <<stream, receiving_tracks, loop>>
    ELSE /\ t = Len(stream) + 1 /\ t \in Track
         /\ stream' = Append(stream, id)
         /\ receiving_tracks' = receiving_tracks \cup {t}
         /\ loop' = [loop EXCEPT ![t] = "waiting"]

\* The old handler is not told.
update_handler_silent(t, s) ==
    /\ handler' = [handler EXCEPT ![t] = s]
    /\ UNCHANGED unmounting

\* The new handler is not mounted: no track ever stores its binding.
update_handler(t, s) ==
    /\ handler' = [handler EXCEPT ![t] = s]
    /\ unmounting' = unmounting \cup ({handler[t]} \ {None})

create_broadcast_source(s, id) ==
    /\ source[s] = "none" /\ \A r \in 1 .. s - 1 : source[r] # "none"
    /\ \E t \in Track :
          /\ TrackFor(id, t)
          /\ update_handler(t, s)
          /\ source_track' = [source_track EXCEPT ![s] = t]
          /\ joined' = [joined EXCEPT ![s] = loop'[t]]
    /\ source' = [source EXCEPT ![s] = "live"]
    /\ UNCHANGED <<remote_vars, sending, mounted, events>>

\* A second remote track of the stream is ignored, as is one that comes when
\* the loop has given up.
on_track(id) ==
    /\ \E t \in Track :
          /\ TrackFor(id, t)
          /\ binding' = [binding EXCEPT ![t] =
                           IF @ # "awaited" THEN @
                           ELSE IF loop'[t] = "waiting" THEN "sent" ELSE "lost"]
    /\ UNCHANGED <<media, handler, sending, source_vars, channel_vars>>

\* Takes whatever handler there is off the track.
remove_handler_any(s) ==
    handler' = [handler EXCEPT ![source_track[s]] = None]

\* Only its own.  The end that goes with it finds the channel closed.
remove_handler(s) ==
    handler' = [handler EXCEPT ![source_track[s]] = IF @ = s THEN None ELSE @]

\* The room refuses the broadcast, stops it, or is done with it after its end.
drop_source(s) ==
    /\ source[s] \in {"live", "ended"}
    /\ source' = [source EXCEPT ![s] = "dropped"]
    /\ events' = [events EXCEPT ![s] = <<>>]
    /\ remove_handler(s)
    /\ UNCHANGED <<track_vars, sending, source_track, joined, mounted, unmounting>>

-----------------------------------------------------------------------------
(* Sending to a source, which blocks while the channel is full and fails    *)
(* when the source was dropped.                                             *)

Sent_unbounded(s, event) ==
    events' = [events EXCEPT ![s] = IF source[s] = "dropped" THEN @ ELSE Append(@, event)]

Sent(s, event) ==
    /\ source[s] = "dropped" \/ Len(events[s]) < Capacity
    /\ events' = [events EXCEPT ![s] = IF source[s] = "dropped" THEN @ ELSE Append(@, event)]

handle_unmount(s) ==
    /\ s \in unmounting
    /\ Sent(s, "End")
    /\ unmounting' = unmounting \ {s}
    /\ UNCHANGED <<track_vars, handler, sending, source_vars>>

LoopSent(t) ==
    /\ sending[t] # <<>>
    /\ Sent(sending[t][1], sending[t][2])
    /\ sending' = [sending EXCEPT ![t] = <<>>]
    /\ UNCHANGED <<track_vars, handler, source_vars, unmounting>>

poll_next(s) ==
    /\ Live(s) /\ events[s] # <<>>
    /\ events' = [events EXCEPT ![s] = Tail(@)]
    /\ source' = [source EXCEPT ![s] = IF Head(events[s]) = "End" THEN "ended" ELSE @]
    /\ UNCHANGED <<track_vars, handler, sending, source_track, joined, mounted, unmounting>>

-----------------------------------------------------------------------------
(* The task of a track.                                                     *)

LoopAt(t, pc) == t \in Entered /\ loop[t] = pc /\ sending[t] = <<>>

\* After 15 seconds without a binding.
BindingTimeout(t) ==
    /\ LoopAt(t, "waiting") /\ binding[t] = "awaited"
    /\ loop' = [loop EXCEPT ![t] = "closing"]
    /\ UNCHANGED <<entry_vars, remote_vars, handler, sending, source_vars, channel_vars>>

Bound(t) ==
    /\ LoopAt(t, "waiting") /\ binding[t] = "sent"
    /\ loop' = [loop EXCEPT ![t] = "running"]
    /\ mounted' = mounted \cup ({handler[t]} \ {None})
    /\ UNCHANGED <<entry_vars, remote_vars, handler, sending, source, source_track, joined,
                   channel_vars>>

ReadPacket(t, event) ==
    /\ LoopAt(t, "running") /\ media[t] = "open" /\ handler[t] # None
    /\ sending' = [sending EXCEPT ![t] = <<handler[t], event>>]
    /\ UNCHANGED <<track_vars, handler, source_vars, channel_vars>>

ReadRtp(t) == ReadPacket(t, "Media")

\* A goodbye is recognised by the ssrc, which only a mounted handler has.
ReadGoodbye(t) == handler[t] \in mounted /\ ReadPacket(t, "End")

\* The client stops the track, or the peer is closed.
RemoteEnds(t) ==
    /\ t \in Entered /\ binding[t] = "sent" /\ media[t] = "open"
    /\ media' = [media EXCEPT ![t] = "closed"]
    /\ UNCHANGED <<entry_vars, loop, binding, handler, sending, source_vars, channel_vars>>

ReadError(t) ==
    /\ LoopAt(t, "running") /\ media[t] = "closed"
    /\ loop' = [loop EXCEPT ![t] = "closing"]
    /\ UNCHANGED <<entry_vars, remote_vars, handler, sending, source_vars, channel_vars>>

\* The loop is over and nobody is told.
handle_closed_silent(t) ==
    /\ LoopAt(t, "closing")
    /\ loop' = [loop EXCEPT ![t] = "removing"]
    /\ UNCHANGED <<entry_vars, remote_vars, handler, sending, source_vars, channel_vars>>

handle_closed(t) ==
    /\ LoopAt(t, "closing")
    /\ loop' = [loop EXCEPT ![t] = "removing"]
    /\ sending' = [sending EXCEPT ![t] =
                     IF handler[t] = None THEN <<>> ELSE <<handler[t], "End">>]
    /\ UNCHANGED <<entry_vars, remote_vars, handler, source_vars, channel_vars>>

RemoveTrack(t) ==
    /\ LoopAt(t, "removing")
    /\ loop' = [loop EXCEPT ![t] = "done"]
    /\ receiving_tracks' = receiving_tracks \ {t}
    /\ UNCHANGED <<stream, remote_vars, handler, sending, source_vars, channel_vars>>

-----------------------------------------------------------------------------
Next ==
    \/ \E id \in Stream : on_track(id) \/ \E s \in Source : create_broadcast_source(s, id)
    \/ \E s \in Source : drop_source(s) \/ handle_unmount(s) \/ poll_next(s)
    \/ \E t \in Track :
          \/ BindingTimeout(t) \/ Bound(t) \/ ReadRtp(t) \/ ReadGoodbye(t) \/ RemoteEnds(t)
          \/ ReadError(t) \/ handle_closed(t) \/ RemoveTrack(t) \/ LoopSent(t)

\* The executor runs tasks that can run; a broadcast reads its source and lets
\* go of it after its end.  No one owes a track, a packet or its end, and a
\* waiting loop need not time out while its track may still come.
Fairness ==
    /\ \A s \in Source : /\ WF_vars(handle_unmount(s)) /\ WF_vars(poll_next(s))
                         /\ WF_vars(source[s] = "ended" /\ drop_source(s))
    /\ \A t \in Track : /\ WF_vars(Bound(t)) /\ WF_vars(ReadError(t))
                        /\ WF_vars(handle_closed(t)) /\ WF_vars(RemoveTrack(t))
                        /\ WF_vars(LoopSent(t))

Spec == Init /\ [][Next]_vars /\ Fairness

-----------------------------------------------------------------------------
(* Properties *)

\* The type of the tracks and sources of a client.
TypeOK ==
    /\ stream \in Seq(Stream) /\ Len(stream) <= MaxTracks
    /\ receiving_tracks \subseteq Entered
    /\ loop \in [Track -> {"none", "waiting", "running", "closing", "removing", "done"}]
    /\ binding \in [Track -> {"awaited", "sent", "lost"}]
    /\ media \in [Track -> {"open", "closed"}]
    /\ handler \in [Track -> Source \cup {None}]
    /\ sending \in [Track -> {<<>>} \cup (Source \X {"Media", "End"})]
    /\ source \in [Source -> {"none", "live", "ended", "dropped"}]
    /\ source_track \in [Source -> Track \cup {None}]
    /\ joined \in [Source -> {"none", "waiting", "running", "closing", "removing"}]
    /\ mounted \subseteq Source /\ unmounting \subseteq Source
    /\ events \in [Source -> Seq({"Media", "End"})]
    /\ \A s \in Source : Len(events[s]) <= Capacity

HasEnd(q) == \E i \in DOMAIN q : q[i] = "End"

EndUnderWay(s) ==
    \/ s \in unmounting
    \/ HasEnd(events[s])
    \/ \E t \in Track : sending[t] = <<s, "End">>

\* Whoever still reads a source will be told of its end: the end is under way,
\* or a loop that has yet to end has the source as its handler.  The one
\* exception is a source that was put on a track between the last look of its
\* task and the removal of the entry.
EndIsOwed ==
    \A s \in Source : Live(s) =>
        LET t == source_track[s] IN
        \/ EndUnderWay(s)
        \/ handler[t] = s /\ (joined[s] = "removing" \/ loop[t] \in {"waiting", "running", "closing"})

\* Only a newer broadcast of the same stream takes a track from a source that
\* is still read.
InstalledStays ==
    [][\A t \in Track : handler[t] # None /\ handler'[t] # handler[t]
          => \/ source'[handler[t]] = "dropped"
             \/ handler'[t] # None /\ source[handler'[t]] = "none"]_vars

\* A source that was displaced, or whose track ended, comes to its end.
EndIsHeard ==
    \A s \in Source :
        /\ Live(s) /\ joined[s] # "removing"
        /\ handler[source_track[s]] # s \/ media[source_track[s]] = "closed"
      ~> ~Live(s)
=============================================================================
