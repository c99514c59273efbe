------------------------- MODULE ReceivingTracksProofs -------------------------
(***************************************************************************)
(* For any streams, tracks, sources and channel size: whoever still reads  *)
(* a source is owed its end, and a source loses its track to a newer one   *)
(* of the stream only.                                                     *)
(***************************************************************************)
EXTENDS ReceivingTracks, TLAPS

Event == {"Media", "End"}
Registered == {"waiting", "running", "closing", "removing"}

\* Only registered tracks are found, and these have a task.
TracksInv == \A t \in receiving_tracks : loop[t] \in Registered

TypeInv == TypeOK /\ TracksInv

LEMMA AppendEnd ==
  ASSUME NEW q \in Seq(Event), NEW e \in Event, HasEnd(q) \/ e = "End"
  PROVE  HasEnd(Append(q, e))
<1>1. CASE HasEnd(q)
  <2>1. PICK i \in DOMAIN q : q[i] = "End"
    BY <1>1 DEF HasEnd
  <2>2. i \in DOMAIN Append(q, e) /\ Append(q, e)[i] = "End"
    BY <2>1
  <2> QED BY <2>2 DEF HasEnd
<1>2. CASE e = "End"
  <2>1. Len(q) + 1 \in DOMAIN Append(q, e) /\ Append(q, e)[Len(q) + 1] = "End"
    BY <1>2
  <2> QED BY <2>1 DEF HasEnd
<1> QED BY <1>1, <1>2

LEMMA TailEnd ==
  ASSUME NEW q \in Seq(Event), HasEnd(q), q # <<>>, Head(q) # "End"
  PROVE  HasEnd(Tail(q))
<1>1. PICK i \in DOMAIN q : q[i] = "End"
  BY DEF HasEnd
<1>2. i # 1
  BY <1>1
<1>3. i - 1 \in DOMAIN Tail(q) /\ Tail(q)[i - 1] = "End"
  BY <1>1, <1>2
<1> QED BY <1>3 DEF HasEnd

-----------------------------------------------------------------------------
LEMMA TypeInit == Init => TypeInv
  BY BoundsAssumption DEF Init, TypeInv, TypeOK, TracksInv, Track, Source, None, Entered

\* Whoever asks for a stream gets a registered track, and nothing else changes.
LEMMA TrackForType ==
  ASSUME TypeInv, NEW id \in Stream, NEW t \in Track, TrackFor(id, t)
  PROVE  /\ stream' \in Seq(Stream) /\ Len(stream') <= MaxTracks
         /\ receiving_tracks' \subseteq DOMAIN stream' /\ t \in receiving_tracks'
         /\ loop' \in [Track -> Registered \cup {"none", "done"}]
         /\ TracksInv'
         /\ \A u \in Track : u # t => loop'[u] = loop[u]
         /\ loop'[t] \in {loop[t], "waiting"}
<1>1. CASE {u \in receiving_tracks : stream[u] = id} # {}
  BY <1>1 DEF TrackFor, TypeInv, TypeOK, TracksInv, Entered, Registered
<1>2. CASE {u \in receiving_tracks : stream[u] = id} = {}
  <2>1. /\ t = Len(stream) + 1
        /\ stream' = Append(stream, id)
        /\ receiving_tracks' = receiving_tracks \cup {t}
        /\ loop' = [loop EXCEPT ![t] = "waiting"]
    BY <1>2 DEF TrackFor
  <2>2. Len(stream') = t /\ stream' \in Seq(Stream) /\ DOMAIN stream' = DOMAIN stream \cup {t}
    BY <2>1 DEF TypeInv, TypeOK
  <2>3. t <= MaxTracks
    BY BoundsAssumption DEF Track
  <2>4. loop' \in [Track -> Registered \cup {"none", "done"}] /\ TracksInv'
    BY <2>1 DEF TypeInv, TypeOK, TracksInv, Registered, Track, Entered
  <2>5. receiving_tracks' \subseteq DOMAIN stream'
    BY <2>1, <2>2 DEF TypeInv, TypeOK, Entered
  <2> QED BY <2>1, <2>2, <2>3, <2>4, <2>5 DEF TypeInv, TypeOK
<1> QED BY <1>1, <1>2

\* A step of the task of a registered track.
LEMMA LoopStep ==
  ASSUME TypeInv, NEW t \in Track, NEW pc \in Registered,
         loop' = [loop EXCEPT ![t] = pc], UNCHANGED receiving_tracks
  PROVE  loop' \in [Track -> Registered \cup {"none", "done"}] /\ TracksInv'
<1>1. receiving_tracks \subseteq Track
  BY BoundsAssumption DEF TypeInv, TypeOK, Entered, Track
<1> QED BY <1>1 DEF TypeInv, TypeOK, TracksInv, Registered

LEMMA TypeNext == TypeInv /\ [Next]_vars => TypeInv'
<1> SUFFICES ASSUME TypeInv, [Next]_vars PROVE TypeInv'
  OBVIOUS
<1> USE DEF entry_vars, remote_vars, track_vars, channel_vars, source_vars
<1>1. ASSUME NEW id \in Stream, NEW s \in Source, create_broadcast_source(s, id)
      PROVE  TypeInv'
  <2>1. PICK t \in Track : /\ TrackFor(id, t) /\ update_handler(t, s)
                           /\ source_track' = [source_track EXCEPT ![s] = t]
                           /\ joined' = [joined EXCEPT ![s] = loop'[t]]
    BY <1>1 DEF create_broadcast_source
  <2>2. loop'[t] \in Registered
    BY <2>1, TrackForType DEF TracksInv
  <2> QED BY <1>1, <2>1, <2>2, TrackForType
          DEF create_broadcast_source, update_handler, TypeInv, TypeOK, Registered, Entered
<1>2. ASSUME NEW id \in Stream, on_track(id) PROVE TypeInv'
  <2>1. PICK t \in Track : /\ TrackFor(id, t)
                           /\ binding' = [binding EXCEPT ![t] =
                                IF @ # "awaited" THEN @
                                ELSE IF loop'[t] = "waiting" THEN "sent" ELSE "lost"]
    BY <1>2 DEF on_track
  <2>2. binding' \in [Track -> {"awaited", "sent", "lost"}]
    BY <2>1 DEF TypeInv, TypeOK
  <2> QED BY <1>2, <2>1, <2>2, TrackForType
          DEF on_track, TypeInv, TypeOK, TracksInv, Registered, Entered
<1>3. ASSUME NEW s \in Source, drop_source(s) PROVE TypeInv'
  <2>1. handler' \in [Track -> Source \cup {None}]
    BY <1>3 DEF drop_source, remove_handler, TypeInv, TypeOK
  <2>2. /\ events' \in [Source -> Seq(Event)]
        /\ \A r \in Source : Len(events'[r]) <= Capacity
    BY <1>3, BoundsAssumption DEF drop_source, TypeInv, TypeOK, Event
  <2> QED BY <1>3, <2>1, <2>2 DEF drop_source, TypeInv, TypeOK, TracksInv, Entered, Event
<1>4. ASSUME NEW s \in Source, NEW e \in Event, Sent(s, e)
      PROVE  /\ events' \in [Source -> Seq(Event)]
             /\ \A r \in Source : Len(events'[r]) <= Capacity
  <2>1. CASE source[s] = "dropped"
    BY <1>4, <2>1 DEF Sent, TypeInv, TypeOK, Event
  <2>2. CASE source[s] # "dropped"
    <3>1. /\ Len(events[s]) < Capacity /\ events[s] \in Seq(Event)
          /\ events' = [events EXCEPT ![s] = Append(@, e)]
      BY <1>4, <2>2 DEF Sent, TypeInv, TypeOK, Event
    <3>2. Append(events[s], e) \in Seq(Event) /\ Len(Append(events[s], e)) <= Capacity
      BY <3>1, BoundsAssumption
    <3> QED BY <3>1, <3>2 DEF TypeInv, TypeOK, Event
  <2> QED BY <2>1, <2>2
<1>5. ASSUME NEW s \in Source, handle_unmount(s) PROVE TypeInv'
  BY <1>4, <1>5 DEF handle_unmount, TypeInv, TypeOK, TracksInv, Entered, Event
<1>6. ASSUME NEW s \in Source, poll_next(s) PROVE TypeInv'
  <2>1. events[s] \in Seq(Event) /\ events[s] # <<>> /\ Len(events[s]) <= Capacity
    BY <1>6 DEF poll_next, TypeInv, TypeOK, Event
  <2>2. Tail(events[s]) \in Seq(Event) /\ Len(Tail(events[s])) <= Capacity
    BY <2>1, BoundsAssumption
  <2> QED BY <1>6, <2>1, <2>2 DEF poll_next, TypeInv, TypeOK, TracksInv, Entered, Event
<1>7. ASSUME NEW t \in Track, LoopSent(t) PROVE TypeInv'
  <2>1. sending[t] \in Source \X Event
    BY <1>7 DEF LoopSent, TypeInv, TypeOK, Event
  <2>2. sending[t][1] \in Source /\ sending[t][2] \in Event
    BY <2>1
  <2> QED BY <1>4, <1>7, <2>2 DEF LoopSent, TypeInv, TypeOK, TracksInv, Entered, Event
<1>8. ASSUME NEW t \in Track,
             BindingTimeout(t) \/ Bound(t) \/ RemoteEnds(t) \/ ReadError(t)
      PROVE  TypeInv'
  <2>1. CASE Bound(t)
    <3>1. mounted' \subseteq Source
      BY <2>1 DEF Bound, TypeInv, TypeOK
    <3>2. loop' \in [Track -> Registered \cup {"none", "done"}] /\ TracksInv'
      BY <2>1, LoopStep DEF Bound, Registered
    <3> QED BY <2>1, <3>1, <3>2 DEF Bound, TypeInv, TypeOK, Entered, Registered
  <2>2. CASE BindingTimeout(t) \/ ReadError(t)
    <3>1. loop' \in [Track -> Registered \cup {"none", "done"}] /\ TracksInv'
      BY <2>2, LoopStep DEF BindingTimeout, ReadError, Registered
    <3> QED BY <2>2, <3>1 DEF BindingTimeout, ReadError, TypeInv, TypeOK, Entered, Registered
  <2>3. CASE RemoteEnds(t)
    BY <2>3 DEF RemoteEnds, TypeInv, TypeOK, TracksInv, Entered
  <2> QED BY <1>8, <2>1, <2>2, <2>3
<1>9. ASSUME NEW t \in Track, ReadRtp(t) \/ ReadGoodbye(t) \/ handle_closed(t)
      PROVE  TypeInv'
  <2>1. /\ UNCHANGED <<entry_vars, remote_vars, handler, source_vars, channel_vars>>
        /\ loop' = loop \/ (loop[t] = "closing" /\ loop' = [loop EXCEPT ![t] = "removing"])
    BY <1>9 DEF ReadRtp, ReadGoodbye, ReadPacket, handle_closed, LoopAt
  <2>2. sending' \in [Track -> {<<>>} \cup (Source \X Event)]
    <3>1. CASE ReadPacket(t, "Media") \/ ReadPacket(t, "End")
      BY <3>1 DEF ReadPacket, TypeInv, TypeOK, Event
    <3>2. CASE handle_closed(t)
      BY <3>2 DEF handle_closed, TypeInv, TypeOK, Event
    <3> QED BY <1>9, <3>1, <3>2 DEF ReadRtp, ReadGoodbye
  <2>3. /\ loop' \in [Track -> Registered \cup {"none", "done"}]
        /\ TracksInv'
    BY <2>1, LoopStep DEF TypeInv, TypeOK, TracksInv, Registered
  <2> QED BY <2>1, <2>2, <2>3 DEF TypeInv, TypeOK, Entered, Registered, Event
<1>10. ASSUME NEW t \in Track, RemoveTrack(t) PROVE TypeInv'
  <2>1. /\ loop' = [loop EXCEPT ![t] = "done"]
        /\ receiving_tracks' = receiving_tracks \ {t}
        /\ UNCHANGED <<stream, remote_vars, handler, sending, source_vars, channel_vars>>
    BY <1>10 DEF RemoveTrack
  <2>2. TracksInv' /\ receiving_tracks' \subseteq DOMAIN stream'
    BY <2>1 DEF TypeInv, TypeOK, TracksInv, Entered
  <2> QED BY <2>1, <2>2 DEF TypeInv, TypeOK, Entered
<1>11. CASE UNCHANGED vars
  BY <1>11 DEF vars, TypeInv, TypeOK, TracksInv, Entered
<1> QED BY <1>1, <1>2, <1>3, <1>5, <1>6, <1>7, <1>8, <1>9, <1>10, <1>11 DEF Next

-----------------------------------------------------------------------------
\* EndIsOwed for one source, and the strengthening: it sits on a track.
Owed(s) ==
    \/ EndUnderWay(s)
    \/ /\ handler[source_track[s]] = s
       /\ joined[s] = "removing" \/ loop[source_track[s]] \in {"waiting", "running", "closing"}

OwedInv == \A s \in Source : Live(s) => source_track[s] \in Track /\ Owed(s)

LEMMA OwedInit == Init => OwedInv
  BY DEF Init, OwedInv, Live

\* A send from a task puts its event into the channel, which keeps its end.
LEMMA SentEnd ==
  ASSUME TypeInv, NEW s \in Source, NEW e \in Event, Sent(s, e)
  PROVE  \A r \in Source : Live(r) /\ (HasEnd(events[r]) \/ (r = s /\ e = "End"))
                              => HasEnd(events'[r])
<1> SUFFICES ASSUME NEW r \in Source, Live(r), HasEnd(events[r]) \/ (r = s /\ e = "End")
             PROVE  HasEnd(events'[r])
  OBVIOUS
<1>1. events \in [Source -> Seq(Event)]
  BY DEF TypeInv, TypeOK, Event
<1>2. CASE r = s
  <2>1. events'[r] = Append(events[r], e)
    BY <1>1, <1>2 DEF Sent, Live
  <2> QED BY <1>1, <2>1, <1>2, AppendEnd
<1>3. CASE r # s
  BY <1>1, <1>3 DEF Sent
<1> QED BY <1>2, <1>3

\* A source that is on its track or on its way out stays so while the channels
\* keep their ends and neither it nor its track is touched.
LEMMA OwedKept ==
  ASSUME TypeInv, OwedInv, NEW r \in Source, Live(r),
         UNCHANGED <<source_track, joined>>,
         handler'[source_track[r]] = r \/ handler'[source_track[r]] = handler[source_track[r]],
         loop'[source_track[r]] \in {"waiting", "running", "closing"}
           \/ loop'[source_track[r]] = loop[source_track[r]] \/ joined[r] = "removing",
         HasEnd(events[r]) => HasEnd(events'[r]),
         r \in unmounting => r \in unmounting' \/ HasEnd(events'[r]),
         \A t \in Track : sending[t] = <<r, "End">> =>
            sending'[t] = <<r, "End">> \/ HasEnd(events'[r])
  PROVE  source_track'[r] \in Track /\ Owed(r)'
  BY DEF OwedInv, Owed, EndUnderWay

LEMMA OwedNext == TypeInv /\ OwedInv /\ [Next]_vars => OwedInv'
<1> SUFFICES ASSUME TypeInv, OwedInv, [Next]_vars, NEW r \in Source, Live(r)'
             PROVE  source_track'[r] \in Track /\ Owed(r)'
  BY DEF OwedInv
<1> USE DEF entry_vars, remote_vars, track_vars, channel_vars, source_vars
<1>1. ASSUME NEW id \in Stream, NEW s \in Source, create_broadcast_source(s, id)
      PROVE  source_track'[r] \in Track /\ Owed(r)'
  <2>1. PICK t \in Track : /\ TrackFor(id, t) /\ update_handler(t, s)
                           /\ source_track' = [source_track EXCEPT ![s] = t]
                           /\ joined' = [joined EXCEPT ![s] = loop'[t]]
    BY <1>1 DEF create_broadcast_source
  <2>2. /\ \A u \in Track : u # t => loop'[u] = loop[u]
        /\ loop'[t] \in {loop[t], "waiting"} /\ loop'[t] \in Registered
    BY <2>1, TrackForType DEF TracksInv
  <2>3. UNCHANGED <<sending, events>> /\ source' = [source EXCEPT ![s] = "live"]
    BY <1>1 DEF create_broadcast_source
  <2>4. CASE r = s
    <3>1. source_track'[r] = t /\ joined'[r] = loop'[t] /\ handler'[t] = r
      BY <2>1, <2>4 DEF update_handler, TypeInv, TypeOK
    <3> QED BY <2>2, <3>1 DEF Owed, Registered
  <2>5. CASE r # s
    <3>1. Live(r) /\ source_track'[r] = source_track[r] /\ joined'[r] = joined[r]
      BY <2>1, <2>3, <2>5 DEF Live, TypeInv, TypeOK
    <3>2. source_track[r] \in Track /\ Owed(r)
      BY <3>1 DEF OwedInv
    <3>3. EndUnderWay(r) => EndUnderWay(r)'
      BY <2>1, <2>3 DEF EndUnderWay, update_handler
    <3>4. CASE handler[t] = r
      <4>1. r \in unmounting'
        BY <2>1, <3>4 DEF update_handler, Source, None
      <4> QED BY <3>1, <3>2, <4>1 DEF Owed, EndUnderWay
    <3>5. CASE handler[t] # r
      <4>1. handler[source_track[r]] = r => handler'[source_track[r]] = r
        BY <2>1, <3>2, <3>5 DEF update_handler, TypeInv, TypeOK
      <4> QED BY <2>2, <3>1, <3>2, <3>3, <4>1 DEF Owed
    <3> QED BY <3>4, <3>5
  <2> QED BY <2>4, <2>5
<1>2. ASSUME NEW id \in Stream, on_track(id)
      PROVE  source_track'[r] \in Track /\ Owed(r)'
  <2>1. PICK t \in Track : TrackFor(id, t)
    BY <1>2 DEF on_track
  <2>2. UNCHANGED <<handler, sending, source_vars, channel_vars>>
    BY <1>2 DEF on_track
  <2>3. \A u \in Track : loop'[u] \in {loop[u], "waiting"}
    BY <2>1, TrackForType
  <2>4. Live(r) /\ source_track[r] \in Track /\ Owed(r)
    BY <2>2 DEF Live, OwedInv
  <2> QED BY <2>2, <2>3, <2>4 DEF Owed, EndUnderWay
<1>3. ASSUME NEW s \in Source, drop_source(s)
      PROVE  source_track'[r] \in Track /\ Owed(r)'
  <2>1. r # s /\ Live(r) /\ events'[r] = events[r]
    BY <1>3 DEF drop_source, Live, TypeInv, TypeOK
  <2>2. source_track[r] \in Track
    BY <2>1 DEF OwedInv
  <2>3. handler[source_track[r]] = r => handler'[source_track[r]] = r
    BY <1>3, <2>1, <2>2 DEF drop_source, remove_handler, TypeInv, TypeOK
  <2>4. UNCHANGED <<loop, sending, source_track, joined, unmounting>>
    BY <1>3 DEF drop_source
  <2>5. Owed(r)
    BY <2>1 DEF OwedInv
  <2> QED BY <2>1, <2>2, <2>3, <2>4, <2>5 DEF Owed, EndUnderWay
<1>4. ASSUME NEW s \in Source, handle_unmount(s)
      PROVE  source_track'[r] \in Track /\ Owed(r)'
  <2>1. /\ Sent(s, "End") /\ unmounting' = unmounting \ {s}
        /\ UNCHANGED <<loop, handler, sending, source_vars>>
    BY <1>4 DEF handle_unmount
  <2>2. Live(r)
    BY <2>1 DEF Live
  <2>3. (HasEnd(events[r]) \/ r = s) => HasEnd(events'[r])
    BY <2>1, <2>2, SentEnd DEF Event
  <2> QED BY <2>1, <2>2, <2>3, OwedKept
<1>5. ASSUME NEW s \in Source, poll_next(s)
      PROVE  source_track'[r] \in Track /\ Owed(r)'
  <2>1. /\ UNCHANGED <<loop, handler, sending, source_track, joined, unmounting>>
        /\ Live(s) /\ events[s] # <<>> /\ events' = [events EXCEPT ![s] = Tail(@)]
        /\ source' = [source EXCEPT ![s] = IF Head(events[s]) = "End" THEN "ended" ELSE @]
    BY <1>5 DEF poll_next
  <2>2. Live(r) /\ (r = s => Head(events[s]) # "End")
    BY <2>1 DEF Live, TypeInv, TypeOK
  <2>3. events[r] \in Seq(Event) /\ events'[r] = IF r = s THEN Tail(events[r]) ELSE events[r]
    BY <2>1 DEF TypeInv, TypeOK, Event
  <2>4. HasEnd(events[r]) => HasEnd(events'[r])
    BY <2>1, <2>2, <2>3, TailEnd
  <2> QED BY <2>1, <2>2, <2>4, OwedKept
<1>6. ASSUME NEW t \in Track, LoopSent(t)
      PROVE  source_track'[r] \in Track /\ Owed(r)'
  <2>1. /\ Sent(sending[t][1], sending[t][2]) /\ sending' = [sending EXCEPT ![t] = <<>>]
        /\ UNCHANGED <<loop, handler, source_vars, unmounting>>
    BY <1>6 DEF LoopSent
  <2>2. sending[t] \in Source \X Event
    BY <1>6 DEF LoopSent, TypeInv, TypeOK, Event
  <2>3. sending[t][1] \in Source /\ sending[t][2] \in Event
    BY <2>2
  <2>4. Live(r)
    BY <2>1 DEF Live
  <2>5. HasEnd(events[r]) \/ (r = sending[t][1] /\ sending[t][2] = "End") => HasEnd(events'[r])
    BY <2>1, <2>3, <2>4, SentEnd
  <2>6. \A u \in Track : sending[u] = <<r, "End">> =>
           sending'[u] = <<r, "End">> \/ HasEnd(events'[r])
    BY <2>1, <2>5 DEF TypeInv, TypeOK
  <2> QED BY <2>1, <2>4, <2>5, <2>6, OwedKept
<1>7. ASSUME NEW t \in Track, BindingTimeout(t) \/ Bound(t) \/ RemoteEnds(t) \/ ReadError(t)
      PROVE  source_track'[r] \in Track /\ Owed(r)'
  <2>1. /\ UNCHANGED <<handler, sending, source, source_track, joined, channel_vars>>
        /\ loop' = loop \/ \E pc \in {"running", "closing"} : loop' = [loop EXCEPT ![t] = pc]
    BY <1>7 DEF BindingTimeout, Bound, RemoteEnds, ReadError
  <2>2. \A u \in Track : loop'[u] = loop[u] \/ loop'[u] \in {"running", "closing"}
    BY <2>1 DEF TypeInv, TypeOK
  <2>3. Live(r) /\ source_track[r] \in Track
    BY <2>1 DEF Live, OwedInv
  <2> QED BY <2>1, <2>2, <2>3, OwedKept
<1>8. ASSUME NEW t \in Track, ReadRtp(t) \/ ReadGoodbye(t)
      PROVE  source_track'[r] \in Track /\ Owed(r)'
  <2>1. PICK e \in Event : ReadPacket(t, e)
    BY <1>8 DEF ReadRtp, ReadGoodbye, Event
  <2>2. sending[t] = <<>> /\ sending' = [sending EXCEPT ![t] = <<handler[t], e>>]
    BY <2>1 DEF ReadPacket, LoopAt
  <2>3. UNCHANGED <<track_vars, handler, source_vars, channel_vars>>
    BY <2>1 DEF ReadPacket
  <2>4. Live(r)
    BY <2>3 DEF Live
  <2>5. \A u \in Track : sending[u] = <<r, "End">> => sending'[u] = <<r, "End">>
    BY <2>2 DEF TypeInv, TypeOK
  <2> QED BY <2>3, <2>4, <2>5, OwedKept
<1>9. ASSUME NEW t \in Track, handle_closed(t)
      PROVE  source_track'[r] \in Track /\ Owed(r)'
  <2>1. /\ sending[t] = <<>>
        /\ sending' = [sending EXCEPT ![t] =
                         IF handler[t] = None THEN <<>> ELSE <<handler[t], "End">>]
        /\ loop' = [loop EXCEPT ![t] = "removing"]
        /\ UNCHANGED <<entry_vars, remote_vars, handler, source_vars, channel_vars>>
    BY <1>9 DEF handle_closed, LoopAt
  <2>2. Live(r)
    BY <2>1 DEF Live
  <2>3. source_track[r] \in Track /\ Owed(r)
    BY <2>2 DEF OwedInv
  <2>4. \A u \in Track : sending[u] = <<r, "End">> => sending'[u] = <<r, "End">>
    <3>1. \A u \in Track \ {t} : sending'[u] = sending[u]
      BY <2>1 DEF TypeInv, TypeOK
    <3>2. sending[t] # <<r, "End">>
      BY <2>1
    <3> QED BY <3>1, <3>2
  <2>5. CASE handler[t] = r
    <3>1. sending'[t] = <<r, "End">>
      BY <2>1, <2>5 DEF TypeInv, TypeOK, Source, None
    <3> QED BY <2>1, <2>3, <3>1 DEF Owed, EndUnderWay
  <2>6. CASE handler[t] # r
    <3>1. handler[source_track[r]] = r => loop'[source_track[r]] = loop[source_track[r]]
      BY <2>1, <2>3, <2>6 DEF TypeInv, TypeOK
    <3> QED BY <2>1, <2>3, <2>4, <3>1 DEF Owed, EndUnderWay
  <2> QED BY <2>5, <2>6
<1>10. ASSUME NEW t \in Track, RemoveTrack(t)
       PROVE  source_track'[r] \in Track /\ Owed(r)'
  <2>1. /\ loop[t] = "removing" /\ loop' = [loop EXCEPT ![t] = "done"]
        /\ UNCHANGED <<stream, remote_vars, handler, sending, source_vars, channel_vars>>
    BY <1>10 DEF RemoveTrack, LoopAt
  <2>2. Live(r)
    BY <2>1 DEF Live
  <2>3. source_track[r] \in Track /\ Owed(r)
    BY <2>2 DEF OwedInv
  <2>4. loop[source_track[r]] # "removing" => loop'[source_track[r]] = loop[source_track[r]]
    BY <2>1, <2>3 DEF TypeInv, TypeOK
  <2> QED BY <2>1, <2>3, <2>4 DEF Owed, EndUnderWay
<1>11. CASE UNCHANGED vars
  BY <1>11 DEF vars, Live, OwedInv, Owed, EndUnderWay
<1> QED BY <1>1, <1>2, <1>3, <1>4, <1>5, <1>6, <1>7, <1>8, <1>9, <1>10, <1>11 DEF Next

-----------------------------------------------------------------------------
LEMMA InvCorrect == Spec => [](TypeInv /\ OwedInv)
<1>1. Init => TypeInv /\ OwedInv
  BY TypeInit, OwedInit
<1>2. TypeInv /\ OwedInv /\ [Next]_vars => (TypeInv /\ OwedInv)'
  BY TypeNext, OwedNext
<1> QED BY <1>1, <1>2, PTL DEF Spec

\* Tracks and sources are well typed; no channel of a source overflows.
THEOREM TypeCorrect == Spec => []TypeOK
<1>1. TypeInv => TypeOK
  BY DEF TypeInv
<1> QED BY <1>1, InvCorrect, PTL

\* Whoever still reads a source has its end under way or can count on it.
THEOREM EndsAreOwed == Spec => []EndIsOwed
<1>1. OwedInv => EndIsOwed
  BY DEF OwedInv, Owed, EndIsOwed
<1> QED BY <1>1, InvCorrect, PTL

\* A source that is read loses its track to a newer broadcast of it only.
THEOREM InstalledSourcesStay == Spec => InstalledStays
<1> DEFINE Stays == \A t \in Track : handler[t] # None /\ handler'[t] # handler[t]
              => \/ source'[handler[t]] = "dropped"
                 \/ handler'[t] # None /\ source[handler'[t]] = "none"
<1>1. ASSUME TypeInv, [Next]_vars PROVE [Stays]_vars
  <2> USE DEF entry_vars, remote_vars, track_vars, channel_vars, source_vars
  <2>1. ASSUME NEW id \in Stream, NEW s \in Source, create_broadcast_source(s, id) PROVE Stays
    <3>1. PICK t \in Track : handler' = [handler EXCEPT ![t] = s]
      BY <2>1 DEF create_broadcast_source, update_handler
    <3> QED BY <1>1, <2>1, <3>1 DEF create_broadcast_source, TypeInv, TypeOK, Source, None
  <2>2. ASSUME NEW s \in Source, drop_source(s) PROVE Stays
    <3>1. source'[s] = "dropped"
      BY <1>1, <2>2 DEF drop_source, TypeInv, TypeOK
    <3>2. \A t \in Track : handler'[t] # handler[t] => handler[t] = s
      BY <1>1, <2>2 DEF drop_source, remove_handler, TypeInv, TypeOK
    <3> QED BY <3>1, <3>2
  <2>3. ASSUME UNCHANGED handler PROVE Stays
    BY <2>3
  <2>4. ASSUME NEW t \in Track,
               \/ BindingTimeout(t) \/ Bound(t) \/ ReadRtp(t) \/ ReadGoodbye(t) \/ RemoteEnds(t)
               \/ ReadError(t) \/ handle_closed(t) \/ RemoveTrack(t) \/ LoopSent(t)
        PROVE  UNCHANGED handler
    BY <2>4 DEF BindingTimeout, Bound, ReadRtp, ReadGoodbye, ReadPacket, RemoteEnds, ReadError,
                handle_closed, RemoveTrack, LoopSent
  <2>5. ASSUME NEW s \in Source, handle_unmount(s) \/ poll_next(s) PROVE UNCHANGED handler
    BY <2>5 DEF handle_unmount, poll_next
  <2>6. ASSUME NEW id \in Stream, on_track(id) PROVE UNCHANGED handler
    BY <2>6 DEF on_track
  <2>7. CASE UNCHANGED vars
    BY <2>7
  <2> QED BY <1>1, <2>1, <2>2, <2>3, <2>4, <2>5, <2>6, <2>7 DEF Next
<1> QED BY <1>1, InvCorrect, PTL DEF Spec, InstalledStays
=============================================================================
