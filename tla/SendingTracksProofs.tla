-------------------------- MODULE SendingTracksProofs --------------------------
(***************************************************************************)
(* The sending tracks of a client and the patchers that number what is     *)
(* written to them.  For any broadcasts, tracks and targets: a sending     *)
(* track has the target of a subscription or of the request under way, and *)
(* each of these has its track.  For any width of numbers and any gap: a   *)
(* patcher makes one source of many.                                       *)
(***************************************************************************)
EXTENDS SendingTracks, SequencePatcher, TLAPS

At == {"none", "kind", "target", "panicked"}

LEMMA TypeInit == Init => TypeOK
  BY BoundsAssumption DEF Init, TypeOK, NoRequest, Track, Target, None

LEMMA TypeNext == TypeOK /\ [Next]_vars => TypeOK'
<1> SUFFICES ASSUME TypeOK, [Next]_vars PROVE TypeOK'
  OBVIOUS
<1> USE DEF TypeOK, room_vars, track_vars, target_vars, key_frame_vars
<1>1. ASSUME NEW b \in Broadcast,
             \/ client_broadcast_start(b) \/ broadcast_ends(b) \/ BroadcastSubscribe(b)
      PROVE  TypeOK'
  BY <1>1 DEF client_broadcast_start, broadcast_ends, BroadcastSubscribe
<1>2. ASSUME NEW b \in Broadcast, finish_broadcast(b) \/ client_broadcast_unsubscribe(b)
      PROVE  TypeOK'
  BY <1>2 DEF finish_broadcast, client_broadcast_unsubscribe, Freed
<1>3. ASSUME NEW b \in Broadcast, poll_next(b) PROVE TypeOK'
  <2>1. targets[b] \in Target /\ events[targets[b]] \in 0 .. Capacity /\ events[targets[b]] > 0
    BY <1>3 DEF poll_next
  <2>2. events[targets[b]] - 1 \in 0 .. Capacity
    BY <2>1, BoundsAssumption
  <2> QED BY <1>3, <2>1, <2>2 DEF poll_next
<1>4. ASSUME NEW n \in Target, create_broadcast_target(n) PROVE TypeOK'
  <2>1. PICK t \in Track : /\ FreeTrack(t)
                           /\ event_handler' = [event_handler EXCEPT ![t] = n]
                           /\ track' = [track EXCEPT ![n] = t]
    BY <1>4 DEF create_broadcast_target
  <2>2. /\ sending_tracks' \subseteq Track
        /\ loop' \in [Track -> {"none", "running", "ended", "removed"}]
    BY <2>1 DEF FreeTrack, create_sending_track
  <2>3. request' \in [at : At, broadcast : Broadcast \cup {None}, target : Target \cup {None}]
    BY <1>4 DEF create_broadcast_target, At
  <2> QED BY <1>4, <2>1, <2>2, <2>3 DEF create_broadcast_target, At
<1>5. CASE create_broadcast_target_panics
  BY <1>5 DEF create_broadcast_target_panics, NoRequest, None
<1>6. CASE client_broadcast_subscribe
  BY <1>6 DEF client_broadcast_subscribe, Freed, NoRequest, None
<1>7. CASE close
  BY <1>7 DEF close
<1>8. ASSUME NEW t \in Track, handle_rtcp(t) \/ handle_rtcp_error(t) \/ remove_track(t)
      PROVE  TypeOK'
  BY <1>8 DEF handle_rtcp, handle_rtcp_error, remove_track
<1>9. ASSUME NEW t \in Track, KeyFrameAsked(t) PROVE TypeOK'
  <2>1. asking[t] \in Target
    BY <1>9 DEF KeyFrameAsked
  <2>2. events' \in [Target -> 0 .. Capacity]
    BY <1>9, <2>1, BoundsAssumption DEF KeyFrameAsked
  <2> QED BY <1>9, <2>2 DEF KeyFrameAsked
<1>10. CASE UNCHANGED vars
  BY <1>10 DEF vars
<1> QED BY <1>1, <1>2, <1>3, <1>4, <1>5, <1>6, <1>7, <1>8, <1>9, <1>10 DEF Next

-----------------------------------------------------------------------------
\* The strengthening: a target is held once, every held target has a track, and
\* only tracks of the client have handlers.
Holds(n) == event_handler[track[n]] = n /\ track[n] \in Track

HeldOnce ==
    /\ \A b, d \in Broadcast : targets[b] # None /\ targets[b] = targets[d] => b = d
    /\ \A b \in Broadcast : targets[b] # None => targets[b] # request.target /\ Holds(targets[b])
    /\ request.target # None => request.at = "target" /\ Holds(request.target)
    /\ request.at = "target" => request.target # None
    /\ request.at \in {"kind", "target"} => request.broadcast \in Broadcast
    /\ \A t \in Track \ sending_tracks : event_handler[t] = None

\* Every handler is held, by the target whose track it is on.
HandlersHeld ==
    \A t \in Track : event_handler[t] # None =>
        event_handler[t] \in Held /\ track[event_handler[t]] = t

HeldInv == HeldOnce /\ HandlersHeld

LEMMA HeldInit == Init => HeldInv
  BY DEF Init, HeldInv, HandlersHeld, HeldOnce, Holds, Held, NoRequest, None

\* What the drop of one held target does: its track is free, the others keep
\* theirs.
LEMMA DropOne ==
  ASSUME TypeOK, HeldInv, NEW n \in Target \cup {None}, n # None => Holds(n), Freed({n})
  PROVE  /\ \A m \in Target : m # n /\ Holds(m) => event_handler'[track[m]] = m
         /\ \A t \in Track : event_handler'[t] # None =>
               event_handler'[t] = event_handler[t] /\ event_handler[t] \in Held \ {n}
<1>1. CASE n = None
  <2>1. event_handler' = [t \in Track |-> event_handler[t]]
    BY <1>1 DEF Freed
  <2> QED BY <1>1, <2>1 DEF TypeOK, HeldInv, HandlersHeld, Holds
<1>2. CASE n # None
  <2>1. event_handler' = [t \in Track |-> IF t = track[n] THEN None ELSE event_handler[t]]
    BY <1>2 DEF Freed
  <2> QED BY <1>2, <2>1 DEF TypeOK, HeldInv, HandlersHeld, Holds
<1> QED BY <1>1, <1>2

LEMMA HeldNext == TypeOK /\ HeldInv /\ [Next]_vars => HeldInv'
<1> SUFFICES ASSUME TypeOK, HeldInv, [Next]_vars PROVE HeldInv'
  OBVIOUS
<1> USE DEF room_vars, track_vars, target_vars, key_frame_vars
<1>1. ASSUME NEW b \in Broadcast,
             client_broadcast_start(b) \/ broadcast_ends(b) \/ poll_next(b)
      PROVE  HeldInv'
  BY <1>1 DEF client_broadcast_start, broadcast_ends, poll_next, HeldInv, HandlersHeld, HeldOnce, Holds, Held
<1>2. ASSUME NEW b \in Broadcast, BroadcastSubscribe(b) PROVE HeldInv'
  BY <1>2 DEF BroadcastSubscribe, HeldInv, HandlersHeld, HeldOnce, Holds, Held, NoRequest, None
<1>3. ASSUME NEW b \in Broadcast, finish_broadcast(b) \/ client_broadcast_unsubscribe(b)
      PROVE  HeldInv'
  <2>1. /\ targets' = [targets EXCEPT ![b] = None] /\ Freed({targets[b]})
        /\ UNCHANGED <<request, track, sending_tracks>>
    BY <1>3 DEF finish_broadcast, client_broadcast_unsubscribe
  <2>2. targets[b] \in Target \cup {None} /\ (targets[b] # None => Holds(targets[b]))
    BY DEF TypeOK, HeldInv, HeldOnce
  <2>3. \A m \in Target : m # targets[b] /\ Holds(m) => Holds(m)'
    BY <2>1, <2>2, DropOne DEF Holds
  <2>4. \A t \in Track : event_handler'[t] # None =>
           event_handler'[t] = event_handler[t] /\ event_handler[t] \in Held \ {targets[b]}
    BY <2>1, <2>2, DropOne
  <2>5. Held \ {targets[b]} \subseteq Held'
    BY <2>1 DEF Held, TypeOK
  <2>6. HeldOnce'
    BY <2>1, <2>3, <2>4 DEF TypeOK, HeldInv, HeldOnce
  <2> QED BY <2>1, <2>4, <2>5, <2>6 DEF HeldInv, HandlersHeld
<1>4. ASSUME NEW n \in Target, create_broadcast_target(n) PROVE HeldInv'
  <2>1. PICK t \in Track : /\ FreeTrack(t)
                           /\ event_handler' = [event_handler EXCEPT ![t] = n]
                           /\ track' = [track EXCEPT ![n] = t]
    BY <1>4 DEF create_broadcast_target
  <2>2. /\ request.at = "kind" /\ track[n] = None
        /\ request' = [at |-> "target", broadcast |-> request.broadcast, target |-> n]
        /\ UNCHANGED <<targets, broadcasts>>
    BY <1>4 DEF create_broadcast_target
  <2>3. event_handler[t] = None /\ t \in sending_tracks' /\ sending_tracks \subseteq sending_tracks'
    BY <2>1 DEF FreeTrack, create_sending_track, HeldInv, HeldOnce
  <2>4. None \notin Track /\ None \notin Target
    BY DEF None, Track, Target
  <2>5. \A b \in Broadcast : targets[b] # n
    BY <2>2, <2>4 DEF HeldInv, HeldOnce, Holds
  <2>6. request'.at = "target" /\ request'.target = n /\ request'.broadcast = request.broadcast
    BY <2>2 DEF TypeOK
  <2>7. Holds(n)'
    BY <2>1 DEF TypeOK, Holds
  <2>8. \A m \in Target \ {n} : Holds(m) => Holds(m)'
    BY <2>1, <2>3, <2>4 DEF TypeOK, Holds
  <2>9. request.target = None
    BY <2>2 DEF HeldInv, HeldOnce
  <2>10. HeldOnce'
    BY <2>1, <2>2, <2>3, <2>4, <2>5, <2>6, <2>7, <2>8 DEF TypeOK, HeldInv, HeldOnce
  <2>11. Held \subseteq Held' \cup {None} /\ n \in Held'
    BY <2>2, <2>6, <2>9 DEF Held
  <2>12. n \notin Held
    BY <2>4, <2>5, <2>9 DEF Held
  <2>13. \A m \in Target : m # n => track'[m] = track[m]
    BY <2>1 DEF TypeOK
  <2>14. HandlersHeld'
    <3> SUFFICES ASSUME NEW u \in Track, event_handler'[u] # None
                 PROVE  event_handler'[u] \in Held' /\ track'[event_handler'[u]] = u
      BY DEF HandlersHeld
    <3>1. CASE u = t
      BY <2>1, <2>11, <3>1 DEF TypeOK
    <3>2. CASE u # t
      <4>1. event_handler'[u] = event_handler[u]
        BY <2>1, <3>2 DEF TypeOK
      <4>2. event_handler[u] \in Held /\ track[event_handler[u]] = u
        BY <4>1 DEF HeldInv, HandlersHeld
      <4> QED BY <2>11, <2>12, <2>13, <4>1, <4>2 DEF TypeOK
    <3> QED BY <3>1, <3>2
  <2> QED BY <2>10, <2>14 DEF HeldInv
<1>5. CASE create_broadcast_target_panics
  BY <1>5 DEF create_broadcast_target_panics, HeldInv, HandlersHeld, HeldOnce, Holds, Held, NoRequest, None
<1>6. CASE client_broadcast_subscribe
  <2>1. /\ request.at = "target" /\ request.target \in Target /\ request.broadcast \in Broadcast
        /\ Holds(request.target)
        /\ request' = NoRequest /\ UNCHANGED <<track, sending_tracks>>
    BY <1>6 DEF client_broadcast_subscribe, TypeOK, HeldInv, HeldOnce
  <2>2. CASE Refused
    <3>1. Freed({request.target}) /\ targets' = targets
      BY <1>6, <2>2 DEF client_broadcast_subscribe
    <3>2. \A m \in Target : m # request.target /\ Holds(m) => Holds(m)'
      BY <2>1, <3>1, DropOne DEF Holds
    <3>3. \A t \in Track : event_handler'[t] # None =>
             event_handler'[t] = event_handler[t] /\ event_handler[t] \in Held \ {request.target}
      BY <2>1, <3>1, DropOne
    <3>4. Held \ {request.target} \subseteq Held'
      BY <3>1 DEF Held
    <3>5. HeldOnce'
      BY <2>1, <3>1, <3>2, <3>3 DEF TypeOK, HeldInv, HeldOnce, NoRequest, None
    <3> QED BY <2>1, <3>3, <3>4, <3>5 DEF HeldInv, HandlersHeld
  <2>3. CASE ~Refused
    <3>1. /\ targets' = [targets EXCEPT ![request.broadcast] = request.target]
          /\ targets[request.broadcast] = None
      BY <1>6, <2>3 DEF client_broadcast_subscribe, Refused
    <3>2. event_handler' = event_handler
      <4>1. event_handler' = [t \in Track |-> event_handler[t]]
        BY <1>6, <2>3 DEF client_broadcast_subscribe, Freed
      <4> QED BY <4>1 DEF TypeOK
    <3>3. \A m \in Target : Holds(m)' <=> Holds(m)
      BY <2>1, <3>2 DEF Holds
    <3>4. HeldOnce'
      BY <2>1, <3>1, <3>2, <3>3 DEF TypeOK, HeldInv, HeldOnce, NoRequest, None
    <3>5. Held \subseteq Held' \cup {None}
      BY <2>1, <3>1 DEF TypeOK, Held
    <3> QED BY <2>1, <3>2, <3>4, <3>5 DEF HeldInv, HandlersHeld
  <2> QED BY <2>2, <2>3
<1>7. CASE close
  BY <1>7 DEF close, HeldInv, HandlersHeld, HeldOnce, Holds, Held
<1>8. ASSUME NEW t \in Track,
             handle_rtcp(t) \/ KeyFrameAsked(t) \/ handle_rtcp_error(t) \/ remove_track(t)
      PROVE  HeldInv'
  BY <1>8 DEF handle_rtcp, KeyFrameAsked, handle_rtcp_error, remove_track,
              HeldInv, HandlersHeld, HeldOnce, Holds, Held
<1>9. CASE UNCHANGED vars
  BY <1>9 DEF vars, HeldInv, HandlersHeld, HeldOnce, Holds, Held
<1> QED BY <1>1, <1>2, <1>3, <1>4, <1>5, <1>6, <1>7, <1>8, <1>9 DEF Next

-----------------------------------------------------------------------------
LEMMA InvCorrect == Spec => [](TypeOK /\ HeldInv)
<1>1. Init => TypeOK /\ HeldInv
  BY TypeInit, HeldInit
<1>2. TypeOK /\ HeldInv /\ [Next]_vars => (TypeOK /\ HeldInv)'
  BY TypeNext, HeldNext
<1> QED BY <1>1, <1>2, PTL DEF Spec

\* Tracks, targets and requests are well typed; no channel of key frame
\* requests overflows.
THEOREM TypeCorrect == Spec => []TypeOK
<1> QED BY InvCorrect, PTL

\* Subscribing in three sections never leaks, shares or steals a track.
THEOREM TracksAreSubscriptions == Spec => []HandlersAreSubscriptions
<1>1. TypeOK /\ HeldInv => HandlersAreSubscriptions
  BY DEF TypeOK, HeldInv, HandlersHeld, HeldOnce, Holds, Held, HandlersAreSubscriptions
<1> QED BY <1>1, InvCorrect, PTL
-----------------------------------------------------------------------------
(* The patcher for every width of numbers, every gap within the overflow    *)
(* window and every lateness below half the gap.  The heart of it is that   *)
(* wrapping_difference, which looks at the ends of the number range only,   *)
(* measures the way around the circle whenever that is at most MaxGap.      *)

LEMMA WindowBound == Window \in Nat /\ 4 * Window < Modulus /\ MaxGap <= Window
  BY PatcherAssumption DEF Window

\* wrapping_difference tells near numbers from far ones and measures the near.
LEMMA DifferenceIsDistance ==
  ASSUME NEW a \in Number, NEW b \in Number
  PROVE  IF Circular(a, b) <= MaxGap
         THEN wrapping_difference(a, b) = Circular(a, b)
         ELSE wrapping_difference(a, b) > MaxGap
<1> USE PatcherAssumption, WindowBound
         DEF Number, Circular, wrapping_difference, WrappingSub, Larger, Smaller
<1>1. CASE a = b
  BY <1>1
<1>2. CASE a < b
  BY <1>2
<1>3. CASE a > b
  BY <1>3
<1> QED BY <1>1, <1>2, <1>3

\* The branch taken on a near number is the one of its direction.
LEMMA DirectionIsRight ==
  ASSUME NEW a \in Number, NEW b \in Number, Circular(a, b) <= MaxGap
  PROVE  WrappingAdd(a, Circular(a, b)) = b <=> WrappingSub(b, a) <= WrappingSub(a, b)
<1> USE PatcherAssumption, WindowBound
         DEF Number, Circular, WrappingAdd, WrappingSub, Smaller
<1>1. CASE a = b
  BY <1>1
<1>2. CASE a < b
  BY <1>2
<1>3. CASE a > b
  BY <1>3
<1> QED BY <1>1, <1>2, <1>3

\* A near value moves the output the way it moves the input.
LEMMA ProcessedNear ==
  ASSUME NEW value \in Number, reference \in Number, current \in Number,
         Circular(reference, value) <= MaxGap
  PROVE  /\ Processed(value) \in Number
         /\ WrappingSub(Processed(value), value) = WrappingSub(current, reference)
         /\ Displacement(current, Processed(value)) = Displacement(reference, value)
         /\ Displacement(reference, value) \in -MaxGap .. MaxGap
<1> DEFINE d == Circular(reference, value)
<1>1. reference # NoReference
  BY DEF Number, NoReference
<1>2. wrapping_difference(reference, value) = d /\ ~(d > MaxGap)
  BY DifferenceIsDistance, PatcherAssumption DEF Number, Circular, Smaller, WrappingSub
<1>3. Processed(value) = IF WrappingSub(value, reference) <= WrappingSub(reference, value)
                         THEN WrappingAdd(current, d) ELSE WrappingSub(current, d)
  BY <1>1, <1>2, DirectionIsRight DEF Processed
<1>4. CASE WrappingSub(value, reference) <= WrappingSub(reference, value)
  <2>1. d = WrappingSub(value, reference) /\ Processed(value) = WrappingAdd(current, d)
    BY <1>3, <1>4, PatcherAssumption DEF Circular, Smaller, WrappingSub, Number
  <2> HIDE DEF d
  <2>2. d \in 0 .. MaxGap
    BY <1>2, <2>1, PatcherAssumption DEF WrappingSub, Number
  <2>3. Displacement(reference, value) = d
    BY <1>4, <2>1 DEF Displacement
  <2>4. Processed(value) \in Number /\ Displacement(current, Processed(value)) = d
    BY <2>1, <2>2, PatcherAssumption, WindowBound
       DEF Displacement, WrappingSub, WrappingAdd, Number
  <2>5. WrappingSub(Processed(value), value) = WrappingSub(current, reference)
    BY <2>1, PatcherAssumption DEF WrappingSub, WrappingAdd, Number
  <2> QED BY <2>2, <2>3, <2>4, <2>5, PatcherAssumption
<1>5. CASE ~(WrappingSub(value, reference) <= WrappingSub(reference, value))
  <2>1. d = WrappingSub(reference, value) /\ Processed(value) = WrappingSub(current, d)
    BY <1>3, <1>5, PatcherAssumption DEF Circular, Smaller, WrappingSub, Number
  <2> HIDE DEF d
  <2>2. d \in 1 .. MaxGap
    BY <1>2, <1>5, <2>1, PatcherAssumption DEF WrappingSub, Number
  <2>3. Displacement(reference, value) = -d
    BY <1>5, <2>1 DEF Displacement
  <2>4. Processed(value) \in Number /\ Displacement(current, Processed(value)) = -d
    BY <2>1, <2>2, PatcherAssumption, WindowBound
       DEF Displacement, WrappingSub, Number
  <2>5. WrappingSub(Processed(value), value) = WrappingSub(current, reference)
    BY <2>1, PatcherAssumption DEF WrappingSub, Number
  <2> QED BY <2>2, <2>3, <2>4, <2>5, PatcherAssumption
<1> QED BY <1>4, <1>5

\* A far value starts a sequence MaxGap further on.
LEMMA ProcessedFar ==
  ASSUME NEW value \in Number, reference \in Number, current \in Number,
         ~(Circular(reference, value) <= MaxGap)
  PROVE  /\ Processed(value) = WrappingAdd(current, MaxGap)
         /\ Processed(value) \in Number
         /\ Displacement(current, Processed(value)) = MaxGap
<1>1. reference # NoReference /\ wrapping_difference(reference, value) > MaxGap
  BY DifferenceIsDistance DEF Number, NoReference
<1>2. Processed(value) = WrappingAdd(current, MaxGap)
  BY <1>1 DEF Processed, SequenceBase
<1> QED BY <1>2, PatcherAssumption, WindowBound
           DEF Displacement, WrappingAdd, WrappingSub, Number

-----------------------------------------------------------------------------
\* What the observer's numbers have to do with the patcher's: the lateness of
\* the output is the lateness of the input, and a sequence begins more than
\* Late above everything before it.
SequenceInv ==
    /\ PatcherTypeOK
    /\ top - position = lead
    /\ floor + Late < top

LEMMA SequenceInit == PatcherInit => SequenceInv
  BY PatcherAssumption DEF PatcherInit, SequenceInv, PatcherTypeOK

LEMMA SequenceNext == SequenceInv /\ [PatcherNext]_patcher_vars => SequenceInv' /\ KeepsOffset
<1> SUFFICES ASSUME SequenceInv, [PatcherNext]_patcher_vars PROVE SequenceInv' /\ KeepsOffset
  OBVIOUS
<1> USE PatcherAssumption
<1>t. PatcherTypeOK
  BY DEF SequenceInv
<1>1. ASSUME NEW value \in Number, First(value) PROVE SequenceInv' /\ KeepsOffset
  <2>1. current' = current /\ reference' = value
    BY <1>1 DEF First, process, Processed
  <2>2. KeepsOffset
    BY <1>1 DEF First, KeepsOffset
  <2> QED BY <1>1, <2>1, <2>2 DEF First, SequenceInv, PatcherTypeOK
<1>2. ASSUME NEW value \in Number, Continue(value) PROVE SequenceInv' /\ KeepsOffset
  <2> DEFINE d == Displacement(reference, value)
  <2>1. /\ reference \in Number /\ reference' = value
        /\ current' = Processed(value)
        /\ Circular(reference, value) <= MaxGap
    BY <1>t, <1>2 DEF Continue, SameSequence, process, PatcherTypeOK
  <2>2. /\ current' \in Number
        /\ WrappingSub(current', value) = WrappingSub(current, reference)
        /\ Displacement(current, current') = d
        /\ d \in Int
    BY <1>t, <2>1, ProcessedNear DEF PatcherTypeOK
  <2> HIDE DEF d
  <2>3. KeepsOffset
    BY <2>1, <2>2 DEF KeepsOffset
  <2>4. /\ lead' = Larger(0, lead - d) /\ lead' <= Late
        /\ position' = position + d
        /\ top' = Larger(top, position')
        /\ floor' = floor
    BY <1>2, <2>2 DEF Continue, Observed, d
  <2>5. /\ lead \in 0 .. Late /\ position \in Int /\ top \in Int /\ floor \in Int
        /\ top - position = lead /\ floor + Late < top
    BY DEF SequenceInv, PatcherTypeOK
  <2>6. /\ lead' \in 0 .. Late /\ position' \in Int /\ top' \in Int /\ floor' \in Int
        /\ top' - position' = lead' /\ floor' + Late < top'
    BY <2>2, <2>4, <2>5 DEF Larger
  <2> QED BY <2>1, <2>2, <2>3, <2>6 DEF SequenceInv, PatcherTypeOK
<1>3. ASSUME NEW value \in Number, NewSequence(value) PROVE SequenceInv' /\ KeepsOffset
  <2>1. /\ reference \in Number /\ reference' = value
        /\ current' = Processed(value)
        /\ ~(Circular(reference, value) <= MaxGap)
    BY <1>t, <1>3 DEF NewSequence, SameSequence, process, PatcherTypeOK
  <2>2. /\ current' \in Number
        /\ current' = WrappingAdd(current, MaxGap)
        /\ Displacement(current, current') = MaxGap
    BY <1>t, <2>1, ProcessedFar DEF PatcherTypeOK
  <2>3. KeepsOffset
    BY <2>1, <2>2 DEF KeepsOffset
  <2>4. /\ lead' = 0 /\ floor' = top
        /\ position' = position + MaxGap /\ top' = position'
    BY <1>3, <2>2 DEF NewSequence, Observed
  <2>5. /\ lead \in 0 .. Late /\ position \in Int /\ top \in Int
        /\ top - position = lead
    BY DEF SequenceInv, PatcherTypeOK
  <2>6. /\ lead' \in 0 .. Late /\ position' \in Int /\ top' \in Int /\ floor' \in Int
        /\ top' - position' = lead' /\ floor' + Late < top'
    BY <2>4, <2>5
  <2> QED BY <2>1, <2>2, <2>3, <2>6 DEF SequenceInv, PatcherTypeOK
<1>4. CASE UNCHANGED patcher_vars
  <2>1. SequenceInv'
    BY <1>4 DEF patcher_vars, SequenceInv, PatcherTypeOK
  <2>2. KeepsOffset
    <3> SUFFICES ASSUME reference # NoReference
                 PROVE  /\ Circular(reference, reference') <= MaxGap
                        /\ WrappingSub(current', reference') = WrappingSub(current, reference)
      BY DEF KeepsOffset
    <3>1. reference \in Number
      BY <1>t DEF PatcherTypeOK
    <3> QED BY <1>4, <3>1 DEF patcher_vars, Circular, Smaller, WrappingSub, Number
  <2> QED BY <2>1, <2>2
<1> QED BY <1>1, <1>2, <1>3, <1>4 DEF PatcherNext

-----------------------------------------------------------------------------
\* The patcher stays within the numbers of its width.
THEOREM NumbersFit == PatcherSpec => []PatcherTypeOK
<1>1. SequenceInv => PatcherTypeOK
  BY PatcherAssumption DEF SequenceInv, PatcherTypeOK
<1> QED BY <1>1, SequenceInit, SequenceNext, PTL DEF PatcherSpec

\* No sequence is given a number of an earlier one.
THEOREM SequencesAreFresh == PatcherSpec => []FreshAcrossSequences
<1>1. SequenceInv => FreshAcrossSequences
  BY PatcherAssumption DEF SequenceInv, PatcherTypeOK, FreshAcrossSequences
<1> QED BY <1>1, SequenceInit, SequenceNext, PTL DEF PatcherSpec

\* Packets of one sequence keep their distances over every wrap.
THEOREM OffsetsAreKept == PatcherSpec => OffsetKept
<1> QED BY SequenceInit, SequenceNext, PTL DEF PatcherSpec, OffsetKept
=============================================================================
