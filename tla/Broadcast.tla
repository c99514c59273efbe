------------------------------ MODULE Broadcast ------------------------------
(***************************************************************************)
(* One ClientBroadcast future (`impl Future for ClientBroadcast`, room.rs) *)
(* and what wakes it.  A future is polled only after one of the streams it *)
(* waits on woke it, and a stream wakes only a waker that was registered   *)
(* when the stream was last polled and found empty.  A target subscribed   *)
(* after a poll has no such registration, so subscribe must wake the task  *)
(* itself.  The future's mutex makes a poll and a room call atomic.        *)
(*                                                                         *)
(* An operator <operation>_<slip> is the operation with a plausible slip;  *)
(* it is no part of Next and shows that a property notices the slip.       *)
(***************************************************************************)
CONSTANT ClientId   \* the clients that may subscribe

VARIABLES
    shutdown,   \* the shutdown oneshot has been sent
    source,     \* the source's event stream
    targets,    \* ClientBroadcast.targets: client -> its event stream
    waker,      \* ClientBroadcast.waker is Some: a poll returned Pending
    woken,      \* the runtime will poll the task
    task        \* "polling", or "ended" once poll returned Ready

vars == <<shutdown, source, targets, waker, woken, task>>

Subscribed == DOMAIN targets

(* An event stream: `next` is the most urgent thing there is to read on it  *)
(* and `watched` that the waker of the task is registered with it.          *)
SourceStream == [next : {"nothing", "media", "end"}, watched : BOOLEAN]
TargetStream == [next : {"nothing", "pli", "end"}, watched : BOOLEAN]

Idle(stream) == stream.next = "nothing"
Registered_lost(stream) == [next |-> "nothing", watched |-> FALSE]
Registered(stream) == [next |-> "nothing", watched |-> TRUE]

-----------------------------------------------------------------------------
\* task::spawn schedules the first poll.
Init ==
    /\ shutdown = FALSE
    /\ source = [next |-> "nothing", watched |-> FALSE]
    /\ targets = [c \in {} |-> {}]
    /\ waker = FALSE
    /\ woken = TRUE
    /\ task = "polling"

\* shutdown_broadcast: the receiver is registered by the first pending poll.
Stop ==
    /\ shutdown' = TRUE
    /\ woken' = (woken \/ (waker /\ ~shutdown))
    /\ UNCHANGED <<source, targets, waker, task>>

\* The task is not told of the new target.
Subscribe_silent(c) ==
    /\ c \notin Subscribed
    /\ targets' = [x \in Subscribed \cup {c} |->
                     IF x = c THEN [next |-> "nothing", watched |-> FALSE] ELSE targets[x]]
    /\ UNCHANGED <<shutdown, source, waker, woken, task>>

Subscribe(c) ==
    /\ c \notin Subscribed
    /\ targets' = [x \in Subscribed \cup {c} |->
                     IF x = c THEN [next |-> "nothing", watched |-> FALSE] ELSE targets[x]]
    /\ woken' = (woken \/ waker)
    /\ UNCHANGED <<shutdown, source, waker, task>>

Unsubscribe(c) ==
    /\ c \in Subscribed
    /\ targets' = [x \in Subscribed \ {c} |-> targets[x]]
    /\ woken' = (woken \/ waker)
    /\ UNCHANGED <<shutdown, source, waker, task>>

-----------------------------------------------------------------------------
(* The other ends of the streams (client_rtp.rs): media and the end of the  *)
(* track for the source, PLI requests and the end of the sending track for  *)
(* a target.  A stream that has ended yields nothing more, and an event     *)
(* uses up the registration of the waker it wakes.                          *)
SourceEvent(e) ==
    /\ source.next # "end"
    /\ source' = [next |-> e, watched |-> FALSE]
    /\ woken' = (woken \/ source.watched)
    /\ UNCHANGED <<shutdown, targets, waker, task>>

TargetEvent(c, e) ==
    /\ c \in Subscribed
    /\ targets[c].next # "end"
    /\ targets' = [targets EXCEPT ![c] = [next |-> e, watched |-> FALSE]]
    /\ woken' = (woken \/ targets[c].watched)
    /\ UNCHANGED <<shutdown, source, waker, task>>

-----------------------------------------------------------------------------
Scheduled_after_end == woken
Scheduled == task = "polling" /\ woken

\* The signal is looked at before any stream.
PollShutdown ==
    /\ Scheduled
    /\ shutdown
    /\ task' = "ended"
    /\ woken' = FALSE
    /\ UNCHANGED <<shutdown, source, targets, waker>>

\* Every target is read until it is empty, those that are over are dropped
\* (a PLI is passed on to the source, media to the remaining targets), then
\* the source is read until it is empty or over.
PollStreams ==
    /\ Scheduled
    /\ ~shutdown
    /\ targets' = [c \in {x \in Subscribed : targets[x].next # "end"} |->
                     Registered(targets[c])]
    /\ woken' = FALSE
    /\ IF source.next = "end"
       THEN task' = "ended" /\ UNCHANGED <<source, waker>>
       ELSE source' = Registered(source) /\ waker' = TRUE /\ UNCHANGED task
    /\ UNCHANGED shutdown

Poll == PollShutdown \/ PollStreams

Next ==
    \/ Stop
    \/ \E c \in ClientId : Subscribe(c) \/ Unsubscribe(c)
    \/ \E e \in {"media", "end"} : SourceEvent(e)
    \/ \E c \in ClientId, e \in {"pli", "end"} : TargetEvent(c, e)
    \/ Poll

\* The runtime polls a woken task.  Nothing is assumed of the streams.
Spec == Init /\ [][Next]_vars /\ WF_vars(Poll)

-----------------------------------------------------------------------------
(* Properties *)

\* The type of the future's state.
TypeOK ==
    /\ shutdown \in BOOLEAN /\ waker \in BOOLEAN /\ woken \in BOOLEAN
    /\ source \in SourceStream
    /\ Subscribed \subseteq ClientId
    /\ targets \in [Subscribed -> TargetStream]
    /\ task \in {"polling", "ended"}

\* A task that nobody is going to poll waits on everything it has to hear of:
\* there is no unread signal or event, and each stream, of a target subscribed
\* at any moment too, holds the registration that will wake it.
NoLostWakeup ==
    task = "polling" /\ ~woken =>
        /\ ~shutdown /\ waker
        /\ Idle(source) /\ source.watched
        /\ \A c \in Subscribed : Idle(targets[c]) /\ targets[c].watched

\* Every key frame request of a subscriber and every end of a subscriber's
\* track is read, unless the broadcast ends or the subscriber goes first.
TargetsAreRead ==
    \A c \in ClientId :
        (c \in Subscribed /\ ~Idle(targets[c])) ~>
            (task = "ended" \/ c \notin Subscribed \/ Idle(targets[c]))

\* The future implements the task the room relies on: stop is obeyed for good,
\* targets come from subscribe only and go by unsubscribe or by a poll only.
Task == INSTANCE BroadcastTask WITH targets <- Subscribed
ImplementsTask == Task!Spec
=============================================================================
