---------------------------- MODULE BroadcastTask ----------------------------
(***************************************************************************)
(* What the room relies on of one broadcast task (room.rs): it goes on     *)
(* until it is told to stop or its source is over, it never comes back,    *)
(* targets whose stream is over are dropped, and a stop is always obeyed.  *)
(* These are the task steps of module Room seen for one broadcast; module  *)
(* Broadcast, which has the wakers, is shown to implement this one.        *)
(***************************************************************************)
CONSTANT ClientId

VARIABLES task, shutdown, targets

vars == <<task, shutdown, targets>>

Init == task = "polling" /\ shutdown = FALSE /\ targets = {}

Stop ==
    /\ shutdown' = TRUE
    /\ UNCHANGED <<task, targets>>

Subscribe(c) ==
    /\ c \notin targets
    /\ targets' = targets \cup {c}
    /\ UNCHANGED <<task, shutdown>>

Unsubscribe(c) ==
    /\ c \in targets
    /\ targets' = targets \ {c}
    /\ UNCHANGED <<task, shutdown>>

PollShutdown ==
    /\ task = "polling"
    /\ shutdown
    /\ task' = "ended"
    /\ UNCHANGED <<shutdown, targets>>

PollStreams(gone, outcome) ==
    /\ task = "polling"
    /\ ~shutdown
    /\ targets' = targets \ gone
    /\ task' = outcome
    /\ UNCHANGED shutdown

Next ==
    \/ Stop
    \/ \E c \in ClientId : Subscribe(c) \/ Unsubscribe(c)
    \/ PollShutdown
    \/ \E gone \in SUBSET ClientId, outcome \in {"polling", "ended"} :
         PollStreams(gone, outcome)

Spec == Init /\ [][Next]_vars /\ WF_vars(PollShutdown)
=============================================================================
