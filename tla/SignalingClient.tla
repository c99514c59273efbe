--------------------------- MODULE SignalingClient ---------------------------
(***************************************************************************)
(* One connection of the server: SignalingClient of                        *)
(* src/server/src/rtp_server/client.rs with the tasks around it, which     *)
(* share the client's mutex: the accept task, the read loop, the write     *)
(* loop and the task that disconnect spawns.  A task that has to lock the  *)
(* client first is in a state of its own until it gets the lock.           *)
(*                                                                         *)
(* The client is kept alive by the server and its rooms, so the upgrades   *)
(* of weak references succeed; a read loop that outlives its client ends   *)
(* like one that was shut down.                                            *)
(*                                                                         *)
(* An operator <operation>_<slip> is the operation with a plausible slip;  *)
(* it is no part of Next and shows that a property notices the slip.       *)
(***************************************************************************)
EXTENDS Integers, Sequences

CONSTANTS
    MaxRequests,    \* bound: messages of the peer that need an answer
    MaxNotifies     \* bound: notifications other tasks hand to send_message

ASSUME BoundsAssumption == MaxRequests \in Nat /\ MaxNotifies \in Nat

VARIABLES
    connection,     \* ClientConnection
    shutdown_read,  \* the oneshot of the read loop was sent
    shutdown_write, \* the oneshot of the write loop was sent
    accept,         \* the task of from_socket
    reader,         \* spawn_read_loop
    received,       \* requests the read loop has taken from the socket
    writer,         \* spawn_write_loop
    queue,          \* the unbounded channel from send_raw to the write loop
    sending,        \* what the write loop took from it and is writing
    wire,           \* what was written to the socket
    notifies,       \* notifications handed to send_message
    closer,         \* the task spawned by disconnect
    calls           \* the subscriber callbacks, in order

socket == <<queue, sending, wire>>
vars == <<connection, shutdown_read, shutdown_write, accept, reader, received,
          writer, queue, sending, wire, notifies, closer, calls>>

-----------------------------------------------------------------------------
\* Messages: the n-th answer, a notification, the close frame.
Response(n) == <<"response", n>>
Notify == <<"notify">>
Close == <<"close">>

\* A connection that is going down still takes messages.
Pushed_until_closed(message) ==
    IF connection # "Unconnected" THEN Append(queue, message) ELSE queue

\* send_raw: only a connected client takes messages, all others vanish.
Pushed(message) == IF connection = "Connected" THEN Append(queue, message) ELSE queue

\* The senders of the channel: the connection's and the clone in the closer.
HasSender == connection # "Unconnected" \/ closer \in {"spawned", "closing"}

(* The two ways down, each under the client's mutex.                        *)
disconnect ==
    IF connection = "Connected"
    THEN /\ connection' = "Disconnecting"
         /\ shutdown_read' = TRUE
         /\ closer' = "spawned"
         /\ calls' = Append(calls, "closing")
         /\ UNCHANGED shutdown_write
    ELSE UNCHANGED <<connection, shutdown_read, shutdown_write, closer, calls>>

close_connection_twice ==     \* the state it comes from does not matter
    /\ connection' = "Unconnected"
    /\ shutdown_read' = TRUE /\ shutdown_write' = TRUE
    /\ calls' = calls \o <<"closing", "closed">>

close_connection_write_only ==     \* the read loop is not told
    /\ connection' = "Unconnected"
    /\ shutdown_write' = (shutdown_write \/ connection # "Unconnected")
    /\ calls' = calls \o
         CASE connection = "Connected"     -> <<"closing", "closed">>
           [] connection = "Disconnecting" -> <<"closed">>
           [] OTHER                        -> <<>>
    /\ UNCHANGED shutdown_read

close_connection ==
    /\ connection' = "Unconnected"
    /\ shutdown_read' = (shutdown_read \/ connection = "Connected")
    /\ shutdown_write' = (shutdown_write \/ connection # "Unconnected")
    /\ calls' = calls \o
         CASE connection = "Connected"     -> <<"closing", "closed">>
           [] connection = "Disconnecting" -> <<"closed">>
           [] OTHER                        -> <<>>

-----------------------------------------------------------------------------
Init ==
    /\ connection = "Connected"
    /\ shutdown_read = FALSE /\ shutdown_write = FALSE
    /\ accept = "accepting"
    /\ reader = "none" /\ received = 0
    /\ writer = "none"
    /\ queue = <<>> /\ sending = <<>> /\ wire = <<>>
    /\ notifies = 0
    /\ closer = "none"
    /\ calls = <<>>

(* The accept task.  Nothing shuts a client down before it is accepted.     *)
AcceptOk ==
    /\ accept = "accepting"
    /\ accept' = "accepted"
    /\ reader' = "waiting"
    /\ writer' = "waiting"
    /\ UNCHANGED <<connection, shutdown_read, shutdown_write, received, socket,
                   notifies, closer, calls>>

AcceptError ==
    /\ accept = "accepting"
    /\ accept' = "failed"
    /\ UNCHANGED <<connection, shutdown_read, shutdown_write, reader, received,
                   writer, socket, notifies, closer, calls>>

AcceptCleanup ==
    /\ accept = "failed"
    /\ accept' = "ended"
    /\ close_connection
    /\ UNCHANGED <<reader, received, writer, socket, notifies, closer>>

\* The loops are already running when the task locks the client for this.
AcceptConnected ==
    /\ accept = "accepted"
    /\ accept' = "ended"
    /\ calls' = Append(calls, "connected")
    /\ UNCHANGED <<connection, shutdown_read, shutdown_write, reader, received,
                   writer, socket, notifies, closer>>

-----------------------------------------------------------------------------
(* The read loop.  `select!` picks among the ready branches, so a shut-down *)
(* loop may take further messages; the handler itself is not interrupted.   *)
ReadRequest ==
    /\ reader = "waiting"
    /\ received < MaxRequests
    /\ received' = received + 1
    /\ reader' = "handling"
    /\ UNCHANGED <<connection, shutdown_read, shutdown_write, accept, writer,
                   socket, notifies, closer, calls>>

\* The handler runs in a task of its own and may answer again.
ReadAnswer_spawned ==
    /\ reader = "handling"
    /\ queue' = Pushed(Response(received))
    /\ UNCHANGED <<connection, shutdown_read, shutdown_write, accept, reader, received,
                   writer, sending, wire, notifies, closer, calls>>

ReadAnswer_off_by_one ==     \* the answer is for the request before
    /\ reader = "handling"
    /\ reader' = "waiting"
    /\ queue' = Pushed(Response(received - 1))
    /\ UNCHANGED <<connection, shutdown_read, shutdown_write, accept, received,
                   writer, sending, wire, notifies, closer, calls>>

\* The answer of handle_request, or the pong to a ping.
ReadAnswer ==
    /\ reader = "handling"
    /\ reader' = "waiting"
    /\ queue' = Pushed(Response(received))
    /\ UNCHANGED <<connection, shutdown_read, shutdown_write, accept, received,
                   writer, sending, wire, notifies, closer, calls>>

\* The stream is over or has failed: the loop now waits for the client's lock.
ReadEnd ==
    /\ reader = "waiting"
    /\ reader' = "failed"
    /\ UNCHANGED <<connection, shutdown_read, shutdown_write, accept, received,
                   writer, socket, notifies, closer, calls>>

ReadDisconnect ==
    /\ reader = "failed"
    /\ reader' = "ended"
    /\ disconnect
    /\ UNCHANGED <<accept, received, writer, socket, notifies>>

ReadShutdown ==
    /\ reader = "waiting"
    /\ shutdown_read
    /\ reader' = "ended"
    /\ UNCHANGED <<connection, shutdown_read, shutdown_write, accept, received,
                   writer, socket, notifies, closer, calls>>

-----------------------------------------------------------------------------
(* The write loop.                                                          *)
WriteTake ==
    /\ writer = "waiting"
    /\ queue # <<>>
    /\ queue' = Tail(queue)
    /\ sending' = <<Head(queue)>>
    /\ writer' = "sending"
    /\ UNCHANGED <<connection, shutdown_read, shutdown_write, accept, reader,
                   received, wire, notifies, closer, calls>>

WriteSent ==
    /\ writer = "sending"
    /\ wire' = wire \o sending
    /\ sending' = <<>>
    /\ writer' = "waiting"
    /\ UNCHANGED <<connection, shutdown_read, shutdown_write, accept, reader,
                   received, queue, notifies, closer, calls>>

WriteError ==
    /\ writer = "sending"
    /\ writer' = "failed"
    /\ UNCHANGED <<connection, shutdown_read, shutdown_write, accept, reader,
                   received, socket, notifies, closer, calls>>

WriteCleanup ==
    /\ writer = "failed"
    /\ writer' = "aborted"
    /\ close_connection
    /\ UNCHANGED <<accept, reader, received, socket, notifies, closer>>

\* Told to stop, also in the middle of a send, or every sender is gone.
WriteShutdown ==
    /\ \/ writer \in {"waiting", "sending"} /\ shutdown_write
       \/ writer = "waiting" /\ queue = <<>> /\ ~HasSender
    /\ writer' = "ended"
    /\ UNCHANGED <<connection, shutdown_read, shutdown_write, accept, reader,
                   received, socket, notifies, closer, calls>>

-----------------------------------------------------------------------------
(* The task of disconnect: it queues the close frame, then closes.          *)
CloserSend ==
    /\ closer = "spawned"
    /\ closer' = "closing"
    /\ queue' = Append(queue, Close)
    /\ UNCHANGED <<connection, shutdown_read, shutdown_write, accept, reader,
                   received, writer, sending, wire, notifies, calls>>

CloserClose ==
    /\ closer = "closing"
    /\ closer' = "ended"
    /\ close_connection
    /\ UNCHANGED <<accept, reader, received, writer, socket, notifies>>

\* Rooms and the RTP client notify at any time.
SendNotify ==
    /\ notifies < MaxNotifies
    /\ notifies' = notifies + 1
    /\ queue' = Pushed(Notify)
    /\ UNCHANGED <<connection, shutdown_read, shutdown_write, accept, reader,
                   received, writer, sending, wire, closer, calls>>

-----------------------------------------------------------------------------
AcceptTask == AcceptOk \/ AcceptError \/ AcceptCleanup \/ AcceptConnected
ReadLoop == ReadRequest \/ ReadAnswer \/ ReadEnd \/ ReadDisconnect \/ ReadShutdown
WriteLoop == WriteTake \/ WriteSent \/ WriteError \/ WriteCleanup \/ WriteShutdown
Closer == CloserSend \/ CloserClose

Next == AcceptTask \/ ReadLoop \/ WriteLoop \/ Closer \/ SendNotify

\* The mutex is fair and the runtime runs ready tasks; select! polls its
\* branches in random order, so a shutdown is not overlooked for ever, and
\* handlers return.  The peer and the socket owe nothing.
Fairness ==
    /\ WF_vars(AcceptCleanup) /\ WF_vars(AcceptConnected)
    /\ WF_vars(ReadAnswer) /\ WF_vars(ReadDisconnect) /\ SF_vars(ReadShutdown)
    /\ WF_vars(WriteTake) /\ WF_vars(WriteCleanup) /\ SF_vars(WriteShutdown)
    /\ WF_vars(CloserSend) /\ WF_vars(CloserClose)

Spec == Init /\ [][Next]_vars /\ Fairness

-----------------------------------------------------------------------------
(* Properties *)

Messages == {Response(n) : n \in 1 .. MaxRequests} \cup {Notify, Close}
Callbacks == {"connected", "closing", "closed"}

\* The type of the connection and its tasks.
TypeOK ==
    /\ connection \in {"Connected", "Disconnecting", "Unconnected"}
    /\ shutdown_read \in BOOLEAN /\ shutdown_write \in BOOLEAN
    /\ accept \in {"accepting", "accepted", "failed", "ended"}
    /\ reader \in {"none", "waiting", "handling", "failed", "ended"}
    /\ writer \in {"none", "waiting", "sending", "failed", "aborted", "ended"}
    /\ received \in 0 .. MaxRequests /\ notifies \in 0 .. MaxNotifies
    /\ queue \in Seq(Messages) /\ sending \in Seq(Messages) /\ wire \in Seq(Messages)
    /\ closer \in {"none", "spawned", "closing", "ended"}
    /\ calls \in Seq(Callbacks)

\* However the read loop, the write loop, a failed accept and the closer race
\* for the lock, subscribers hear of each event once at most, of closing before
\* closed, and have heard exactly what the connection's state says.
Heard(call) == {i \in DOMAIN calls : calls[i] = call}
CallbacksMatchState ==
    /\ \A i, j \in DOMAIN calls : calls[i] = calls[j] => i = j
    /\ \A i \in Heard("closing"), j \in Heard("closed") : i < j
    /\ Heard("closing") = {} <=> connection = "Connected"
    /\ Heard("closed") = {} <=> connection # "Unconnected"

\* Everything that was queued, in the order the peer gets it.
Outgoing == wire \o sending \o queue

\* Every request is answered at most once and answers keep the order of the
\* requests, over every race with notifications and shutdown.
AnswersInOrder ==
    \A i, j \in DOMAIN Outgoing, m, n \in 1 .. MaxRequests :
        i < j /\ Outgoing[i] = Response(m) /\ Outgoing[j] = Response(n) => m < n

\* Nothing is queued behind a close frame, which is sent once at most.
CloseIsLast ==
    \A i \in DOMAIN Outgoing : Outgoing[i] = Close => i = Len(Outgoing)

\* A connection whose reader has given up or whose writer has failed goes all
\* the way down, the server's cleanup hangs on it; and neither loop runs on for
\* ever once it is down.
LoopsEnd ==
    /\ (reader \in {"failed", "ended"} \/ writer = "failed" \/ accept = "failed")
           ~> (connection = "Unconnected")
    /\ (connection = "Unconnected")
           ~> (reader \in {"none", "ended"} /\ writer \in {"none", "aborted", "ended"})
=============================================================================
