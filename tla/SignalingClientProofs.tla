------------------------- MODULE SignalingClientProofs -------------------------
(***************************************************************************)
(* For any number of requests and notifications: the callbacks a client's  *)
(* subscribers have heard are those of its state, answers keep the order   *)
(* of the requests, and a close frame is the last thing that is queued.    *)
(***************************************************************************)
EXTENDS SignalingClient, SequenceTheorems, TLAPS

\* A request that is being handled was received, so its answer has a number.
Typed == TypeOK /\ (reader = "handling" => received # 0)

LEMMA TypeInit == Init => Typed
<1> SUFFICES ASSUME Init PROVE TypeOK
  BY DEF Init, Typed
<1>1. queue \in Seq(Messages) /\ sending \in Seq(Messages) /\ wire \in Seq(Messages)
  BY DEF Init
<1>2. calls \in Seq(Callbacks)
  BY DEF Init
<1>3. received \in 0 .. MaxRequests /\ notifies \in 0 .. MaxNotifies
  BY BoundsAssumption DEF Init
<1> QED BY <1>1, <1>2, <1>3 DEF Init, TypeOK

LEMMA TypeNext == Typed /\ [Next]_vars => Typed'
<1> SUFFICES ASSUME Typed, [Next]_vars PROVE Typed'
  OBVIOUS
<1> USE DEF Typed, TypeOK, socket
<1>names. "connected" \in Callbacks /\ "closing" \in Callbacks /\ "closed" \in Callbacks
  BY DEF Callbacks
<1>appended. ASSUME NEW call \in Callbacks PROVE Append(calls, call) \in Seq(Callbacks)
  <2>1. calls \in Seq(Callbacks)
    OBVIOUS
  <2> QED BY <2>1, AppendProperties
<1>1. ASSUME close_connection
      PROVE  /\ connection' \in {"Connected", "Disconnecting", "Unconnected"}
             /\ shutdown_read' \in BOOLEAN /\ shutdown_write' \in BOOLEAN
             /\ calls' \in Seq(Callbacks)
  <2>1. \/ calls' = calls \o <<"closing", "closed">>
        \/ calls' = calls \o <<"closed">>
        \/ calls' = calls \o <<>>
    BY <1>1 DEF close_connection
  <2>2. /\ <<"closing", "closed">> \in Seq(Callbacks)
        /\ <<"closed">> \in Seq(Callbacks)
        /\ <<>> \in Seq(Callbacks)
    BY <1>names
  <2>3. calls' \in Seq(Callbacks)
    BY <2>1, <2>2, ConcatProperties
  <2> QED BY <1>1, <2>3 DEF close_connection
<1>2. ASSUME disconnect
      PROVE  /\ connection' \in {"Connected", "Disconnecting", "Unconnected"}
             /\ shutdown_read' \in BOOLEAN /\ shutdown_write' \in BOOLEAN
             /\ closer' \in {"none", "spawned", "closing", "ended"}
             /\ calls' \in Seq(Callbacks)
  <2>1. calls' \in Seq(Callbacks)
    BY <1>2, <1>names, <1>appended DEF disconnect
  <2> QED BY <1>2, <2>1 DEF disconnect
<1>3. CASE AcceptOk \/ AcceptError \/ AcceptConnected
  <2>1. calls' \in Seq(Callbacks)
    BY <1>3, <1>names, <1>appended DEF AcceptOk, AcceptError, AcceptConnected
  <2> QED BY <1>3, <2>1 DEF AcceptOk, AcceptError, AcceptConnected
<1>4. CASE AcceptCleanup
  BY <1>1, <1>4 DEF AcceptCleanup
<1>5. CASE ReadRequest
  <2>1. received' \in 0 .. MaxRequests /\ received' # 0
    BY <1>5, BoundsAssumption DEF ReadRequest
  <2> QED BY <1>5, <2>1 DEF ReadRequest
<1>6. CASE ReadAnswer
  <2>1. received \in 1 .. MaxRequests
    BY <1>6, BoundsAssumption DEF ReadAnswer
  <2>2. Response(received) \in Messages
    BY <2>1 DEF Messages
  <2>3. queue' \in Seq(Messages)
    BY <1>6, <2>2, AppendProperties DEF ReadAnswer, Pushed
  <2> QED BY <1>6, <2>3 DEF ReadAnswer
<1>7. CASE ReadEnd \/ ReadShutdown
  BY <1>7 DEF ReadEnd, ReadShutdown
<1>8. CASE ReadDisconnect
  BY <1>2, <1>8 DEF ReadDisconnect
<1>9. CASE WriteTake
  <2>1. Head(queue) \in Messages /\ Tail(queue) \in Seq(Messages)
    BY <1>9, HeadTailProperties DEF WriteTake
  <2>2. queue' \in Seq(Messages) /\ sending' \in Seq(Messages)
    BY <1>9, <2>1 DEF WriteTake
  <2> QED BY <1>9, <2>2 DEF WriteTake
<1>10. CASE WriteSent
  <2>1. wire' \in Seq(Messages) /\ sending' \in Seq(Messages)
    BY <1>10, ConcatProperties, EmptySeq DEF WriteSent
  <2> QED BY <1>10, <2>1 DEF WriteSent
<1>11. CASE WriteError \/ WriteShutdown
  BY <1>11 DEF WriteError, WriteShutdown
<1>12. CASE WriteCleanup
  BY <1>1, <1>12 DEF WriteCleanup
<1>13. CASE CloserSend
  <2>1. queue' \in Seq(Messages)
    BY <1>13, AppendProperties DEF CloserSend, Messages
  <2> QED BY <1>13, <2>1 DEF CloserSend
<1>14. CASE CloserClose
  BY <1>1, <1>14 DEF CloserClose
<1>15. CASE SendNotify
  <2>1. queue' \in Seq(Messages)
    BY <1>15, AppendProperties DEF SendNotify, Pushed, Messages
  <2>2. notifies' \in 0 .. MaxNotifies
    BY <1>15, BoundsAssumption DEF SendNotify
  <2> QED BY <1>15, <2>1, <2>2 DEF SendNotify
<1>16. CASE UNCHANGED vars
  BY <1>16 DEF vars
<1> QED
  BY <1>3, <1>4, <1>5, <1>6, <1>7, <1>8, <1>9, <1>10, <1>11, <1>12, <1>13, <1>14, <1>15, <1>16
  DEF Next, AcceptTask, ReadLoop, WriteLoop, Closer
-----------------------------------------------------------------------------
(* What the subscribers hear.                                               *)

\* The accept task has yet to report the connection while it is at work.
CallsInv ==
    /\ CallbacksMatchState
    /\ accept # "ended" => Heard("connected") = {}

\* A callback nobody has heard is appended: it is heard at the end, the others
\* where they were.
LEMMA HeardAppend ==
  ASSUME NEW s \in Seq(Callbacks), NEW new \in Callbacks,
         \A i \in DOMAIN s : s[i] # new,
         \A i, j \in DOMAIN s : s[i] = s[j] => i = j
  PROVE  LET t == Append(s, new) IN
         /\ t \in Seq(Callbacks)
         /\ \A i, j \in DOMAIN t : t[i] = t[j] => i = j
         /\ DOMAIN t = DOMAIN s \cup {Len(s) + 1} /\ t[Len(s) + 1] = new
         /\ \A i \in DOMAIN s : i < Len(s) + 1 /\ t[i] = s[i]
<1> DEFINE t == Append(s, new)
<1>1. /\ t \in Seq(Callbacks) /\ Len(t) = Len(s) + 1 /\ t[Len(s) + 1] = new
      /\ \A i \in 1 .. Len(s) : t[i] = s[i]
  BY AppendProperties
<1>2. Len(s) \in Nat /\ DOMAIN s = 1 .. Len(s) /\ DOMAIN t = 1 .. Len(t)
  BY <1>1, LenProperties
<1>3. DOMAIN t = DOMAIN s \cup {Len(s) + 1} /\ \A i \in DOMAIN s : i < Len(s) + 1
  BY <1>1, <1>2
<1>4. \A i \in DOMAIN s : t[i] = s[i] /\ t[i] # new
  BY <1>1, <1>2
<1> HIDE DEF t
<1>5. \A i, j \in DOMAIN t : t[i] = t[j] => i = j
  BY <1>1, <1>3, <1>4
<1> QED BY <1>1, <1>3, <1>4, <1>5 DEF t
LEMMA HeardTwo ==
  ASSUME NEW s \in Seq(Callbacks)
  PROVE  s \o <<"closing", "closed">> = Append(Append(s, "closing"), "closed")
<1>1. "closing" \in Callbacks /\ "closed" \in Callbacks
  BY DEF Callbacks
<1>2. Append(s, "closing") \in Seq(Callbacks) /\ Append(s, "closing") = s \o <<"closing">>
  BY <1>1, AppendProperties, AppendIsConcat
<1>3. Append(Append(s, "closing"), "closed") = (s \o <<"closing">>) \o <<"closed">>
  BY <1>1, <1>2, AppendIsConcat
<1>4. <<"closing">> \in Seq(Callbacks) /\ <<"closed">> \in Seq(Callbacks)
  BY <1>1
<1>5. (s \o <<"closing">>) \o <<"closed">> = s \o (<<"closing">> \o <<"closed">>)
  BY <1>4, ConcatAssociative
<1>6. <<"closing">> \o <<"closed">> = <<"closing", "closed">>
  <2> DEFINE t == Append(<<"closing">>, "closed")
             u == <<"closing", "closed">>
  <2>1. <<"closing">> \o <<"closed">> = t
    BY <1>1, <1>4, AppendIsConcat
  <2>2. t \in Seq(Callbacks) /\ Len(t) = 2 /\ t[1] = "closing" /\ t[2] = "closed"
    BY <1>1, <1>4, AppendProperties
  <2>3. u \in Seq(Callbacks) /\ Len(u) = 2 /\ u[1] = "closing" /\ u[2] = "closed"
    BY <1>1
  <2> HIDE DEF t, u
  <2>4. \A i \in 1 .. Len(t) : t[i] = u[i]
    BY <2>2, <2>3
  <2>5. t = u
    BY <2>2, <2>3, <2>4, SeqEqual
  <2> QED BY <2>1, <2>5 DEF u
<1> QED BY <1>3, <1>5, <1>6

LEMMA CallsInit == Init => CallsInv
  BY DEF Init, CallsInv, CallbacksMatchState, Heard

\* close_connection reports what the state says has not been reported.
LEMMA CloseHeard == Typed /\ CallsInv /\ close_connection =>
    CallbacksMatchState' /\ Heard("connected")' = Heard("connected")
<1> SUFFICES ASSUME Typed, CallsInv, close_connection
             PROVE  CallbacksMatchState' /\ Heard("connected")' = Heard("connected")
  OBVIOUS
<1>1. /\ calls \in Seq(Callbacks) /\ connection' = "Unconnected"
      /\ connection \in {"Connected", "Disconnecting", "Unconnected"}
      /\ "closing" \in Callbacks /\ "closed" \in Callbacks
  BY DEF Typed, TypeOK, close_connection, Callbacks
<1>2. /\ \A i, j \in DOMAIN calls : calls[i] = calls[j] => i = j
      /\ \A i \in Heard("closing"), j \in Heard("closed") : i < j
      /\ Heard("closing") = {} <=> connection = "Connected"
      /\ Heard("closed") = {} <=> connection # "Unconnected"
  BY DEF CallsInv, CallbacksMatchState
<1>3. CASE connection = "Connected"
  <2> DEFINE s == Append(calls, "closing")
             t == Append(s, "closed")
  <2>1. calls' = t
    BY <1>1, <1>3, HeardTwo DEF close_connection
  <2>2. \A i \in DOMAIN calls : calls[i] # "closing" /\ calls[i] # "closed"
    BY <1>2, <1>3 DEF Heard
  <2>3. /\ s \in Seq(Callbacks)
        /\ \A i, j \in DOMAIN s : s[i] = s[j] => i = j
        /\ DOMAIN s = DOMAIN calls \cup {Len(calls) + 1} /\ s[Len(calls) + 1] = "closing"
        /\ \A i \in DOMAIN calls : i < Len(calls) + 1 /\ s[i] = calls[i]
    BY <1>1, <1>2, <2>2, HeardAppend
  <2> HIDE DEF s
  <2>4. \A i \in DOMAIN s : s[i] # "closed"
    BY <2>2, <2>3
  <2>5. /\ \A i, j \in DOMAIN t : t[i] = t[j] => i = j
        /\ DOMAIN t = DOMAIN s \cup {Len(s) + 1} /\ t[Len(s) + 1] = "closed"
        /\ \A i \in DOMAIN s : i < Len(s) + 1 /\ t[i] = s[i]
    BY <1>1, <2>3, <2>4, HeardAppend
  <2> HIDE DEF t
  <2>6. /\ Heard("closing")' = {Len(calls) + 1} /\ Heard("closed")' = {Len(s) + 1}
        /\ Heard("connected")' = Heard("connected")
    BY <2>1, <2>2, <2>3, <2>4, <2>5 DEF Heard
  <2>7. Len(calls) + 1 < Len(s) + 1
    BY <2>3, <2>5
  <2> QED BY <1>1, <2>1, <2>5, <2>6, <2>7 DEF CallbacksMatchState
<1>4. CASE connection = "Disconnecting"
  <2> DEFINE t == Append(calls, "closed")
  <2>1. calls' = t
    BY <1>1, <1>4, AppendIsConcat DEF close_connection
  <2>2. \A i \in DOMAIN calls : calls[i] # "closed"
    BY <1>2, <1>4 DEF Heard
  <2>3. /\ \A i, j \in DOMAIN t : t[i] = t[j] => i = j
        /\ DOMAIN t = DOMAIN calls \cup {Len(calls) + 1} /\ t[Len(calls) + 1] = "closed"
        /\ \A i \in DOMAIN calls : i < Len(calls) + 1 /\ t[i] = calls[i]
    BY <1>1, <1>2, <2>2, HeardAppend
  <2> HIDE DEF t
  <2>4. /\ Heard("closing")' = Heard("closing") /\ Heard("closed")' = {Len(calls) + 1}
        /\ Heard("connected")' = Heard("connected")
    BY <2>1, <2>2, <2>3 DEF Heard
  <2>5. \A i \in Heard("closing") : i < Len(calls) + 1
    BY <2>3 DEF Heard
  <2> QED BY <1>1, <1>2, <1>4, <2>1, <2>3, <2>4, <2>5 DEF CallbacksMatchState
<1>5. CASE connection = "Unconnected"
  <2>1. calls' = calls
    BY <1>1, <1>5, ConcatEmptySeq DEF close_connection
  <2> QED BY <1>1, <1>2, <1>5, <2>1 DEF CallbacksMatchState, Heard
<1> QED BY <1>1, <1>3, <1>4, <1>5

LEMMA CallsNext == Typed /\ CallsInv /\ [Next]_vars => CallsInv'
<1> SUFFICES ASSUME Typed, CallsInv, [Next]_vars PROVE CallsInv'
  OBVIOUS
<1>1. /\ calls \in Seq(Callbacks)
      /\ connection \in {"Connected", "Disconnecting", "Unconnected"}
      /\ "connected" \in Callbacks /\ "closing" \in Callbacks
  BY DEF Typed, TypeOK, Callbacks
<1>2. /\ \A i, j \in DOMAIN calls : calls[i] = calls[j] => i = j
      /\ \A i \in Heard("closing"), j \in Heard("closed") : i < j
      /\ Heard("closing") = {} <=> connection = "Connected"
      /\ Heard("closed") = {} <=> connection # "Unconnected"
      /\ accept # "ended" => Heard("connected") = {}
  BY DEF CallsInv, CallbacksMatchState
<1>3. CASE AcceptConnected
  <2> DEFINE t == Append(calls, "connected")
  <2>1. calls' = t /\ connection' = connection /\ accept' = "ended"
    BY <1>3 DEF AcceptConnected
  <2>2. \A i \in DOMAIN calls : calls[i] # "connected"
    BY <1>2, <1>3 DEF Heard, AcceptConnected
  <2>3. /\ \A i, j \in DOMAIN t : t[i] = t[j] => i = j
        /\ DOMAIN t = DOMAIN calls \cup {Len(calls) + 1} /\ t[Len(calls) + 1] = "connected"
        /\ \A i \in DOMAIN calls : i < Len(calls) + 1 /\ t[i] = calls[i]
    BY <1>1, <1>2, <2>2, HeardAppend
  <2> HIDE DEF t
  <2>4. Heard("closing")' = Heard("closing") /\ Heard("closed")' = Heard("closed")
    BY <2>1, <2>2, <2>3 DEF Heard
  <2> QED BY <1>2, <2>1, <2>3, <2>4 DEF CallsInv, CallbacksMatchState
<1>4. CASE ReadDisconnect /\ connection = "Connected"
  <2> DEFINE t == Append(calls, "closing")
  <2>1. calls' = t /\ connection' = "Disconnecting" /\ accept' = accept
    BY <1>4 DEF ReadDisconnect, disconnect
  <2>2. \A i \in DOMAIN calls : calls[i] # "closing" /\ calls[i] # "closed"
    BY <1>2, <1>4 DEF Heard
  <2>3. /\ \A i, j \in DOMAIN t : t[i] = t[j] => i = j
        /\ DOMAIN t = DOMAIN calls \cup {Len(calls) + 1} /\ t[Len(calls) + 1] = "closing"
        /\ \A i \in DOMAIN calls : i < Len(calls) + 1 /\ t[i] = calls[i]
    BY <1>1, <1>2, <2>2, HeardAppend
  <2> HIDE DEF t
  <2>4. /\ Heard("closing")' = {Len(calls) + 1} /\ Heard("closed")' = {}
        /\ Heard("connected")' = Heard("connected")
    BY <2>1, <2>2, <2>3 DEF Heard
  <2> QED BY <1>2, <2>1, <2>3, <2>4 DEF CallsInv, CallbacksMatchState
<1>5. CASE AcceptCleanup \/ WriteCleanup \/ CloserClose
  <2>1. /\ close_connection
        /\ accept' = accept \/ (accept = "failed" /\ accept' = "ended")
    BY <1>5 DEF AcceptCleanup, WriteCleanup, CloserClose
  <2> QED BY <1>2, <2>1, CloseHeard DEF CallsInv
<1>6. CASE /\ UNCHANGED <<connection, calls>>
           /\ accept = "ended" => accept' = "ended"
  BY <1>2, <1>6 DEF CallsInv, CallbacksMatchState, Heard
<1>7. \/ AcceptConnected
      \/ ReadDisconnect /\ connection = "Connected"
      \/ AcceptCleanup \/ WriteCleanup \/ CloserClose
      \/ UNCHANGED <<connection, calls>> /\ (accept = "ended" => accept' = "ended")
  BY DEF Next, AcceptTask, ReadLoop, WriteLoop, Closer, AcceptOk, AcceptError, ReadRequest,
         ReadAnswer, ReadEnd, ReadDisconnect, disconnect, ReadShutdown, WriteTake, WriteSent,
         WriteError, WriteShutdown, CloserSend, SendNotify, vars
<1> QED BY <1>3, <1>4, <1>5, <1>6, <1>7
-----------------------------------------------------------------------------
(* What the peer gets.                                                      *)

\* A step leaves what goes out as it is, or appends one message to it.
Given(message) == Outgoing' = Append(Outgoing, message)

LEMMA OutgoingGrows ==
  ASSUME Typed, NEW message \in Messages, queue' = Append(queue, message),
         UNCHANGED <<wire, sending>>
  PROVE  Given(message)
<1> DEFINE w == wire \o sending
           m == <<message>>
<1>1. queue \in Seq(Messages) /\ w \in Seq(Messages) /\ m \in Seq(Messages)
  BY ConcatProperties DEF Typed, TypeOK
<1>2. queue' = queue \o m
  BY <1>1, AppendIsConcat
<1>3. Outgoing = w \o queue /\ Outgoing' = w \o queue'
  BY DEF Outgoing
<1> HIDE DEF w
<1>4. w \o (queue \o m) = (w \o queue) \o m
  <2> HIDE DEF m
  <2> QED BY <1>1, ConcatAssociative
<1>5. Outgoing \in Seq(Messages)
  BY <1>1, <1>3, ConcatProperties
<1>6. Append(Outgoing, message) = Outgoing \o m
  BY <1>5, AppendIsConcat
<1> QED BY <1>2, <1>3, <1>4, <1>6 DEF Given

\* The write loop holds a message only while it is sending.
WriterInv ==
    /\ writer \in {"none", "waiting"} => sending = <<>>
    /\ accept = "accepting" => writer = "none"

LEMMA WriterInit == Init => WriterInv
  BY DEF Init, WriterInv

LEMMA WriterNext == WriterInv /\ [Next]_vars => WriterInv'
  BY DEF WriterInv, Next, AcceptTask, ReadLoop, WriteLoop, Closer, AcceptOk, AcceptError,
         AcceptCleanup, AcceptConnected, ReadRequest, ReadAnswer, ReadEnd, ReadDisconnect,
         ReadShutdown, WriteTake, WriteSent, WriteError, WriteCleanup, WriteShutdown,
         CloserSend, CloserClose, SendNotify, socket, vars

\* Only an answer of the read loop, a notification to a client that is connected
\* and the frame of the closer go out; the write loop keeps the order.
LEMMA OutgoingSteps ==
  ASSUME Typed, WriterInv, [Next]_vars
  PROVE  \/ UNCHANGED Outgoing
         \/ ReadAnswer /\ connection = "Connected" /\ Given(Response(received))
         \/ SendNotify /\ connection = "Connected" /\ Given(Notify)
         \/ CloserSend /\ Given(Close)
<1>1. /\ queue \in Seq(Messages) /\ sending \in Seq(Messages) /\ wire \in Seq(Messages)
      /\ Notify \in Messages /\ Close \in Messages
  BY DEF Typed, TypeOK, Messages
<1>2. CASE ReadAnswer
  <2>1. CASE connection = "Connected"
    <3>1. Response(received) \in Messages
      <4>1. received \in 1 .. MaxRequests
        BY <1>2, BoundsAssumption DEF ReadAnswer, Typed, TypeOK
      <4> QED BY <4>1 DEF Messages
    <3> QED BY <1>2, <2>1, <3>1, OutgoingGrows DEF ReadAnswer, Pushed
  <2>2. CASE connection # "Connected"
    BY <1>2, <2>2 DEF ReadAnswer, Pushed, Outgoing
  <2> QED BY <2>1, <2>2
<1>3. CASE SendNotify
  <2>1. CASE connection = "Connected"
    BY <1>1, <1>3, <2>1, OutgoingGrows DEF SendNotify, Pushed
  <2>2. CASE connection # "Connected"
    BY <1>3, <2>2 DEF SendNotify, Pushed, Outgoing
  <2> QED BY <2>1, <2>2
<1>4. CASE CloserSend
  BY <1>1, <1>4, OutgoingGrows DEF CloserSend
<1>5. CASE WriteTake
  <2>1. queue = <<Head(queue)>> \o Tail(queue)
    BY <1>1, <1>5, HeadTailProperties, ConcatProperties DEF WriteTake
  <2>2. sending = <<>> /\ sending' = <<Head(queue)>> /\ queue' = Tail(queue) /\ wire' = wire
    BY <1>5 DEF WriteTake, WriterInv
  <2>3. Head(queue) \in Messages /\ Tail(queue) \in Seq(Messages)
    BY <1>1, <1>5, HeadTailProperties DEF WriteTake
  <2>4. wire \o <<>> = wire
    BY <1>1, ConcatEmptySeq
  <2>5. (wire \o <<Head(queue)>>) \o Tail(queue) = wire \o (<<Head(queue)>> \o Tail(queue))
    BY <1>1, <2>3, ConcatAssociative
  <2> QED BY <2>1, <2>2, <2>4, <2>5 DEF Outgoing
<1>6. CASE WriteSent
  <2>1. wire \o sending \in Seq(Messages)
    BY <1>1, ConcatProperties
  <2>2. (wire \o sending) \o <<>> = wire \o sending
    BY <2>1, ConcatEmptySeq
  <2> QED BY <1>6, <2>2 DEF WriteSent, Outgoing
<1>7. CASE UNCHANGED socket
  BY <1>7 DEF socket, Outgoing
<1>8. ReadAnswer \/ SendNotify \/ CloserSend \/ WriteTake \/ WriteSent \/ UNCHANGED socket
  BY DEF Next, AcceptTask, ReadLoop, WriteLoop, Closer, AcceptOk, AcceptError, AcceptCleanup,
         AcceptConnected, ReadRequest, ReadEnd, ReadDisconnect, ReadShutdown, WriteError,
         WriteCleanup, WriteShutdown, CloserClose, socket, vars
<1> QED BY <1>2, <1>3, <1>4, <1>5, <1>6, <1>7, <1>8
-----------------------------------------------------------------------------
(* The order of the answers, and the close frame.                           *)

\* Every answer that went out is for a request before the one that is handled.
AnsweredInv ==
    \A i \in DOMAIN Outgoing, n \in 1 .. MaxRequests : Outgoing[i] = Response(n) =>
        n <= received /\ (reader = "handling" => n < received)

OrderInv == AnswersInOrder /\ AnsweredInv

\* The closer runs only when the connection takes no more messages, and the
\* frame goes out at its step only.
CloseInv ==
    /\ CloseIsLast
    /\ closer # "none" => connection # "Connected"
    /\ closer \in {"none", "spawned"} => \A i \in DOMAIN Outgoing : Outgoing[i] # Close

\* What a message is appended to, and where it is then.
LEMMA GivenLast ==
  ASSUME Typed, NEW message \in Messages, Given(message)
  PROVE  LET n == Len(Outgoing) + 1 IN
         /\ n \in Nat \ {0} /\ Len(Outgoing') = n
         /\ DOMAIN Outgoing = 1 .. n - 1 /\ DOMAIN Outgoing' = 1 .. n
         /\ Outgoing'[n] = message
         /\ \A i \in 1 .. n - 1 : Outgoing'[i] = Outgoing[i]
<1>1. Outgoing \in Seq(Messages)
  <2>1. wire \o sending \in Seq(Messages) /\ queue \in Seq(Messages)
    BY ConcatProperties DEF Typed, TypeOK
  <2> QED BY <2>1, ConcatProperties DEF Outgoing
<1> DEFINE s == Outgoing
           t == Outgoing'
<1>2. s \in Seq(Messages) /\ t = Append(s, message)
  BY <1>1 DEF Given
<1> HIDE DEF s, t
<1>3. /\ t \in Seq(Messages) /\ Len(t) = Len(s) + 1 /\ t[Len(s) + 1] = message
      /\ \A i \in 1 .. Len(s) : t[i] = s[i]
  BY <1>2, AppendProperties
<1>4. Len(s) \in Nat /\ DOMAIN s = 1 .. Len(s) /\ DOMAIN t = 1 .. Len(t)
  BY <1>2, <1>3, LenProperties
<1>5. LET n == Len(s) + 1 IN
      /\ n \in Nat \ {0} /\ Len(t) = n
      /\ DOMAIN s = 1 .. n - 1 /\ DOMAIN t = 1 .. n
      /\ t[n] = message
      /\ \A i \in 1 .. n - 1 : t[i] = s[i]
  BY <1>3, <1>4
<1> QED BY <1>5 DEF s, t

LEMMA OrderInit == Init => OrderInv
  BY DEF Init, OrderInv, AnswersInOrder, AnsweredInv, Outgoing

LEMMA OrderNext == Typed /\ WriterInv /\ OrderInv /\ [Next]_vars => OrderInv'
<1> SUFFICES ASSUME Typed, WriterInv, OrderInv, [Next]_vars PROVE OrderInv'
  OBVIOUS
<1>1. /\ received \in 0 .. MaxRequests /\ MaxRequests \in Nat
      /\ reader = "handling" => received \in 1 .. MaxRequests
  BY BoundsAssumption DEF Typed, TypeOK
<1>2. \/ UNCHANGED <<reader, received>>
      \/ reader' # "handling" /\ received' = received
      \/ reader' = "handling" /\ received' = received + 1 /\ ReadRequest
  BY DEF Next, AcceptTask, ReadLoop, WriteLoop, Closer, AcceptOk, AcceptError, AcceptCleanup,
         AcceptConnected, ReadRequest, ReadAnswer, ReadEnd, ReadDisconnect, ReadShutdown,
         WriteTake, WriteSent, WriteError, WriteCleanup, WriteShutdown, CloserSend,
         CloserClose, SendNotify, vars
<1>3. CASE UNCHANGED Outgoing
  <2>1. AnswersInOrder'
    BY <1>3 DEF OrderInv, AnswersInOrder
  <2>2. AnsweredInv'
    <3> SUFFICES ASSUME NEW i \in DOMAIN Outgoing, NEW n \in 1 .. MaxRequests,
                        Outgoing[i] = Response(n)
                 PROVE  n <= received' /\ (reader' = "handling" => n < received')
      BY <1>3 DEF AnsweredInv
    <3>1. n <= received /\ (reader = "handling" => n < received)
      BY DEF OrderInv, AnsweredInv
    <3> QED BY <1>1, <1>2, <3>1
  <2> QED BY <2>1, <2>2 DEF OrderInv
<1>4. CASE ReadAnswer /\ Given(Response(received))
  <2> DEFINE n == Len(Outgoing) + 1
  <2>1. reader = "handling" /\ reader' = "waiting" /\ received' = received
    BY <1>4 DEF ReadAnswer
  <2>2. Response(received) \in Messages
    BY <1>1, <2>1 DEF Messages
  <2>3. /\ n \in Nat \ {0} /\ DOMAIN Outgoing = 1 .. n - 1 /\ DOMAIN Outgoing' = 1 .. n
        /\ Outgoing'[n] = Response(received)
        /\ \A i \in 1 .. n - 1 : Outgoing'[i] = Outgoing[i]
    BY <1>4, <2>2, GivenLast
  <2> HIDE DEF n
  <2>4. ASSUME NEW i \in DOMAIN Outgoing', NEW m \in 1 .. MaxRequests, Outgoing'[i] = Response(m)
        PROVE  /\ m <= received
               /\ i # n => i \in DOMAIN Outgoing /\ Outgoing[i] = Response(m) /\ m < received
    <3>1. CASE i = n
      BY <1>1, <2>1, <2>3, <2>4, <3>1 DEF Response
    <3>2. CASE i # n
      <4>1. i \in 1 .. n - 1
        BY <2>3, <3>2
      <4> QED BY <1>1, <2>1, <2>3, <2>4, <4>1 DEF OrderInv, AnsweredInv
    <3> QED BY <3>1, <3>2
  <2>5. AnswersInOrder'
    <3> SUFFICES ASSUME NEW i \in DOMAIN Outgoing', NEW j \in DOMAIN Outgoing',
                        NEW m \in 1 .. MaxRequests, NEW k \in 1 .. MaxRequests,
                        i < j, Outgoing'[i] = Response(m), Outgoing'[j] = Response(k)
                 PROVE  m < k
      BY DEF AnswersInOrder
    <3>1. i # n
      BY <2>3
    <3>2. i \in DOMAIN Outgoing /\ Outgoing[i] = Response(m) /\ m < received
      BY <2>4, <3>1
    <3>3. CASE j = n
      BY <1>1, <2>1, <2>3, <3>2, <3>3 DEF Response
    <3>4. CASE j # n
      <4>1. j \in DOMAIN Outgoing /\ Outgoing[j] = Response(k)
        BY <2>4, <3>4
      <4> QED BY <3>2, <4>1 DEF OrderInv, AnswersInOrder
    <3> QED BY <3>3, <3>4
  <2>6. AnsweredInv'
    BY <2>1, <2>4 DEF AnsweredInv
  <2> QED BY <2>5, <2>6 DEF OrderInv
<1>5. ASSUME NEW message \in {Notify, Close}, Given(message), ~ReadRequest PROVE OrderInv'
  <2> DEFINE n == Len(Outgoing) + 1
  <2>1. /\ n \in Nat \ {0} /\ DOMAIN Outgoing = 1 .. n - 1 /\ DOMAIN Outgoing' = 1 .. n
        /\ Outgoing'[n] = message
        /\ \A i \in 1 .. n - 1 : Outgoing'[i] = Outgoing[i]
    BY <1>5, GivenLast DEF Messages
  <2> HIDE DEF n
  <2>2. ASSUME NEW i \in DOMAIN Outgoing', NEW m \in 1 .. MaxRequests, Outgoing'[i] = Response(m)
        PROVE  i \in DOMAIN Outgoing /\ Outgoing[i] = Response(m)
    <3>1. i # n
      BY <1>5, <2>1, <2>2 DEF Response, Notify, Close
    <3> QED BY <2>1, <2>2, <3>1
  <2>3. AnswersInOrder'
    BY <2>2 DEF OrderInv, AnswersInOrder
  <2>4. AnsweredInv'
    <3> SUFFICES ASSUME NEW i \in DOMAIN Outgoing', NEW m \in 1 .. MaxRequests,
                        Outgoing'[i] = Response(m)
                 PROVE  m <= received' /\ (reader' = "handling" => m < received')
      BY DEF AnsweredInv
    <3>1. m <= received /\ (reader = "handling" => m < received)
      BY <2>2 DEF OrderInv, AnsweredInv
    <3> QED BY <1>1, <1>2, <1>5, <3>1
  <2> QED BY <2>3, <2>4 DEF OrderInv
<1>6. SendNotify \/ CloserSend => ~ReadRequest
  BY DEF SendNotify, CloserSend, ReadRequest
<1> QED BY <1>3, <1>4, <1>5, <1>6, OutgoingSteps

LEMMA CloseInit == Init => CloseInv
  BY DEF Init, CloseInv, CloseIsLast, Outgoing

LEMMA CloseNext == Typed /\ WriterInv /\ CloseInv /\ [Next]_vars => CloseInv'
<1> SUFFICES ASSUME Typed, WriterInv, CloseInv, [Next]_vars PROVE CloseInv'
  OBVIOUS
<1>1. connection \in {"Connected", "Disconnecting", "Unconnected"}
      /\ closer \in {"none", "spawned", "closing", "ended"}
  BY DEF Typed, TypeOK
<1>2. /\ closer' # "none" => connection' # "Connected"
      /\ CloserSend \/ (closer' \in {"none", "spawned"} => closer \in {"none", "spawned"})
      /\ CloserSend => closer = "spawned" /\ closer' = "closing"
      /\ ReadAnswer \/ SendNotify => UNCHANGED <<connection, closer>>
  BY <1>1
  DEF CloseInv, Next, AcceptTask, ReadLoop, WriteLoop, Closer, AcceptOk, AcceptError,
      AcceptCleanup, AcceptConnected, ReadRequest, ReadAnswer, ReadEnd, ReadDisconnect,
      disconnect, close_connection, ReadShutdown, WriteTake, WriteSent, WriteError,
      WriteCleanup, WriteShutdown, CloserSend, CloserClose, SendNotify, vars
<1>3. CASE UNCHANGED Outgoing
  <2>1. CloseIsLast'
    BY <1>3 DEF CloseInv, CloseIsLast
  <2>2. closer' \in {"none", "spawned"} => \A i \in DOMAIN Outgoing' : Outgoing'[i] # Close
    BY <1>2, <1>3 DEF CloseInv
  <2> QED BY <1>2, <2>1, <2>2 DEF CloseInv
<1>4. ASSUME NEW message \in Messages, Given(message), closer \in {"none", "spawned"},
             message # Close \/ closer' \notin {"none", "spawned"}
      PROVE  CloseInv'
  <2> DEFINE n == Len(Outgoing) + 1
  <2>1. /\ n \in Nat \ {0} /\ Len(Outgoing') = n
        /\ DOMAIN Outgoing = 1 .. n - 1 /\ DOMAIN Outgoing' = 1 .. n
        /\ Outgoing'[n] = message
        /\ \A i \in 1 .. n - 1 : Outgoing'[i] = Outgoing[i]
    BY <1>4, GivenLast
  <2> HIDE DEF n
  <2>2. \A i \in DOMAIN Outgoing' : Outgoing'[i] = Close => i = n /\ message = Close
    BY <1>4, <2>1 DEF CloseInv
  <2>3. CloseIsLast'
    BY <2>1, <2>2 DEF CloseIsLast
  <2>4. closer' \in {"none", "spawned"} => \A i \in DOMAIN Outgoing' : Outgoing'[i] # Close
    BY <1>4, <2>2
  <2> QED BY <1>2, <2>3, <2>4 DEF CloseInv
<1>5. CASE ReadAnswer /\ connection = "Connected" /\ Given(Response(received))
  <2>1. Response(received) \in Messages /\ Response(received) # Close
    <3>1. received \in 1 .. MaxRequests
      BY <1>5, BoundsAssumption DEF ReadAnswer, Typed, TypeOK
    <3> QED BY <3>1 DEF Messages, Response, Close
  <2>2. closer = "none"
    BY <1>5 DEF CloseInv
  <2> QED BY <1>4, <1>5, <2>1, <2>2
<1>6. CASE SendNotify /\ connection = "Connected" /\ Given(Notify)
  <2>1. Notify \in Messages /\ Notify # Close
    BY DEF Messages, Notify, Close
  <2>2. closer = "none"
    BY <1>6 DEF CloseInv
  <2> QED BY <1>4, <1>6, <2>1, <2>2
<1>7. CASE CloserSend /\ Given(Close)
  <2>1. Close \in Messages
    BY DEF Messages
  <2> QED BY <1>2, <1>4, <1>7, <2>1
<1> QED BY <1>3, <1>5, <1>6, <1>7, OutgoingSteps

-----------------------------------------------------------------------------
(* The theorems.                                                            *)

IInv == Typed /\ CallsInv /\ WriterInv /\ OrderInv /\ CloseInv

LEMMA InvCorrect == Spec => []IInv
<1>1. Init => IInv
  BY TypeInit, CallsInit, WriterInit, OrderInit, CloseInit DEF IInv
<1>2. IInv /\ [Next]_vars => IInv'
  BY TypeNext, CallsNext, WriterNext, OrderNext, CloseNext DEF IInv
<1> QED BY <1>1, <1>2, PTL DEF Spec

\* The state of a connection is well typed; in particular an answer is to a
\* request that was received.
THEOREM TypeCorrect == Spec => []TypeOK
<1>1. IInv => TypeOK
  BY DEF IInv, Typed
<1> QED BY <1>1, InvCorrect, PTL

\* Subscribers hear closing once and then closed once, and what they have heard
\* is what the connection's state says (close_connection and disconnect).
THEOREM CallbacksAgree == Spec => []CallbacksMatchState
<1>1. IInv => CallbacksMatchState
  BY DEF IInv, CallsInv
<1> QED BY <1>1, InvCorrect, PTL

\* Requests are answered at most once and in their order (spawn_read_loop).
THEOREM AnswersOrdered == Spec => []AnswersInOrder
<1>1. IInv => AnswersInOrder
  BY DEF IInv, OrderInv
<1> QED BY <1>1, InvCorrect, PTL

\* Nothing is queued behind the close frame, whoever pushes when (send_raw and
\* the task of disconnect).
THEOREM CloseEndsStream == Spec => []CloseIsLast
<1>1. IInv => CloseIsLast
  BY DEF IInv, CloseInv
<1> QED BY <1>1, InvCorrect, PTL
================================================================================
