------------------------- MODULE SignallingConnection -------------------------
(***************************************************************************)
(* The browser's side of the signaling protocol: class                     *)
(* SignallingConnection of                                                 *)
(* src/client/src/backend/rtp-connection/signaling.ts, with its table of   *)
(* pending requests, their timers and the 16-bit request ids.              *)
(*                                                                         *)
(* An action is a task of the page's event loop.  Resolving a promise only *)
(* queues the rest of sendRequest, which runs before the next task; it is  *)
(* an action of its own (`resume`) and every task waits for it.  Requests  *)
(* are named by the value of requestIdIndex; the id on the wire is what is *)
(* left of it after the mask.                                              *)
(*                                                                         *)
(* sendRequest on a socket that is not open returns at once and changes    *)
(* nothing.  Notifications touch nothing of this state.                    *)
(*                                                                         *)
(* An operator <operation>_<slip> is the operation with a plausible slip;  *)
(* it is no part of Next and shows that a property notices the slip.       *)
(***************************************************************************)
EXTENDS Integers

CONSTANTS
    IdSpace,        \* ids on the wire: 0x10000
    MaxRequests     \* bound: requests sent

ASSUME SpaceAssumption == IdSpace \in Nat \ {0} /\ MaxRequests \in Nat

Request == 1 .. MaxRequests
None == 0           \* no request under an id

VARIABLES
    status,         \* state.status
    socket,         \* readyState of this.socket, or "none"
    requestIdIndex,
    requests,       \* the pending request of each id
    timers,         \* requests whose timeout is set
    outcome,        \* what the promise of each request came to
    answer_of,      \* history: the request whose answer a request got
    resolved,       \* requests whose sendRequest waits to be resumed
    unanswered      \* requests sent on this socket, answer yet to arrive

connection_vars == <<status, socket>>
table_vars == <<requests, timers>>
promise_vars == <<outcome, answer_of, resolved>>
vars == <<connection_vars, requestIdIndex, table_vars, promise_vars, unanswered>>

-----------------------------------------------------------------------------
RequestId_short(n) ==     \* the mask is one short
    IF IdSpace = 1 THEN 0 ELSE n % (IdSpace - 1)
RequestId(n) == n % IdSpace
Pending(n) == outcome[n] = "pending"
Id == 0 .. IdSpace - 1

\* No task starts before what resolved promises have queued is done.
Idle == resolved = {}

\* closeSocket: with its handlers gone the old socket is never heard again.
closeSocket == socket' = "none" /\ unanswered' = {}

\* The table is emptied, nobody is told.
abortPendingRequests_silent ==
    /\ requests' = [i \in Id |-> None]
    /\ timers' = {}
    /\ UNCHANGED <<outcome, resolved>>

\* Every request of the table is settled and its timer cleared.
abortPendingRequests ==
    LET aborted == {requests[i] : i \in Id} \ {None} IN
    /\ requests' = [i \in Id |-> None]
    /\ timers' = timers \ aborted
    /\ outcome' = [n \in Request |->
                     IF n \in aborted /\ Pending(n) THEN "ConnectionClosed" ELSE outcome[n]]
    /\ resolved' = resolved \cup {n \in aborted : Pending(n)}

-----------------------------------------------------------------------------
Init ==
    /\ status = "unconnected" /\ socket = "none"
    /\ requestIdIndex = 0
    /\ requests = [i \in Id |-> None] /\ timers = {}
    /\ outcome = [n \in Request |-> "unsent"]
    /\ answer_of = [n \in Request |-> None]
    /\ resolved = {} /\ unanswered = {}

\* Throws in any other state.
connect ==
    /\ Idle
    /\ status = "unconnected"
    /\ status' = "connecting" /\ socket' = "connecting"
    /\ UNCHANGED <<requestIdIndex, table_vars, promise_vars, unanswered>>

\* Pending requests are left to their timers.
close ==
    /\ Idle
    /\ closeSocket
    /\ status' = "unconnected"
    /\ UNCHANGED <<requestIdIndex, table_vars, promise_vars>>

onSocketConnected ==
    /\ Idle
    /\ socket = "connecting"
    /\ socket' = "open" /\ status' = "connected"
    /\ UNCHANGED <<requestIdIndex, table_vars, promise_vars, unanswered>>

\* The closing handshake began; no message follows it.
SocketCloses ==
    /\ Idle
    /\ socket = "open"
    /\ socket' = "closing"
    /\ unanswered' = {}
    /\ UNCHANGED <<status, requestIdIndex, table_vars, promise_vars>>

\* updateState calls the listeners first, and theirs is to call close().
SocketLost(state) ==
    /\ Idle
    /\ socket # "none"
    /\ status' \in {state, "unconnected"}
    /\ closeSocket
    /\ abortPendingRequests
    /\ UNCHANGED <<requestIdIndex, answer_of>>

onSocketClosed == SocketLost("disconnected")
onSocketError == SocketLost("failed")

-----------------------------------------------------------------------------
(* Requests.                                                                *)

\* The index is increased after its use.
sendRequest_post_increment ==
    LET n == requestIdIndex IN
    /\ Idle
    /\ socket = "open"
    /\ n < MaxRequests
    /\ \A k \in Request : Pending(k) \/ k \in unanswered => n - k < IdSpace
    /\ requestIdIndex' = n + 1
    /\ requests' = [requests EXCEPT ![RequestId(n)] = n]
    /\ timers' = timers \cup {n}
    /\ outcome' = [outcome EXCEPT ![n] = "pending"]
    /\ unanswered' = unanswered \cup {n}
    /\ UNCHANGED <<connection_vars, answer_of, resolved>>

\* The timeout is forgotten.
sendRequest_no_timeout ==
    LET n == requestIdIndex + 1 IN
    /\ Idle
    /\ socket = "open"
    /\ n \in Request
    /\ \A k \in Request : Pending(k) \/ k \in unanswered => n - k < IdSpace
    /\ requestIdIndex' = n
    /\ requests' = [requests EXCEPT ![RequestId(n)] = n]
    /\ outcome' = [outcome EXCEPT ![n] = "pending"]
    /\ unanswered' = unanswered \cup {n}
    /\ UNCHANGED <<connection_vars, timers, answer_of, resolved>>

\* The page is taken not to send a whole round of ids while one request is
\* under way: 65536 requests in the 15 seconds of its timeout or, after that,
\* until its late answer is here.
sendRequest ==
    LET n == requestIdIndex + 1 IN
    /\ Idle
    /\ socket = "open"
    /\ n \in Request
    /\ \A k \in Request : Pending(k) \/ k \in unanswered => n - k < IdSpace
    /\ requestIdIndex' = n
    /\ requests' = [requests EXCEPT ![RequestId(n)] = n]
    /\ timers' = timers \cup {n}
    /\ outcome' = [outcome EXCEPT ![n] = "pending"]
    /\ unanswered' = unanswered \cup {n}
    /\ UNCHANGED <<connection_vars, answer_of, resolved>>

\* The timer is left running.
handleResponse_no_clear(n) ==
    LET request == requests[RequestId(n)] IN
    /\ Idle
    /\ n \in unanswered
    /\ unanswered' = unanswered \ {n}
    /\ requests' = [requests EXCEPT ![RequestId(n)] = None]
    /\ IF request = None
       THEN UNCHANGED promise_vars
       ELSE /\ outcome' = [outcome EXCEPT ![request] = "answered"]
            /\ answer_of' = [answer_of EXCEPT ![request] = n]
            /\ resolved' = {request}
    /\ UNCHANGED <<connection_vars, requestIdIndex, timers>>

\* The answer of request n goes to whatever is pending under its id; a promise
\* that is resolved stays as it is.
handleResponse(n) ==
    LET request == requests[RequestId(n)] IN
    /\ Idle
    /\ n \in unanswered
    /\ unanswered' = unanswered \ {n}
    /\ requests' = [requests EXCEPT ![RequestId(n)] = None]
    /\ timers' = timers \ {request}
    /\ IF request = None \/ ~Pending(request)
       THEN UNCHANGED promise_vars
       ELSE /\ outcome' = [outcome EXCEPT ![request] = "answered"]
            /\ answer_of' = [answer_of EXCEPT ![request] = n]
            /\ resolved' = {request}
    /\ UNCHANGED <<connection_vars, requestIdIndex>>

timeout(n) ==
    /\ Idle
    /\ n \in timers
    /\ timers' = timers \ {n}
    /\ IF Pending(n)
       THEN /\ outcome' = [outcome EXCEPT ![n] = "RequestTimeout"]
            /\ resolved' = {n}
       ELSE UNCHANGED <<outcome, resolved>>
    /\ UNCHANGED <<connection_vars, requestIdIndex, requests, answer_of, unanswered>>

\* The rest of sendRequest: whatever is under the request's id is cleared.
resume(n) ==
    LET request == requests[RequestId(n)] IN
    /\ n \in resolved
    /\ resolved' = resolved \ {n}
    /\ timers' = timers \ {request}
    /\ requests' = [requests EXCEPT ![RequestId(n)] = None]
    /\ UNCHANGED <<connection_vars, requestIdIndex, outcome, answer_of, unanswered>>

-----------------------------------------------------------------------------
Next ==
    \/ connect \/ close
    \/ onSocketConnected \/ SocketCloses \/ onSocketClosed \/ onSocketError
    \/ sendRequest
    \/ \E n \in Request : handleResponse(n) \/ timeout(n) \/ resume(n)

\* Queued continuations run at once, and the event loop does not pass over an
\* expired timer for ever.  Server, network and user owe nothing.
Fairness == \A n \in Request : WF_vars(resume(n)) /\ SF_vars(timeout(n))

Spec == Init /\ [][Next]_vars /\ Fairness

-----------------------------------------------------------------------------
(* Properties *)

\* The type of the connection and its table.
TypeOK ==
    /\ status \in {"unconnected", "connecting", "connected", "failed", "disconnected"}
    /\ socket \in {"none", "connecting", "open", "closing"}
    /\ requestIdIndex \in 0 .. MaxRequests
    /\ requests \in [Id -> Request \cup {None}]
    /\ timers \subseteq Request
    /\ outcome \in [Request -> {"unsent", "pending", "answered", "RequestTimeout",
                                "ConnectionClosed"}]
    /\ answer_of \in [Request -> Request \cup {None}]
    /\ resolved \subseteq Request
    /\ unanswered \subseteq Request

\* A request is settled by its own answer, over wraps of the ids, answers that
\* come after the timeout, and reconnects while requests are pending; as long as
\* less than a round of ids is under way, which the guard of sendRequest ensures.
AnswersOwn == \A n \in Request : outcome[n] = "answered" => answer_of[n] = n

\* A request that is not settled can be: it is found under its id and its
\* timer runs.  No task of another request takes either of them away.
PendingIsTracked ==
    \A n \in Request : Pending(n) => n \in timers /\ requests[RequestId(n)] = n

\* And only such requests are: between two tasks the table and the timers hold
\* nothing that a later request could trip over.
NothingLeftBehind ==
    Idle => /\ \A n \in timers : Pending(n)
            /\ \A i \in Id : requests[i] # None => Pending(requests[i])

\* Every request comes to an end for its caller.
EverySettles ==
    \A n \in Request : Pending(n) ~> (~Pending(n) /\ n \notin resolved)
=============================================================================
