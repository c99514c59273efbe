---------------------- MODULE SignallingConnectionProofs ----------------------
(***************************************************************************)
(* Requests of the browser for any width of the request ids and any number *)
(* of requests: each gets its own answer, and each pending one is tracked. *)
(***************************************************************************)
EXTENDS SignallingConnection, TLAPS

\* Requests less than a round of ids apart do not share an id.
LEMMA IdsDiffer ==
  ASSUME NEW m \in Request, NEW n \in Request, m - n < IdSpace, n - m < IdSpace,
         RequestId(m) = RequestId(n)
  PROVE  m = n
<1> DEFINE p == m \div IdSpace
           q == n \div IdSpace
<1>1. /\ IdSpace \in Nat /\ IdSpace > 0 /\ m \in Nat /\ n \in Nat
  BY SpaceAssumption DEF Request
<1>2. /\ m = IdSpace * p + RequestId(m) /\ p \in Int
      /\ n = IdSpace * q + RequestId(n) /\ q \in Int
  BY <1>1 DEF RequestId
<1>3. RequestId(m) \in Int
  BY <1>1 DEF RequestId
<1> HIDE DEF p, q
<1>4. IdSpace * (p - q) < IdSpace /\ IdSpace * (q - p) < IdSpace
  BY <1>1, <1>2, <1>3
<1>5. CASE p > q
  <2>1. IdSpace * (p - q) >= IdSpace
    BY <1>1, <1>2, <1>5
  <2> QED BY <1>1, <1>2, <1>4, <2>1
<1>6. CASE q > p
  <2>1. IdSpace * (q - p) >= IdSpace
    BY <1>1, <1>2, <1>6
  <2> QED BY <1>1, <1>2, <1>4, <2>1
<1>7. CASE p = q
  BY <1>1, <1>2, <1>3, <1>7
<1> QED BY <1>2, <1>5, <1>6, <1>7

LEMMA IdOfRequest == \A n \in Request : RequestId(n) \in Id
<1> SUFFICES ASSUME NEW n \in Request PROVE RequestId(n) \in Id
  OBVIOUS
<1>1. IdSpace \in Nat /\ IdSpace > 0 /\ n \in Nat
  BY SpaceAssumption DEF Request
<1>2. n % IdSpace \in 0 .. IdSpace - 1
  BY <1>1
<1> QED BY <1>2 DEF RequestId, Id

LEMMA NoneIsNoRequest == None \notin Request /\ Request \subseteq Nat
  BY DEF None, Request

-----------------------------------------------------------------------------
LEMMA TypeInit == Init => TypeOK
  BY SpaceAssumption DEF Init, TypeOK, Id, Request, None

LEMMA TypeNext == TypeOK /\ [Next]_vars => TypeOK'
<1> SUFFICES ASSUME TypeOK, [Next]_vars PROVE TypeOK'
  OBVIOUS
<1> USE DEF connection_vars, table_vars, promise_vars
<1>1. CASE connect
  BY <1>1 DEF connect, TypeOK
<1>2. CASE close
  BY <1>2 DEF close, closeSocket, TypeOK
<1>3. CASE onSocketConnected
  BY <1>3 DEF onSocketConnected, TypeOK
<1>4. CASE SocketCloses
  BY <1>4 DEF SocketCloses, TypeOK
<1>5. ASSUME NEW state \in {"disconnected", "failed"}, SocketLost(state) PROVE TypeOK'
  <2>1. status' \in {"unconnected", "failed", "disconnected"}
    BY <1>5 DEF SocketLost
  <2>2. requests' \in [Id -> Request \cup {None}] /\ timers' \subseteq Request
    BY <1>5 DEF SocketLost, abortPendingRequests, TypeOK
  <2>3. outcome' \in [Request -> {"unsent", "pending", "answered", "RequestTimeout",
                                  "ConnectionClosed"}]
    <3> DEFINE aborted == {requests[i] : i \in Id} \ {None}
    <3>1. outcome' = [n \in Request |->
            IF n \in aborted /\ Pending(n) THEN "ConnectionClosed" ELSE outcome[n]]
      BY <1>5 DEF SocketLost, abortPendingRequests
    <3> HIDE DEF aborted
    <3> QED BY <3>1 DEF TypeOK
  <2>4. resolved' \subseteq Request
    BY <1>5 DEF SocketLost, abortPendingRequests, TypeOK
  <2> QED BY <1>5, <2>1, <2>2, <2>3, <2>4 DEF SocketLost, closeSocket, TypeOK
<1>6. CASE sendRequest
  <2>1. requestIdIndex + 1 \in Request
    BY <1>6 DEF sendRequest
  <2>2. requests' \in [Id -> Request \cup {None}]
    BY <1>6, <2>1, IdOfRequest DEF sendRequest, TypeOK
  <2> QED BY <1>6, <2>1, <2>2, SpaceAssumption DEF sendRequest, TypeOK, Request
<1>7. ASSUME NEW n \in Request, handleResponse(n) PROVE TypeOK'
  <2>1. requests[RequestId(n)] \in Request \cup {None}
    BY IdOfRequest DEF TypeOK
  <2>2. CASE requests[RequestId(n)] = None \/ ~Pending(requests[RequestId(n)])
    BY <1>7, <2>2 DEF handleResponse, TypeOK
  <2>3. CASE requests[RequestId(n)] # None /\ Pending(requests[RequestId(n)])
    BY <1>7, <2>1, <2>3 DEF handleResponse, TypeOK
  <2> QED BY <2>2, <2>3
<1>8. ASSUME NEW n \in Request, timeout(n) PROVE TypeOK'
  <2>1. CASE Pending(n)
    BY <1>8, <2>1 DEF timeout, TypeOK
  <2>2. CASE ~Pending(n)
    BY <1>8, <2>2 DEF timeout, TypeOK
  <2> QED BY <2>1, <2>2
<1>9. ASSUME NEW n \in Request, resume(n) PROVE TypeOK'
  BY <1>9 DEF resume, TypeOK
<1>10. CASE UNCHANGED vars
  BY <1>10 DEF vars, TypeOK
<1> QED BY <1>1, <1>2, <1>3, <1>4, <1>5, <1>6, <1>7, <1>8, <1>9, <1>10
        DEF Next, onSocketClosed, onSocketError

-----------------------------------------------------------------------------
\* Under way: pending, or its answer is still to come.
UnderWay(n) == Pending(n) \/ n \in unanswered

\* The table, the timers and the promises agree.  What is under way was sent
\* within the last round of ids; a request that was resolved and not resumed
\* has at most its own entry in the table.
TableInv ==
    /\ PendingIsTracked
    /\ AnswersOwn
    /\ \A n \in timers : Pending(n)
    /\ \A i \in Id : requests[i] # None =>
          /\ RequestId(requests[i]) = i
          /\ Pending(requests[i]) \/ requests[i] \in resolved
    /\ \A n \in resolved : ~Pending(n) /\ requests[RequestId(n)] \in {None, n}
    /\ \A n \in Request : UnderWay(n) =>
          n <= requestIdIndex /\ requestIdIndex - n < IdSpace

LEMMA TableInit == Init => TableInv
  BY NoneIsNoRequest, IdOfRequest
     DEF Init, TableInv, PendingIsTracked, AnswersOwn, Pending, UnderWay

\* Steps that leave the requests alone, answers that are lost aside.
LEMMA TableKept ==
  ASSUME TableInv, UNCHANGED <<requestIdIndex, table_vars, promise_vars>>,
         unanswered' \subseteq unanswered
  PROVE  TableInv'
  BY DEF TableInv, PendingIsTracked, AnswersOwn, Pending, UnderWay, table_vars, promise_vars

\* Between two tasks an entry of the table is a pending request.
LEMMA EntryIsPending ==
  ASSUME TypeOK, TableInv, Idle, NEW i \in Id, requests[i] # None
  PROVE  requests[i] \in Request /\ RequestId(requests[i]) = i /\ Pending(requests[i])
  BY DEF TypeOK, TableInv, Idle

LEMMA TableNext == TypeOK /\ TableInv /\ [Next]_vars => TableInv'
<1> SUFFICES ASSUME TypeOK, TableInv, [Next]_vars PROVE TableInv'
  OBVIOUS
<1> USE DEF connection_vars
<1>1. CASE connect \/ close \/ onSocketConnected \/ SocketCloses \/ UNCHANGED vars
  <2>1. /\ UNCHANGED <<requestIdIndex, table_vars, promise_vars>>
        /\ unanswered' \subseteq unanswered
    BY <1>1 DEF connect, close, closeSocket, onSocketConnected, SocketCloses, vars
  <2> QED BY <2>1, TableKept
<1>2. ASSUME NEW state \in {"disconnected", "failed"}, SocketLost(state) PROVE TableInv'
  <2> DEFINE aborted == {requests[i] : i \in Id} \ {None}
  <2>1. /\ requests' = [i \in Id |-> None]
        /\ timers' = timers \ aborted
        /\ outcome' = [n \in Request |->
              IF n \in aborted /\ Pending(n) THEN "ConnectionClosed" ELSE outcome[n]]
        /\ resolved' = resolved \cup {n \in aborted : Pending(n)}
        /\ unanswered' = {} /\ UNCHANGED <<requestIdIndex, answer_of>>
        /\ Idle
    BY <1>2 DEF SocketLost, abortPendingRequests, closeSocket
  <2>2. \A n \in Request : Pending(n) => n \in aborted
    BY IdOfRequest, NoneIsNoRequest DEF TableInv, PendingIsTracked
  <2>3. aborted \subseteq Request
    BY DEF TypeOK
  <2> HIDE DEF aborted
  <2>4. \A n \in Request : ~Pending(n)'
    BY <2>1, <2>2 DEF Pending
  <2>5. timers' = {}
    BY <2>1, <2>2 DEF TableInv, TypeOK
  <2>6. AnswersOwn'
    BY <2>1 DEF TableInv, AnswersOwn
  <2>7. resolved' \subseteq Request
    BY <2>1, <2>3 DEF TypeOK
  <2> QED BY <2>1, <2>4, <2>5, <2>6, <2>7, IdOfRequest
          DEF TableInv, PendingIsTracked, UnderWay
<1>3. CASE sendRequest
  <2>0. PICK n \in Request : n = requestIdIndex + 1
    BY <1>3 DEF sendRequest
  <2>1. /\ Idle
        /\ \A k \in Request : UnderWay(k) => n - k < IdSpace
        /\ requestIdIndex' = n
        /\ requests' = [requests EXCEPT ![RequestId(n)] = n]
        /\ timers' = timers \cup {n}
        /\ outcome' = [outcome EXCEPT ![n] = "pending"]
        /\ unanswered' = unanswered \cup {n}
        /\ UNCHANGED <<answer_of, resolved>>
    BY <1>3, <2>0 DEF sendRequest, UnderWay
  <2>2. requestIdIndex \in Nat
    BY SpaceAssumption DEF TypeOK
  <2>3. requests[RequestId(n)] = None
    <3> SUFFICES ASSUME requests[RequestId(n)] # None PROVE FALSE
      OBVIOUS
    <3> DEFINE m == requests[RequestId(n)]
    <3>1. m \in Request /\ RequestId(m) = RequestId(n) /\ Pending(m)
      BY <2>1, IdOfRequest, EntryIsPending
    <3>2. m <= requestIdIndex /\ n - m < IdSpace
      BY <2>1, <3>1 DEF TableInv, UnderWay
    <3>3. m \in Nat /\ IdSpace \in Nat /\ IdSpace > 0
      <4>1. m \in Nat
        BY <3>1, NoneIsNoRequest
      <4> QED BY <4>1, SpaceAssumption
    <3> HIDE DEF m
    <3>4. m < n /\ m - n < IdSpace
      BY <2>0, <2>2, <3>2, <3>3
    <3>5. m = n
      BY <3>1, <3>2, <3>4, IdsDiffer
    <3> QED BY <2>2, <3>3, <3>4, <3>5
  <2>4. /\ requests'[RequestId(n)] = n
        /\ \A i \in Id \ {RequestId(n)} : requests'[i] = requests[i]
    BY <2>1, IdOfRequest DEF TypeOK
  <2>5. /\ Pending(n)' /\ \A k \in Request \ {n} : outcome'[k] = outcome[k]
    BY <2>1 DEF TypeOK, Pending
  <2>6. PendingIsTracked'
    <3> SUFFICES ASSUME NEW k \in Request, Pending(k)'
                 PROVE  k \in timers' /\ requests'[RequestId(k)] = k
      BY DEF PendingIsTracked, Pending
    <3>1. CASE k = n
      BY <2>1, <2>4, <3>1
    <3>2. CASE k # n
      <4>1. Pending(k)
        BY <2>5, <3>2 DEF Pending
      <4>2. k \in timers /\ requests[RequestId(k)] = k
        BY <4>1 DEF TableInv, PendingIsTracked
      <4>3. RequestId(k) # RequestId(n)
        BY <2>3, <4>2, NoneIsNoRequest
      <4> QED BY <2>1, <2>4, <4>2, <4>3, IdOfRequest
    <3> QED BY <3>1, <3>2
  <2>7. AnswersOwn'
    BY <2>1, <2>5 DEF TableInv, AnswersOwn, Pending
  <2>8. \A k \in timers' : Pending(k)'
    BY <2>1, <2>5 DEF TableInv, TypeOK, Pending
  <2>9. \A i \in Id : requests'[i] # None =>
          RequestId(requests'[i]) = i /\ Pending(requests[i])'
    <3> SUFFICES ASSUME NEW i \in Id, requests'[i] # None
                 PROVE  RequestId(requests'[i]) = i /\ Pending(requests[i])'
      OBVIOUS
    <3>1. CASE i = RequestId(n)
      BY <2>4, <2>5, <3>1 DEF Pending
    <3>2. CASE i # RequestId(n)
      <4>1. requests'[i] = requests[i]
        BY <2>4, <3>2
      <4>2. requests[i] \in Request /\ RequestId(requests[i]) = i /\ Pending(requests[i])
        BY <2>1, <4>1, EntryIsPending
      <4> QED BY <2>5, <4>1, <4>2 DEF Pending
    <3> QED BY <3>1, <3>2
  <2>10. resolved' = {}
    BY <2>1 DEF Idle
  <2>11. \A k \in Request : UnderWay(k)' =>
           k <= requestIdIndex' /\ requestIdIndex' - k < IdSpace
    <3> SUFFICES ASSUME NEW k \in Request, UnderWay(k)'
                 PROVE  k <= requestIdIndex' /\ requestIdIndex' - k < IdSpace
      BY DEF UnderWay, Pending
    <3>1. CASE k = n
      BY <2>0, <2>1, <2>2, <3>1, SpaceAssumption
    <3>2. CASE k # n
      <4>1. UnderWay(k)
        BY <2>1, <2>5, <3>2 DEF UnderWay, Pending
      <4>2. k <= requestIdIndex
        BY <4>1 DEF TableInv
      <4> QED BY <2>0, <2>1, <2>2, <4>1, <4>2, NoneIsNoRequest
    <3> QED BY <3>1, <3>2
  <2> QED BY <2>6, <2>7, <2>8, <2>9, <2>10, <2>11 DEF TableInv, Pending, UnderWay
<1>4. ASSUME NEW n \in Request, handleResponse(n) PROVE TableInv'
  <2> DEFINE request == requests[RequestId(n)]
  <2>1. /\ Idle /\ n \in unanswered
        /\ unanswered' = unanswered \ {n}
        /\ requests' = [requests EXCEPT ![RequestId(n)] = None]
        /\ timers' = timers \ {request}
        /\ UNCHANGED requestIdIndex
    BY <1>4 DEF handleResponse
  <2>2. CASE request = None
    <3>1. UNCHANGED <<requests, timers, promise_vars>>
      <4>1. requests' = requests
        BY <2>1, <2>2, IdOfRequest DEF TypeOK
      <4>2. timers' = timers
        BY <2>1, <2>2, NoneIsNoRequest DEF TypeOK
      <4>3. UNCHANGED promise_vars
        BY <1>4, <2>2 DEF handleResponse
      <4> QED BY <4>1, <4>2, <4>3
    <3> QED BY <2>1, <3>1, TableKept DEF table_vars
  <2>3. CASE request # None
    <3>1. request \in Request /\ RequestId(request) = RequestId(n) /\ Pending(request)
      BY <2>1, <2>3, IdOfRequest, EntryIsPending
    <3>2. request = n
      <4>1. /\ n <= requestIdIndex /\ requestIdIndex - n < IdSpace
            /\ request <= requestIdIndex /\ requestIdIndex - request < IdSpace
        BY <2>1, <3>1 DEF TableInv, UnderWay
      <4>2. requestIdIndex \in Nat /\ n \in Nat /\ request \in Nat /\ IdSpace \in Nat
        <5>1. requestIdIndex \in Nat /\ IdSpace \in Nat
          BY SpaceAssumption DEF TypeOK
        <5> QED BY <3>1, <5>1, NoneIsNoRequest
      <4> HIDE DEF request
      <4>3. request - n < IdSpace /\ n - request < IdSpace
        BY <4>1, <4>2
      <4> QED BY <3>1, <4>3, IdsDiffer
    <3>3. /\ outcome' = [outcome EXCEPT ![n] = "answered"]
          /\ answer_of' = [answer_of EXCEPT ![n] = n]
          /\ resolved' = {n}
      BY <1>4, <2>3, <3>1, <3>2 DEF handleResponse
    <3>4. /\ ~Pending(n)' /\ answer_of'[n] = n
          /\ \A k \in Request \ {n} : outcome'[k] = outcome[k] /\ answer_of'[k] = answer_of[k]
      BY <3>3 DEF TypeOK, Pending
    <3>5. /\ requests'[RequestId(n)] = None
          /\ \A i \in Id \ {RequestId(n)} : requests'[i] = requests[i]
      BY <2>1, IdOfRequest DEF TypeOK
    <3>6. PendingIsTracked'
      <4> SUFFICES ASSUME NEW k \in Request, Pending(k)'
                   PROVE  k \in timers' /\ requests'[RequestId(k)] = k
        BY DEF PendingIsTracked, Pending
      <4>1. k # n /\ Pending(k)
        BY <3>4 DEF Pending
      <4>2. k \in timers /\ requests[RequestId(k)] = k
        BY <4>1 DEF TableInv, PendingIsTracked
      <4>3. RequestId(k) # RequestId(n)
        BY <3>2, <4>1, <4>2
      <4> QED BY <2>1, <3>2, <3>5, <4>1, <4>2, <4>3, IdOfRequest
    <3>7. AnswersOwn'
      BY <3>4 DEF TableInv, AnswersOwn
    <3>8. \A k \in timers' : Pending(k)'
      BY <2>1, <3>2, <3>4 DEF TableInv, TypeOK, Pending
    <3>9. \A i \in Id : requests'[i] # None =>
            RequestId(requests'[i]) = i /\ Pending(requests[i])'
      <4> SUFFICES ASSUME NEW i \in Id, requests'[i] # None
                   PROVE  RequestId(requests'[i]) = i /\ Pending(requests[i])'
        OBVIOUS
      <4>1. i # RequestId(n) /\ requests'[i] = requests[i]
        BY <3>5
      <4>2. requests[i] \in Request /\ RequestId(requests[i]) = i /\ Pending(requests[i])
        BY <2>1, <4>1, EntryIsPending
      <4>3. requests[i] # n
        BY <4>1, <4>2
      <4> QED BY <3>4, <4>1, <4>2, <4>3 DEF Pending
    <3>10. \A k \in resolved' : ~Pending(k)' /\ requests'[RequestId(k)] \in {None, k}
      BY <3>3, <3>4, <3>5
    <3>11. \A k \in Request : UnderWay(k)' => UnderWay(k)
      BY <2>1, <3>4 DEF UnderWay, Pending
    <3> QED BY <2>1, <3>6, <3>7, <3>8, <3>9, <3>10, <3>11 DEF TableInv, Pending, UnderWay
  <2> QED BY <2>2, <2>3
<1>5. ASSUME NEW n \in Request, timeout(n) PROVE TableInv'
  <2>1. Pending(n)
    BY <1>5 DEF timeout, TableInv
  <2>2. /\ Idle /\ timers' = timers \ {n}
        /\ outcome' = [outcome EXCEPT ![n] = "RequestTimeout"]
        /\ resolved' = {n}
        /\ UNCHANGED <<requestIdIndex, requests, answer_of, unanswered>>
    BY <1>5, <2>1 DEF timeout
  <2>3. /\ ~Pending(n)' /\ outcome'[n] # "answered"
        /\ \A k \in Request \ {n} : outcome'[k] = outcome[k]
    BY <2>2 DEF TypeOK, Pending
  <2>4. requests[RequestId(n)] = n
    BY <2>1 DEF TableInv, PendingIsTracked
  <2>5. PendingIsTracked'
    BY <2>2, <2>3 DEF TableInv, PendingIsTracked, Pending
  <2>6. AnswersOwn'
    BY <2>2, <2>3 DEF TableInv, AnswersOwn
  <2>7. \A k \in timers' : Pending(k)'
    BY <2>2, <2>3 DEF TableInv, TypeOK, Pending
  <2>8. \A i \in Id : requests'[i] # None =>
          RequestId(requests'[i]) = i /\ (Pending(requests[i])' \/ requests'[i] \in resolved')
    <3> SUFFICES ASSUME NEW i \in Id, requests[i] # None
                 PROVE  RequestId(requests[i]) = i /\ (Pending(requests[i])' \/ requests[i] = n)
      BY <2>2 DEF Pending
    <3>1. requests[i] \in Request /\ RequestId(requests[i]) = i /\ Pending(requests[i])
      BY <2>2, EntryIsPending
    <3> QED BY <2>2, <2>3, <3>1 DEF Pending
  <2>9. \A k \in Request : UnderWay(k)' => UnderWay(k)
    BY <2>1, <2>2, <2>3 DEF UnderWay, Pending
  <2> QED BY <2>2, <2>3, <2>4, <2>5, <2>6, <2>7, <2>8, <2>9 DEF TableInv, Pending, UnderWay
<1>6. ASSUME NEW n \in Request, resume(n) PROVE TableInv'
  <2> DEFINE request == requests[RequestId(n)]
  <2>1. /\ n \in resolved /\ resolved' = resolved \ {n}
        /\ timers' = timers \ {request}
        /\ requests' = [requests EXCEPT ![RequestId(n)] = None]
        /\ UNCHANGED <<requestIdIndex, outcome, answer_of, unanswered>>
    BY <1>6 DEF resume
  <2>2. ~Pending(n) /\ request \in {None, n}
    BY <2>1 DEF TableInv
  <2>3. timers' = timers
    <3>1. timers \subseteq Request /\ \A k \in timers : Pending(k)
      BY DEF TableInv, TypeOK
    <3>2. request \notin timers
      BY <2>2, <3>1, NoneIsNoRequest
    <3> QED BY <2>1, <3>2
  <2>4. /\ requests'[RequestId(n)] = None
        /\ \A i \in Id \ {RequestId(n)} : requests'[i] = requests[i]
    BY <2>1, IdOfRequest DEF TypeOK
  <2>5. PendingIsTracked'
    <3> SUFFICES ASSUME NEW k \in Request, Pending(k)
                 PROVE  k \in timers /\ requests'[RequestId(k)] = k
      BY <2>1, <2>3 DEF PendingIsTracked, Pending
    <3>1. k \in timers /\ requests[RequestId(k)] = k
      BY DEF TableInv, PendingIsTracked
    <3>2. RequestId(k) # RequestId(n)
      BY <2>2, <3>1, NoneIsNoRequest
    <3> QED BY <2>4, <3>1, <3>2, IdOfRequest
  <2>6. \A i \in Id : requests'[i] # None =>
          requests'[i] = requests[i] /\ requests[i] # n
    <3> SUFFICES ASSUME NEW i \in Id, requests'[i] # None
                 PROVE  requests'[i] = requests[i] /\ requests[i] # n
      OBVIOUS
    <3>1. i # RequestId(n) /\ requests'[i] = requests[i]
      BY <2>4
    <3> QED BY <3>1 DEF TableInv
  <2>7. \A k \in resolved' : requests'[RequestId(k)] \in {None, k}
    BY <2>1, <2>4, IdOfRequest DEF TableInv, TypeOK
  <2>8. /\ AnswersOwn' /\ \A k \in timers' : Pending(k)'
    BY <2>1, <2>3 DEF TableInv, AnswersOwn, Pending
  <2>9. \A i \in Id : requests'[i] # None =>
          RequestId(requests'[i]) = i /\ (Pending(requests[i])' \/ requests'[i] \in resolved')
    BY <2>1, <2>6 DEF TableInv, Pending
  <2> QED BY <2>1, <2>5, <2>7, <2>8, <2>9 DEF TableInv, Pending, UnderWay
<1> QED BY <1>1, <1>2, <1>3, <1>4, <1>5, <1>6 DEF Next, onSocketClosed, onSocketError

-----------------------------------------------------------------------------
LEMMA InvCorrect == Spec => [](TypeOK /\ TableInv)
<1>1. Init => TypeOK /\ TableInv
  BY TypeInit, TableInit
<1>2. TypeOK /\ TableInv /\ [Next]_vars => (TypeOK /\ TableInv)'
  BY TypeNext, TableNext
<1> QED BY <1>1, <1>2, PTL DEF Spec

\* The state of the connection is well typed.
THEOREM TypeCorrect == Spec => []TypeOK
<1> QED BY InvCorrect, PTL

\* No request is settled by another one's answer, however narrow the ids are,
\* as long as less than one round of them is under way.
THEOREM OwnAnswers == Spec => []AnswersOwn
<1>1. TableInv => AnswersOwn
  BY DEF TableInv
<1> QED BY <1>1, InvCorrect, PTL

\* A pending request keeps its entry and its timer whatever other requests do.
THEOREM PendingTracked == Spec => []PendingIsTracked
<1>1. TableInv => PendingIsTracked
  BY DEF TableInv
<1> QED BY <1>1, InvCorrect, PTL

\* Between tasks the table and the timers hold pending requests only.
THEOREM NothingLeft == Spec => []NothingLeftBehind
<1>1. TableInv => NothingLeftBehind
  BY DEF TableInv, NothingLeftBehind, Idle
<1> QED BY <1>1, InvCorrect, PTL
=============================================================================
