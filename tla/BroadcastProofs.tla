--------------------------- MODULE BroadcastProofs ---------------------------
(***************************************************************************)
(* The wakeups of a broadcast for any set of clients, and the safety part  *)
(* of the refinement to BroadcastTask.  NoLostWakeup is inductive on its   *)
(* own: an event that finds the task asleep finds its stream registered.   *)
(***************************************************************************)
EXTENDS Broadcast, TLAPS

LEMMA TypeInit == Init => TypeOK
<1> SUFFICES ASSUME Init PROVE TypeOK
  OBVIOUS
<1>1. Subscribed = {} /\ targets \in [Subscribed -> TargetStream]
  BY DEF Init, Subscribed
<1>2. source \in SourceStream
  BY DEF Init, SourceStream
<1> QED BY <1>1, <1>2 DEF Init, TypeOK

LEMMA TypeNext == TypeOK /\ [Next]_vars => TypeOK'
<1> SUFFICES ASSUME TypeOK, [Next]_vars PROVE TypeOK'
  OBVIOUS
<1>1. CASE Stop
  BY <1>1 DEF Stop, TypeOK, Subscribed
<1>2. ASSUME NEW c \in ClientId, Subscribe(c) PROVE TypeOK'
  <2>1. Subscribed' = Subscribed \cup {c} /\ targets' \in [Subscribed \cup {c} -> TargetStream]
    BY <1>2 DEF Subscribe, TypeOK, Subscribed, TargetStream
  <2> QED BY <1>2, <2>1 DEF Subscribe, TypeOK
<1>3. ASSUME NEW c \in ClientId, Unsubscribe(c) PROVE TypeOK'
  <2>1. Subscribed' = Subscribed \ {c} /\ targets' \in [Subscribed \ {c} -> TargetStream]
    BY <1>3 DEF Unsubscribe, TypeOK, Subscribed
  <2> QED BY <1>3, <2>1 DEF Unsubscribe, TypeOK
<1>4. ASSUME NEW e \in {"media", "end"}, SourceEvent(e) PROVE TypeOK'
  <2>1. source' \in SourceStream /\ woken' \in BOOLEAN
    BY <1>4 DEF SourceEvent, SourceStream, TypeOK
  <2> QED BY <1>4, <2>1 DEF SourceEvent, TypeOK, Subscribed
<1>5. ASSUME NEW c \in ClientId, NEW e \in {"pli", "end"}, TargetEvent(c, e) PROVE TypeOK'
  <2>1. [next |-> e, watched |-> FALSE] \in TargetStream
    BY DEF TargetStream
  <2>2. Subscribed' = Subscribed /\ targets' \in [Subscribed -> TargetStream]
    BY <1>5, <2>1 DEF TargetEvent, TypeOK, Subscribed
  <2> QED BY <1>5, <2>2 DEF TargetEvent, TypeOK
<1>6. CASE PollShutdown
  BY <1>6 DEF PollShutdown, TypeOK, Subscribed
<1>7. CASE PollStreams
  <2>1. /\ Subscribed' \subseteq Subscribed
        /\ targets' \in [Subscribed' -> TargetStream]
    BY <1>7 DEF PollStreams, TypeOK, Subscribed, TargetStream, Registered
  <2>2. source' \in SourceStream /\ waker' \in BOOLEAN /\ task' \in {"polling", "ended"}
    <3>1. CASE source.next = "end"
      BY <1>7, <3>1 DEF PollStreams, TypeOK
    <3>2. CASE source.next # "end"
      <4>1. Registered(source) \in SourceStream
        BY DEF Registered, SourceStream
      <4> QED BY <1>7, <3>2, <4>1 DEF PollStreams, TypeOK
    <3> QED BY <3>1, <3>2
  <2> QED BY <1>7, <2>1, <2>2 DEF PollStreams, TypeOK
<1>8. CASE UNCHANGED vars
  BY <1>8 DEF vars, TypeOK, Subscribed
<1> QED BY <1>1, <1>2, <1>3, <1>4, <1>5, <1>6, <1>7, <1>8 DEF Next, Poll

-----------------------------------------------------------------------------
LEMMA WakeupInit == Init => NoLostWakeup
  BY DEF Init, NoLostWakeup

LEMMA WakeupNext == TypeOK /\ NoLostWakeup /\ [Next]_vars => NoLostWakeup'
<1> SUFFICES ASSUME TypeOK, NoLostWakeup, [Next]_vars,
                    task' = "polling", ~woken'
             PROVE  /\ ~shutdown' /\ waker'
                    /\ Idle(source)' /\ source'.watched
                    /\ \A c \in Subscribed' : Idle(targets'[c]) /\ targets'[c].watched
  BY DEF NoLostWakeup, Idle
<1>1. CASE Stop
  BY <1>1 DEF Stop, NoLostWakeup, TypeOK
<1>2. ASSUME NEW c \in ClientId, Subscribe(c) \/ Unsubscribe(c) PROVE FALSE
  BY <1>2 DEF Subscribe, Unsubscribe, NoLostWakeup, TypeOK
<1>3. ASSUME NEW e \in {"media", "end"}, SourceEvent(e) PROVE FALSE
  BY <1>3 DEF SourceEvent, NoLostWakeup, TypeOK
<1>4. ASSUME NEW c \in ClientId, NEW e \in {"pli", "end"}, TargetEvent(c, e) PROVE FALSE
  BY <1>4 DEF TargetEvent, NoLostWakeup, TypeOK
<1>5. CASE PollShutdown
  BY <1>5 DEF PollShutdown
<1>6. CASE PollStreams
  <2>1. source.next # "end" /\ source' = Registered(source) /\ waker'
    BY <1>6 DEF PollStreams
  <2>2. \A c \in Subscribed' : targets'[c] = Registered(targets[c])
    BY <1>6 DEF PollStreams, Subscribed
  <2> QED BY <1>6, <2>1, <2>2 DEF PollStreams, Registered, Idle
<1>7. CASE UNCHANGED vars
  BY <1>7 DEF vars, NoLostWakeup, Subscribed, Idle
<1> QED BY <1>1, <1>2, <1>3, <1>4, <1>5, <1>6, <1>7 DEF Next, Poll

\* The future's state is well typed, and while it sleeps everything it has to
\* hear of will wake it.
THEOREM WakeupsKept == Spec => [](TypeOK /\ NoLostWakeup)
<1>1. Init => TypeOK /\ NoLostWakeup
  BY TypeInit, WakeupInit
<1>2. TypeOK /\ NoLostWakeup /\ [Next]_vars => (TypeOK /\ NoLostWakeup)'
  BY TypeNext, WakeupNext
<1> QED BY <1>1, <1>2, PTL DEF Spec

-----------------------------------------------------------------------------
\* Every step of the future is a step of the task the room relies on, or none.
LEMMA StepImplementsTask == TypeOK /\ [Next]_vars => [Task!Next]_(Task!vars)
<1> USE DEF Task!vars
<1> SUFFICES ASSUME TypeOK, [Next]_vars PROVE [Task!Next]_(Task!vars)
  OBVIOUS
<1>1. CASE Stop
  BY <1>1 DEF Stop, Subscribed, Task!Next, Task!Stop
<1>2. ASSUME NEW c \in ClientId, Subscribe(c) PROVE Task!Next
  <2>1. Task!Subscribe(c)
    BY <1>2 DEF Subscribe, Subscribed, Task!Subscribe
  <2> QED BY <2>1 DEF Task!Next
<1>3. ASSUME NEW c \in ClientId, Unsubscribe(c) PROVE Task!Next
  <2>1. Task!Unsubscribe(c)
    BY <1>3 DEF Unsubscribe, Subscribed, Task!Unsubscribe
  <2> QED BY <2>1 DEF Task!Next
<1>4. ASSUME NEW e \in {"media", "end"}, SourceEvent(e) PROVE UNCHANGED Task!vars
  BY <1>4 DEF SourceEvent, Subscribed
<1>5. ASSUME NEW c \in ClientId, NEW e \in {"pli", "end"}, TargetEvent(c, e)
      PROVE  UNCHANGED Task!vars
  BY <1>5 DEF TargetEvent, Subscribed, TypeOK
<1>6. CASE PollShutdown
  BY <1>6 DEF PollShutdown, Scheduled, Subscribed, Task!Next, Task!PollShutdown
<1>7. CASE PollStreams
  <2> DEFINE gone == {x \in Subscribed : targets[x].next = "end"}
  <2>1. gone \in SUBSET ClientId /\ Subscribed' = Subscribed \ gone
    BY <1>7 DEF PollStreams, Subscribed, TypeOK
  <2>2. task' \in {"polling", "ended"}
    BY <1>7 DEF PollStreams, TypeOK
  <2>3. Task!PollStreams(gone, task')
    BY <1>7, <2>1 DEF PollStreams, Scheduled, Task!PollStreams
  <2> QED BY <2>1, <2>2, <2>3 DEF Task!Next
<1>8. CASE UNCHANGED vars
  BY <1>8 DEF vars, Subscribed
<1> QED BY <1>1, <1>2, <1>3, <1>4, <1>5, <1>6, <1>7, <1>8 DEF Next, Poll

\* The future implements the safety part of the task the room relies on.
THEOREM ImplementsTaskSafely == Spec => Task!Init /\ [][Task!Next]_(Task!vars)
<1>1. Init => Task!Init
  BY DEF Init, Subscribed, Task!Init
<1> QED BY <1>1, WakeupsKept, StepImplementsTask, PTL DEF Spec
=============================================================================
