# Verification of simple-screen-share

simple-screen-share is a server (Rust, tokio, webrtc-rs) and a browser client
(TypeScript) that let the members of a room send their audio and video streams
to each other through the server. This directory holds TLA+ models of its
concurrent core, the TLC configurations that check them and TLAPS proofs about
them. Paths in this file are relative to the repository's `server/src` and
`client/src`.

## 1. Inventory

### Server (`server/src`)

| component | state | operations | talks to |
|---|---|---|---|
| `Room` (`rtp_server/room.rs`) | members, user ids, per-client list of broadcast ids, map of broadcasts | `add_client`, `remove_client`, `client_broadcast_start/stop/subscribe/unsubscribe`, the task of each broadcast | sends notifications to `SignalingClient`s; polls sources and targets of `RtpClient`s |
| `ClientBroadcast` (`room.rs`) | source stream, target streams, waker, shutdown oneshot | `poll` | woken by streams, by subscribe/unsubscribe and by the oneshot |
| `SignalingClient` (`rtp_server/client.rs`) | `Connected`/`Disconnecting`/`Unconnected`, channel, oneshots, subscribers | `from_socket`, read loop, write loop, `disconnect`, `close_connection`, `send_message` | calls the request handler and the subscribers of the server |
| `RtpServer` (`rtp_server/server.rs`) | clients, their rooms and peers, rooms, join tokens | accept loop, `tick`, `create_join_token`, `handle_request`, cleanup after `connection_closed` | owns all of the above |
| `RtpClient` (`rtp_server/client_rtp.rs`) | peer connection, receiving and sending tracks and their io loops | `apply_offer/answer/ice_candidates`, renegotiation, `create_broadcast_source/target`, `close` | webrtc-rs; sources and targets of broadcasts |
| `SequencePatcher` (`client_rtp.rs`) | last input and last output number | `process` | io loop of a sending track |
| REST (`rest_controller/*`) | database, JWT keys | register, login, session check, create/join room | `RtpServer::create_join_token` |

### Client (`client/src`)

| component | state | operations |
|---|---|---|
| `SignallingConnection` (`backend/rtp-connection/signaling.ts`) | web socket, pending requests, next id | connect, request with timeout, close, notifications |
| `RtpConnection` (`backend/rtp-connection/index.ts`) | phase, users, broadcasts, subscriptions | connect, close, broadcast and subscribe requests, notification handlers |
| peer connection (`rtc.ts`, `sdp.ts`) | transceivers, cached ICE candidates and their two "finished" flags | offers, answers, candidates |
| login state (`state/auth.ts`), axios, `utils/observable.ts` | token, login state | login, logout, updates |
| views, virtual camera, bootstrap | React state, canvas | rendering |

### What is hard

* Locks are asynchronous mutexes taken in several short sections of one
  request; the sections of requests, cleanup tasks and loops interleave
  (`server.rs:344-418` against `267-294`).
* Four tasks share one connection and each may take it down
  (`client.rs:96-298`).
* A broadcast is a future that sleeps until something wakes it (`room.rs:73-133`),
  and its end locks the room on its own (`room.rs:338-359`).
* Numbers wrap (`client_rtp.rs:519-541`, `signaling.ts:117`).
* Lists keep ids of things that are gone (`room.rs:142`, tracks in `client_rtp.rs`).

* What a task found under a lock is used after it was given up: handlers of
  tracks (`client_rtp.rs:258`), targets between the sections of a subscription
  (`server.rs:523-547`), the state of the page after an `await` (`index.ts:226-246`).
* Candidates come before and after the session, on both sides (`rtc.ts:343-411`).

`PROJECT.json` lists every such place as a hazard, with the properties that
cover it or the reason why none does.

### What makes each component correct

* Room: what a member has been told adds up to what is in the room; every
  broadcast that goes on has a present owner who can stop it; what is stopped
  leaves, and everybody is told.
* Broadcast: never asleep on unread input; a stop is final.
* Signaling client: callbacks come once and in order whatever task closes;
  answers keep their order; every failure takes the connection all the way down.
* Server: rooms are entered by tokens only, each spent once; an open session
  has its room and its peer; a closed connection is forgotten and in no room.
* Sequence patcher: packets of one source keep their distances, packets of
  different sources never share a number.
* Signaling connection of the page: a request is settled, and by its own
  answer only; what is pending can be settled and nothing else is in the table.
* Receiving tracks: whoever reads a source learns of its end, whether the
  track ended, timed out or was taken by a newer broadcast.
* Sending tracks: a track carries one subscription and is free again after it,
  however the subscription went; a key frame request never blocks a track.
* RTP connection of the page: once failed or closed it stays down; connecting
  comes to something; subscriptions agree with the server; no candidate is
  left in a cache, doubled or overtaken on its way to the peer.

## 2. Modules

| module | models | role |
|---|---|---|
| `Room` | `room.rs`, all of `impl Room` | one action per method (each runs under the room's mutex) and three for the task of a broadcast |
| `RoomProofs` | | theorems about `Room` |
| `BroadcastTask` | what `Room` relies on of a broadcast task | abstract specification |
| `Broadcast` | `impl Future for ClientBroadcast` with wakers | implements `BroadcastTask` |
| `BroadcastProofs` | | theorems about `Broadcast` |
| `SignalingClient` | `client.rs`, all of it | four tasks, one action per step between locks |
| `SignalingClientProofs` | | theorems about `SignalingClient` |
| `RtpServer` | `server.rs`: accept loop, tokens, `InitializeSession`, cleanup | one action per locked section |
| `RtpServerProofs` | | theorems about `RtpServer` |
| `SequencePatcher` | `client_rtp.rs:476-542` | the arithmetic as operators, packets as environment |
| `ReceivingTracks` | `client_rtp.rs:60-330, 1002-1066, 1101-1178` | one action per section under the lock of the client or of a handler, and one per step of an io loop |
| `ReceivingTracksProofs` | | theorems about `ReceivingTracks` |
| `SendingTracks` | `client_rtp.rs:337-428, 642-678, 1180-1259`, `server.rs:515-556`, the subscriptions of `room.rs` | composes the requests of one client, its sending tracks and the targets in the room |
| `SendingTracksProofs` | | theorems about `SendingTracks` and about the `SequencePatcher` of every sending track |
| `RtpConnection` | `index.ts`, the ICE side of `rtc.ts`, and what `server.rs` and `client_rtp.rs` answer | composes page, socket and server |
| `RtpConnectionProofs` | | theorems about `RtpConnection` |
| `SignallingConnection` | `signaling.ts`, all but the notify handlers | one action per task of the event loop |
| `SignallingConnectionProofs` | | theorems about `SignallingConnection` |

Operators named `<operation>_<slip>` (`Subscribe_silent`, `TakeToken_kept`, ...)
are the operation with a plausible slip. They are not part of any `Next`; each
property is shown to fail when one of them takes the place of the operation.

### How state and actions correspond

**Room.** `clients` is `Room.clients` (and its twin `client_user_ids`),
`client_broadcasts` counts how often an id is in the `Vec` of a client (stop
removes one occurrence), `broadcasts` is the map, with the owner, the label
(kind and lower-cased name, which is all that start compares), the targets, and
whether the oneshot was sent. `users_seen` and `broadcasts_seen` stand for the
notifications: messages go into FIFO queues of the receivers while the room is
locked, so the running balance of what a member was told is what it believes.
Ids are drawn from those not in the map at the moment, as in
`generate_broadcast_id`, so an id may come back. The task of a broadcast
polls (`poll_shutdown`, `poll_streams`) without the room's lock and locks it
only in `finish_broadcast`.

**Broadcast.** A stream is abstracted to the most urgent thing that can be read
from it and to whether the task's waker is registered with it. The module makes
the polling of `Room` precise: `Task!Spec` is the projection of `Room`'s task
steps to one broadcast, and `Broadcast` implements it.

**SignalingClient.** `connection` is the enum; the two oneshots are flags;
`accept`, `reader`, `writer` and `closer` are program counters of the four tasks,
with a state of their own where a task waits for the client's mutex. `queue`,
`sending` and `wire` are the channel, the message in `stream.send` and the
socket. `disconnect` and `close_connection` are the methods, used by the actions
of the tasks that call them. Ids of answers are the numbers of the requests;
messages of the peer that need no answer change nothing and are left out.

**RtpServer.** Every block that holds the server's mutex is one action;
`handler[c]` says between which two blocks a request is. A connection is seen as
open, then closed, with a read loop that may take another request until it sees
the shutdown, as `select!` allows. The subscriber that starts the cleanup is
registered by the accept loop after the client's tasks have started, so a close
before that is not noticed, as in the code. `AlreadyInitialized` looks up the
key 0 like the code does. `admitted` and `disturbed` are history variables; the
latter has the clients of which the cleanup misses something, because when it
runs the accept loop has not registered them, a request of theirs is under way or
they are in a second room (`Overlooked`), or because they start a request after it.
Creation and offers of a peer may fail at will.

**SequencePatcher.** The code's operators are translated with wrapping
arithmetic on `0 .. Modulus - 1`; `Window` is `T::max_value() >> 2`. The
environment sends any numbers, as long as the packets of one sequence are at
most `Late` behind the newest; `position`, `top`, `floor` and `lead` are history,
the output as a receiver unwraps it.

**SignallingConnection.** JavaScript runs one task to its end, so a task is one
action, except that resolving a promise only queues the rest of `sendRequest`:
the requests concerned are in `resolved` and `resume` must take them out before
the next task starts (`Idle`). Requests are numbered by `requestIdIndex`;
`RequestId` is the mask. `requests` is the table by id, `timers` the requests
whose `setTimeout` is set, `outcome` what the promise came to, `unanswered` the
requests whose answer may still arrive on the present socket; as answers are
found by id, their order does not matter. A listener may close the connection
while it is told of a lost socket, as `RtpConnection` does.

**ReceivingTracks.** A track is entered under its stream id by `on_track` or
`create_broadcast_source`, whichever comes first, and its task goes through
`waiting` (for the binding), `running`, `closing` (the look at the handler after
the loop) and `removing` (the entry). `handler` names a handler by its source;
`sending` is what the task hands to the handler it found, which may be replaced
before the channel has a slot. `unmounting` are the tasks that `handle_unmount`
spawns. `binding` is never stored in the track by the code, so `update_handler`
mounts nothing. `joined` is history: where the task was when a source came.

**SendingTracks.** `request` is the section the client's present request is
in; broadcasts start and end between them. A target is made of a free track (no
event handler, whether or not its loop runs) and dropped with its broadcast, by
unsubscribe or when the room refuses it; its drop takes the handler of the track
whoever owns it. `asking` is a task in `handler.send(RequestPli).await`. Other
subscribers of a broadcast are left out: they share nothing with this client but
the future that polls all targets (module `Broadcast`). Kinds are left out, as
the code does not look at them when it picks a track.

**RtpConnection.** One action is a task of the page with all its microtasks, or
a locked section of the server. `sendRequest` is used by the contract that
`SignallingConnection` establishes: a request is settled once, by its own
answer, by its timeout or by the loss of the socket; `close` leaves it to the
timeout. `peer` is the browser's peer connection as far as the code waits for it
(`offering`, `answering`). Candidates are numbered in the order they are
gathered. As in the code, an `IceCandidates` request carries a list of
candidates and whether there are no more, so the end is a flag on either side
(`server_applied_end`, `handed_end`); in a notification it is candidate 0, the
`null` of the code. The requests are taken as one-way messages, since the page
only logs their answers.

Browser and webrtc-rs may refuse whatever they are given. On the server, the
handler of candidates ends with the first one that is refused, and those behind
it and the end are dropped with it (`IceCandidates`, `server_dropped`); candidates
for which it has no peer are dropped too, and the proofs show that an open page
never sends such. On the page, `addIceCandidate` may reject each candidate, which
the code only logs (`refused`); the cached ones go to the peer before the answer,
so the first of them is refused for certain and the others until the answer is
under way (`applyCachedRemote`). A rejected `createOffer`, `setLocalDescription` or
`setRemoteDescription` is caught by nobody and leaves the state as it is
(`OfferRejected`, `AnswerRejected`). Before the page has a local description
(`Described`) its senders have no transport, and `doClose` throws between the
closing of the peer and that of the socket. `gave_up`, `threw`, `arrived` and
`server_dropped` are history. One broadcast stands for all: the calls of two broadcasts share nothing.

## 3. Runs

| run | checks | bounds |
|---|---|---|
| `room` | `TypeOK`, `MembersKnowMembers`, `MembersKnowBroadcasts`, `NoOrphanBroadcast`, `OneBroadcastPerLabel`, `ShutdownCompletes` | 2 clients, 2 ids, 2 labels, each id at most twice in a list |
| `broadcast` | `NoLostWakeup`, `TargetsAreRead`, `ImplementsTask` | 2 subscribers |
| `signaling_client` | `TypeOK`, `CallbacksMatchState`, `AnswersInOrder`, `CloseIsLast`, `LoopsEnd` | 3 requests, 2 notifications |
| `rtp_server` | `TypeOK`, `AdmittedByToken`, `OpenSessionIsWhole`, `TokenSpentOnce`, `CloseCleansUp` | 2 connections, 2 rooms, 2 tokens |
| `sequence_patcher` | `PatcherTypeOK`, `FreshAcrossSequences`, `OffsetKept` | 5-bit numbers, gap 7 (the whole window), lateness 3, 15 numbers of advance (two changes of sequence) |
| `signalling_connection` | `TypeOK`, `AnswersOwn`, `PendingIsTracked`, `NothingLeftBehind`, `EverySettles` | 5 requests, 3 ids |
| `receiving_tracks` | `TypeOK`, `EndIsOwed`, `InstalledStays`, `EndIsHeard` | 2 stream ids, 2 tracks, 2 sources, channels of 1 |
| `sending_tracks` | `TypeOK`, `HandlersAreSubscriptions`, `KeyFrameRequestEnds` | 2 broadcasts, 2 tracks, 3 targets, channels of 1 |
| `rtp_connection` | `TypeOK`, `CandidatesConserved`, `SubscriptionsAgree`, `NeverBackUp`, `ConnectSettles` | 2 candidates of the page, 2 of the server with their end, 2 calls; 4 of all these together (`MaxEvents`) |

Why the bounds are enough: in the room, two ids and two entries per list are the
least with which an id is stale in one list and drawn again for another client,
and two labels the least with which the duplicate check must tell broadcasts
apart; with three requests and two notifications every message of the connection
can be in a different place (channel, send, wire) while a fourth, the close
frame, is queued; two tokens and two rooms let one client hold a session while it
asks for another, be in two rooms, and two clients contend for one token. With five requests and
three ids two ids are used twice, by requests whose predecessor was answered,
timed out, lost or answered late. Two sources and two tracks are the least
with which a source is displaced on its track, comes while the task of the track
is ending, or gets a second track of the same stream; a channel of one slot makes
every sender wait that can wait. Three targets over two tracks let a track be
used, freed and used again while the other one is taken. Two candidates of
either side can be on both sides of the session, arrive in either order and be
taken or refused each on its own; two calls overlap in every way. Candidates and
calls hardly touch each other, and four of them together include two candidates of
both sides, or two calls with two candidates. The patcher starts from
every number, so that input and output wrap at every point of a run. The
theorems of section 5 lift the bounds of all nine models for every safety
property; for liveness these arguments are what there is. Deadlock is
checked except where the system really stops: when the connection is down and
all its tasks have ended (`SignalingClient`), and when all admitted connections
are closed and the tokens are used up (`RtpServer`), when the bounds on
tracks, sources and targets are reached and all tasks are done (`ReceivingTracks`,
`SendingTracks`), and when the page is closed (`RtpConnection`).

### Runs that show a disagreement with the code's own words

| run | the code says | what happens |
|---|---|---|
| `rtp_connection_ice` | `rtc.ts:339-341`: what comes before the signaling connection "will be cached and applied as soon the signaling connection is provided", `null` for the end included | `processPendingIceCandidates` has the two flags exchanged (`rtc.ts:394-404`): the cached end is applied only if the page itself has finished |
| `rtp_connection_cached` | the same comment, of the candidates | the cached candidates are handed to the peer before the answer (`index.ts:238-239`); the first is refused and only logged |
| `rtp_connection_close` | `index.ts:185` "Close the connection and free all resources." | before the local offer is applied, `removeTrack` (`rtc.ts:64`) throws and the socket is not closed |

Other places where the models show what a comment does not say; they follow from
one step and have no run of their own:

* `room.rs:305` says "Should no happen." of a listed id that is not in the map: a
  source that ends by itself leaves its id in the list (`Room!finish_broadcast`).
* `client.rs:260` says "flush all messages": the spawned task closes at once, and
  the write loop may stop with messages queued (`SignalingClient!CloserClose`).
* `server.rs:353` looks up client 0, so a second token admits a client to a second
  room (`RtpServer!AlreadyInitialized`). The cleanup takes it out of that one only:
  it stays in the first.
* `server.rs:254` has a TODO, "Unregister the client from all rooms etc.", and the
  cleanup is indeed not complete: a session request that outlives it enters the
  closed client. These are exceptions of `CloseCleansUp`.
* `server.rs:460-472`: one refused candidate drops those behind it and the end of
  all (`RtpConnection!IceCandidates`).
* `index.ts:224` and `239`: a rejected offer or answer is not caught and the page
  stays "initializing" (`OfferRejected`, `AnswerRejected`).
* `client_rtp.rs:1207` says that a finished sending track is removed from the local
  list: only the peer loses it (`SendingTracks!remove_track`), and a later
  subscription may get it.
* `client_rtp.rs:958` says that candidates must be in order: each is sent from a
  task of its own (`RtpConnection!signaling_notify`), so the page may get the end
  before a candidate. `CandidatesConserved` starts from the order of arrival.
* `index.ts` has no handler for `NotifyBroadcastEnded`: a page keeps broadcasts
  that are gone. `SubscriptionsAgree` is about broadcasts that run.
* `client_rtp.rs:1121-1138`: a source put on a track between the last look of its
  task at the handler and the removal of the entry is never told of its end;
  `EndIsOwed` and `EndIsHeard` name this exception.

## 4. Fairness

* `Room`: `poll_shutdown` and `finish_broadcast` are weakly fair: tokio polls a
  woken task (`Broadcast` shows that a stop wakes it) and tokio's mutex is FIFO.
  Nobody is obliged to start, stop or subscribe anything.
* `Broadcast`: a woken task is polled; the streams owe nothing.
* `SignalingClient`: steps that only need the mutex or the CPU are weakly fair.
  `ReadShutdown` and `WriteShutdown` are strongly fair because `select!` picks a
  random ready branch: a loop with an endless supply of messages sees the shutdown
  with probability 1, but no fixed number of rounds is guaranteed. Reading from
  and writing to the socket are not fair.
* `RtpServer`: the tasks spawned by a close run and the lock of the server is fair.
  Everything else is free: accept loop, requests, read loops and closes.

* `SignallingConnection`: a resolved promise is resumed at once; an expired timer
  is strongly fair, as the event loop does not pass it over for ever while it
  serves other tasks. Server, network and user owe nothing.
* `ReceivingTracks`: tasks that can run do, a broadcast reads its source and lets
  go of it after its end (shown for `Broadcast` and `Room`). Tracks, packets and
  their ends are free, and so is the timeout of a binding: a loop may wait as
  long as its track may come.
* `SendingTracks`: tasks that can run do, a broadcast reads its targets
  (`Broadcast!TargetsAreRead`), one that ended is removed, and a request goes on to
  its last section. Nobody is obliged to subscribe or to ask for key frames.
* `RtpConnection`: the socket opens (or is lost), the browser settles the promises of
  an offer and of an answer one way or the other (`LocalOffer \/ OfferRejected`,
  `AnswerApplied \/ AnswerRejected`), and the timer of the session request runs
  out. The server owes no answer at all.

## 5. Proofs

`tlapm` checks all of them; no step is left out and no axioms are added. Every
invariant and every action property that a passing run checks is a theorem, for
every value of the constants. The assumptions are those on the constants: bounds
are natural numbers, channels have a slot (`Capacity`), there is an id
(`IdSpace`), rooms are numbers other than the 0 that means none, and for the
patcher `0 < MaxGap <= Window` and `2 * Late < MaxGap` (both instances of the code,
80 of 2^16 and 10 000 of 2^32, are far below the window). Every module has `TypeCorrect`, which the other proofs use (`WakeupsKept` and
`NumbersFit` are its counterparts in `BroadcastProofs` and for the patcher).

* `RoomProofs!MembersInformed`, `BroadcastsAnnounced`, `BroadcastsOwned`,
  `LabelsUnique`: for any sets of clients, ids and labels. The
  two notification invariants are inductive once the type is known
  (`KnowledgeInv`): each action changes the room by exactly what it tells. That
  nothing is without owner and that labels are unique (`BroadcastInv`) hold only
  together: the duplicate check sees all broadcasts of the owner that go on
  because each of these is in the owner's list.
* `BroadcastProofs!WakeupsKept`: a task that is asleep has polled every stream to
  the end after the last change of its targets; any event or call that would
  disturb this wakes it. `ImplementsTaskSafely` is the refinement step by step:
  stream events map to stuttering, everything else to the step of the same name.
* `SignalingClientProofs!CallbacksAgree`, `AnswersOrdered`, `CloseEndsStream`: for
  any number of requests and notifications. `CallsInv` adds that nobody heard of
  the connection while the accept task is at work; a callback is new when its
  state is entered, because the state is left under the lock and never entered
  again. For the other two, `Outgoing` is channel, send and wire taken together:
  a step leaves it alone or appends one message
  (`OutgoingSteps`, from `WriterInv`: the write loop holds a message only while it
  sends). Answers are then in order because all that went out are to requests
  before the one in hand (`AnsweredInv`), and the frame is last because the closer
  starts when the connection takes no more (`CloseInv`).
* `RtpServerProofs!AdmissionsByToken`, `TokensSpentOnce`, `OpenSessionsAreWhole`:
  for any number of connections, rooms and tokens. `AdmittedByToken` is inductive
  with what `AdmissionInv` adds: a token that can be spent was issued and has not
  been spent, and a request under way has a room. Every step but `TakeToken`,
  `CreateJoinToken` and `JoinRoom` only takes things away (`NobodyAdmitted`).
  `WholeInv` says of a client that is not closed what the sections of its request
  rely on between two locks: it has no cleanup under way, and after the offer it
  has its peer; so a cleanup of another client is the only thing that takes
  something away, and it takes it from that client (`WholeKept`).
* `SignallingConnectionProofs!OwnAnswers`, `PendingTracked`, `NothingLeft`: for any
  number of ids and requests. `TableInv` says that everything under way was sent
  within one round of ids, so two such requests never share an id (`IdsDiffer`);
  hence `sendRequest` overwrites nothing, an answer finds its own request, and
  `resume` finds its own entry or none. That less than a round of ids (65 536) is
  sent while a request is under way is an assumption on the page, a guard of
  `sendRequest` in the model: without it the code would confuse answers.
* `ReceivingTracksProofs!EndsAreOwed`, `InstalledSourcesStay`: for any numbers of
  streams, tracks and sources and any capacity. `EndIsOwed` is inductive with the
  type, with `TracksInv` (a registered track has a task that has not removed it
  yet, so a source that joins it finds a loop that will still look at the handler
  unless it is `removing`) and with the track of a live source being known
  (`OwedInv`). A send keeps or adds an end in the channel (`AppendEnd`), and only
  a read by the source itself takes it out.
* `SendingTracksProofs!TracksAreSubscriptions`: for any numbers of broadcasts,
  tracks and targets. `HeldInv` adds that a target is held in one place only, by
  one broadcast or by the request; without it the drop of one target could free
  the track of another. A track that is handed out has no handler, so it is nobody's.
* `SendingTracksProofs!NumbersFit`, `SequencesAreFresh`, `OffsetsAreKept`, about the
  patcher: `DifferenceIsDistance` says that `wrapping_difference` is the way around
  the circle whenever that is at most `MaxGap`, and exceeds `MaxGap` otherwise;
  `DirectionIsRight` that the branch of `process` is the right one. From these,
  near packets keep their distance and the invariant `SequenceInv` (the output is
  exactly as late as the input, and a sequence begins more than `Late` above
  everything before) is inductive, which gives `SequencesAreFresh`.
* `RtpConnectionProofs!DownStaysDown`, `CandidatesAreConserved`,
  `PageAndServerAgree`: for any number of candidates and calls. The invariant `IInv`
  is built up in layers, each of which uses those before it:
  1. `PhaseInv`: something is on its way only when the peer has a local description,
     for which the socket is open, and a connection is down exactly when its peer is
     closed. `DownStaysDown` follows: what sets the state waits for the peer or for
     the socket.
  2. `SessionInv`: there is one session request, pending until its answer sets the
     signaling connection, so the caches are emptied once.
  3. `IceInv`: the server has a peer before the page sends a candidate, so none is
     dropped for want of a peer, and the page caches candidates only before the
     session.
  4. `WayOpen`: the lists from the peer of the server through the messages on
     their way to the cache hold the candidates gathered, less those that the server
     dropped with a refused one, in order (`Spread`). Lemmas say what happens to such
     a way when a place is put in, when its last one grows and when its first two
     become one, with or without the end of the second; every step of a candidate is
     one of these. `Arrived` is the order of what comes from the server.
  5. `RequestInv`: while no call has ended without its answer, each request and
     each answer under way has a pending request of its own to which it fits.
  6. `CallInv`: the answers under way, taken one after the other, lead from what
     the page knows to what the server has (`Founded`, `Tells`). With no call
     pending there is no such answer (by 5), so the two agree.

Only model-checked: all liveness (`ShutdownCompletes`, `TargetsAreRead`,
`LoopsEnd`, `CloseCleansUp`, `EverySettles`, `EndIsHeard`, `KeyFrameRequestEnds`,
`ConnectSettles`, the fairness of `ImplementsTask`), because TLAPS has no support
for `ENABLED` here; and the three runs that show a disagreement, which no theorem
can state.

## 6. Plan

All modules of the plan are written and their safety properties proved. What is
worth adding:

1. `RtpConnection` takes `sendRequest` by its contract; that `SignallingConnection`
   implements this contract (a request is settled once, by its answer, its timeout
   or the loss of the socket) could be an abstract specification with a refinement
   theorem, as `BroadcastTask` is for `Broadcast`.
2. In the same way the targets of `SendingTracks` against the map of `Room`.
3. The hazards in `PROJECT.json` that no property covers yet, where the note does
   not say that they follow from one step.

## 7. Not modelled

Media contents, SDP text, codecs and webrtc-rs itself. Renegotiation: both sides
may offer at any time and apply an offer in whatever state their peer is, so what
comes of two offers that meet is decided by the rollback rules of the browser and
of webrtc-rs, and a model would be one of those libraries. The binding of a
sending track and the shutdown of its loop, which only webrtc-rs calls, and the
forwarding of packets. The REST handlers: they keep no state of their own, each is
a query and an answer over an external database. The user and broadcast tables of
the page, which repeat the notifications that `Room` counts. Hashing and JWT
signatures; React views, the virtual camera and the generated type
definitions; the shutdown of the server (its oneshots are never sent) and
`delete_room`, which has no caller. The 32-bit id space of broadcasts is
abstracted to a set from which unused ids are drawn; running out of ids is a
result (`StartResult`), not a property.
