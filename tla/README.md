# Verification of the AP2P camera streaming system

This directory holds a TLA+ development of the program in this repository: a
camera daemon (`src/ap2p`), the signaling server that introduces viewers to
cameras (`src/signaling-server`), the two viewer bridges that turn an SRT stream
into HTTP (`src/consumer-srt-cloud`, `src/consumer-srt-android`), and the
scripts that keep the daemon running (`deploy/`). The modules are translated
from the C, C++ and shell sources; TLC checks them on small instances, and
TLAPS proves the theorems of the `*Proofs` modules for every value of the
constants.

Paths below are relative to the repository root.

## 1. Inventory

### 1.1 Camera daemon (`src/ap2p`)

One process, four kinds of thread:

| thread | code | what it does |
|---|---|---|
| main | `main.c` | loads the bootstrap configuration, starts the MQTT and the SRT thread, joins them; its signal handler sets `shutdown_flag` |
| MQTT thread | `mqtt_thread.c` | connects to the primary or the backup broker, subscribes, waits for the connection to be lost, starts over |
| Paho callback thread | `mqtt_thread.c` `message_arrived`, `legacy_cases.c` | applies configuration payloads (case 81/90); hands every other case to the legacy dispatcher |
| startup and keep-alive threads | `legacy_cases.c` | detached; publish the boot-time answers and a periodic heartbeat over the client the MQTT thread owns |
| SRT (control) thread | `srt_thread.c` | per session: open a UDP socket, learn its public address, register it with the signaling server over TCP, wait for viewers |
| pump worker | `srt_thread.c` | per viewer: adopt the UDP socket handed over by the control thread, SRT rendezvous, connect to the local RTSP/HTTP source, copy |

State and operations:

* **Shared state** (`state.c`, `config.c`): the runtime configuration fields,
  `state_ready`, `srt_reload_pending`, `shutdown_flag`, under one mutex. Written
  by the callback thread (`apply_ap2p_conf_payload`), read by the SRT thread
  (`ap2p_wait_state_ready`, `snapshot_config`, `ap2p_consume_srt_reload`).
  *Correct when* no accepted update is lost, no rejected update has an effect,
  and shutdown is seen by everybody.
* **Control session** (`run_ctrl_session`): the discovery socket, its public
  address, the TCP connection, `refresh_tick`. *Correct when* the server always
  knows the current address, each descriptor has one owner, and a dead
  connection, a reload or a shutdown ends the session.
* **Pump mailbox** (`g_pending_pump`, `g_pump_cancel`, `g_active_srt`): written
  by the control thread, consumed by the worker. *Correct when* the newest
  request wins, the older viewer is told to leave, `srt_close` from the control
  thread hits only the worker's own live socket, and no descriptor is closed
  twice or never.
* **MQTT connection** (`g_client`, `g_disconnect_signalled`, the copies of the
  handle in the shared state and in `legacy_cases.c`). *Correct when* a lost
  connection is always re-established, the backup broker is tried when the
  primary is down, and nobody uses a client after it was destroyed.
* **Legacy cases** (`legacy_cases.c`): one shared `response` buffer and one
  publish path used by three threads; the web account the daemon authenticates
  with, an audio socket, the P2P process, files of an OTA update. *Correct when*
  what is published under a topic is that case's answer, once; the account follows
  the camera's; a motor that was started stops; an update is whole or absent.
* **STUN discovery** (`edge_lite.h`): one transaction id, a few attempts, each
  with a receive timeout. *Correct when* an address is returned only from a
  matching answer, and a late answer does not spoil the next discovery.
* **Boot and stream timing** (`boot_timing.c`, `stream_timing.c`): first-mark-wins
  tables and one summary.

### 1.2 Signaling server (`src/signaling-server/signaling_server.cpp`)

One thread per TCP connection, a ping monitor, an HTTP status page. Shared
tables: libjuice providers, consumers, sessions and subscriptions, pending SDP
requests, SRT providers. *Correct when* an entry never names a descriptor that
was closed (or closed and reused), a provider that re-registers is not removed by
the clean-up of its old connection, every request is answered, and the numbers on
the status page are consistent with the tables.

### 1.3 Viewer bridges

* **Cloud** (`consumer_srt.c`): per camera a producer thread that fills a shared
  buffer, any number of HTTP clients that drain it at their own speed; a client
  that lags too far behind is dropped.
* **Phone** (`consumer_srt_p2p.c`): one stream, the same fan-out without lag
  pruning.

*Correct when* every client receives a beginning of the camera's session and then
a contiguous piece of it, for as long as it is served.

### 1.4 Supervisors (`deploy/ambicam.sh`, `deploy/ambicam.sh.v2`)

Restart loops with a back-off and, in v1, a limit. *Correct when* a daemon that
dies is started again, and a daemon that keeps dying is not restarted in a tight
loop.

### 1.5 Older programs kept in the tree

`src/provider-srt/provider_srt.c` (the v1 ancestor of `srt_thread.c`),
`_legacy_libjuice_provider_configurable.c`, `_legacy_libjuice_consumer_api.c`,
`src/mqtt-vcamclient/HTTP.c` (the v1 ancestor of `legacy_cases.c`).

The two libjuice programs are the other half of the protocol the signaling server
still speaks. The provider cuts what a camera's local service sends into numbered
chunks and sends them over ICE; the consumer puts frames together, queues them and
writes them to players, keeps the session alive with PING and PONG, and rebuilds
it with a backoff. *Correct when* a player gets whole frames in order or an end of
stream, and a session that broke comes back.

### 1.6 How the parts interact

Broker --(retained case 81/90)--> callback thread --(shared state)--> SRT thread
--(SRT_REGISTER over TCP)--> signaling server <--(SRT_REQUEST)-- viewer;
server --(SRT_PEER)--> SRT thread --(mailbox, UDP descriptor)--> pump worker
==(SRT rendezvous over UDP)== viewer bridge --(HTTP)--> player. Signals reach the
daemon through `shutdown_flag` only.

### 1.7 What is hard

Ownership of a descriptor that moves between two threads and a library; a mailbox
that is overwritten; flags that are set and consumed in different threads; reads
without a timeout; a configuration that changes under a running stream; tables of
connections cleaned up by several threads; buffers drained at different speeds.
`PROJECT.json` lists these hazards line by line with the property that covers
each.

## 2. Modules

| module | models | extends |
|---|---|---|
| `Ap2pState` | the shared state: `state.c`, `apply_ap2p_conf_payload` of `config.c`, the signal handler of `main.c` | |
| `PumpWorker` | `pump_thread_main`, `post_pump_request`, `srt_rendezvous_connect`, `connect_src`, `pump_src_to_srt` of `srt_thread.c` | `Ap2pState` |
| `SrtThread` | `srt_thread_main` and `run_ctrl_session`, composed with the worker, payloads and signals | `PumpWorker` |
| `LegacyCases` | the threads of `legacy_cases.c` and `boot_timing.c` that publish over a client they do not own | `Ap2pState` |
| `MqttThread` | `mqtt_thread_main`, `connect_once`, the paho callbacks, the brokers and the operator, composed with the publishers | `LegacyCases` |
| `CaseDispatch` | the switch of `legacy_message_arrived` beside the keep-alive thread's request: the web account, motor, audio, P2P process, OTA update | |
| `SrtRegistry` | the SRT half of the signaling server | |
| `JuiceRegistry` | its libjuice half: REGISTER, REQUEST, SUBSCRIBE, PONG, SDP_READY, PROVIDER_DISCONNECTED, `ping_monitor_thread`, `notify_subscribers` | |
| `StreamFanout` | abstract: what a viewer bridge promises | |
| `FlvRing` | what the bridges share: ring, header cache, client table, `drain_client_locked` | |
| `FanoutCloud`, `FanoutPhone` | the two bridges, each with an INSTANCE of `StreamFanout` it implements | `FlvRing` |
| `JuiceStream` | the libjuice data path: forward threads, chunks on the path, reassembly, dispatch queue and thread, players | |
| `JuiceSession` | one camera session end to end: the consumer's agent, keep-alive, reconnect monitor and HTTP connect call, the server's REQUEST, the provider's rebuild, debounce and signaling loop | |
| `MC*` | the definitions TLC's instances need (payload sets, loads, symmetry) | the module they are named after |
| `MqttProofs` | the theorems of section 5 about the MQTT side of the camera | `MqttThread`, `CaseDispatch` |
| `LibjuiceProofs` | those about the legacy libjuice programs | `JuiceSession`, `JuiceStream` |
| the other `*Proofs` | the theorems of section 5 | the module they are named after |

How state and actions correspond to the code:

* **Atomicity.** What the code does under one mutex is one step; what it does
  between two lock regions, system calls or library calls that other threads can
  interleave with is separate steps with a program counter (`ctrlPc`, `pumpPc`,
  `mqttPc`, `pubPc`, `pc`, `cb.pc`, ...). Where two threads touch memory without a
  lock the accesses are split: the snapshot of `g_cfg` and its reading by the pump
  worker; the sends of the server, which copy a descriptor number first.
* **Descriptors** are model values with an open/closed state: `openFds` in the
  camera, and in the server `file`, a table from numbers to connections, so that a
  number can be reused between two uses of it.
* **Configuration** is three fields, one per way the code treats fields: the one
  the sanity check looks at (`ctrl_host`), one with a default (`src_host`), one
  copied as it is (`src_path`).
* **Data** is abstracted to the identity of its origin. An answer in the `response`
  buffer is named by the case that asked for it; a byte in a bridge's ring is
  `<<session, position>>`; a chunk carries the number of the frame it was cut from;
  an SDP is named by the agent or the request it was gathered for; an OTA archive
  by its URL.
* **Sequence numbers** of `JuiceStream` keep a finite width and start just before
  the wrap (`SeqSpace`, `FirstSeq`), since the frame window is computed by
  subtraction modulo 2^32.
* **Time** is left out except in `JuiceSession`, whose backoff, debounce and PONG
  timeout only make sense against each other: time passes there in periods of five
  seconds, the interval of monitor and keep-alive thread. Elsewhere a timeout is a
  step that may be taken; the STUN refresh is every `RefreshTicks`-th idle poll.
* **A send that may block** is two steps: into it and out of it. The pump worker is
  at `"send"` while `srt_send` has not returned; it returns when the viewer reads,
  fails when the viewer is gone, and is cut when another thread closes the socket.
* **libsrt, libjuice, paho, curl, the NAT, the brokers, the camera's web server and
  the peers** are environment actions, with the failures the code has a branch for.

Definitions named `Op_Something` are faulty variants of `Op`. No specification
uses them: each is what one plausible mistake in the code would make of `Op`, and
shows that the property it is listed with in `PROJECT.json` notices that mistake.

## 3. Runs

Passing runs:

| run | instance | shows |
|---|---|---|
| `srt` | two descriptors, two public addresses, two configurations and a rejected one | a descriptor in use is open and has one owner (`FdOwnership`); a request in the mailbox keeps the older stream cancelled (`PendingCancels`); `g_active_srt` never names a socket the worker has closed (`ActiveIsLive`); the server has been told the address the session believes in (`RegisteredIsCurrent`); no accepted update is lost between snapshot and flag (`ReloadNotLost`) and each comes into use (`ConfigIsUsed`); a viewer's request is taken although another is served (`RequestIsTaken`); shutdown completes unless a viewer that is there does not read (`ShutdownCompletes`) |
| `mqtt_client` | two client addresses, an outage, startup, callback and boot publishers | at most one client exists (`OneClient`), and the copies of its handle name it whenever the connection is in use (`HandlesAgree`) |
| `mqtt_live` | two brokers, an outage, two configurations, the keep-alive thread | updates published during an outage arrive, so no lost connection is forgotten (`UpdateIsApplied`); shutdown ends the thread (`MqttShutdown`); the heartbeat repeats (`HeartbeatRepeats`) |
| `cases` | four mixes of cases, an owner who changes the account, lost and misleading answers, an empty password, kills that spare a process, archives with and without the expected root and what earlier updates left behind, a restart | every plain request is answered once (`AnsweredOnce`); no request carries half an account (`CredentialsWhole`), and the daemon's password is the camera's unless one of five named things happened (`CredentialsFollow`); a move is stopped (`MoveStops`); one audio socket, and a second P2P process only behind a kill that spared the first (`ResourcesSingle`); a reboot after an update finds all files of the archive that was asked for (`UpdateIsWhole`) |
| `sig_srt` | a camera that reconnects, a viewer, three connections over three descriptor numbers | a handler's number names its own connection until it closes it (`OwnsItsSocket`); every entry names the open connection that made it (`EntriesAreOpen`); an old connection's clean-up spares the newer registration (`CleanupKeepsNewer`); a camera that is gone is unlisted (`GoneIsUnlisted`) |
| `sig_juice` | a camera that may vanish, with a subscriber that may leave or with a subscriber and a requester; a camera with two requesters; the ping monitor | no subscriber misses a service whatever the order of SUBSCRIBE and REGISTER (`SubscriberKnows`); the monitor gives up only who owes it answers (`AnsweringIsKept`); a request that shares its service neither with another one nor with the late SDP of an earlier one gets the SDP gathered for it (`AloneIsFresh`); every request is answered (`RequestAnswered`), every dead camera unlisted (`DeadIsUnlisted`) |
| `fan_cloud` | three viewers for two slots, a ring of three bytes, a cache of two, two camera sessions | the bridge implements `StreamFanout` with a skip to the live end (`ImplementsFanout`); no cursor leaves the window the ring holds when it is read (`CursorsInWindow`); slots and open connections match (`SlotsMatchConnections`) |
| `fan_phone` | the same, one session and its bootstrap | the bridge implements `StreamFanout` without a skip for clients that keep up (`ImplementsFanout`); a bootstrap that fails releases its sockets and SRT never binds a port still in use (`BootstrapReleases`) |
| `stream` | two players, frames of one and two chunks, a queue of one item, a chunk lost or doubled, a provider connection that ends and is opened again | a queued frame is put together from one frame's chunks (`FramesWhole`); nothing follows half a frame (`TornIsLast`) or a completed drop (`DropEndsStream`) on a player's socket; the queue is served although players stall (`QueueServed`) |
| `session` | three agents, three failures anywhere, the code's backoff and debounce | the provider never gives up the negotiation its consumer is in (`LiveNegotiationKept`); as long as the provider stays registered and the monitor learns of a broken signaling connection, the camera answers the keep-alive again (`Recovers`) |

Runs that end in a counterexample, each a statement of the repository that the
code does not keep (quoted under "findings" in `PROJECT.json`):

| run | property | what happens |
|---|---|---|
| `mqtt_failover` | `FailsOver` | with the main broker down, `connect_once` never returns and the backup is never tried |
| `session_api` | `ApiLeavesReconnectAlone` | `reconnect_camera_ice` clears `needs_reconnect` and the agent long before the new agent exists; a connect call of the HTTP API in between frees the session under the monitor |

The modules up to `FanoutPhone` in the table of section 2, except `CaseDispatch` and `StreamFanout`,
also have a type invariant; the `srt` run lists its own, those of `SrtThread`,
`MqttThread` and `SrtRegistry` are proved, and TLC finds the others true on the instances above.

### Bounds

* `SrtThread`: two descriptors are the session's and the one on its way through the
  mailbox and the worker to libsrt, so that every hand-off, reuse and failure to
  get one happens; the statements about descriptors are proved for any number of
  them. What a viewer is called never influences a step, so one name serves for any
  number of requests one after the other. One idle poll per refresh, instead of the
  code's three, only makes refreshes more frequent. Two public addresses suffice
  for a changed one, two configurations for "old" and "new", and a payload with an
  empty host is the one the code rejects.
* `MqttThread`: two client addresses, so that a freed address may or may not be
  reused; `MaxOutages` bounds how often a broker goes down, one outage being
  enough for losing, missing and remaking a connection; `Started` picks the
  publishers an instance has, since each multiplies the state space and they
  interact pairwise through one buffer and one handle.
* `CaseDispatch`: the cases an instance may receive are one of four mixes
  (`CaseMixes`), grouped by the state they share; cases of different mixes share
  only the account, which is in the first. `OwnerMixes` is the mix beside which the
  owner changes the account, the one whose cases look at it. `MaxBoots` bounds
  restarts of the camera, `MaxProcesses` how many P2Pambicam processes pile up: two
  is one too many. Of the two archives one has the root directory the script expects
  (`Rooted`) and one does not, so each can meet what the other left in
  `/tmp/AugenTix`. The passwords other than the empty one are interchangeable.
* `SrtRegistry`: three connections are the camera's old one, its new one and the
  viewer's; three numbers allow both reuse and no reuse. The number of
  reconnections is not bounded, because an identity is free again once closed.
* `JuiceRegistry`: what the peers may do is one of the three `RoleMixes`, chosen at
  the start: all of it at once is beyond five minutes, and what the mixes keep apart
  meets through the camera's entry only. The invariants are proved for any roles. Connections do not reuse each other's
  descriptor numbers in this instance (`Recycle = FALSE`): what is shown is that the
  threads agree through the tables. The theorems allow reuse as long as nothing that
  still runs uses the number (section 5); where the server does not keep to that, the
  threads also meet through numbers that have changed hands, and the monitor can
  close a bystander's connection (section 6).
  `MaxMissedPongs` is 2 so that one missed PONG is not yet fatal, as in the code.
* `FlvRing`: a ring of three bytes and messages of up to two make writes wrap, lap a
  slow client and land exactly on the border; a cache shorter than the ring grows
  over more than one message; three viewers compete for two slots.
* `JuiceStream`: sequence numbers start at the last one before the wrap; two frames
  of two chunks let a late chunk of the first meet the reassembly of the second; a
  ring of two slots holds one item, so that the queue overflows. `MaxTrouble` bounds
  losses, duplicates, failing calls and ends of the provider's connection, `MaxInFlight` the chunks on the path.
* `JuiceSession`: `MaxMishaps` = 3 allows, for instance, a failing path, a lost
  answer and a failing `juice_create` in any order. Renewals of a relayed session and
  reports of an agent that is being destroyed count as mishaps too: one of them in
  every period would keep the session from ever settling. `Lag` = 2 periods is the
  longest a CONSUMER_CONNECT waits for the provider's loop, which is at most busy
  with the rebuild for the message before (3 s, 1176) and a pause of its poll. Agents
  that are still to come have other names than those on their way to the provider or
  remembered there, so that with three names an attempt waits for an old message to
  be read; `NegotiationKept` is proved for any names. PONG_TIMEOUT is two periods
  instead of twelve, which only brings the second detector of a dead path forward.
  Three agent names: the consumer's current one, the one the provider last heard
  of, and one more.

### Fairness

* *Threads run*: weak fairness of each thread's own steps. `srt_connect` ends by
  its timeout, `getaddrinfo` and `connect` of the source by the resolver's timeouts
  and the kernel's limit on SYN retries, polls end, condition waits are signalled,
  and the dispatch thread of the libjuice consumer gives a stuck player up: these
  are the thread's own steps. The return of `srt_send` is not one of them.
* *The server and the camera's source answer*: `PeerFairness` of `SrtThread`. The
  code does not guarantee it (the reads have no timeout); section 6 says what
  happens without.
* *Viewers read or leave*: `ViewersRead`, the premise of `ShutdownCompletes` alone.
  `srt_send` is in file mode (`srt_thread.c:348`) without `SRTO_SNDTIMEO`, so a
  viewer that keeps its session alive and does not read holds the worker in it (435).
  `RequestIsTaken` and `ConfigIsUsed` do without the premise, since a newer request
  closes the socket under the worker and a reload does not wait for it.
* *Strong fairness* only where a step is enabled again and again by a retry loop:
  `CreateClient` (creation may fail, not for ever), `DeliverConfig` (paho's one
  receive thread is busy now and then), `ConnectionLost` (a dead connection is
  noticed by a poll that returns every ten seconds).
* *A broker that went down comes back* is assumed for `mqtt_live` only;
  `mqtt_failover` drops it, and its counterexample is a main broker that stays down.
* In the server the TCP keep-alive set on every accepted socket ends a read from a
  peer that is gone, and a REQUEST waits for its SDP with a timeout. `FairSpec` of
  `JuiceRegistry` also lets the list a SUBSCRIBE sends under the lock go out, which
  the subscriber must read for; `StallingSpec` does not.
* `JuiceStream`: the ICE callback thread and the dispatch thread run. Neither the
  path nor the players are assumed to do anything.
* `JuiceSession`: the clock ticks, the monitor, the provider's loop and the server's
  wait proceed, libjuice reports that a negotiation failed, and a path that broke
  heals. Time does not pass while a message has waited in the provider's inbox for
  `Lag` periods, and a negotiation fails for want of an answer only when the inbox is
  empty: ICE tries for more than thirty seconds, the provider's loop is never busy
  for so long. The connection of the two agents of an attempt is strongly fair: the
  monitor's timers may end an attempt that could have succeeded, but not every one.
* *A broken signaling connection is reported to the monitor* that waits on it for an
  answer: `BreakIsReported`, a premise of `Recovers`. Nothing in the code sees to it:
  the socket has neither a receive timeout nor a keep-alive
  (`_legacy_libjuice_consumer_api.c:2147-2182`), so `ReplyLost` has no fairness.

## 4. Where deadlock is not checked

The `MqttThread` runs end for good after shutdown, `JuiceStream` once its finite
load is delivered, the bridges with their last session; in `JuiceRegistry` every
peer may leave and not come back. The other instances have no final state:
payloads, signals or connections keep arriving.

## 5. Proofs

All theorems hold for every value of the constants that satisfies the named
assumptions of the modules. These say that marks are not values (`None` is no
descriptor, address, handle, account or payload; `Out` is neither a number nor a
sequence of bytes), that sizes and limits are positive numbers, that a message fits
the ring (`MaxMsg <= Cap`), and that payloads set known fields. TLC evaluates each of
them on the runs.

The temporal part is the same everywhere: an inductive invariant holds at the start
and is kept by every step, one lemma or one case per action; a refinement adds that
every step under it is a step of the abstract specification or a stutter.

* **`SrtThreadProofs`**: `TypeCorrect`, `OwnershipCorrect`, `ActiveCorrect`,
  `PendingCorrect`, `ReloadCorrect`, `RegisteredCorrect`. The inductive invariant is
  the conjunction of the type invariant, the other invariants of the `srt` run, and
  `PlacesAgree`, which ties the program counters to what is held there: in which
  places the worker can have a libsrt socket and the session a UDP descriptor, that
  the worker runs only while the control thread is past its start, and that a
  configuration was accepted before a session begins. Without it the others are not
  inductive: that the allocation of a new descriptor does not drop an old one, for
  example, needs that the session has none at that place. Each conjunct has its own
  step lemma, one case per action.
* **`MqttProofs`**, for `MqttThread`: `OneClientCorrect` and `HandlesCorrect`. The strengthening
  is that `connect_once` dials with a client that exists. The steps of every other
  thread are shown to leave client and handles alone. `TypeCorrect` needs that a
  configuration message on its way to the camera was published by somebody, because
  its delivery writes it over the shared fields.
* **`MqttProofs`**, for `CaseDispatch`: `AnswersOnce`, `CredentialsAreWhole`, `PasswordFollows`,
  `ResourcesAreSingle`, `UpdatesAreWhole` and the action property `MovesStop`. `Types`
  and `Places` say which case and which payload each place of the callback belongs
  to; every other part rests on them, because a place is shared by several cases. The
  accounts need that the halves under `cred_mutex` are from one account unless the
  thread that holds the lock is between its two writes. The update needs that from the
  extraction on the tree has all files of the archive in `/tmp`, whatever else is in
  it, and so has the flash from the move on. What the theorems say is no more than
  the code ensures: `PasswordFollows` up to the five causes of drift in `drift`,
  `ResourcesAreSingle` up to kills that spare a process, `UpdatesAreWhole` for
  archives with the expected root whose predecessor `rm` could remove.
* **`SrtRegistryProofs`**: `SocketCorrect`, `EntriesCorrect` and the action property
  `CleanupCorrect`. The invariant is the type invariant, `JobInHand`,
  `OwnsItsSocket` and `EntriesAreOpen`; the last two need each other: the clean-up
  by number removes the right entries only because a number names its thread's
  connection, and no entry outlives its connection.
* **`JuiceRegistryProofs`**: `AnsweringKept`, `SubscribersKnow`, `AloneFresh`. The
  first holds for any reuse of descriptor numbers; `Charged` adds what the
  monitor has read and not yet counted, across its unlocked sends. The other two
  allow reuse too, on one condition, `KeepsApart`: a new connection does not get a
  number while a handler that has it still runs, or while a REQUEST that copied it
  from the registry has not yet been forwarded (`StillUsed`). Of a handler that closes
  its own number on its way out this is a matter of course. The code breaks it where
  another thread closes the number first: `notify_subscribers` (400) and the monitor
  (689); and where a camera's handler ends between a REQUEST's look-up and its send
  (1762-1812). There TLC refutes `SubscriberKnows` (two cameras of two services, two
  subscribers that may leave, four numbers, `Recycle = TRUE`): the handler of a
  subscriber that was given up reads and closes for its successor. And a request can
  be forwarded to whoever has the camera's number by then.
  Under `KeepsApart` the numbers of running connections are distinct and in their
  tables (`OwnNumbers`), a subscriber that was not told of a service is about to be,
  by its own list or by a notification that has or will copy its number (`Told`), and
  a consumer whose request reached no camera is unheard of everywhere (`Unheard`),
  so that an SDP can only be the one gathered for it.
* **`FlvRingProofs`** has no theorem of its own but the lemmas both bridges use:
  ring and cache hold the last `Cap` and the first `HeaderCacheSize` bytes of the
  stream and still do after a message (`RingHoldsAfter`, `CacheHoldsAfter`), what a
  client is drained of is a slice of the stream from where it stood (`DrainIs`), and
  compacting the table keeps exactly the slots of the clients that stay
  (`KeptSlots`, `OneSlotEach`).
* **`FanoutCloudProofs`**: `SlotsMatch`, `CursorsStayInWindow` and the refinement
  `CloudImplementsFanout`. `Follows` says of every client that it was sent a beginning
  of the cache and then, only after all of the cache, everything from where it joined
  to its cursor, which the ring still holds. `CursorsInWindow` alone is not enough for
  the refinement: the abstract specification speaks of bytes, so the contents of ring
  and cache have to be in the invariant too. `Receive` is a `Feed`, `Install` a
  `Join`, `StartSession` a `NewSession`, `JoinHttp` a `Leave`; all other steps
  stutter.
* **`FanoutPhoneProofs`**: `FailedStartReleases` from `Holding`, the sockets main has
  at each step of the bootstrap; and `PhoneImplementsFanout`, for the clients that
  keep up. There a client has seen the stream up to `Reached`, which is its place in
  the cache until all of it is out and its cursor from then on: that the two meet
  without a gap or a repetition is what `Placed` is for. `Quiet` says that nothing
  is streamed before the threads are started.

* **`LibjuiceProofs`**, for `JuiceSession`: `NegotiationKept`. The invariant follows
  the announcements of the consumer's agents: an agent that is still to be announced
  is unknown to the provider and not on its way there (`NotYetAnnounced`), and the
  current one is the last announced, with nothing on the way once the provider has
  taken it (`AnnouncedLast`). Backoff and debounce, which `Recovers` turns on, do not
  enter: a rebuild can only hit the negotiation in progress if an agent is announced
  twice or another one after it.
* **`LibjuiceProofs`**, for `JuiceStream`: `FramesAreWhole`, `TornFrameIsLast` and the
  action property `DropsEndStreams`. The argument goes along the path. `PathInv`: a
  frame has taken at most the numbers from its first chunk on, chunks of later frames
  come after all of them and chunks of earlier ones before, although players share
  the counter (`Began`). `AssemblyInv`: what a connection has in its buffer is from
  the frame whose first chunk opened it (`Assembling`); a later chunk is let in only
  if it is of that frame, which is the arithmetic of the frame-ID guard
  (`WindowRejects`). A full count then makes the frame whole (`Complete`), and queue
  and dispatcher keep it so. `WireInv`: a stream stops where the dispatcher is in its
  frame, or at the end of a frame (`StopsAt`), so that what is sent next continues it.
  `DropsEndStreams` needs only that a socket with a dropped item is shut or about to
  be (`DroppedIsShut`).

  The first two assume `[]Fresh`: a chunk on the path and the frame its connection
  assembles are less than one number space apart. The code checks nothing of the kind
  but counts on it, and without it the statements are false: with `SeqSpace = 2` TLC
  finds a frame put together from two. The code makes it true with a wide margin.
  A frame in the buffer is replaced by the next one that starts and given up after 30 s
  without a chunk, while 2^32 chunks of up to 1184 bytes are about five terabytes. It
  holds throughout the `stream` run, whose number space is larger than its load, and
  `WholeBeforeWrap` shows it to follow from the counter not having used up the space.

Two definitions of `FlvRing` are written so that they can be reasoned about without
recursion: the compacted table is the table read along the order-preserving bijection
from `1..m` to the slots that stay, and where a client continues after the cache is a
function of the pair of its cursor and the cache's length. Where a proof needs induction over numbers
(the bijection of `Enumeration` exists) it takes the least counterexample instead,
from the well-foundedness of strict inclusion on finite sets.

Only model-checked:

* the liveness properties: temporal reasoning under fairness is out of the prover's
  reach;
* the bounds themselves (how many outages, restarts or troubles an instance has).

## 6. Behaviours met on the way, without a run

Statements the modules define and TLC refutes, with the place where the code says
otherwise. Unless something else is said the constants are those of the module's
passing run.

Camera:

* `NoFdLeak`: a second viewer arrives before the worker has taken the first one's
  request; the slot is overwritten (`srt_thread.c:584`) and the first descriptor is
  never closed, although lines 811-814 have libsrt close it after the hand-off.
* `NeverDialsEmptyHost`: a payload with an empty `CTRL_HOST` is rejected after it was
  written (`config.c:137`); the next session dials an empty host, which the thread
  waits for the first payload to avoid (`srt_thread.c:13-14`).
* `PumpUsesOneConfig`: the worker takes the source host from one configuration and
  the path from the next (`srt_thread.c:918`), although the comment at 73-76 says a
  reload does not rip data out from underneath a session.
* `ReloadMeansChange`: each reconnection to the broker delivers the retained
  configuration again, and `apply_ap2p_conf_payload` requests a reload although
  nothing changed (`config.c:146`).
* `UsesLiveClient` (with `Started = {"keepalive"}`): between two connections the
  keep-alive thread publishes over a client that was destroyed
  (`mqtt_thread.c:176`); `legacy_cases.c:2348-2351` expects a NULL handle then.
* `OwnAnswer` (with the startup and keep-alive threads, two reads): they share the
  answer buffer and publish each other's answers; `legacy_cases.c:2367-2369` says
  the keep-alive thread does not race the startup pulse.
* With a viewer that keeps its SRT session alive and does not read, the worker stays
  in `srt_send` (`srt_thread.c:435`) and shutdown, which does not close the socket but
  joins (932), waits for ever: `ShutdownCompletes` fails without `ViewersRead`.
* An empty new password: the camera takes it, `update_password` refuses it
  (`legacy_cases.c:148`), and all the daemon does is publish that they differ (1962).
  `is_password_change_success` (141) takes any answer with `200` in it for a success:
  then the daemon has a password the camera refused. `CredentialsFollow` fails as soon
  as either is not counted as a cause of drift.
* `P2P_Kill` returns -1 when `popen` fails (305-308) and does not look at what its
  `kill` did (323); the caller ignores the result (796) and starts another
  P2Pambicam. `ResourcesSingle` fails if two processes are forbidden outright.
* `UpdateIsPure`: tar extracts over a `/tmp/AugenTix` that a failed attempt left
  behind (`legacy_cases.c:1269`), so files of an earlier archive come along into
  flash. An archive without that root directory leaves the old tree to pass the test
  at 1276 and to be installed instead, and an archive `rm` could not remove (1169)
  is installed in place of the one that was asked for: `UpdateIsWhole` leaves these
  two out.
* With a control server that accepts the connection and never answers, the SRT
  thread stays in `ctrl_recv` (`srt_thread.c:700`) and does not see shutdown:
  `ShutdownCompletes` fails under `ThreadFairSpec`. The same holds for a source
  that never ends its HTTP header (`srt_thread.c:313`).
* A local web server that accepts and does not answer stops the heartbeat for good,
  since `n_https.c` sets no timeout: `HeartbeatRepeats` fails under
  `ThreadFairSpec`.

Signaling server:

* `ErasedIsStale`: a request that copied a camera's old entry fails to reach it and
  removes the entry the camera has made since (`signaling_server.cpp:1692`, comment
  at 1687-1689).
* `EveryInfoFresh`: two REQUESTs for one service share its `PendingSDP` slot (1789),
  so the first is answered with the registry's old SDP; and a request that timed out
  leaves its SDP_READY to come, which the next request takes for its own, since the
  message does not say whom it answers; the comment at 195-199 promises current
  candidates in every PROVIDER_INFO.
* `MonitorClosesStale` (a camera that reconnects, two numbers that are
  reused: `Cams = {p1, p2}`, `ServiceOf <- Reconnects`, `Fds = {1, 2}`,
  `Recycle = TRUE`): the monitor closes a number (689) its
  handler has closed already and a newcomer has got; `notify_subscribers` (400)
  likewise.
* `RegistrationCompletes` (under `StallingSpec`): SUBSCRIBE sends its list under
  `registry_mutex` (1728), so a subscriber that does not read holds up every
  registration.
* `WithinCapacity` (two cameras, `MaxProviders = 1`): test and insertion are two
  critical sections (1470), and two cameras pass the test for one place.
* A re-registration resets `has_consumer` (1603), which the comment at 182-186 says
  stays true; an `SRT_PEER` is pushed to a number copied earlier, which can name
  another client by then (1686).

Viewer bridges:

* `NothingTwice` (cloud): a client that joins while the header cache is filling gets
  the bytes after its joining twice, from the cache and from the ring
  (`consumer_srt.c:315`); the phone's bridge has the correction and says why
  (`consumer_srt_p2p.c:207-215`).
* `ServedInOrder` (phone): a client that lags behind the ring is sent overwritten
  memory, since the check the cloud makes (`consumer_srt.c:258`) is missing from
  what line 166 calls "same logic as consumer_srt.c".
* When the camera's session ends the phone's main closes the listening socket and
  joins the accept thread (`consumer_srt_p2p.c:653-654`); a thread blocked in
  `accept` is not woken by that, so the process may stay until the next client.

Libjuice programs:

* `GaplessWhileOpen` (`Conns = {c1}`, `OnePlayer`, `MaxInFlight = 1`,
  `MaxTrouble = 0`): `dispatch_enqueue` releases the queue's lock (788) before it
  shuts the dropped frame's socket down (806), and the dispatch thread sends the next
  frame in between; the comment at 790-805 promises an end of stream whenever any
  frame is dropped.
* `WindowHolds` (`Interleaved`, `QueueSlots = 4`, `MaxTrouble = 0`): all players of a
  camera draw from one counter (`_legacy_libjuice_provider_configurable.c:652`), so
  the chunks of one frame need not be consecutive and the consumer's window (1022)
  rejects some of them: the frame is lost although nothing was.
* `ProviderComesBack`: a `juice_create` that fails leaves the provider without an
  agent (1168-1172); when the server is lost next, `juice_get_local_description`
  fails for that service (1434) and with it every later registration, although the
  comment at 1390 has the loop reconnect automatically. `Recovers` is therefore
  stated for providers that stay registered.
* `Recovers` fails without `BreakIsReported`: the monitor waits for an answer in
  `recv_message` (`_legacy_libjuice_consumer_api.c:1513`) on a socket without receive
  timeout and keep-alive (2147-2182), and holds the signaling mutex meanwhile.
* Read in the code and not checked: with `TURN_REFRESH_INTERVAL` set (its default is
  0) and a `juice_destroy` that reports nothing, `using_turn` and `turn_since` survive
  the reconnection (1179), so that the new session is due for a refresh at once (1772).
  A connection the provider's `cleanup_thread` closes because the player's keep-alive
  chunks got lost (1055; they come every 25 s, the limit is 30 s) is opened again by
  the next keep-alive (778), without the player's request, so nothing is streamed on
  it. If that happens in the slot of a forward thread that has not noticed yet, the
  old thread sends on under the new number (653) and closes the new connection when
  it ends (721).
* The schedule at `_legacy_libjuice_consumer_api.c:1677` ends at 30 seconds; the code
  doubles five seconds three times, which is 40.

## 7. Not modelled yet, and the plan

In order:

1. `EdgeLite`: the retry loop of `ap2p_edge_get_srflx` with late, foreign and lost
   datagrams.
2. `Rendezvous`: `SrtThread`'s session and `SrtRegistry` over TCP channels, with
   an abstract specification of the introduction of a viewer to a camera.
3. `Supervisor`: the restart loops of `deploy/ambicam.sh` and `ambicam.sh.v2`.
4. The v1 provider where it differs from `srt_thread.c`, and the rest of the libjuice
   programs: the direction from player to camera, `needs_disconnect_notify`, a
   session slot allocated again (`_legacy_libjuice_consumer_api.c:513`) under a
   dispatch thread that is still stuck, and a provider connection opened again under
   its old forward thread.
5. Several services registered over one connection to the signaling server.

Numbers `std::stoi` cannot read (`signaling_server.cpp:1444`, 1570) end the server by
an exception nobody catches; the modules send it well-formed messages only.

Left out for good: HTML and JSON rendering (with `PORT_UPDATE`, which only feeds
it), login sessions of the dashboard, configuration file parsing at start, logging,
the deployment tool, the v1 MQTT client, and third-party code.
