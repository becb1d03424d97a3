---------------------------- MODULE SrtThread ----------------------------
(***************************************************************************)
(* The SRT thread of the camera daemon: srt_thread_main and                *)
(* run_ctrl_session of src/ap2p/srt_thread.c, composed with the pump       *)
(* worker it starts and with the configuration payloads and the signals    *)
(* that reach it through the shared state.                                 *)
(*                                                                         *)
(* A control session holds a UDP socket (udp) whose public address (srflx) *)
(* it learnt from the edge server, and a TCP connection over which it      *)
(* registered that address.  Time is left out: poll's ten seconds and the  *)
(* reconnect back-off are steps that may be taken, the 30 s refresh is     *)
(* every RefreshTicks-th idle poll.                                        *)
(***************************************************************************)
EXTENDS PumpWorker, Naturals

CONSTANTS
    Addrs,         \* public addresses a NAT may map a UDP socket to
    RefreshTicks   \* idle polls per STUN refresh, 3 in the code

ASSUME RefreshAssumption == RefreshTicks \in Nat \ {0}

ASSUME AddrsAssumption == None \notin Addrs

VARIABLES
    ctrlPc,      \* where the SRT thread is
    udp,         \* the discovery socket of the session, None for -1
    srflx,       \* the address the session believes it has
    tcp,         \* the control connection: "none", "up" or "dead"
    registered,  \* the address the server was last told on this connection
    tick         \* refresh_tick

sessionVars == <<udp, srflx, tcp, registered, tick>>

ctrlVars == <<ctrlPc, sessionVars>>

vars == <<stateVars, cfg, pumpVars, ctrlVars>>

CtrlPcs == {"wait", "start", "top", "snapshot", "allocate", "discover", "open",
            "ack", "loop", "poll", "refresh", "receive", "reallocate",
            "rediscover", "backoff", "stop", "done"}

Init ==
    /\ StateInit
    /\ PumpInit
    /\ ctrlPc = "wait"
    /\ udp = None
    /\ srflx = None
    /\ tcp = "none"
    /\ registered = None
    /\ tick = 0

TypeOK ==
    /\ StateFlagsOK
    /\ PumpFlagsOK
    /\ StateTypeOK
    /\ PumpTypeOK
    /\ ctrlPc \in CtrlPcs
    /\ udp \in Fds \union {None}
    /\ srflx \in Addrs \union {None}
    /\ tcp \in {"none", "up", "dead"}
    /\ registered \in Addrs \union {None}
    /\ tick \in 0 .. RefreshTicks - 1

-----------------------------------------------------------------------------
(***************************************************************************)
(* srt_thread_main                                                         *)
(***************************************************************************)

\* ap2p_wait_state_ready(state, -1)
WaitReady ==
    /\ ctrlPc = "wait"
    /\ WaitReturns
    /\ ctrlPc' = IF shutdown THEN "done" ELSE "start"
    /\ UNCHANGED <<stateVars, cfg, pumpVars, sessionVars>>

\* The first snapshot, srt_startup and the creation of the pump worker; either
\* of the last two may fail and end the thread.
Startup ==
    /\ ctrlPc = "start"
    /\ cfg' = Resolve(conf)
    /\ \/ /\ pumpPc' = "idle"
          /\ ctrlPc' = "top"
       \/ /\ ctrlPc' = "done"
          /\ UNCHANGED pumpPc
    /\ UNCHANGED <<stateVars, openFds, mailboxVars, req, srtFd, src, sessionVars>>

\* The head of the session loop.  snapshot_config copies field by field while it
\* holds state->lock; the pump worker, which does not take that lock, may read
\* between two copies, so the copy of the last field is a step of its own.
SnapshotBegins ==
    /\ ctrlPc = "top"
    /\ ~shutdown
    /\ cfg' = [Resolve(conf) EXCEPT !["src_path"] = cfg["src_path"]]
    /\ ctrlPc' = "snapshot"
    /\ UNCHANGED <<stateVars, pumpVars, sessionVars>>

SnapshotEnds ==
    /\ ctrlPc = "snapshot"
    /\ cfg' = Resolve(conf)
    /\ ctrlPc' = "allocate"
    /\ UNCHANGED <<stateVars, pumpVars, sessionVars>>

\* state->lock is held from the first copy to the last.
LockHeld == ctrlPc = "snapshot"

\* Between sessions: the test of the shutdown flag, then the sleep.
Backoff ==
    /\ ctrlPc = "backoff"
    /\ ctrlPc' = IF shutdown THEN "stop" ELSE "top"
    /\ UNCHANGED <<stateVars, cfg, pumpVars, sessionVars>>

LeaveMainLoop ==
    /\ ctrlPc = "top"
    /\ shutdown
    /\ ctrlPc' = "stop"
    /\ UNCHANGED <<stateVars, cfg, pumpVars, sessionVars>>

\* pthread_join on the pump worker, then srt_cleanup.
JoinPump ==
    /\ ctrlPc = "stop"
    /\ pumpPc = "done"
    /\ ctrlPc' = "done"
    /\ UNCHANGED <<stateVars, cfg, pumpVars, sessionVars>>

-----------------------------------------------------------------------------
(***************************************************************************)
(* run_ctrl_session                                                        *)
(***************************************************************************)

\* Every way out of a session closes the TCP connection and the UDP socket it
\* still owns; close(-1) does nothing.
EndSession ==
    /\ ctrlPc' = "backoff"
    /\ openFds' = openFds \ {udp}
    /\ udp' = None
    /\ srflx' = None
    /\ tcp' = "none"
    /\ registered' = None
    /\ tick' = 0
    /\ UNCHANGED <<cfg, mailboxVars, workerVars>>

\* allocate_edge_socket: a free descriptor number.
Allocated(fd) ==
    /\ fd \in Fds \ openFds
    /\ openFds' = openFds \union {fd}
    /\ udp' = fd

AllocateFails ==
    /\ ctrlPc = "allocate"
    /\ EndSession
    /\ UNCHANGED stateVars

Allocate ==
    /\ ctrlPc = "allocate"
    /\ \E fd \in Fds : Allocated(fd)
    /\ ctrlPc' = "discover"
    /\ UNCHANGED <<stateVars, cfg, mailboxVars, workerVars, srflx, tcp, registered, tick>>

\* ap2p_edge_get_srflx: any public address, or none after its retries.
Discover ==
    /\ ctrlPc = "discover"
    /\ srflx' \in Addrs
    /\ ctrlPc' = "open"
    /\ UNCHANGED <<stateVars, cfg, pumpVars, udp, tcp, registered, tick>>

\* ctrl_open and the SRT_REGISTER that follows.  An empty ctrl_host resolves to
\* nothing.
OpenAndRegister ==
    /\ ctrlPc = "open"
    /\ cfg["ctrl_host"] # Empty
    /\ tcp' = "up"
    /\ registered' = srflx
    /\ ctrlPc' = "ack"
    /\ UNCHANGED <<stateVars, cfg, pumpVars, udp, srflx, tick>>

\* The blocking, untimed read of the answer, which must be SRT_REGISTERED.
Acknowledged ==
    /\ ctrlPc = "ack"
    /\ ctrlPc' = "loop"
    /\ UNCHANGED <<stateVars, cfg, pumpVars, sessionVars>>

\* Discovery failed, or the connection could not be opened or written to.
SetupFails ==
    /\ ctrlPc \in {"discover", "open"}
    /\ EndSession
    /\ UNCHANGED stateVars

\* The answer was another message, or a signal interrupted the read.
NotAcknowledged ==
    /\ ctrlPc = "ack"
    /\ EndSession
    /\ UNCHANGED stateVars

\* The head of the message loop: shutdown ends it, a pending reload is consumed
\* and ends the session, otherwise poll.
LoopSeesShutdown ==
    /\ ctrlPc = "loop"
    /\ shutdown
    /\ EndSession
    /\ UNCHANGED stateVars

\* Faulty variant: the flag is consumed and the session goes on.
ap2p_consume_srt_reload_KeepsSession ==
    /\ ctrlPc = "loop"
    /\ ~shutdown
    /\ reloadPending
    /\ reloadPending' = FALSE
    /\ ctrlPc' = "poll"
    /\ UNCHANGED <<conf, stateReady, shutdown, cfg, pumpVars, sessionVars>>

ap2p_consume_srt_reload ==
    /\ ctrlPc = "loop"
    /\ ~shutdown
    /\ reloadPending
    /\ reloadPending' = FALSE
    /\ EndSession
    /\ UNCHANGED <<conf, stateReady, shutdown>>

\* Faulty variant: the loop polls on although a reload is pending.
EnterPoll_KeepsReload ==
    /\ ctrlPc = "loop"
    /\ ~shutdown
    /\ ctrlPc' = "poll"
    /\ UNCHANGED <<stateVars, cfg, pumpVars, sessionVars>>

EnterPoll ==
    /\ ctrlPc = "loop"
    /\ ~shutdown
    /\ ~reloadPending
    /\ ctrlPc' = "poll"
    /\ UNCHANGED <<stateVars, cfg, pumpVars, sessionVars>>

\* Faulty variant: refresh_tick is not reset.
PollTimesOut_NoReset ==
    /\ ctrlPc = "poll"
    /\ tick' = tick + 1
    /\ ctrlPc' = IF tick + 1 >= RefreshTicks THEN "refresh" ELSE "loop"
    /\ UNCHANGED <<stateVars, cfg, pumpVars, udp, srflx, tcp, registered>>

\* Nothing arrived in ten seconds: PING, and every RefreshTicks-th time a STUN
\* refresh.  A PING on a dead connection may still seem to be sent.
PollTimesOut ==
    /\ ctrlPc = "poll"
    /\ tick' = (tick + 1) % RefreshTicks
    /\ ctrlPc' = IF tick + 1 >= RefreshTicks THEN "refresh" ELSE "loop"
    /\ UNCHANGED <<stateVars, cfg, pumpVars, udp, srflx, tcp, registered>>

\* POLLERR/POLLHUP, a failed PING, or end of file or a keepalive error in a read.
ConnectionLost ==
    /\ ctrlPc \in {"ack", "poll", "receive"}
    /\ tcp = "dead"
    /\ EndSession
    /\ UNCHANGED stateVars

\* POLLIN: the frame is then read to its end without a timeout.  A frame that
\* was sent before the connection died can still be read after.
PollReadable ==
    /\ ctrlPc = "poll"
    /\ ctrlPc' = "receive"
    /\ UNCHANGED <<stateVars, cfg, pumpVars, sessionVars>>

\* Faulty variant: the new address is kept and not registered.
StunSucceeds_NoRegister ==
    /\ ctrlPc \in {"refresh", "rediscover"}
    /\ udp # None
    /\ srflx' \in Addrs
    /\ ctrlPc' = "loop"
    /\ UNCHANGED <<stateVars, cfg, pumpVars, udp, tcp, registered, tick>>

\* The shared tail of the periodic refresh and of the one after a hand-off: a
\* new address replaces the old one and is registered at once.  The result of
\* that send is only logged.
StunSucceeds ==
    /\ ctrlPc \in {"refresh", "rediscover"}
    /\ udp # None
    /\ \E fresh \in Addrs :
          /\ srflx' = fresh
          /\ registered' = IF fresh # srflx /\ tcp = "up" THEN fresh ELSE registered
    /\ ctrlPc' = "loop"
    /\ UNCHANGED <<stateVars, cfg, pumpVars, udp, tcp, tick>>

StunFails ==
    /\ ctrlPc \in {"refresh", "rediscover"}
    /\ ctrlPc' = "loop"
    /\ UNCHANGED <<stateVars, cfg, pumpVars, sessionVars>>

\* A PING (answered with PONG), a frame of another type, an SRT_PEER without an
\* address, or one that finds no discovery socket to hand off.
ReceiveOther ==
    /\ ctrlPc = "receive"
    /\ ctrlPc' = "loop"
    /\ UNCHANGED <<stateVars, cfg, pumpVars, sessionVars>>

\* A frame too long for the buffer ends the session like a dead connection.
ReceiveRefused ==
    /\ ctrlPc = "receive"
    /\ EndSession
    /\ UNCHANGED stateVars

\* Faulty variant: the control thread keeps the descriptor it hands off.
ReceivePeer_KeepsFd ==
    /\ ctrlPc = "receive"
    /\ udp # None
    /\ \E peer \in Peers : post_pump_request(udp, peer)
    /\ ctrlPc' = "reallocate"
    /\ UNCHANGED <<stateVars, cfg, udp, srflx, tcp, registered, tick>>

\* SRT_PEER: the discovery socket goes to the pump worker with the peer.
ReceivePeer ==
    /\ ctrlPc = "receive"
    /\ udp # None
    /\ \E peer \in Peers : post_pump_request(udp, peer)
    /\ udp' = None
    /\ ctrlPc' = "reallocate"
    /\ UNCHANGED <<stateVars, cfg, srflx, tcp, registered, tick>>

\* A fresh discovery socket for the next viewer, or none until the session ends.
Reallocate ==
    /\ ctrlPc = "reallocate"
    /\ \/ /\ \E fd \in Fds : Allocated(fd)
          /\ ctrlPc' = "rediscover"
       \/ /\ ctrlPc' = "loop"
          /\ UNCHANGED <<openFds, udp>>
    /\ UNCHANGED <<stateVars, cfg, mailboxVars, workerVars, srflx, tcp, registered, tick>>

-----------------------------------------------------------------------------
(***************************************************************************)
(* The environment: the broker's payloads, the operator's signal, the      *)
(* network.                                                                *)
(***************************************************************************)

DeliverPayload ==
    /\ ~LockHeld
    /\ \E payload \in Payloads : apply_ap2p_conf_payload(payload)
    /\ UNCHANGED <<cfg, pumpVars, ctrlVars>>

Signal ==
    /\ on_signal
    /\ UNCHANGED <<cfg, pumpVars, ctrlVars>>

TcpDies ==
    /\ tcp = "up"
    /\ tcp' = "dead"
    /\ UNCHANGED <<stateVars, cfg, pumpVars, ctrlPc, udp, srflx, registered, tick>>

\* The steps the SRT thread takes by itself.
CtrlOwnSteps ==
    \/ WaitReady
    \/ Startup
    \/ SnapshotBegins
    \/ SnapshotEnds
    \/ Backoff
    \/ LeaveMainLoop
    \/ JoinPump
    \/ AllocateFails
    \/ Allocate
    \/ Discover
    \/ OpenAndRegister
    \/ SetupFails
    \/ LoopSeesShutdown
    \/ ap2p_consume_srt_reload
    \/ EnterPoll
    \/ PollTimesOut
    \/ ConnectionLost
    \/ PollReadable
    \/ StunSucceeds
    \/ StunFails
    \/ Reallocate

\* The steps that wait for a byte from the control server, without a timeout.
ServerSteps ==
    \/ Acknowledged
    \/ NotAcknowledged
    \/ ReceiveOther
    \/ ReceiveRefused
    \/ ReceivePeer

PumpSteps == pump_thread_main /\ UNCHANGED <<stateVars, cfg, ctrlVars>>

Next ==
    \/ CtrlOwnSteps
    \/ ServerSteps
    \/ PumpSteps
    \/ DeliverPayload
    \/ Signal
    \/ TcpDies

Spec == Init /\ [][Next]_vars

-----------------------------------------------------------------------------
(***************************************************************************)
(* Fairness.  A thread that can take a step takes it; srt_connect,         *)
(* discovery, connect and poll all end by a timeout of their own; a dead   *)
(* connection is noticed, by the TCP keepalive at the latest.  Nothing     *)
(* says that a blocked srt_send returns while its socket is open.          *)
(***************************************************************************)

ThreadFairness ==
    /\ WF_vars(CtrlOwnSteps)
    /\ SF_vars(ConnectionLost)
    /\ WF_vars(PumpOwnSteps /\ UNCHANGED <<stateVars, cfg, ctrlVars>>)
    /\ WF_vars(MustStop /\ StopStreaming /\ UNCHANGED <<stateVars, cfg, ctrlVars>>)

\* What the code cannot enforce, because these reads have no timeout: the
\* control server finishes the frames it owes, and the local source answers
\* the GET or closes.
PeerFairness ==
    /\ WF_vars(ServerSteps)
    /\ WF_vars(ReadHeaders /\ UNCHANGED <<stateVars, cfg, ctrlVars>>)

ThreadFairSpec == Spec /\ ThreadFairness

FairSpec == Spec /\ ThreadFairness /\ PeerFairness

-----------------------------------------------------------------------------
(***************************************************************************)
(* Safety.                                                                 *)
(***************************************************************************)

\* The descriptors somebody will still close.
Held(fd) == udp = fd \/ PumpHolds(fd)

\* Every descriptor in somebody's hands is open and in one pair of hands: the
\* control thread, the mailbox slot, the connecting worker and libsrt never
\* share one, so none of the close() and srt_close() calls of the two threads
\* closes a descriptor somebody else is using (or a reused number).
FdOwnership ==
    \A fd \in Fds :
        /\ Held(fd) => fd \in openFds
        /\ udp = fd => ~PumpHolds(fd)
        /\ InSlot(fd) => ~InConnect(fd) /\ ~InSrt(fd)
        /\ InConnect(fd) => ~InSrt(fd)

\* The lifecycle contract of the hand-off (srt_thread.c:375-383, 811-814): an
\* open descriptor always has an owner that will close it.
NoFdLeak == \A fd \in openFds : Held(fd)

InSession == ctrlPc \in {"allocate", "discover", "open", "ack", "loop", "poll",
                         "refresh", "receive", "reallocate", "rediscover"}

\* No configuration update is lost: a session runs on the configuration now in
\* the shared state, or the reload that will end it is still pending.  A
\* rejected payload, which leaves ctrl_host empty, announces nothing.
ReloadNotLost ==
    InSession => \/ cfg = Resolve(conf)
                 \/ reloadPending
                 \/ conf["ctrl_host"] = Empty

\* srt_thread.c:13-14: the SRT thread waits for the first payload because an
\* empty ctrl_host would make it try to connect to nowhere again and again.
NeverDialsEmptyHost == ctrlPc = "open" => cfg["ctrl_host"] # Empty

\* The server knows the address the session believes it has, whatever refreshes
\* and hand-offs came between (unless the connection that would carry the news
\* is dead, which ends the session).
RegisteredIsCurrent ==
    ctrlPc \in {"ack", "loop", "poll", "refresh", "receive", "reallocate", "rediscover"}
        /\ tcp = "up" => registered = srflx

\* SIGTERM finds no pump worker behind: the thread that started it joins it.
PumpJoined == ctrlPc = "done" => pumpPc \in {"unborn", "done"}

\* What the invariants above rest on, made inductive: where each thread can be
\* when it holds a descriptor, a libsrt socket or a configuration.
PlacesAgree ==
    /\ srtFd # None => pumpPc \in {"publish", "source", "get", "headers",
                                   "stream", "send", "finish", "close"}
    /\ pumpPc = "publish" => srtFd # None
    /\ udp # None => ctrlPc \in {"discover", "open", "ack", "loop", "poll",
                                 "refresh", "receive", "rediscover"}
    /\ ctrlPc \in {"wait", "start"} => pumpPc = "unborn"
    /\ pumpPc = "unborn" => ctrlPc \in {"wait", "start", "done"}
    /\ ctrlPc \notin {"wait", "done"} => stateReady

IInv ==
    /\ TypeOK
    /\ PlacesAgree
    /\ RequestCarriesFd
    /\ FdOwnership
    /\ PendingCancels
    /\ ActiveIsLive
    /\ PumpJoined
    /\ ReloadNotLost
    /\ RegisteredIsCurrent

-----------------------------------------------------------------------------
(***************************************************************************)
(* Liveness.                                                               *)
(***************************************************************************)

\* A viewer's request does not wait behind an older viewer for ever: it is
\* taken (or replaced by a newer one that is), whatever the worker was doing.
RequestIsTaken == pendingValid ~> (~pendingValid \/ shutdown)

\* A configuration in the shared state is eventually the one in use.
ConfigIsUsed ==
    (stateReady /\ conf["ctrl_host"] # Empty)
        ~> \/ cfg = Resolve(conf)
           \/ conf["ctrl_host"] = Empty
           \/ shutdown
           \/ ctrlPc = "done"

\* The viewers never hold the worker in srt_send for ever: each takes bytes again,
\* or goes away.
ViewersRead == []<>(pumpPc # "send")

\* main.c:17-18: the shutdown flag ends the SRT thread and the pump worker, as
\* long as no viewer holds the worker in srt_send for ever.  Shutdown only joins
\* the worker (srt_thread.c:932); it does not close the SRT socket under it.
ShutdownCompletes == ViewersRead => (shutdown ~> ctrlPc = "done")

=============================================================================
