---------------------------- MODULE PumpWorker ----------------------------
(***************************************************************************)
(* The pump worker of the camera daemon (pump_thread_main of               *)
(* src/ap2p/srt_thread.c) and its mailbox: the one-slot request the        *)
(* control thread posts, the cancel flag, and g_active_srt, all guarded by *)
(* g_pump_mtx.  A request carries the UDP socket of the control thread;    *)
(* libsrt adopts that descriptor and closes it with the SRT socket.        *)
(*                                                                         *)
(* openFds is the process's descriptor table, as far as UDP sockets go:    *)
(* a number that was closed can be handed out again, so closing a          *)
(* descriptor one no longer owns takes it from whoever has it now.         *)
(* An empty result of allocation (EMFILE) is one of its failures.          *)
(***************************************************************************)
EXTENDS Ap2pState

CONSTANTS
    Fds,      \* UDP descriptor numbers
    Peers,    \* viewers an SRT_PEER message can name
    None      \* -1 / SRT_INVALID_SOCK / nobody

ASSUME FdsAssumption == None \notin Fds /\ None \notin Peers

VARIABLES
    cfg,        \* g_cfg: the control thread's snapshot, read by both threads
    openFds,    \* UDP descriptors open in the process
    pending,    \* g_pending_pump
    pendingValid, \* g_pending_valid
    cancel,     \* g_pump_cancel
    active,     \* g_active_srt # SRT_INVALID_SOCK
    pumpPc,     \* where the pump worker is
    req,        \* the request the worker copied
    srtFd,      \* the descriptor inside the worker's libsrt socket, None once
                \* either thread has called srt_close on it
    src         \* the source host the worker connected to, the path it asked

mailboxVars == <<pending, pendingValid, cancel, active>>

workerVars == <<pumpPc, req, srtFd, src>>

pumpVars == <<openFds, mailboxVars, workerVars>>

Request == [fd : Fds \union {None}, peer : Peers \union {None}]

NoRequest == [fd |-> None, peer |-> None]

NoSource == [host |-> Empty, path |-> Empty]

PumpPcs == {"unborn", "idle", "connect", "publish", "source", "get",
            "headers", "stream", "send", "finish", "close", "done"}

PumpFlagsOK ==
    /\ pendingValid \in BOOLEAN
    /\ cancel \in BOOLEAN
    /\ active \in BOOLEAN

PumpTypeOK ==
    /\ cfg \in [Fields -> FieldValues]
    /\ openFds \in SUBSET Fds
    /\ pending \in Request
    /\ pumpPc \in PumpPcs
    /\ req \in Request
    /\ srtFd \in Fds \union {None}
    /\ src \in [host : FieldValues, path : FieldValues]

PumpInit ==
    /\ cfg = [f \in Fields |-> Empty]
    /\ openFds = {}
    /\ pending = NoRequest
    /\ pendingValid = FALSE
    /\ cancel = FALSE
    /\ active = FALSE
    /\ pumpPc = "unborn"
    /\ req = NoRequest
    /\ srtFd = None
    /\ src = NoSource

-----------------------------------------------------------------------------
(***************************************************************************)
(* What the control thread calls.                                          *)
(***************************************************************************)

\* Faulty variant: the closed SRT socket stays published.
post_pump_request_StaleActive(fd, peer) ==
    /\ cancel' = TRUE
    /\ IF active
       THEN /\ openFds' = openFds \ {srtFd}
            /\ srtFd' = None
       ELSE UNCHANGED <<openFds, srtFd>>
    /\ pending' = [fd |-> fd, peer |-> peer]
    /\ pendingValid' = TRUE
    /\ UNCHANGED <<active, pumpPc, req, src>>

\* Leave the previous viewer: cancel it and close its SRT socket if it is
\* published, then put the new request in the slot, whatever is there.
post_pump_request(fd, peer) ==
    /\ cancel' = TRUE
    /\ active' = FALSE
    /\ IF active
       THEN /\ openFds' = openFds \ {srtFd}
            /\ srtFd' = None
       ELSE UNCHANGED <<openFds, srtFd>>
    /\ pending' = [fd |-> fd, peer |-> peer]
    /\ pendingValid' = TRUE
    /\ UNCHANGED <<pumpPc, req, src>>

-----------------------------------------------------------------------------
(***************************************************************************)
(* The worker's steps.                                                     *)
(***************************************************************************)

\* The critical section after the condition wait.  The refusal of a request
\* without a descriptor is left out: RequestCarriesFd shows it cannot happen.
Take ==
    /\ pumpPc = "idle"
    /\ pendingValid
    /\ ~shutdown
    /\ req' = pending
    /\ pendingValid' = FALSE
    /\ cancel' = FALSE
    /\ pumpPc' = "connect"
    /\ UNCHANGED <<openFds, pending, active, srtFd, src>>

\* srt_rendezvous_connect gives up: on every path the descriptor ends closed,
\* by close() before libsrt adopted it and by srt_close() after.
ConnectFails ==
    /\ pumpPc = "connect"
    /\ openFds' = openFds \ {req.fd}
    /\ pumpPc' = "idle"
    /\ req' = NoRequest
    /\ UNCHANGED <<mailboxVars, srtFd, src>>

ConnectSucceeds ==
    /\ pumpPc = "connect"
    /\ srtFd' = req.fd
    /\ pumpPc' = "publish"
    /\ UNCHANGED <<openFds, mailboxVars, req, src>>

\* g_active_srt = s, under the mutex: from here the control thread may close
\* the SRT socket under the worker.
Publish ==
    /\ pumpPc = "publish"
    /\ active' = TRUE
    /\ pumpPc' = "source"
    /\ UNCHANGED <<openFds, pending, pendingValid, cancel, req, srtFd, src>>

\* connect_src(g_cfg.src_host, g_cfg.src_port): a read of g_cfg without a lock.
ConnectSource ==
    /\ pumpPc = "source"
    /\ \/ /\ src' = [src EXCEPT !.host = cfg["src_host"]]
          /\ pumpPc' = "get"
       \/ /\ pumpPc' = "finish"
          /\ UNCHANGED src
    /\ UNCHANGED <<openFds, mailboxVars, req, srtFd>>

\* send_http_get(src_fd, &g_cfg), a later read of g_cfg.  Without a path the
\* source is a raw byte stream and there are no headers to wait for.
SendGet ==
    /\ pumpPc = "get"
    /\ src' = [src EXCEPT !.path = cfg["src_path"]]
    /\ pumpPc' \in IF cfg["src_path"] = Empty
                   THEN {"stream"}
                   ELSE {"headers", "finish"}
    /\ UNCHANGED <<openFds, mailboxVars, req, srtFd>>

\* read_http_response_headers blocks in recv with no timeout.  The answer may be
\* no HTTP 200, or come with body bytes that srt_send refuses; as the first bytes
\* of the session they find the send buffer empty and do not wait for the viewer.
ReadHeaders ==
    /\ pumpPc = "headers"
    /\ pumpPc' \in {"stream", "finish"}
    /\ UNCHANGED <<openFds, mailboxVars, req, srtFd, src>>

\* The copy loop ends when it was cancelled, when the daemon shuts down, or when
\* the source closes or fails.
StopStreaming ==
    /\ pumpPc = "stream"
    /\ pumpPc' = "finish"
    /\ UNCHANGED <<openFds, mailboxVars, req, srtFd, src>>

\* Faulty variants: the copy loop does not look at one of the two flags.
MustStop_NoShutdown == cancel
MustStop_NoCancel == shutdown

\* The test at the head of the copy loop.  A turn that polls for 200 ms in vain
\* changes nothing the model keeps: it is a stuttering step.
MustStop == cancel \/ shutdown

\* The loop goes on and the source has bytes for the viewer.
ReadSource ==
    /\ pumpPc = "stream"
    /\ ~MustStop
    /\ pumpPc' = "send"
    /\ UNCHANGED <<openFds, mailboxVars, req, srtFd, src>>

\* srt_send takes the bytes.  The socket is in file mode and has no send timeout:
\* with the send buffer full the call lasts until the viewer reads.
SendReturns ==
    /\ pumpPc = "send"
    /\ srtFd # None
    /\ pumpPc' = "stream"
    /\ UNCHANGED <<openFds, mailboxVars, req, srtFd, src>>

\* srt_send fails: the viewer is gone (PEER_IDLE_TIMEOUT_MS) ...
SendFails ==
    /\ pumpPc = "send"
    /\ pumpPc' = "finish"
    /\ UNCHANGED <<openFds, mailboxVars, req, srtFd, src>>

\* ... or the control thread has closed the SRT socket, which ends a blocked call.
SendCut == srtFd = None /\ SendFails

\* g_active_srt = SRT_INVALID_SOCK, under the mutex.
Unpublish ==
    /\ pumpPc = "finish"
    /\ active' = FALSE
    /\ pumpPc' = "close"
    /\ UNCHANGED <<openFds, pending, pendingValid, cancel, req, srtFd, src>>

\* Faulty variant: the worker clears the cancel flag when a session ends.
CloseSrt_ClearsCancel ==
    /\ pumpPc = "close"
    /\ openFds' = openFds \ {srtFd}
    /\ srtFd' = None
    /\ req' = NoRequest
    /\ src' = NoSource
    /\ pumpPc' = "idle"
    /\ cancel' = FALSE
    /\ UNCHANGED <<pending, pendingValid, active>>

\* srt_close(s), outside the mutex; on an SRT socket the control thread has
\* closed already it does nothing.
CloseSrt ==
    /\ pumpPc = "close"
    /\ openFds' = openFds \ {srtFd}
    /\ srtFd' = None
    /\ req' = NoRequest
    /\ src' = NoSource
    /\ pumpPc' = "idle"
    /\ UNCHANGED mailboxVars

\* Both tests of shutdown_requested() around the condition wait.
PumpExits ==
    /\ pumpPc = "idle"
    /\ shutdown
    /\ pumpPc' = "done"
    /\ UNCHANGED <<openFds, mailboxVars, req, srtFd, src>>

\* The steps that end by themselves: bounded system calls and critical
\* sections.  srt_connect gives up after CONNECT_TIMEOUT_MS, the resolver and the
\* connection to the source by the system's own limits.
PumpOwnSteps ==
    \/ Take
    \/ ConnectFails
    \/ ConnectSucceeds
    \/ Publish
    \/ ConnectSource
    \/ SendGet
    \/ SendCut
    \/ Unpublish
    \/ CloseSrt
    \/ PumpExits

pump_thread_main ==
    \/ PumpOwnSteps
    \/ ReadHeaders
    \/ StopStreaming
    \/ ReadSource
    \/ SendReturns
    \/ SendFails

-----------------------------------------------------------------------------
(***************************************************************************)
(* Properties of the hand-off.                                             *)
(***************************************************************************)

\* Who will still close a descriptor: the request in the slot, the request being
\* connected, or the libsrt socket.
InSlot(fd) == pendingValid /\ pending.fd = fd

InConnect(fd) == pumpPc = "connect" /\ req.fd = fd

InSrt(fd) == srtFd = fd

PumpHolds(fd) == InSlot(fd) \/ InConnect(fd) \/ InSrt(fd)

\* A request in the slot, or being connected, carries a descriptor: the
\* refusal branch of pump_thread_main (srt_thread.c:546) is never taken.
RequestCarriesFd ==
    /\ pendingValid => pending.fd # None
    /\ pumpPc = "connect" => req.fd # None

\* A waiting request has the cancel flag up until it is taken: the worker that
\* is busy with an older viewer is told to leave, whichever step it is at when
\* the request arrives (the flag is cleared only by taking the request).
PendingCancels == pendingValid => cancel

\* g_active_srt never names a closed SRT socket, and is published only while
\* the worker still has that socket open: srt_close from the control thread
\* cannot hit a socket of another session.
ActiveIsLive ==
    active => /\ srtFd # None
              /\ pumpPc \in {"source", "get", "headers", "stream", "send",
                             "finish"}

=============================================================================
