------------------------- MODULE SrtThreadProofs -------------------------
(***************************************************************************)
(* The safety invariants of SrtThread for every set of descriptors,        *)
(* viewers, addresses, field values and payloads.                          *)
(***************************************************************************)
EXTENDS SrtThread, TLAPS

\* Writing the lines of a payload over the shared fields keeps them fields
\* (apply_field truncates a string to the field, config.c:82-91).
LEMMA OverlayType ==
    ASSUME StateTypeOK, NEW payload \in Payloads
    PROVE  Overlay(payload) \in [Fields -> FieldValues]
<1>1. PICK D \in SUBSET Fields : payload \in [D -> FieldValues]
  BY PayloadsAssumption DEF PayloadSet
<1>2. QED
  BY <1>1 DEF Overlay, StateTypeOK

\* A snapshot of the shared fields is a configuration (snapshot_config).
LEMMA ResolveType ==
    ASSUME StateTypeOK
    PROVE  Resolve(conf) \in [Fields -> FieldValues]
BY ValuesAssumption DEF Resolve, StateTypeOK, FieldValues

\* Every step keeps the flags Boolean.
LEMMA FlagsStep ==
    StateFlagsOK /\ PumpFlagsOK /\ [Next]_vars => StateFlagsOK' /\ PumpFlagsOK'
<1> SUFFICES ASSUME StateFlagsOK, PumpFlagsOK, [Next]_vars
             PROVE  StateFlagsOK' /\ PumpFlagsOK'
  OBVIOUS
<1> USE DEF StateFlagsOK, PumpFlagsOK, stateVars, pumpVars, mailboxVars, EndSession
<1>1. CASE CtrlOwnSteps
  BY <1>1, Zenon
     DEF CtrlOwnSteps, WaitReady, Startup, SnapshotBegins, SnapshotEnds, Backoff,
         LeaveMainLoop, JoinPump, AllocateFails, Allocate, Discover, OpenAndRegister,
         SetupFails, LoopSeesShutdown, ap2p_consume_srt_reload, EnterPoll, PollTimesOut,
         ConnectionLost, PollReadable, StunSucceeds, StunFails, Reallocate
<1>2. CASE ServerSteps
  BY <1>2, Zenon DEF ServerSteps, Acknowledged, NotAcknowledged, ReceiveOther,
                     ReceiveRefused, ReceivePeer, post_pump_request
<1>3. CASE PumpSteps
  BY <1>3, Zenon
     DEF PumpSteps, pump_thread_main, PumpOwnSteps, Take, ConnectFails, ConnectSucceeds,
         Publish, ConnectSource, SendGet, ReadHeaders, StopStreaming, ReadSource,
         SendReturns, SendFails, SendCut, Unpublish, CloseSrt, PumpExits
<1>4. CASE DeliverPayload
  BY <1>4, Zenon DEF DeliverPayload, apply_ap2p_conf_payload
<1>5. CASE Signal \/ TcpDies
  BY <1>5, Zenon DEF Signal, on_signal, TcpDies
<1>6. CASE UNCHANGED vars
  BY <1>6, Zenon DEF vars
<1>7. QED
  BY <1>1, <1>2, <1>3, <1>4, <1>5, <1>6 DEF Next

\* Every step keeps the types.
LEMMA TypeStep == TypeOK /\ [Next]_vars => TypeOK'
<1> SUFFICES ASSUME TypeOK, [Next]_vars PROVE TypeOK'
  OBVIOUS
<1>0. StateFlagsOK' /\ PumpFlagsOK'
  BY FlagsStep DEF TypeOK
<1> USE <1>0 DEF TypeOK, CtrlPcs, PumpPcs, PumpTypeOK, StateTypeOK
<1>1. CASE CtrlOwnSteps
  <2>1. CASE WaitReady
    BY <2>1 DEF WaitReady, stateVars, pumpVars, mailboxVars, workerVars, sessionVars
  <2>2. CASE Startup
    BY <2>2, ResolveType DEF Startup, stateVars, mailboxVars, sessionVars
  <2>3. CASE SnapshotBegins \/ SnapshotEnds
    BY <2>3, ResolveType
       DEF SnapshotBegins, SnapshotEnds, stateVars, pumpVars, mailboxVars, workerVars,
           sessionVars, Fields
  <2>4. CASE Backoff \/ LeaveMainLoop \/ JoinPump
    BY <2>4 DEF Backoff, LeaveMainLoop, JoinPump, stateVars, pumpVars, mailboxVars,
                workerVars, sessionVars
  <2>5. CASE AllocateFails \/ SetupFails \/ LoopSeesShutdown \/ ap2p_consume_srt_reload
             \/ ConnectionLost
    BY <2>5, RefreshAssumption
       DEF AllocateFails, SetupFails, LoopSeesShutdown, ap2p_consume_srt_reload,
           ConnectionLost, EndSession, stateVars, mailboxVars, workerVars
  <2>6. CASE Allocate \/ Reallocate
    BY <2>6 DEF Allocate, Reallocate, Allocated, stateVars, mailboxVars, workerVars
  <2>7. CASE Discover \/ OpenAndRegister \/ EnterPoll \/ PollReadable
             \/ StunSucceeds \/ StunFails
    BY <2>7 DEF Discover, OpenAndRegister, EnterPoll, PollReadable, StunSucceeds, StunFails,
                stateVars, pumpVars, mailboxVars, workerVars, sessionVars
  <2>8. CASE PollTimesOut
    <3>1. (tick + 1) % RefreshTicks \in 0 .. RefreshTicks - 1
      BY RefreshAssumption
    <3>2. QED
      BY <2>8, <3>1 DEF PollTimesOut, stateVars, pumpVars, mailboxVars, workerVars
  <2>9. QED
    BY <1>1, <2>1, <2>2, <2>3, <2>4, <2>5, <2>6, <2>7, <2>8 DEF CtrlOwnSteps
<1>2. CASE ServerSteps
  <2>1. CASE Acknowledged \/ ReceiveOther
    BY <2>1 DEF Acknowledged, ReceiveOther, stateVars, pumpVars, mailboxVars, workerVars,
                sessionVars
  <2>2. CASE NotAcknowledged \/ ReceiveRefused
    BY <2>2, RefreshAssumption
       DEF NotAcknowledged, ReceiveRefused, EndSession, stateVars, mailboxVars, workerVars
  <2>3. CASE ReceivePeer
    BY <2>3 DEF ReceivePeer, post_pump_request, Request, stateVars
  <2>4. QED
    BY <1>2, <2>1, <2>2, <2>3 DEF ServerSteps
<1>3. CASE PumpSteps
  <2> USE DEF PumpSteps, stateVars, ctrlVars, sessionVars, mailboxVars, Request, NoRequest,
              NoSource
  <2>1. CASE Take
    BY <1>3, <2>1 DEF Take
  <2>2. CASE ConnectFails \/ ConnectSucceeds \/ Publish
    BY <1>3, <2>2 DEF ConnectFails, ConnectSucceeds, Publish
  <2>3. CASE ConnectSource \/ SendGet
    BY <1>3, <2>3 DEF ConnectSource, SendGet, Fields
  <2>4. CASE ReadHeaders \/ StopStreaming \/ ReadSource \/ SendReturns \/ SendFails
             \/ Unpublish \/ PumpExits
    BY <1>3, <2>4 DEF ReadHeaders, StopStreaming, ReadSource, SendReturns, SendFails,
                      Unpublish, PumpExits
  <2>5. CASE CloseSrt
    BY <1>3, <2>5 DEF CloseSrt, FieldValues
  <2>6. QED
    BY <1>3, <2>1, <2>2, <2>3, <2>4, <2>5 DEF pump_thread_main, PumpOwnSteps, SendCut
<1>4. CASE DeliverPayload
  BY <1>4, OverlayType
     DEF DeliverPayload, apply_ap2p_conf_payload, pumpVars, mailboxVars, workerVars,
         ctrlVars, sessionVars
<1>5. CASE Signal \/ TcpDies
  BY <1>5 DEF Signal, on_signal, TcpDies, stateVars, pumpVars, mailboxVars, workerVars,
              ctrlVars, sessionVars
<1>6. CASE UNCHANGED vars
  BY <1>6 DEF vars, stateVars, pumpVars, mailboxVars, workerVars, ctrlVars, sessionVars
<1>7. QED
  BY <1>1, <1>2, <1>3, <1>4, <1>5, <1>6 DEF Next

\* The daemon starts in a state of the right types.
LEMMA TypeInit == Init => TypeOK
<1>1. Init => StateFlagsOK /\ PumpFlagsOK
  BY Zenon DEF Init, StateInit, PumpInit, StateFlagsOK, PumpFlagsOK
<1>2. QED
  BY <1>1, RefreshAssumption
     DEF Init, StateInit, PumpInit, TypeOK, StateTypeOK, PumpTypeOK, CtrlPcs, PumpPcs,
         Request, NoRequest, NoSource, FieldValues


\* The two program counters and what their threads hold stay in step.
LEMMA PlacesStep == IInv /\ [Next]_vars => PlacesAgree' /\ PumpJoined'
<1> SUFFICES ASSUME IInv, [Next]_vars PROVE PlacesAgree' /\ PumpJoined'
  OBVIOUS
<1> USE FdsAssumption, AddrsAssumption
    DEF IInv, PlacesAgree, PumpJoined, ActiveIsLive, RequestCarriesFd,
        stateVars, pumpVars, mailboxVars, workerVars, ctrlVars, sessionVars
<1>1. CASE CtrlOwnSteps
  <2>1. CASE WaitReady
    BY <2>1 DEF WaitReady, WaitReturns
  <2>2. CASE Startup
    BY <2>2 DEF Startup
  <2>3. CASE SnapshotBegins \/ SnapshotEnds
    BY <2>3 DEF SnapshotBegins, SnapshotEnds
  <2>4. CASE Backoff \/ LeaveMainLoop \/ JoinPump
    BY <2>4 DEF Backoff, LeaveMainLoop, JoinPump
  <2>5. CASE AllocateFails \/ SetupFails \/ LoopSeesShutdown \/ ap2p_consume_srt_reload
             \/ ConnectionLost
    BY <2>5 DEF AllocateFails, SetupFails, LoopSeesShutdown, ap2p_consume_srt_reload, ConnectionLost, EndSession
  <2>6. CASE Allocate
    BY <2>6 DEF Allocate, Allocated
  <2>7. CASE Reallocate
    BY <2>7 DEF Reallocate, Allocated
  <2>8. CASE Discover \/ OpenAndRegister \/ EnterPoll \/ PollReadable
    BY <2>8 DEF Discover, OpenAndRegister, EnterPoll, PollReadable
  <2>9. CASE PollTimesOut
    BY <2>9 DEF PollTimesOut
  <2>10. CASE StunSucceeds \/ StunFails
    BY <2>10 DEF StunSucceeds, StunFails
  <2>11. QED
    BY <1>1, <2>1, <2>2, <2>3, <2>4, <2>5, <2>6, <2>7, <2>8, <2>9, <2>10 DEF CtrlOwnSteps
<1>2. CASE ServerSteps
  <2>1. CASE Acknowledged \/ ReceiveOther
    BY <2>1 DEF Acknowledged, ReceiveOther
  <2>2. CASE NotAcknowledged \/ ReceiveRefused
    BY <2>2 DEF NotAcknowledged, ReceiveRefused, EndSession
  <2>3. CASE ReceivePeer
    BY <2>3 DEF ReceivePeer, post_pump_request
  <2>4. QED
    BY <1>2, <2>1, <2>2, <2>3 DEF ServerSteps
<1>3. CASE PumpSteps
  <2> USE DEF PumpSteps
  <2>1. CASE Take
    BY <1>3, <2>1 DEF Take
  <2>2. CASE ConnectFails
    BY <1>3, <2>2 DEF ConnectFails, NoRequest
  <2>3. CASE ConnectSucceeds \/ Publish
    BY <1>3, <2>3 DEF ConnectSucceeds, Publish
  <2>4. CASE ConnectSource \/ SendGet \/ ReadHeaders \/ StopStreaming \/ ReadSource
             \/ SendReturns \/ SendFails
    BY <1>3, <2>4 DEF ConnectSource, SendGet, ReadHeaders, StopStreaming, ReadSource,
                      SendReturns, SendFails
  <2>5. CASE Unpublish \/ PumpExits
    BY <1>3, <2>5 DEF Unpublish, PumpExits
  <2>6. CASE CloseSrt
    BY <1>3, <2>6 DEF CloseSrt, NoRequest
  <2>7. QED
    BY <1>3, <2>1, <2>2, <2>3, <2>4, <2>5, <2>6 DEF pump_thread_main, PumpOwnSteps, SendCut
<1>4. CASE DeliverPayload
  BY <1>4 DEF DeliverPayload, apply_ap2p_conf_payload
<1>5. CASE Signal \/ TcpDies
  BY <1>5 DEF Signal, on_signal, TcpDies
<1>6. CASE UNCHANGED vars
  BY <1>6 DEF vars
<1>7. QED
  BY <1>1, <1>2, <1>3, <1>4, <1>5, <1>6 DEF Next

\* No step gives a descriptor two owners or closes one under its owner.
LEMMA OwnershipStep == IInv /\ [Next]_vars => RequestCarriesFd' /\ FdOwnership'
<1> SUFFICES ASSUME IInv, [Next]_vars PROVE RequestCarriesFd' /\ FdOwnership'
  OBVIOUS
<1> USE FdsAssumption, AddrsAssumption
    DEF IInv, TypeOK, PumpTypeOK, PlacesAgree, RequestCarriesFd, FdOwnership, ActiveIsLive,
        Held, PumpHolds, InSlot, InConnect, InSrt, Request,
        stateVars, pumpVars, mailboxVars, workerVars, ctrlVars, sessionVars
<1>1. CASE CtrlOwnSteps
  <2>1. CASE WaitReady
    BY <2>1 DEF WaitReady, WaitReturns
  <2>2. CASE Startup
    BY <2>2 DEF Startup
  <2>3. CASE SnapshotBegins \/ SnapshotEnds
    BY <2>3 DEF SnapshotBegins, SnapshotEnds
  <2>4. CASE Backoff \/ LeaveMainLoop \/ JoinPump
    BY <2>4 DEF Backoff, LeaveMainLoop, JoinPump
  <2>5. CASE AllocateFails \/ SetupFails \/ LoopSeesShutdown \/ ap2p_consume_srt_reload
             \/ ConnectionLost
    BY <2>5 DEF AllocateFails, SetupFails, LoopSeesShutdown, ap2p_consume_srt_reload, ConnectionLost, EndSession
  <2>6. CASE Allocate
    BY <2>6 DEF Allocate, Allocated
  <2>7. CASE Reallocate
    BY <2>7 DEF Reallocate, Allocated
  <2>8. CASE Discover \/ OpenAndRegister \/ EnterPoll \/ PollReadable
    BY <2>8 DEF Discover, OpenAndRegister, EnterPoll, PollReadable
  <2>9. CASE PollTimesOut
    BY <2>9 DEF PollTimesOut
  <2>10. CASE StunSucceeds \/ StunFails
    BY <2>10 DEF StunSucceeds, StunFails
  <2>11. QED
    BY <1>1, <2>1, <2>2, <2>3, <2>4, <2>5, <2>6, <2>7, <2>8, <2>9, <2>10 DEF CtrlOwnSteps
<1>2. CASE ServerSteps
  <2>1. CASE Acknowledged \/ ReceiveOther
    BY <2>1 DEF Acknowledged, ReceiveOther
  <2>2. CASE NotAcknowledged \/ ReceiveRefused
    BY <2>2 DEF NotAcknowledged, ReceiveRefused, EndSession
  <2>3. CASE ReceivePeer
    BY <2>3 DEF ReceivePeer, post_pump_request
  <2>4. QED
    BY <1>2, <2>1, <2>2, <2>3 DEF ServerSteps
<1>3. CASE PumpSteps
  <2> USE DEF PumpSteps
  <2>1. CASE Take
    BY <1>3, <2>1 DEF Take
  <2>2. CASE ConnectFails
    BY <1>3, <2>2 DEF ConnectFails, NoRequest
  <2>3. CASE ConnectSucceeds \/ Publish
    BY <1>3, <2>3 DEF ConnectSucceeds, Publish
  <2>4. CASE ConnectSource \/ SendGet \/ ReadHeaders \/ StopStreaming \/ ReadSource
             \/ SendReturns \/ SendFails
    BY <1>3, <2>4 DEF ConnectSource, SendGet, ReadHeaders, StopStreaming, ReadSource,
                      SendReturns, SendFails
  <2>5. CASE Unpublish \/ PumpExits
    BY <1>3, <2>5 DEF Unpublish, PumpExits
  <2>6. CASE CloseSrt
    BY <1>3, <2>6 DEF CloseSrt, NoRequest
  <2>7. QED
    BY <1>3, <2>1, <2>2, <2>3, <2>4, <2>5, <2>6 DEF pump_thread_main, PumpOwnSteps, SendCut
<1>4. CASE DeliverPayload
  BY <1>4 DEF DeliverPayload, apply_ap2p_conf_payload
<1>5. CASE Signal \/ TcpDies
  BY <1>5 DEF Signal, on_signal, TcpDies
<1>6. CASE UNCHANGED vars
  BY <1>6 DEF vars
<1>7. QED
  BY <1>1, <1>2, <1>3, <1>4, <1>5, <1>6 DEF Next

\* A waiting request keeps the cancel flag up, and g_active_srt keeps naming the
\* worker's open SRT socket.
LEMMA MailboxStep == IInv /\ [Next]_vars => PendingCancels' /\ ActiveIsLive'
<1> SUFFICES ASSUME IInv, [Next]_vars PROVE PendingCancels' /\ ActiveIsLive'
  OBVIOUS
<1> USE FdsAssumption
    DEF IInv, PlacesAgree, PendingCancels, ActiveIsLive, RequestCarriesFd,
        stateVars, pumpVars, mailboxVars, workerVars, ctrlVars, sessionVars
<1>1. CASE CtrlOwnSteps
  BY <1>1
     DEF CtrlOwnSteps, WaitReady, Startup, SnapshotBegins, SnapshotEnds, Backoff,
         LeaveMainLoop, JoinPump, AllocateFails, Allocate, Discover, OpenAndRegister,
         SetupFails, LoopSeesShutdown, ap2p_consume_srt_reload, EnterPoll, PollTimesOut,
         ConnectionLost, PollReadable, StunSucceeds, StunFails, Reallocate, EndSession
<1>2. CASE ServerSteps
  BY <1>2 DEF ServerSteps, Acknowledged, NotAcknowledged, ReceiveOther, ReceiveRefused,
              ReceivePeer, post_pump_request, EndSession
<1>3. CASE PumpSteps
  BY <1>3 DEF PumpSteps, pump_thread_main, PumpOwnSteps, Take, ConnectFails,
              ConnectSucceeds, Publish, ConnectSource, SendGet, ReadHeaders,
              StopStreaming, ReadSource, SendReturns, SendFails, SendCut, Unpublish,
              CloseSrt, PumpExits
<1>4. CASE DeliverPayload \/ Signal \/ TcpDies \/ UNCHANGED vars
  BY <1>4 DEF DeliverPayload, Signal, TcpDies, vars
<1>5. QED
  BY <1>1, <1>2, <1>3, <1>4 DEF Next

\* No update is lost: a session starts on the configuration it has just copied,
\* and a payload accepted later raises the reload flag, which only the end of
\* the session lowers.
LEMMA ReloadStep == IInv /\ [Next]_vars => ReloadNotLost'
<1> SUFFICES ASSUME IInv, [Next]_vars PROVE ReloadNotLost'
  OBVIOUS
<1> USE DEF IInv, PlacesAgree, ReloadNotLost, InSession,
            stateVars, pumpVars, mailboxVars, workerVars, ctrlVars, sessionVars
<1>1. ASSUME UNCHANGED conf PROVE UNCHANGED Resolve(conf)
  BY <1>1 DEF Resolve
<1>2. CASE CtrlOwnSteps
  BY <1>1, <1>2
     DEF CtrlOwnSteps, WaitReady, Startup, SnapshotBegins, SnapshotEnds, Backoff,
         LeaveMainLoop, JoinPump, AllocateFails, Allocate, Discover, OpenAndRegister,
         SetupFails, LoopSeesShutdown, ap2p_consume_srt_reload, EnterPoll, PollTimesOut,
         ConnectionLost, PollReadable, StunSucceeds, StunFails, Reallocate, EndSession
<1>3. CASE ServerSteps
  BY <1>1, <1>3 DEF ServerSteps, Acknowledged, NotAcknowledged, ReceiveOther,
              ReceiveRefused, ReceivePeer, EndSession
<1>4. CASE PumpSteps \/ Signal \/ TcpDies \/ UNCHANGED vars
  BY <1>1, <1>4 DEF PumpSteps, Signal, on_signal, TcpDies, vars
<1>5. CASE DeliverPayload
  <2>1. PICK payload \in Payloads : apply_ap2p_conf_payload(payload)
    BY <1>5 DEF DeliverPayload
  <2>2. CASE Rejected(payload)
    BY <2>1, <2>2 DEF apply_ap2p_conf_payload, Rejected
  <2>3. CASE ~Rejected(payload) /\ ctrlPc \notin {"wait", "done"}
    BY <1>5, <2>1, <2>3 DEF apply_ap2p_conf_payload, DeliverPayload
  <2>4. CASE ctrlPc \in {"wait", "done"}
    BY <1>5, <2>4 DEF DeliverPayload
  <2>5. QED
    BY <2>2, <2>3, <2>4
<1>6. QED
  BY <1>2, <1>3, <1>4, <1>5 DEF Next

\* The server keeps knowing the address the session has.
LEMMA RegisteredStep == IInv /\ [Next]_vars => RegisteredIsCurrent'
<1> SUFFICES ASSUME IInv, [Next]_vars PROVE RegisteredIsCurrent'
  OBVIOUS
<1> USE DEF IInv, RegisteredIsCurrent,
            stateVars, pumpVars, mailboxVars, workerVars, ctrlVars, sessionVars
<1>1. CASE CtrlOwnSteps
  BY <1>1
     DEF CtrlOwnSteps, WaitReady, Startup, SnapshotBegins, SnapshotEnds, Backoff,
         LeaveMainLoop, JoinPump, AllocateFails, Allocate, Discover, OpenAndRegister,
         SetupFails, LoopSeesShutdown, ap2p_consume_srt_reload, EnterPoll, PollTimesOut,
         ConnectionLost, PollReadable, StunSucceeds, StunFails, Reallocate, EndSession
<1>2. CASE ServerSteps
  BY <1>2 DEF ServerSteps, Acknowledged, NotAcknowledged, ReceiveOther, ReceiveRefused,
              ReceivePeer, EndSession
<1>3. CASE PumpSteps \/ DeliverPayload \/ Signal \/ TcpDies \/ UNCHANGED vars
  BY <1>3 DEF PumpSteps, DeliverPayload, Signal, TcpDies, vars
<1>4. QED
  BY <1>1, <1>2, <1>3 DEF Next

\* The inductive invariant holds when the daemon starts.
LEMMA InvInit == Init => IInv
BY TypeInit, FdsAssumption
   DEF Init, StateInit, PumpInit, IInv, PlacesAgree, RequestCarriesFd, FdOwnership,
       PendingCancels, ActiveIsLive, PumpJoined, ReloadNotLost, RegisteredIsCurrent,
       InSession, Held, PumpHolds, InSlot, InConnect, InSrt, NoRequest

\* The inductive invariant of the SRT thread, the pump worker and the shared
\* state: it holds in every state the daemon reaches.
THEOREM Invariance == Spec => []IInv
<1>1. IInv /\ [Next]_vars => IInv'
  BY TypeStep, PlacesStep, OwnershipStep, MailboxStep, ReloadStep, RegisteredStep DEF IInv
<1>2. QED
  BY InvInit, <1>1, PTL DEF Spec

\* Every variable of the daemon keeps its type.
THEOREM TypeCorrect == Spec => []TypeOK
<1>1. IInv => TypeOK
  BY DEF IInv
<1>2. QED
  BY Invariance, <1>1, PTL

\* A descriptor handed from the control thread to the pump worker and to libsrt
\* is open and has one owner: no close() of either thread hits a descriptor in
\* use, for any number of descriptors and viewers.
THEOREM OwnershipCorrect == Spec => []FdOwnership
<1>1. IInv => FdOwnership
  BY DEF IInv
<1>2. QED
  BY Invariance, <1>1, PTL

\* srt_close() on g_active_srt is only ever called on the worker's open socket.
THEOREM ActiveCorrect == Spec => []ActiveIsLive
<1>1. IInv => ActiveIsLive
  BY DEF IInv
<1>2. QED
  BY Invariance, <1>1, PTL

\* No accepted configuration update is lost, for any configurations and any
\* order of payloads, sessions and reloads.
THEOREM ReloadCorrect == Spec => []ReloadNotLost
<1>1. IInv => ReloadNotLost
  BY DEF IInv
<1>2. QED
  BY Invariance, <1>1, PTL

\* The control server has been told the address the session uses.
THEOREM RegisteredCorrect == Spec => []RegisteredIsCurrent
<1>1. IInv => RegisteredIsCurrent
  BY DEF IInv
<1>2. QED
  BY Invariance, <1>1, PTL

\* A request that waits while the worker is busy has told it to stop: a viewer
\* is never queued behind a stream that goes on.
THEOREM PendingCorrect == Spec => []PendingCancels
<1>1. IInv => PendingCancels
  BY DEF IInv
<1>2. QED
  BY Invariance, <1>1, PTL

=============================================================================
