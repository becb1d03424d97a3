------------------------- MODULE SrtRegistryProofs -------------------------
(***************************************************************************)
(* Proofs about SrtRegistry, for any connections, descriptor numbers,      *)
(* cameras, viewers and addresses.                                         *)
(*                                                                         *)
(* The inductive invariant is the conjunction of the three invariants the  *)
(* run checks and of JobInHand, which the types of the steps of a request  *)
(* need.  EntriesAreOpen is not inductive alone: that the clean-up by      *)
(* descriptor number removes the entries of the connection that ends rests *)
(* on OwnsItsSocket, and OwnsItsSocket rests on nobody closing a number    *)
(* other than its own.                                                     *)
(***************************************************************************)
EXTENDS SrtRegistry, TLAPS

\* A thread in the middle of an SRT_REQUEST has the entry it copied.
JobInHand == \A c \in Conns : pc[c] \in {"mark", "send", "reply", "erase"} => job[c] # NoJob

IInv == RegistryTypeOK /\ JobInHand /\ OwnsItsSocket /\ EntriesAreOpen

\* The initial states satisfy the invariant: no connection, no entry.
LEMMA InitInv == Init => IInv
BY RegistryAssumption
   DEF Init, IInv, RegistryTypeOK, JobInHand, OwnsItsSocket, EntriesAreOpen, Running, NoJob, Job

\* The steps of a connection's life: accept, loss, end of the read loop.
LEMMA ConnectionSteps ==
    ASSUME IInv, NEW c \in Conns,
           \/ \E f \in Fds, who \in Cameras \union Viewers : Accept(c, f, who)
           \/ PeerGone(c)
           \/ RecvFails(c)
           \/ Refused(c)
    PROVE  IInv'
<1> USE RegistryAssumption DEF IInv, RegistryTypeOK, JobInHand, OwnsItsSocket, EntriesAreOpen, Running, Entry
<1>1. CASE \E f \in Fds, who \in Cameras \union Viewers : Accept(c, f, who)
  BY <1>1 DEF Accept
<1>2. CASE PeerGone(c)
  BY <1>2 DEF PeerGone
<1>3. CASE RecvFails(c)
  BY <1>3 DEF RecvFails
<1>4. CASE Refused(c)
  BY <1>4 DEF Refused
<1> QED
  BY <1>1, <1>2, <1>3, <1>4

\* The end of handle_client removes the entries of its connection, and only
\* then closes its number.
LEMMA EndSteps ==
    ASSUME IInv, NEW c \in Conns, Cleanup(c) \/ Close(c)
    PROVE  IInv'
<1> USE RegistryAssumption DEF IInv, RegistryTypeOK, JobInHand, OwnsItsSocket, EntriesAreOpen, Running, Entry
<1>1. CASE Cleanup(c)
  BY <1>1 DEF Cleanup, Others
<1>2. CASE Close(c)
  <2>1. file[sock[c]] = c /\ sock[c] \in Fds
    BY <1>2 DEF Close
  <2>2. RegistryTypeOK' /\ JobInHand'
    BY <1>2, <2>1 DEF Close
  <2>3. OwnsItsSocket'
    BY <1>2, <2>1 DEF Close
  <2>4. \A s \in Cameras : srtProviders[s] # None => srtProviders[s].conn # c
    BY <1>2 DEF Close
  <2>5. EntriesAreOpen'
    BY <1>2, <2>1, <2>4 DEF Close
  <2> QED
    BY <2>2, <2>3, <2>5
<1> QED
  BY <1>1, <1>2

\* The steps a message causes leave the descriptor table alone.
LEMMA MessageSteps ==
    ASSUME IInv, NEW c \in Conns,
           \/ \E addr \in Addrs : SRT_REGISTER(c, addr)
           \/ \E s \in Cameras : SRT_REQUEST(c, s)
           \/ MarkConsumer(c)
           \/ PushPeerSucceeds(c)
           \/ PushPeerFails(c)
           \/ EraseStale(c)
           \/ ReplyProvider(c)
    PROVE  IInv'
<1> USE RegistryAssumption DEF IInv, RegistryTypeOK, JobInHand, OwnsItsSocket, EntriesAreOpen, Running, Entry, Job, NoJob
<1>1. CASE \E addr \in Addrs : SRT_REGISTER(c, addr)
  <2> PICK addr \in Addrs : SRT_REGISTER(c, addr)
    BY <1>1
  <2>1. sock[c] \in Fds /\ file[sock[c]] = c
    BY DEF SRT_REGISTER
  <2>2. RegistryTypeOK' /\ JobInHand' /\ OwnsItsSocket'
    BY <2>1 DEF SRT_REGISTER
  <2>3. EntriesAreOpen'
    BY <2>1 DEF SRT_REGISTER
  <2> QED
    BY <2>2, <2>3
<1>2. CASE \E s \in Cameras : SRT_REQUEST(c, s)
  BY <1>2 DEF SRT_REQUEST
<1>3. CASE MarkConsumer(c)
  BY <1>3 DEF MarkConsumer, Seen
<1>4. CASE PushPeerSucceeds(c)
  BY <1>4 DEF PushPeerSucceeds
<1>5. CASE PushPeerFails(c)
  BY <1>5 DEF PushPeerFails
<1>6. CASE EraseStale(c)
  BY <1>6 DEF EraseStale
<1>7. CASE ReplyProvider(c)
  BY <1>7 DEF ReplyProvider
<1> QED
  BY <1>1, <1>2, <1>3, <1>4, <1>5, <1>6, <1>7

\* Every step, and a step that changes nothing, keeps the invariant.
LEMMA NextInv == IInv /\ [Next]_vars => IInv'
<1> SUFFICES ASSUME IInv, [Next]_vars PROVE IInv'
  OBVIOUS
<1>1. CASE Next
  BY <1>1, ConnectionSteps, EndSteps, MessageSteps DEF Next, HandlerSteps, Arrivals
<1>2. CASE UNCHANGED vars
  BY <1>2 DEF vars, IInv, RegistryTypeOK, JobInHand, OwnsItsSocket, EntriesAreOpen, Running
<1> QED
  BY <1>1, <1>2

\* The invariant holds throughout: the induction the three theorems below
\* share.
LEMMA Invariance == Spec => []IInv
BY InitInv, NextInv, PTL DEF Spec

\* A handler thread's descriptor number names its own connection until the
\* thread closes it.
THEOREM SocketCorrect == Spec => []OwnsItsSocket
<1>1. IInv => OwnsItsSocket
  BY DEF IInv
<1> QED
  BY <1>1, Invariance, PTL

\* Every entry of srt_providers names the open connection that registered it.
THEOREM EntriesCorrect == Spec => []EntriesAreOpen
<1>1. IInv => EntriesAreOpen
  BY DEF IInv
<1> QED
  BY <1>1, Invariance, PTL

\* The clean-up at the end of handle_client never removes the entry a newer
\* connection made, although it knows its entries by number only.
THEOREM CleanupCorrect == Spec => CleanupKeepsNewer
<1>1. ASSUME IInv, [Next]_vars,
             NEW c \in Conns, NEW s \in Cameras,
             pc[c] = "cleanup", pc'[c] = "close",
             srtProviders[s] # None, srtProviders'[s] = None
      PROVE  srtProviders[s].conn = c
  <2>1. Cleanup(c)
    <3>1. PICK d \in Conns : \/ HandlerSteps(d) \/ Arrivals(d) \/ PeerGone(d)
                             \/ \E f \in Fds, who \in Cameras \union Viewers : Accept(d, f, who)
      BY <1>1 DEF Next, vars
    <3> QED
      BY <1>1, <3>1
         DEF HandlerSteps, Arrivals, PeerGone, Accept, RecvFails, Refused, Cleanup, Close,
             SRT_REGISTER, SRT_REQUEST, MarkConsumer, PushPeerSucceeds, PushPeerFails,
             EraseStale, ReplyProvider, IInv, RegistryTypeOK
  <2>2. srtProviders[s].fd = sock[c]
    BY <1>1, <2>1 DEF Cleanup, Others
  <2> QED
    BY <1>1, <2>2 DEF IInv, OwnsItsSocket, EntriesAreOpen, Running
<1>2. IInv /\ [Next]_vars =>
        [\A c \in Conns, s \in Cameras :
            pc[c] = "cleanup" /\ pc'[c] = "close"
                /\ srtProviders[s] # None /\ srtProviders'[s] = None
            => srtProviders[s].conn = c]_vars
  BY <1>1
<1> QED
  BY <1>2, Invariance, PTL DEF Spec, CleanupKeepsNewer

=============================================================================
