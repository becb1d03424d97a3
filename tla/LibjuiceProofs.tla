--------------------------- MODULE LibjuiceProofs ---------------------------
(***************************************************************************)
(* Proofs about the legacy libjuice programs: the negotiation of a camera  *)
(* session (JuiceSession) and the data path to the players (JuiceStream).  *)
(***************************************************************************)
EXTENDS JuiceSession, JuiceStream, TLAPS, FiniteSetTheorems, SequenceTheorems,
        WellFoundedInduction

(***************************************************************************)
(* JuiceSession, for any agents, backoff, debounce window and failures.    *)
(*                                                                         *)
(* LiveNegotiationKept rests on how often and in which order the agents of *)
(* the consumer are announced: never twice, and the current one last.      *)
(***************************************************************************)

\* The records keep their fields; the API thread sleeps; the agent of the
\* session is one of the names, or there is none.
SessionPlaces ==
    /\ DOMAIN cam = DOMAIN NewSession /\ DOMAIN thr = Threads
    /\ DOMAIN prov = {"connected", "remote", "had", "since", "agent", "registered", "unread"}
    /\ \A t \in Threads : DOMAIN thr[t] = DOMAIN Idle
    /\ thr["api"].at = "sleep"
    /\ cam.agent \in Agents \union {None}
    /\ inbox \in Seq(Agents \union {None})

\* An agent that has not been announced yet is unknown to the provider and not
\* on its way there.
NotYetAnnounced ==
    thr["monitor"].at = "request" =>
        /\ cam.agent # None /\ thr["monitor"].ag = cam.agent
        /\ prov.remote # cam.agent
        /\ \A i \in 1..Len(inbox) : inbox[i] # cam.agent

\* The current agent is announced last: nothing is behind it on the way, and
\* nothing is on the way once the provider has taken it.
AnnouncedLast ==
    cam.agent # None =>
        /\ \A i \in 1..Len(inbox) : inbox[i] = cam.agent => i = Len(inbox)
        /\ prov.remote = cam.agent => inbox = <<>>

NegotiationInv == SessionPlaces /\ NotYetAnnounced /\ AnnouncedLast

\* A session that streams satisfies the invariant.
LEMMA NegotiationInit == SessionInit => NegotiationInv
BY SessionAssumption
   DEF SessionInit, NegotiationInv, SessionPlaces, NotYetAnnounced, AnnouncedLast, NewSession,
       Idle, None, Threads

\* The steps of the network, of the server, of the agents' reports and of the
\* monitor's timers leave the agent, the announcements and the provider's choice
\* alone, and nobody else asks.
LEMMA QuietSteps ==
    ASSUME NegotiationInv,
           \/ Tick \/ MonitorWatches \/ DestroyOld("monitor") \/ IceStep
           \/ ServerTimesOut \/ ProviderConnects \/ ProviderRegisters
           \/ PathBreaks \/ PathHeals \/ SignalingBreaks \/ \E g \in Agents : PairDies(g)
    PROVE  NegotiationInv'
<1> USE DEF NegotiationInv, SessionPlaces, NotYetAnnounced, AnnouncedLast, Threads, NewSession, Idle
<1>1. CASE Tick
  BY <1>1 DEF Tick
<1>2. CASE MonitorWatches
  BY <1>2 DEF MonitorWatches, Refresh
<1>3. CASE DestroyOld("monitor")
  BY <1>3 DEF DestroyOld, NowDisconnected
<1>4. CASE IceStep
  BY <1>4 DEF IceStep, IceConnects, IceCompletes, IceFails, NowConnected, NowFailed
<1>5. CASE \/ ServerTimesOut \/ PathBreaks \/ PathHeals \/ SignalingBreaks
           \/ \E g \in Agents : PairDies(g)
  BY <1>5 DEF ServerTimesOut, PathBreaks, PathHeals, SignalingBreaks, PairDies
<1>6. CASE ProviderConnects
  BY <1>6 DEF ProviderConnects
<1>7. CASE ProviderRegisters
  BY <1>7 DEF ProviderRegisters
<1> QED
  BY <1>1, <1>2, <1>3, <1>4, <1>5, <1>6, <1>7

\* The monitor takes the agent away, makes a new one nobody has heard of, and
\* announces it once.
LEMMA AttemptSteps ==
    ASSUME NegotiationInv,
           MonitorRetries \/ Abandon \/ Attempt("monitor") \/ ReplyLost("monitor")
    PROVE  NegotiationInv'
<1> USE SessionAssumption
    DEF NegotiationInv, SessionPlaces, NotYetAnnounced, AnnouncedLast, Threads, None,
        NewSession, Idle
<1>1. CASE MonitorRetries
  <2>1. CASE cam.needs /\ cam.since >= Backoff
    <3>1. /\ DOMAIN cam' = DOMAIN cam /\ cam'.agent = None /\ UNCHANGED <<inbox, prov>>
          /\ thr' = [thr EXCEPT !["monitor"] = [Idle EXCEPT !.at = "destroy", !.ag = cam.agent]]
      BY <1>1, <2>1 DEF MonitorRetries
    <3> QED
      BY <3>1
  <2>2. CASE ~(cam.needs /\ cam.since >= Backoff)
    BY <1>1, <2>2 DEF MonitorRetries
  <2> QED
    BY <2>1, <2>2
<1>2. CASE Abandon
  BY <1>2 DEF Abandon
<1>3. CASE CreateAgent("monitor")
  <2>1. UNCHANGED <<inbox, prov>> /\ DOMAIN thr' = Threads /\ thr'["api"] = thr["api"]
    BY <1>3 DEF CreateAgent, GiveUp
  <2>2. CASE cam'.agent # None
    <3>1. PICK g \in Agents :
             /\ prov.remote # g /\ \A i \in 1..Len(inbox) : inbox[i] # g
             /\ cam' = [cam EXCEPT !.agent = g]
             /\ thr' = [thr EXCEPT !["monitor"] = [@ EXCEPT !.at = "request", !.ag = g,
                                                             !.again = FALSE]]
      BY <1>3, <2>2 DEF CreateAgent
    <3> QED
      BY <2>1, <3>1
  <2>3. CASE cam'.agent = None
    <3>1. cam' = [cam EXCEPT !.agent = None] /\ thr' = GiveUp("monitor")
      BY <1>3, <2>3 DEF CreateAgent
    <3> QED
      BY <2>1, <3>1 DEF GiveUp
  <2> QED
    BY <2>2, <2>3
<1>4. CASE SendRequest("monitor")
  <2>1. UNCHANGED <<cam, prov>>
    BY <1>4 DEF SendRequest
  <2>2. CASE UNCHANGED inbox
    BY <1>4, <2>1, <2>2 DEF SendRequest, GiveUp
  <2>3. CASE inbox' # inbox
    <3>1. /\ inbox' = Append(inbox, cam.agent) /\ thr["monitor"].at = "request"
          /\ thr' = [thr EXCEPT !["monitor"].at = "await"]
      BY <1>4, <2>3 DEF SendRequest, Asked
    <3>2. SessionPlaces'
      BY <2>1, <3>1
    <3>3. \A i \in 1..Len(inbox') : inbox'[i] = cam.agent => i = Len(inbox')
      BY <3>1
    <3> QED
      BY <2>1, <3>1, <3>2, <3>3
  <2> QED
    BY <2>2, <2>3
<1>5. CASE ReplyLost("monitor")
  BY <1>5 DEF ReplyLost, GiveUp
<1>6. CASE ReplyArrives("monitor")
  BY <1>6 DEF ReplyArrives, GiveUp
<1> QED
  BY <1>1, <1>2, <1>3, <1>4, <1>5, <1>6 DEF Attempt

\* The provider reads the oldest announcement, or loses them all.
LEMMA ProviderSteps ==
    ASSUME NegotiationInv, HandleConsumerConnect \/ ProviderDrops
    PROVE  NegotiationInv'
<1> USE SessionAssumption
    DEF NegotiationInv, SessionPlaces, NotYetAnnounced, AnnouncedLast, Threads, None,
        NewSession, Idle
<1>1. CASE HandleConsumerConnect
  <2>1. UNCHANGED <<cam, thr>> /\ inbox # <<>> /\ inbox' = Tail(inbox)
    BY <1>1 DEF HandleConsumerConnect
  <2>2. DOMAIN prov' = DOMAIN prov /\ prov'.remote \in {prov.remote, Head(inbox), None}
    BY <1>1 DEF HandleConsumerConnect
  <2>3. \A i \in 1..Len(inbox') : inbox'[i] = inbox[i + 1] /\ i + 1 \in 1..Len(inbox)
    BY <2>1
  <2>4. Len(inbox') = Len(inbox) - 1 /\ inbox' \in Seq(Agents \union {None})
    BY <2>1
  <2>5. SessionPlaces'
    BY <2>1, <2>2, <2>4
  <2>6. NotYetAnnounced'
    BY <2>1, <2>2, <2>3
  <2>7. ASSUME cam.agent # None, prov'.remote = cam.agent PROVE Len(inbox) = 1
    <3>1. Head(inbox) = cam.agent
      BY <2>1, <2>2, <2>7
    <3>2. inbox[1] = cam.agent /\ 1 \in 1..Len(inbox)
      BY <2>1, <3>1
    <3> QED
      BY <2>7, <3>2
  <2>8. ASSUME cam.agent # None, NEW i \in 1..Len(inbox'), inbox'[i] = cam.agent
        PROVE  i = Len(inbox')
    BY <2>3, <2>4, <2>8
  <2>9. ASSUME cam.agent # None, prov'.remote = cam.agent PROVE inbox' = <<>>
    BY <2>4, <2>7, <2>9
  <2>10. AnnouncedLast'
    BY <2>1, <2>8, <2>9
  <2> QED
    BY <2>5, <2>6, <2>10
<1>2. CASE ProviderDrops
  BY <1>2 DEF ProviderDrops
<1> QED
  BY <1>1, <1>2

\* The order of the announcements is kept by every step of the two programs and
\* the server between them.
LEMMA NegotiationInvariance == SessionSpec => []NegotiationInv
<1>1. ASSUME NegotiationInv, [SessionNext]_sessionVars PROVE NegotiationInv'
  <2>1. CASE UNCHANGED sessionVars
    BY <1>1, <2>1 DEF sessionVars, NegotiationInv, SessionPlaces, NotYetAnnounced, AnnouncedLast
  <2>2. CASE SessionNext
    BY <1>1, <2>2, QuietSteps, AttemptSteps, ProviderSteps DEF SessionNext, MonitorStep
  <2> QED
    BY <1>1, <2>1, <2>2
<1> QED
  BY <1>1, NegotiationInit, PTL DEF SessionSpec

\* handle_consumer_connect never gives up the negotiation the consumer is in,
\* for any number of failures and any backoff and debounce window: a repeated or
\* a late CONSUMER_CONNECT would have to be behind the current one, and none is.
THEOREM NegotiationKept == SessionSpec => LiveNegotiationKept
<1>1. ASSUME NegotiationInv, [SessionNext]_sessionVars,
             prov'.remote # prov.remote \/ (prov.connected /\ ~prov'.connected)
      PROVE  prov.remote # cam.agent \/ cam.agent = None
  <2>1. CASE HandleConsumerConnect
    BY <1>1, <2>1 DEF HandleConsumerConnect, NegotiationInv, AnnouncedLast
  <2>2. CASE Tick \/ ProviderConnects \/ ProviderDrops \/ ProviderRegisters
    BY <1>1, <2>2 DEF Tick, ProviderConnects, ProviderDrops, ProviderRegisters, NegotiationInv,
                      SessionPlaces
  <2>3. CASE UNCHANGED prov
    BY <1>1, <2>3
  <2>4. HandleConsumerConnect \/ Tick \/ ProviderConnects \/ ProviderDrops \/ ProviderRegisters
        \/ UNCHANGED prov
    BY <1>1
       DEF SessionNext, sessionVars, MonitorStep, MonitorWatches, MonitorRetries, DestroyOld,
           Abandon, Attempt, CreateAgent, SendRequest, ReplyLost, ReplyArrives, IceStep, IceConnects,
           IceCompletes, IceFails, ServerTimesOut, PathBreaks, PathHeals, SignalingBreaks, PairDies
  <2> QED
    BY <2>1, <2>2, <2>3, <2>4
<1> QED
  BY <1>1, NegotiationInvariance, PTL DEF SessionSpec, LiveNegotiationKept

-----------------------------------------------------------------------------
(***************************************************************************)
(* JuiceStream, for any players, frames, queue and number of failures.     *)
(*                                                                         *)
(* The types come first: every later argument rests on them.  What a       *)
(* player receives is traced along the path: the numbers of the chunks     *)
(* follow the frames (PathInv), what is assembled is of one frame          *)
(* (AssemblyInv), what is queued is whole (FramesWhole) and what is sent   *)
(* goes on where the stream stops (WireInv).  Only the second step meets   *)
(* numbers that have wrapped, and it needs Fresh: in a space that a frame  *)
(* can be lapped in, FramesWhole is false.                                 *)
(***************************************************************************)

Parts == [frame : Nat, offset : Nat, total : Nat]
Buffers == [0..(BufferChunks - 1) -> Nat]
Items == [conn : Conns, buf : Buffers, size : 0..BufferChunks]
ChunkRecords == [conn : Conns, seq : Nat, total : 1..BufferChunks,
                 offset : Nat, frame : Nat, no : Nat]

\* The provider's end: the counter, the forward threads and the path.
ProviderTypes ==
    /\ given \in Nat /\ seqNum \in Nat
    /\ tx \in [Conns -> [at : {"none", "forward"}, frame : Nat \ {0}, offset : Nat]]
    /\ net \subseteq ChunkRecords

\* The consumer's connections.
ConnectionFields == {"open", "buf", "got", "expected", "start", "first", "num", "busy", "spare"}
ConnectionShape(r) ==
    DOMAIN r = ConnectionFields /\ r.buf \in Buffers /\ r.expected \in 0..BufferChunks
ConnectionTypes ==
    /\ DOMAIN rx = Conns
    /\ \A c \in Conns : ConnectionShape(rx[c])

\* The frames that have left the reassembly.
FrameTypes ==
    /\ cb.at = "handover" => cb.item \in Items
    /\ queue \in Seq(Items)
    /\ disp.at = "send" => /\ disp = [at |-> "send", item |-> disp.item, sent |-> disp.sent]
                           /\ disp.item \in Items /\ disp.sent \in 0..disp.item.size

\* The players' sockets.
SocketTypes ==
    /\ DOMAIN sock = Conns
    /\ \A c \in Conns : /\ DOMAIN sock[c] = {"wire", "shut", "reading", "gone", "dropped"}
                        /\ sock[c].wire \in Seq(Parts)

StreamTypes == ProviderTypes /\ ConnectionTypes /\ FrameTypes /\ SocketTypes

\* A session without players is of its types.
LEMMA StreamTypesInit == Init => StreamTypes
<1> SUFFICES ASSUME Init PROVE StreamTypes
  OBVIOUS
<1>1. ProviderTypes
  BY StreamAssumption DEF Init, ProviderTypes, NoForward
<1>2. ConnectionTypes
  <2>1. NoFrame \in Buffers
    BY StreamAssumption DEF NoFrame, Buffers
  <2>2. ConnectionShape(Closed)
    BY <2>1, StreamAssumption DEF ConnectionShape, ConnectionFields, Closed
  <2> QED
    BY <2>2 DEF Init, ConnectionTypes
<1>3. FrameTypes
  BY DEF Init, FrameTypes
<1>4. SocketTypes
  <2> DEFINE NewSocket == [wire |-> <<>>, shut |-> FALSE, reading |-> TRUE,
                           gone |-> FALSE, dropped |-> FALSE]
  <2>1. DOMAIN NewSocket = {"wire", "shut", "reading", "gone", "dropped"} /\ NewSocket.wire = <<>>
    OBVIOUS
  <2>2. sock = [c \in Conns |-> NewSocket]
    BY DEF Init
  <2>3. <<>> \in Seq(Parts)
    OBVIOUS
  <2> HIDE DEF NewSocket
  <2>4. DOMAIN sock = Conns /\ \A c \in Conns : sock[c] = NewSocket
    BY <2>2
  <2> QED
    BY <2>1, <2>3, <2>4, Zenon DEF SocketTypes
<1> QED
  BY <1>1, <1>2, <1>3, <1>4 DEF StreamTypes

\* The provider's end keeps its types.
LEMMA ProviderTyped == ASSUME ProviderTypes, [Next]_vars PROVE ProviderTypes'
<1> USE StreamAssumption DEF ProviderTypes
<1>1. CASE UNCHANGED vars
  BY <1>1 DEF vars
<1>2. ASSUME NEW c \in Conns, ProviderOpens(c) \/ ProviderEnds(c) PROVE ProviderTypes'
  <2>1. /\ UNCHANGED <<given, seqNum, net>>
        /\ \/ tx' = tx \/ tx' = [tx EXCEPT ![c].at = "forward"]
           \/ tx' = [tx EXCEPT ![c].at = "none"]
    BY <1>2 DEF ProviderOpens, ProviderEnds
  <2>2. ASSUME NEW w \in {"none", "forward"}, tx' = [tx EXCEPT ![c].at = w]
        PROVE  tx' \in [Conns -> [at : {"none", "forward"}, frame : Nat \ {0}, offset : Nat]]
    BY <2>2
  <2> QED
    BY <2>1, <2>2
<1>3. ASSUME NEW c \in Conns, SendChunk(c) PROVE ProviderTypes'
  <2> DEFINE f == tx[c].frame
             total == FrameChunks[c][f]
  <2>1. f \in 1..Len(FrameChunks[c]) /\ tx[c].offset \in Nat
    BY <1>3 DEF SendChunk
  <2>2. total \in 1..BufferChunks
    BY <2>1
  <2>3. PICK next : next = (tx[c].offset + 1) % total
    OBVIOUS
  <2>4. next \in Nat
    BY <2>1, <2>2, <2>3
  <2>5. PICK ch : ch = [conn |-> c, seq |-> seqNum, total |-> total,
                        offset |-> tx[c].offset, frame |-> f, no |-> given]
    OBVIOUS
  <2>6. ch \in ChunkRecords
    BY <2>1, <2>2, <2>5 DEF ChunkRecords
  <2>7. (seqNum + 1) % SeqSpace \in Nat
    OBVIOUS
  <2>8. /\ given' = given + 1 /\ net' = net \union {ch} /\ seqNum' = (seqNum + 1) % SeqSpace
        /\ tx' = [tx EXCEPT ![c].offset = next,
                            ![c].frame = IF tx[c].offset + 1 = total THEN f + 1 ELSE f]
    BY <1>3, <2>3, <2>5, Zenon DEF SendChunk
  <2> HIDE DEF f, total
  <2>9. f + 1 \in Nat \ {0} /\ f \in Nat \ {0}
    BY <2>1
  <2>10. tx' \in [Conns -> [at : {"none", "forward"}, frame : Nat \ {0}, offset : Nat]]
    BY <2>4, <2>8, <2>9
  <2>11. given' \in Nat /\ net' \subseteq ChunkRecords
    BY <2>6, <2>8
  <2>12. seqNum' \in Nat
    BY <2>7, <2>8
  <2> QED
    BY <2>10, <2>11, <2>12
<1>4. ASSUME NEW ch \in net, Lose(ch) \/ OnRecv(ch) PROVE ProviderTypes'
  BY <1>4 DEF Lose, OnRecv
<1>5. CASE FreeCloses
  BY <1>5 DEF FreeCloses, NoForward
<1>6. CASE UNCHANGED <<given, seqNum, tx, net>>
  BY <1>6
<1> QED
  BY <1>1, <1>2, <1>3, <1>4, <1>5, <1>6
     DEF Next, AcceptPlayer, PlayerPauses, PlayerLeaves, ForwardExits, CleanupStale, CallbackStep,
         HandOver, ShutDropped, DispatchStep, DispatchTake, SendSome, SendEnds, SendStuck,
         Drain, FreeStops

\* A fresh connection has the shape of a connection.
LEMMA FreshShapes ==
    /\ ConnectionShape(Closed) /\ ConnectionShape(Created) /\ ConnectionShape(Finished)
    /\ \A b : ConnectionShape([Created EXCEPT !.spare = b])
<1>1. NoFrame \in Buffers
  BY StreamAssumption DEF NoFrame, Buffers
<1> QED
  BY <1>1, StreamAssumption DEF ConnectionShape, ConnectionFields, Closed, Created, Finished

\* The two steps of the reassembly keep the shape of a connection.
LEMMA ReassemblyShapes ==
    ASSUME NEW r, ConnectionShape(r), NEW ch \in ChunkRecords
    PROVE  ConnectionShape(Opened(r, ch)) /\ ConnectionShape(Store(Opened(r, ch), ch))
<1>1. ch.total \in 0..BufferChunks /\ ch.frame \in Nat
  BY StreamAssumption DEF ChunkRecords
<1>2. ConnectionShape(Opened(r, ch))
  BY <1>1 DEF ConnectionShape, ConnectionFields, Opened, StartFrame
<1>3. ASSUME NEW q, ConnectionShape(q) PROVE ConnectionShape(Store(q, ch))
  <2>1. [q.buf EXCEPT ![ch.offset] = ch.frame] \in Buffers
    BY <1>1, <1>3 DEF ConnectionShape, Buffers
  <2> QED
    BY <1>3, <2>1 DEF ConnectionShape, ConnectionFields, Store
<1> QED
  BY <1>2, <1>3

\* The connections keep their types.
LEMMA ConnectionTyped ==
    ASSUME ProviderTypes, ConnectionTypes, FrameTypes, [Next]_vars
    PROVE  ConnectionTypes'
<1> USE DEF ConnectionTypes
<1>1. CASE UNCHANGED rx
  BY <1>1
<1>2. ASSUME NEW c \in Conns, AcceptPlayer(c) \/ ForwardExits(c) \/ CleanupStale(c)
      PROVE  ConnectionTypes'
  BY <1>2, FreshShapes DEF AcceptPlayer, ForwardExits, CleanupStale
<1>3. ASSUME NEW ch \in net, OnRecv(ch) PROVE ConnectionTypes'
  <2>1. ch \in ChunkRecords /\ ch.conn \in Conns
    BY DEF ProviderTypes, ChunkRecords
  <2> DEFINE r == Opened(rx[ch.conn], ch)
  <2>2. ConnectionShape(r) /\ ConnectionShape(Store(r, ch))
    BY <2>1, ReassemblyShapes
  <2>3. \/ UNCHANGED rx
        \/ rx' = [rx EXCEPT ![ch.conn] = r]
        \/ rx' = [rx EXCEPT ![ch.conn] = Store(r, ch)]
        \/ rx' = [rx EXCEPT ![ch.conn] = Finished]
    BY <1>3, Zenon DEF OnRecv
  <2> HIDE DEF r
  <2> QED
    BY <2>1, <2>2, <2>3, FreshShapes
<1>4. CASE HandOver
  <2>1. cb.item.conn \in Conns
    BY <1>4 DEF HandOver, FrameTypes, Items
  <2>2. UNCHANGED rx \/ \E b : rx' = [rx EXCEPT ![cb.item.conn].spare = b]
    BY <1>4 DEF HandOver
  <2> QED
    BY <2>1, <2>2 DEF ConnectionShape, ConnectionFields
<1>5. CASE FreeCloses
  BY <1>5, FreshShapes DEF FreeCloses
<1> QED
  BY <1>1, <1>2, <1>3, <1>4, <1>5
     DEF Next, vars, ProviderOpens, ProviderEnds, SendChunk, PlayerPauses, PlayerLeaves, Lose, CallbackStep,
         ShutDropped, DispatchStep, DispatchTake, SendSome, SendEnds, SendStuck, Drain, FreeStops

\* A set of naturals that has a member has a least one: the initial segments of
\* its members are finite, and strict inclusion of finite sets is well-founded.
LEMMA LeastOf ==
    ASSUME NEW T \in SUBSET Nat, NEW n \in T
    PROVE  \E m \in T : \A k \in T : m <= k
<1> DEFINE Upto(m) == 0..m
           Uptos == {Upto(m) : m \in {k \in T : k <= n}}
<1>1. IsFiniteSet(Upto(n))
  BY FS_Interval
<1>2. Uptos \subseteq SUBSET Upto(n) /\ Uptos # {}
  OBVIOUS
<1>3. \E x \in Uptos : \A y \in Uptos : ~(<<y, x>> \in StrictSubsetOrdering(Upto(n)))
  <2>1. IsWellFoundedOn(StrictSubsetOrdering(Upto(n)), FiniteSubsetsOf(Upto(n)))
    BY FS_StrictSubsetOrderingWellFounded
  <2>2. FiniteSubsetsOf(Upto(n)) = SUBSET Upto(n)
    BY <1>1, FS_FiniteSubsetsOfFinite
  <2> HIDE DEF Uptos, Upto
  <2> QED
    BY <1>2, <2>1, <2>2, WFMin
<1>4. PICK m \in T : /\ m <= n
                     /\ \A k \in T : k <= n => ~(<<Upto(k), Upto(m)>> \in StrictSubsetOrdering(Upto(n)))
  BY <1>3
<1>5. ASSUME NEW k \in T, k < m PROVE FALSE
  <2>1. <<Upto(k), Upto(m)>> \in StrictSubsetOrdering(Upto(n))
    BY <1>4, <1>5 DEF StrictSubsetOrdering
  <2> QED
    BY <2>1, <1>4, <1>5
<1> QED
  BY <1>4, <1>5

\* dispatch_enqueue finds room: an empty ring has place for any item, so that
\* some least number of items to drop makes the new one fit.
LEMMA DropsInQueue ==
    ASSUME NEW S, NEW q \in Seq(S), NEW size
    PROVE  Drops(q, size) \in 0..Len(q)
<1> DEFINE Room(k) == Fits(SubSeq(q, k + 1, Len(q)), size)
           Enough == {k \in 0..Len(q) : Room(k)}
<1>1. Len(q) \in Nat /\ SubSeq(q, Len(q) + 1, Len(q)) = <<>>
  OBVIOUS
<1>2. Fits(<<>>, size)
  BY StreamAssumption DEF Fits
<1>3. Room(Len(q))
  BY <1>1, <1>2
<1>4. Drops(q, size) = CHOOSE k \in 0..Len(q) : Room(k) /\ \A j \in 0..(k - 1) : ~Room(j)
  BY Zenon DEF Drops
<1> HIDE DEF Room
<1>5. Len(q) \in Enough /\ Enough \in SUBSET Nat
  BY <1>1, <1>3
<1>6. PICK m \in Enough : \A k \in Enough : m <= k
  <2> HIDE DEF Enough
  <2> QED
    BY <1>5, LeastOf
<1>7. ASSUME NEW j \in 0..(m - 1) PROVE ~Room(j)
  BY <1>1, <1>6, <1>7
<1> QED
  BY <1>4, <1>6, <1>7

\* What an appended sequence is.
LEMMA Appended ==
    ASSUME NEW S, NEW w, NEW x, NEW v, w \in Seq(S), x \in S, v = Append(w, x)
    PROVE  /\ v \in Seq(S) /\ Len(v) = Len(w) + 1
           /\ v[Len(v)] = x
           /\ \A j \in 1..Len(w) : v[j] = w[j]
<1>1. v \in Seq(S) /\ Len(v) = Len(w) + 1
  OBVIOUS
<1>2. v[Len(w) + 1] = x
  OBVIOUS
<1>3. ASSUME NEW j \in 1..Len(w) PROVE v[j] = w[j]
  OBVIOUS
<1> QED
  BY <1>1, <1>2, <1>3

\* What dispatch_enqueue makes of the queue, and its parts by name.
Members(q) == {q[j] : j \in 1..Len(q)}
Rest(q, k) == SubSeq(q, k + 1, Len(q))
Pushed(q, i) == Append(q, i)
Enqueued(q, i) == Append(SubSeq(q, Drops(q, i.size) + 1, Len(q)), i)

\* What stays of a queue whose oldest items are dropped.
LEMMA RestMembers ==
    ASSUME NEW S, NEW q, NEW k, q \in Seq(S), k \in 0..Len(q)
    PROVE  Rest(q, k) \in Seq(S) /\ Members(Rest(q, k)) \subseteq Members(q)
<1>1. PICK s : s = Rest(q, k)
  OBVIOUS
<1>2. s \in Seq(S) /\ Len(s) = Len(q) - k
  BY <1>1 DEF Rest
<1>3. ASSUME NEW j \in 1..Len(s) PROVE s[j] = q[k + j] /\ k + j \in 1..Len(q)
  BY <1>1, <1>2, <1>3 DEF Rest
<1>4. Members(s) \subseteq Members(q)
  BY <1>3, Zenon DEF Members
<1> QED
  BY <1>1, <1>2, <1>4, Zenon

\* The members of a queue with an item appended.
LEMMA PushedMembers ==
    ASSUME NEW S, NEW s, NEW i, s \in Seq(S), i \in S
    PROVE  Pushed(s, i) \in Seq(S) /\ Members(Pushed(s, i)) \subseteq Members(s) \union {i}
<1>1. PICK r : r = Pushed(s, i)
  OBVIOUS
<1>2. /\ r \in Seq(S) /\ Len(r) = Len(s) + 1 /\ r[Len(r)] = i
      /\ \A j \in 1..Len(s) : r[j] = s[j]
  BY <1>1, Appended, SMT DEF Pushed
<1>3. Len(s) \in Nat
  OBVIOUS
<1>4. \A j \in 1..Len(r) : j = Len(r) \/ j \in 1..Len(s)
  BY <1>2, <1>3
<1>5. Members(r) \subseteq Members(s) \union {i}
  BY <1>2, <1>4, Zenon DEF Members
<1> QED
  BY <1>1, <1>2, <1>5, Zenon

\* An item of the queue after dispatch_enqueue is the new one or was there.
LEMMA EnqueuedMembers ==
    ASSUME NEW S, NEW q, NEW i, q \in Seq(S), i \in S
    PROVE  Enqueued(q, i) \in Seq(S) /\ Members(Enqueued(q, i)) \subseteq Members(q) \union {i}
<1>1. PICK k : k = Drops(q, i.size)
  OBVIOUS
<1>2. k \in 0..Len(q)
  BY <1>1, DropsInQueue
<1>3. Enqueued(q, i) = Pushed(Rest(q, k), i)
  BY <1>1 DEF Enqueued, Pushed, Rest
<1>4. Rest(q, k) \in Seq(S) /\ Members(Rest(q, k)) \subseteq Members(q)
  BY <1>2, RestMembers
<1>5. /\ Pushed(Rest(q, k), i) \in Seq(S)
      /\ Members(Pushed(Rest(q, k), i)) \subseteq Members(Rest(q, k)) \union {i}
  BY <1>4, PushedMembers, Zenon
<1> QED
  BY <1>3, <1>4, <1>5, Zenon

\* The frames keep their types.
LEMMA FrameTyped ==
    ASSUME ProviderTypes, ConnectionTypes, FrameTypes, [Next]_vars
    PROVE  FrameTypes'
<1> USE DEF FrameTypes
<1>1. CASE UNCHANGED <<cb, queue, disp>>
  BY <1>1
<1>2. ASSUME NEW ch \in net, OnRecv(ch) PROVE FrameTypes'
  <2>1. ch \in ChunkRecords /\ ch.conn \in Conns
    BY DEF ProviderTypes, ChunkRecords
  <2> DEFINE s == Store(Opened(rx[ch.conn], ch), ch)
  <2>2. ConnectionShape(s)
    BY <2>1, ReassemblyShapes DEF ConnectionTypes
  <2>3. /\ UNCHANGED <<queue, disp>>
        /\ \/ UNCHANGED cb
           \/ cb' = [at |-> "handover", item |-> Item(ch.conn, s.buf, s.expected)]
    BY <1>2, Zenon DEF OnRecv
  <2> HIDE DEF s
  <2>4. Item(ch.conn, s.buf, s.expected) \in Items
    BY <2>1, <2>2 DEF Item, Items, ConnectionShape
  <2> QED
    BY <2>3, <2>4
<1>3. CASE HandOver
  <2>1. cb.item \in Items /\ UNCHANGED disp /\ cb'.at # "handover"
    BY <1>3 DEF HandOver
  <2>2. UNCHANGED queue \/ queue' = Enqueued(queue, cb.item)
    BY <1>3 DEF HandOver, Enqueued
  <2>3. queue \in Seq(Items)
    OBVIOUS
  <2>4. queue' \in Seq(Items)
    BY <2>1, <2>2, <2>3, EnqueuedMembers
  <2> QED
    BY <2>1, <2>4
<1>4. CASE ShutDropped
  BY <1>4 DEF ShutDropped
<1>5. CASE DispatchTake
  <2>1. UNCHANGED cb /\ queue' \in Seq(Items)
    <3>1. UNCHANGED cb /\ (UNCHANGED queue \/ (queue # <<>> /\ queue' = Tail(queue)))
      BY <1>5 DEF DispatchTake
    <3> QED
      BY <3>1, HeadTailProperties
  <2>2. CASE queue # <<>> /\ disp' = [at |-> "send", item |-> Head(queue), sent |-> 0]
    <3>1. Head(queue) \in Items
      BY <2>2
    <3>2. 0 \in 0..Head(queue).size
      BY <3>1 DEF Items
    <3> QED
      BY <2>1, <2>2, <3>1, <3>2
  <2>3. CASE disp' = [at |-> "drain"]
    BY <2>1, <2>3
  <2> QED
    BY <1>5, <2>2, <2>3 DEF DispatchTake
<1>6. CASE SendSome
  <2>1. disp.sent + 1 \in 0..disp.item.size
    BY <1>6 DEF SendSome, Items
  <2> QED
    BY <1>6, <2>1 DEF SendSome
<1>7. CASE SendEnds \/ SendStuck
  BY <1>7 DEF SendEnds, SendStuck, LoopTest
<1>8. CASE Drain
  BY <1>8 DEF Drain
<1> QED
  BY <1>1, <1>2, <1>3, <1>4, <1>5, <1>6, <1>7, <1>8
     DEF Next, vars, AcceptPlayer, ProviderOpens, ProviderEnds, SendChunk, PlayerPauses, PlayerLeaves,
         ForwardExits, CleanupStale, Lose, CallbackStep, DispatchStep, FreeStops, FreeCloses

\* What send() adds to the stream of the player it serves.
Part(d) == [frame |-> d.item.buf[d.sent], offset |-> d.sent, total |-> d.item.size]

\* It is a part of a frame, for a player of the session.
LEMMA PartType ==
    ASSUME FrameTypes, disp.at = "send", disp.sent < disp.item.size
    PROVE  Part(disp) \in Parts /\ disp.item.conn \in Conns
<1>1. disp.item \in Items /\ disp.sent \in 0..disp.item.size
  BY DEF FrameTypes
<1>2. disp.item.size \in 0..BufferChunks /\ disp.item.buf \in Buffers /\ disp.item.conn \in Conns
  BY <1>1 DEF Items
<1>3. disp.sent \in 0..(BufferChunks - 1) /\ disp.item.size \in Nat /\ disp.sent \in Nat
  BY <1>1, <1>2, StreamAssumption
<1>4. disp.item.buf[disp.sent] \in Nat
  BY <1>2, <1>3 DEF Buffers
<1> QED
  BY <1>2, <1>3, <1>4 DEF Part, Parts

\* The sockets keep their types.
LEMMA SocketTyped ==
    ASSUME FrameTypes, SocketTypes, [Next]_vars
    PROVE  SocketTypes'
<1> USE DEF SocketTypes
<1>1. CASE UNCHANGED sock
  BY <1>1
<1>2. ASSUME NEW c \in Conns, PlayerPauses(c) PROVE SocketTypes'
  BY <1>2 DEF PlayerPauses
<1>3. ASSUME NEW c \in Conns, PlayerLeaves(c) PROVE SocketTypes'
  <2>1. <<>> \in Seq(Parts)
    OBVIOUS
  <2> QED
    BY <1>3, <2>1 DEF PlayerLeaves
<1>4. CASE HandOver
  <2>1. UNCHANGED sock \/ \E D : sock' = [d \in Conns |-> [sock[d] EXCEPT !.dropped = @ \/ d \in D]]
    BY <1>4 DEF HandOver
  <2> QED
    BY <2>1
<1>5. CASE ShutDropped
  BY <1>5 DEF ShutDropped
<1>6. CASE SendSome
  <2>1. Part(disp) \in Parts /\ disp.item.conn \in Conns
    BY <1>6, PartType DEF SendSome
  <2>2. sock' = [sock EXCEPT ![disp.item.conn].wire = Pushed(@, Part(disp))]
    BY <1>6 DEF SendSome, Part, Pushed
  <2>3. Pushed(sock[disp.item.conn].wire, Part(disp)) \in Seq(Parts)
    BY <2>1, PushedMembers
  <2> QED
    BY <2>1, <2>2, <2>3
<1>7. CASE SendStuck
  BY <1>7 DEF SendStuck
<1> QED
  BY <1>1, <1>2, <1>3, <1>4, <1>5, <1>6, <1>7
     DEF Next, vars, AcceptPlayer, ProviderOpens, ProviderEnds, SendChunk, ForwardExits, CleanupStale, Lose,
         OnRecv, CallbackStep, DispatchStep, DispatchTake, SendEnds, Drain, FreeStops, FreeCloses

\* Every variable of the data path keeps its type.
LEMMA StreamTyped == Spec => []StreamTypes
<1>1. StreamTypes /\ [Next]_vars => StreamTypes'
  BY ProviderTyped, ConnectionTyped, FrameTyped, SocketTyped DEF StreamTypes
<1> QED
  BY <1>1, StreamTypesInit, PTL DEF Spec

-----------------------------------------------------------------------------
(***************************************************************************)
(* What dispatch_enqueue dropped from is shut.                             *)
(***************************************************************************)

\* The socket of a dropped item is shut, or the thread that dropped it is about
\* to shut it.
DroppedIsShut ==
    \A c \in Conns : sock[c].dropped => sock[c].shut \/ (cb.at = "shut" /\ c \in cb.conns)

\* What a step does to a socket: it stays shut, and grows only if it is not.
LEMMA SocketStep ==
    ASSUME StreamTypes, [Next]_vars, NEW c \in Conns
    PROVE  /\ sock[c].shut => sock'[c].shut
           /\ sock[c].shut => Len(sock'[c].wire) <= Len(sock[c].wire)
<1> USE DEF StreamTypes, SocketTypes
<1>1. Len(sock[c].wire) \in Nat
  OBVIOUS
<1>2. CASE UNCHANGED sock
  BY <1>1, <1>2
<1>3. ASSUME NEW d \in Conns, PlayerPauses(d) \/ PlayerLeaves(d)
      PROVE  /\ sock[c].shut => sock'[c].shut
             /\ Len(sock'[c].wire) <= Len(sock[c].wire)
  <2>1. CASE PlayerPauses(d)
    <3>1. sock'[c].wire = sock[c].wire /\ sock'[c].shut = sock[c].shut
      BY <2>1 DEF PlayerPauses
    <3> QED
      BY <1>1, <3>1
  <2>2. CASE PlayerLeaves(d)
    <3>1. sock'[c].wire \in {<<>>, sock[c].wire} /\ sock'[c].shut = sock[c].shut
      BY <2>2 DEF PlayerLeaves
    <3>2. Len(<<>>) = 0
      OBVIOUS
    <3> QED
      BY <1>1, <3>1, <3>2
  <2> QED
    BY <1>3, <2>1, <2>2
<1>4. CASE HandOver
  <2>1. UNCHANGED sock \/ \E D : sock' = [d \in Conns |-> [sock[d] EXCEPT !.dropped = @ \/ d \in D]]
    BY <1>4 DEF HandOver
  <2> QED
    BY <1>1, <2>1
<1>5. CASE ShutDropped
  <2>1. sock'[c] = [sock[c] EXCEPT !.shut = @ \/ c \in cb.conns]
    BY <1>5 DEF ShutDropped
  <2>2. sock'[c].wire = sock[c].wire
    BY <2>1
  <2>3. sock[c].shut => sock'[c].shut
    BY <2>1
  <2> QED
    BY <1>1, <2>2, <2>3
<1>6. CASE SendSome
  <2>1. disp.item.conn \in Conns
    BY <1>6, PartType DEF SendSome
  <2>2. CASE disp.item.conn = c
    BY <1>6, <2>2 DEF SendSome
  <2>3. CASE disp.item.conn # c
    <3>1. sock'[c] = sock[c]
      BY <1>6, <2>3 DEF SendSome
    <3> QED
      BY <1>1, <3>1
  <2> QED
    BY <2>2, <2>3
<1>7. CASE SendStuck
  BY <1>1, <1>7 DEF SendStuck
<1> QED
  BY <1>2, <1>3, <1>4, <1>5, <1>6, <1>7
     DEF Next, vars, AcceptPlayer, ProviderOpens, ProviderEnds, SendChunk, ForwardExits, CleanupStale, Lose,
         OnRecv, CallbackStep, DispatchStep, DispatchTake, SendEnds, Drain, FreeStops, FreeCloses

\* dispatch_enqueue and its clean-up keep DroppedIsShut; nobody else drops or
\* takes the list of what was dropped.
LEMMA DroppedStep ==
    ASSUME StreamTypes, DroppedIsShut, [Next]_vars
    PROVE  DroppedIsShut'
<1> USE DEF DroppedIsShut
<1>1. CASE HandOver
  <2> DEFINE k == Drops(queue, cb.item.size)
             D == {queue[i].conn : i \in 1..k}
  <2>1. CASE UNCHANGED sock /\ cb' = [at |-> "idle"]
    BY <1>1, <2>1 DEF HandOver
  <2>2. CASE /\ sock' = [d \in Conns |-> [sock[d] EXCEPT !.dropped = @ \/ d \in D]]
             /\ cb' = IF k = 0 THEN [at |-> "idle"] ELSE [at |-> "shut", conns |-> D]
    <3>1. k = 0 => D = {}
      OBVIOUS
    <3> HIDE DEF D, k
    <3>2. ASSUME NEW c \in Conns
          PROVE  /\ sock[c].dropped => sock[c].shut
                 /\ sock'[c].shut = sock[c].shut
                 /\ sock'[c].dropped <=> (sock[c].dropped \/ c \in D)
      BY <1>1, <2>2 DEF HandOver, StreamTypes, SocketTypes
    <3>3. CASE k = 0
      BY <3>1, <3>2, <3>3
    <3>4. CASE k # 0
      <4>1. cb'.at = "shut" /\ cb'.conns = D
        BY <2>2, <3>4
      <4> QED
        BY <3>2, <4>1
    <3> QED
      BY <3>3, <3>4
  <2> QED
    BY <1>1, <2>1, <2>2, Zenon DEF HandOver
<1>2. CASE ShutDropped
  BY <1>2 DEF ShutDropped, StreamTypes, SocketTypes
<1>3. CASE ~HandOver /\ ~ShutDropped
  <2>1. cb.at = "shut" => UNCHANGED cb
    BY <1>3
       DEF Next, vars, AcceptPlayer, ProviderOpens, ProviderEnds, SendChunk, PlayerPauses, PlayerLeaves,
           ForwardExits, CleanupStale, Lose, OnRecv, CallbackStep, DispatchStep, DispatchTake, SendSome, SendEnds,
           SendStuck, Drain, FreeStops, FreeCloses
  <2>2. ASSUME NEW c \in Conns PROVE sock'[c].dropped = sock[c].dropped
    <3>1. ASSUME NEW d \in Conns, PlayerPauses(d) \/ PlayerLeaves(d)
          PROVE  sock'[c].dropped = sock[c].dropped
      <4>1. CASE PlayerPauses(d)
        BY <4>1 DEF PlayerPauses, StreamTypes, SocketTypes
      <4>2. CASE PlayerLeaves(d)
        BY <4>2 DEF PlayerLeaves, StreamTypes, SocketTypes
      <4> QED
        BY <3>1, <4>1, <4>2
    <3>2. CASE SendSome \/ SendStuck
      <4>1. CASE SendSome
        BY <4>1 DEF SendSome, StreamTypes, SocketTypes
      <4>2. CASE SendStuck
        BY <4>2 DEF SendStuck, StreamTypes, SocketTypes
      <4> QED
        BY <3>2, <4>1, <4>2
    <3>3. CASE UNCHANGED sock
      BY <3>3
    <3> QED
      BY <1>3, <3>1, <3>2, <3>3
         DEF Next, vars, AcceptPlayer, ProviderOpens, ProviderEnds, SendChunk, ForwardExits, CleanupStale,
             Lose, OnRecv, CallbackStep, DispatchStep, DispatchTake, SendEnds, Drain, FreeStops, FreeCloses
  <2> QED
    BY <2>1, <2>2, SocketStep
<1> QED
  BY <1>1, <1>2, <1>3

\* After dispatch_enqueue has returned from dropping a frame of a player, the
\* player receives nothing more, for any queue, players and frames.
THEOREM DropsEndStreams == Spec => DropEndsStream
<1>1. Init => DroppedIsShut
  BY DEF Init, DroppedIsShut
<1>2. StreamTypes /\ DroppedIsShut /\ [Next]_vars => DroppedIsShut'
  BY DroppedStep
<1>3. StreamTypes /\ DroppedIsShut /\ [Next]_vars
        => \A c \in Conns : sock[c].dropped /\ cb.at # "shut" => Len(sock'[c].wire) <= Len(sock[c].wire)
  BY SocketStep DEF DroppedIsShut
<1> QED
  BY <1>1, <1>2, <1>3, StreamTyped, PTL DEF Spec, DropEndsStream

-----------------------------------------------------------------------------
(***************************************************************************)
(* Sequence numbers that wrap.                                             *)
(***************************************************************************)

\* Division with remainder.
LEMMA Remainder ==
    ASSUME NEW S, NEW x, S \in Nat \ {0}, x \in Nat
    PROVE  \E q \in Int : x = S * q + (x % S) /\ x % S \in 0..(S - 1)
<1>1. x = S * (x \div S) + (x % S) /\ x % S \in 0..(S - 1) /\ x \div S \in Int
  OBVIOUS
<1> QED
  BY <1>1

\* Two remainders that differ by a multiple are equal.
LEMMA SameRemainder ==
    ASSUME NEW S, NEW m, NEW p, NEW r,
           S \in Nat \ {0}, m \in Int, p \in 0..(S - 1), r \in 0..(S - 1), p - r = S * m
    PROVE  p = r
<1>1. PICK M : M = S * m
  OBVIOUS
<1>2. (m >= 1 => M >= S) /\ (m <= 0 - 1 => M <= 0 - S) /\ (m = 0 => M = 0) /\ M \in Int
  <2>1. m >= 1 => M >= S
    BY <1>1
  <2>2. m <= 0 - 1 => M <= 0 - S
    BY <1>1
  <2>3. (m = 0 => M = 0) /\ M \in Int
    BY <1>1
  <2> QED
    BY <2>1, <2>2, <2>3
<1>3. m >= 1 \/ m <= 0 - 1 \/ m = 0
  OBVIOUS
<1>4. p - r = M
  BY <1>1
<1> QED
  BY <1>2, <1>3, <1>4

\* Counting and wrapping commute.
LEMMA NextNumber ==
    ASSUME NEW S, NEW x, NEW p, S \in Nat \ {0}, x \in Nat, p = x % S
    PROVE  (p + 1) % S = (x + 1) % S
<1>1. PICK i \in Int : x = S * i + p /\ p \in 0..(S - 1)
  BY Remainder
<1>2. PICK d : d = (p + 1) % S
  OBVIOUS
<1>3. PICK r : r = (x + 1) % S
  OBVIOUS
<1>4. p + 1 \in Nat /\ x + 1 \in Nat
  BY <1>1
<1>5. PICK k \in Int : p + 1 = S * k + d /\ d \in 0..(S - 1)
  BY <1>2, <1>4, Remainder
<1>6. PICK j \in Int : x + 1 = S * j + r /\ r \in 0..(S - 1)
  BY <1>3, <1>4, Remainder
<1>7. PICK m : m \in Int /\ m = j - i - k
  BY <1>1, <1>5, <1>6
<1>8. PICK M, I, J, K : M = S * m /\ I = S * i /\ J = S * j /\ K = S * k
  OBVIOUS
<1>9. M \in Int /\ I \in Int /\ J \in Int /\ K \in Int
  BY <1>1, <1>5, <1>6, <1>7, <1>8
<1>10. M = J - I - K
  BY <1>1, <1>5, <1>6, <1>7, <1>8
<1>11. x = I + p /\ p + 1 = K + d /\ x + 1 = J + r
  BY <1>1, <1>5, <1>6, <1>8
<1>12. p \in Nat /\ d \in Nat /\ r \in Nat
  BY <1>1, <1>5, <1>6
<1>13. d - r = M
  BY <1>9, <1>10, <1>11, <1>12
<1>14. d = r
  BY <1>5, <1>6, <1>7, <1>8, <1>13, SameRemainder
<1> QED
  BY <1>2, <1>3, <1>14, Zenon

\* The chunk loop's next offset: one more, or the start of the next frame.
LEMMA NextOffset ==
    ASSUME NEW n, NEW a, n \in Nat \ {0}, a \in 0..(n - 1)
    PROVE  (a + 1) % n = IF a + 1 = n THEN 0 ELSE a + 1
<1>1. PICK d : d = (a + 1) % n
  OBVIOUS
<1>2. PICK q \in Int : a + 1 = n * q + d /\ d \in 0..(n - 1)
  <2>1. a + 1 \in Nat
    OBVIOUS
  <2> QED
    BY <1>1, <2>1, Remainder
<1>3. CASE a + 1 = n
  <2>1. 0 \in 0..(n - 1) /\ 1 - q \in Int
    BY <1>2
  <2>2. d - 0 = n * (1 - q)
    BY <1>2, <1>3
  <2>3. d = 0
    BY <1>2, <2>1, <2>2, SameRemainder
  <2> QED
    BY <1>1, <1>3, <2>3
<1>4. CASE a + 1 # n
  <2>1. a + 1 \in 0..(n - 1)
    BY <1>4
  <2>2. (a + 1) - d = n * q
    BY <1>2
  <2>3. d = a + 1
    BY <1>2, <2>1, <2>2, SameRemainder
  <2> QED
    BY <1>1, <1>4, <2>3
<1> QED
  BY <1>3, <1>4

\* The subtraction of the frame-ID guard.  The frame has the num numbers from y
\* on.  A number x after them but less than a whole space ahead of y, or before
\* them but no further than a whole space behind their end, is not taken for one
\* of them, although both are known modulo the space only.
LEMMA WindowRejects ==
    ASSUME NEW S, NEW x, NEW y, NEW num, NEW p, NEW r, NEW d,
           S \in Nat \ {0}, x \in Nat, y \in Nat, num \in Nat \ {0},
           p = x % S, r = y % S, d = (p + S - r) % S,
           (y + num <= x /\ x < y + S) \/ (x < y /\ y + num <= x + S)
    PROVE  ~(d < num)
<1>1. PICK i \in Int : x = S * i + p /\ p \in 0..(S - 1)
  BY Remainder
<1>2. PICK j \in Int : y = S * j + r /\ r \in 0..(S - 1)
  BY Remainder
<1>3. p + S - r \in Nat
  BY <1>1, <1>2
<1>4. PICK k \in Int : p + S - r = S * k + d /\ d \in 0..(S - 1)
  BY <1>3, Remainder
<1>5. PICK m : m \in Int /\ m = i - j + k - 1
  BY <1>1, <1>2, <1>4
<1>6. PICK M, I, J, K : M = S * m /\ I = S * i /\ J = S * j /\ K = S * k
  OBVIOUS
<1>7. M \in Int /\ I \in Int /\ J \in Int /\ K \in Int
  BY <1>1, <1>2, <1>4, <1>5, <1>6
<1>8. M = I - J + K - S
  BY <1>1, <1>2, <1>4, <1>5, <1>6
<1>9. m >= 1 => M >= S
  BY <1>5, <1>6
<1>10. m <= 0 - 2 => M <= 0 - (S + S)
  BY <1>5, <1>6
<1>11. (m = 0 => M = 0) /\ (m = 0 - 1 => M = 0 - S)
  BY <1>6
<1>12. x = I + p /\ y = J + r /\ p + S - r = K + d
  BY <1>1, <1>2, <1>4, <1>6
<1>13. p \in Nat /\ r \in Nat /\ d \in 0..(S - 1)
  BY <1>1, <1>2, <1>4
<1>14. x - y = M + d
  BY <1>7, <1>8, <1>12, <1>13
<1>15. m >= 1 \/ m = 0 \/ m = 0 - 1 \/ m <= 0 - 2
  BY <1>5
<1>16. d >= num
  BY <1>7, <1>9, <1>10, <1>11, <1>13, <1>14, <1>15
<1> QED
  BY <1>13, <1>16

-----------------------------------------------------------------------------
(***************************************************************************)
(* The path: the numbers of a connection's chunks follow its frames.       *)
(***************************************************************************)

Frames(c) == 1..Len(FrameChunks[c])

\* Frame f of connection c began with number n: its chunks have taken at most the
\* numbers since then, those of later frames come after all of them and those of
\* earlier frames before.  g numbers are given out, t are the forward threads, m
\* the chunks on the path.
Began(c, f, n, g, t, m) ==
    /\ f \in Frames(c) /\ n \in Nat /\ n < g
    /\ f <= t[c].frame
    /\ f < t[c].frame => n + FrameChunks[c][f] <= g
    /\ f = t[c].frame => n + t[c].offset <= g
    /\ \A ch \in m : ch.conn = c => /\ (f < ch.frame => n + FrameChunks[c][f] <= ch.no)
                                     /\ (ch.frame < f => ch.no < n)

\* A chunk was cut from a frame that its thread has begun.
CutFrom(ch, g, t) ==
    /\ ch.frame \in Frames(ch.conn) /\ ch.total = FrameChunks[ch.conn][ch.frame]
    /\ ch.offset < ch.total
    /\ ch.no < g /\ ch.seq = (FirstSeq + ch.no) % SeqSpace
    /\ ch.frame <= t[ch.conn].frame

PathInv ==
    /\ seqNum = (FirstSeq + given) % SeqSpace
    /\ \A c \in Conns : tx[c].frame \in Frames(c) => tx[c].offset < FrameChunks[c][tx[c].frame]
    /\ \A ch \in net : /\ CutFrom(ch, given, tx)
                       /\ ch.offset = 0 => Began(ch.conn, ch.frame, ch.no, given, tx, net)

\* The sizes of frames.
LEMMA FrameSizes ==
    ASSUME NEW c \in Conns
    PROVE  Len(FrameChunks[c]) \in Nat /\ \A f \in Frames(c) : FrameChunks[c][f] \in 1..BufferChunks
BY StreamAssumption DEF Frames

\* One turn of forward_local_to_p2p's chunk loop: number, offset and frame of the
\* chunk it sends and of the next.
LEMMA ChunkLoop ==
    ASSUME ProviderTypes, PathInv, NEW c \in Conns, SendChunk(c)
    PROVE  /\ tx[c].frame \in Frames(c) /\ given' = given + 1
           /\ tx'[c].frame \in Nat /\ tx'[c].offset \in Nat
           /\ IF tx[c].offset + 1 = FrameChunks[c][tx[c].frame]
              THEN tx'[c].frame = tx[c].frame + 1 /\ tx'[c].offset = 0
              ELSE tx'[c].frame = tx[c].frame /\ tx'[c].offset = tx[c].offset + 1
           /\ \A d \in Conns : d # c => tx'[d] = tx[d]
           /\ seqNum' = (seqNum + 1) % SeqSpace
           /\ net' = net \union {[conn |-> c, seq |-> seqNum, total |-> FrameChunks[c][tx[c].frame],
                                  offset |-> tx[c].offset, frame |-> tx[c].frame, no |-> given]}
<1> DEFINE f == tx[c].frame
           k == tx[c].offset
           total == FrameChunks[c][f]
<1>1. /\ f \in Nat \ {0} /\ k \in Nat /\ DOMAIN tx = Conns
      /\ tx[c] \in [at : {"none", "forward"}, frame : Nat \ {0}, offset : Nat]
  BY DEF ProviderTypes
<1>2. f \in Frames(c)
  BY <1>1, FrameSizes DEF SendChunk, Frames
<1>3. total \in 1..BufferChunks /\ k < total
  BY <1>2, FrameSizes DEF PathInv
<1>4. PICK next : next = (k + 1) % total
  OBVIOUS
<1>5. next = IF k + 1 = total THEN 0 ELSE k + 1
  <2>1. total \in Nat \ {0} /\ k \in 0..(total - 1)
    BY <1>1, <1>3, StreamAssumption
  <2> HIDE DEF k, total
  <2> QED
    BY <1>4, <2>1, NextOffset
<1>6. /\ given' = given + 1 /\ seqNum' = (seqNum + 1) % SeqSpace
      /\ net' = net \union {[conn |-> c, seq |-> seqNum, total |-> total,
                             offset |-> k, frame |-> f, no |-> given]}
      /\ tx' = [tx EXCEPT ![c].offset = next, ![c].frame = IF k + 1 = total THEN f + 1 ELSE f]
  BY <1>4, Zenon DEF SendChunk
<1>7. tx'[c].offset = next /\ tx'[c].frame = IF k + 1 = total THEN f + 1 ELSE f
  <2> HIDE DEF f, k, total
  <2> QED
    BY <1>1, <1>6
<1>8. \A d \in Conns : d # c => tx'[d] = tx[d]
  BY <1>1, <1>6
<1> QED
  BY <1>1, <1>2, <1>5, <1>6, <1>7, <1>8

\* A frame that began stays so when a chunk is sent: the chunk is of that frame or
\* of a later one.
LEMMA BeganSend ==
    ASSUME ProviderTypes, PathInv, NEW c \in Conns, SendChunk(c),
           NEW d, NEW f, NEW n, d \in Conns, Began(d, f, n, given, tx, net)
    PROVE  Began(d, f, n, given', tx', net')
<1>1. PICK F, k, total : F = tx[c].frame /\ k = tx[c].offset /\ total = FrameChunks[c][F]
  OBVIOUS
<1>2. PICK ch : ch = [conn |-> c, seq |-> seqNum, total |-> total,
                      offset |-> k, frame |-> F, no |-> given]
  OBVIOUS
<1>3. ch.conn = c /\ ch.frame = F /\ ch.no = given /\ net' = net \union {ch} /\ given' = given + 1
  BY <1>1, <1>2, ChunkLoop
<1>4. /\ F \in Nat /\ k \in Nat /\ total \in Nat /\ given \in Nat
      /\ f \in Nat /\ n \in Nat /\ FrameChunks[d][f] \in Nat
  <2>1. F \in Nat /\ k \in Nat /\ given \in Nat
    BY <1>1 DEF ProviderTypes
  <2>2. total \in Nat
    BY <1>1, ChunkLoop, FrameSizes
  <2>3. f \in Frames(d) /\ n \in Nat
    BY DEF Began
  <2> QED
    BY <2>1, <2>2, <2>3, FrameSizes DEF Frames
<1>5. CASE d # c
  <2>1. tx'[d] = tx[d]
    BY <1>5, ChunkLoop
  <2>2. ASSUME NEW x \in net', x.conn = d PROVE x \in net
    BY <1>3, <1>5, <2>2
  <2>3. /\ n < given' /\ (f < tx[d].frame => n + FrameChunks[d][f] <= given')
        /\ (f = tx[d].frame => n + tx[d].offset <= given')
    <3>1. tx[d].offset \in Nat
      BY DEF ProviderTypes
    <3> QED
      BY <1>3, <1>4, <3>1 DEF Began
  <2> QED
    BY <2>1, <2>2, <2>3 DEF Began
<1>6. CASE d = c
  <2>1. /\ f <= F /\ (f < F => n + FrameChunks[c][f] <= given) /\ (f = F => n + k <= given)
        /\ n < given /\ f \in Frames(c)
    BY <1>1, <1>6 DEF Began
  <2>2. PICK G, l : G = tx'[c].frame /\ l = tx'[c].offset
    OBVIOUS
  <2>3. IF k + 1 = total THEN G = F + 1 /\ l = 0 ELSE G = F /\ l = k + 1
    BY <1>1, <2>2, ChunkLoop
  <2>4. f <= G /\ (f < G => n + FrameChunks[c][f] <= given + 1) /\ (f = G => n + l <= given + 1)
    <3>1. f = F => FrameChunks[c][f] = total
      BY <1>1
    <3>2. PICK size : size = FrameChunks[c][f]
      OBVIOUS
    <3>3. size \in Nat
      BY <1>4, <1>6, <3>2
    <3>4. CASE f < F
      BY <1>4, <2>1, <2>3, <3>2, <3>3, <3>4
    <3>5. CASE f = F
      BY <1>4, <2>1, <2>3, <3>1, <3>2, <3>3, <3>5
    <3> QED
      BY <1>4, <2>1, <3>4, <3>5
  <2>5. ASSUME NEW x \in net', x.conn = c
        PROVE  (f < x.frame => n + FrameChunks[c][f] <= x.no) /\ (x.frame < f => x.no < n)
    <3>1. CASE x \in net
      BY <1>6, <2>5, <3>1 DEF Began
    <3>2. CASE x = ch
      BY <1>3, <1>4, <2>1, <3>2
    <3> QED
      BY <1>3, <3>1, <3>2
  <2> QED
    BY <1>3, <1>4, <1>6, <2>1, <2>2, <2>4, <2>5 DEF Began
<1> QED
  BY <1>5, <1>6

\* The path keeps its order when a chunk is sent.
LEMMA PathSend ==
    ASSUME ProviderTypes, PathInv, NEW c \in Conns, SendChunk(c)
    PROVE  PathInv'
<1>1. PICK F, k, total : F = tx[c].frame /\ k = tx[c].offset /\ total = FrameChunks[c][F]
  OBVIOUS
<1>2. PICK new : new = [conn |-> c, seq |-> seqNum, total |-> total,
                        offset |-> k, frame |-> F, no |-> given]
  OBVIOUS
<1>3. /\ net' = net \union {new} /\ given' = given + 1 /\ F \in Frames(c)
      /\ new.conn = c /\ new.frame = F /\ new.no = given /\ new.offset = k /\ new.total = total
      /\ new.seq = seqNum
  BY <1>1, <1>2, ChunkLoop
<1>4. F \in Nat /\ k \in Nat /\ total \in 1..BufferChunks /\ given \in Nat /\ k < total /\ total \in Nat
  <2>1. F \in Nat /\ k \in Nat /\ given \in Nat
    BY <1>1 DEF ProviderTypes
  <2>2. total \in 1..BufferChunks
    BY <1>1, <1>3, FrameSizes
  <2> QED
    BY <1>1, <1>3, <2>1, <2>2, StreamAssumption DEF PathInv
<1>5. PICK G, l : G = tx'[c].frame /\ l = tx'[c].offset
  OBVIOUS
<1>6. /\ IF k + 1 = total THEN G = F + 1 /\ l = 0 ELSE G = F /\ l = k + 1
      /\ \A d \in Conns : d # c => tx'[d] = tx[d]
  BY <1>1, <1>5, ChunkLoop
<1>7. seqNum' = (FirstSeq + given') % SeqSpace
  <2>1. PICK x : x = FirstSeq + given
    OBVIOUS
  <2>2. x \in Nat /\ SeqSpace \in Nat \ {0} /\ FirstSeq + given' = x + 1
    BY <1>3, <1>4, <2>1, StreamAssumption
  <2>3. seqNum = x % SeqSpace /\ seqNum' = (seqNum + 1) % SeqSpace
    BY <2>1, ChunkLoop DEF PathInv
  <2>4. (seqNum + 1) % SeqSpace = (x + 1) % SeqSpace
    BY <2>2, <2>3, NextNumber
  <2> QED
    BY <2>2, <2>3, <2>4
<1>8. ASSUME NEW d \in Conns, tx'[d].frame \in Frames(d)
      PROVE  tx'[d].offset < FrameChunks[d][tx'[d].frame]
  <2>1. CASE d # c
    BY <1>6, <1>8, <2>1 DEF PathInv
  <2>2. CASE d = c /\ k + 1 = total
    <3>1. FrameChunks[c][G] \in 1..BufferChunks /\ l = 0
      BY <1>5, <1>6, <1>8, <2>2, FrameSizes
    <3> QED
      BY <1>5, <2>2, <3>1, StreamAssumption
  <2>3. CASE d = c /\ k + 1 # total
    <3>1. G = F /\ l = k + 1 /\ FrameChunks[c][G] = total
      BY <1>1, <1>6, <2>3
    <3>2. k + 1 < total
      BY <1>4, <2>3
    <3> QED
      BY <1>5, <2>3, <3>1, <3>2
  <2> QED
    BY <2>1, <2>2, <2>3
<1>9. F <= G /\ G \in Nat
  BY <1>4, <1>6
<1>10. ASSUME NEW ch \in net
       PROVE  /\ CutFrom(ch, given', tx')
              /\ ch.offset = 0 => Began(ch.conn, ch.frame, ch.no, given', tx', net')
  <2>1. CutFrom(ch, given, tx) /\ ch.conn \in Conns /\ ch.no \in Nat /\ ch.frame \in Nat
    BY DEF PathInv, ProviderTypes, ChunkRecords
  <2>2. ch.frame <= tx'[ch.conn].frame
    <3>1. CASE ch.conn = c
      BY <1>1, <1>4, <1>5, <1>9, <2>1, <3>1 DEF CutFrom
    <3>2. CASE ch.conn # c
      BY <1>6, <2>1, <3>2 DEF CutFrom
    <3> QED
      BY <3>1, <3>2
  <2>3. ch.no < given'
    BY <1>3, <1>4, <2>1 DEF CutFrom
  <2>4. CutFrom(ch, given', tx')
    BY <2>1, <2>2, <2>3 DEF CutFrom
  <2>5. ch.offset = 0 => Began(ch.conn, ch.frame, ch.no, given, tx, net)
    BY DEF PathInv
  <2> QED
    BY <2>1, <2>4, <2>5, BeganSend
<1>11. CutFrom(new, given', tx')
  BY <1>1, <1>3, <1>4, <1>5, <1>9 DEF CutFrom, PathInv
<1>12. ASSUME k = 0 PROVE Began(c, F, given, given', tx', net')
  <2>1. total = FrameChunks[c][F]
    BY <1>1
  <2>2. given < given' /\ (F < G => given + total <= given') /\ (F = G => given + l <= given')
    BY <1>3, <1>4, <1>6, <1>12
  <2>3. ASSUME NEW ch \in net', ch.conn = c
        PROVE  ~(F < ch.frame) /\ (ch.frame < F => ch.no < given)
    <3>1. CASE ch \in net
      <4>1. CutFrom(ch, given, tx) /\ ch.frame \in Nat
        BY <3>1 DEF PathInv, ProviderTypes, ChunkRecords
      <4> QED
        BY <1>1, <1>4, <2>3, <4>1 DEF CutFrom
    <3>2. CASE ch = new
      BY <1>3, <1>4, <3>2
    <3> QED
      BY <1>3, <3>1, <3>2
  <2> QED
    BY <1>3, <1>4, <1>5, <1>9, <2>1, <2>2, <2>3 DEF Began
<1> QED
  BY <1>3, <1>7, <1>8, <1>10, <1>11, <1>12 DEF PathInv

\* Every other step but the end of the session leaves the counter and the threads
\* where they are and puts nothing on the path.
LEMMA PathQuiet ==
    ASSUME ProviderTypes, [Next]_vars, ~FreeCloses, \A c \in Conns : ~SendChunk(c)
    PROVE  /\ given' = given /\ seqNum' = seqNum /\ net' \subseteq net
           /\ \A c \in Conns : tx'[c].frame = tx[c].frame /\ tx'[c].offset = tx[c].offset
<1>1. CASE UNCHANGED <<given, seqNum, net, tx>>
  BY <1>1
<1>2. ASSUME NEW c \in Conns, ProviderOpens(c) \/ ProviderEnds(c)
      PROVE  /\ given' = given /\ seqNum' = seqNum /\ net' \subseteq net
             /\ \A d \in Conns : tx'[d].frame = tx[d].frame /\ tx'[d].offset = tx[d].offset
  BY <1>2 DEF ProviderOpens, ProviderEnds, ProviderTypes
<1>3. ASSUME NEW ch \in net, Lose(ch) \/ OnRecv(ch)
      PROVE  UNCHANGED <<given, seqNum, tx>> /\ net' \subseteq net
  BY <1>3 DEF Lose, OnRecv
<1> QED
  BY <1>1, <1>2, <1>3
     DEF Next, vars, AcceptPlayer, PlayerPauses, PlayerLeaves, ForwardExits, CleanupStale,
         CallbackStep, HandOver, ShutDropped, DispatchStep, DispatchTake, SendSome, SendEnds, SendStuck, Drain, FreeStops

\* A frame that began stays so until the session ends.
LEMMA BeganKept ==
    ASSUME ProviderTypes, PathInv, [Next]_vars, ~FreeCloses,
           NEW d, NEW f, NEW n, d \in Conns, Began(d, f, n, given, tx, net)
    PROVE  Began(d, f, n, given', tx', net')
<1>1. CASE \E c \in Conns : SendChunk(c)
  BY <1>1, BeganSend
<1>2. CASE \A c \in Conns : ~SendChunk(c)
  <2>1. /\ given' = given /\ net' \subseteq net
        /\ tx'[d].frame = tx[d].frame /\ tx'[d].offset = tx[d].offset
    BY <1>2, PathQuiet
  <2> QED
    BY <2>1 DEF Began
<1> QED
  BY <1>1, <1>2

\* The path keeps its order.
LEMMA PathStep ==
    ASSUME ProviderTypes, PathInv, [Next]_vars
    PROVE  PathInv'
<1>1. CASE \E c \in Conns : SendChunk(c)
  BY <1>1, PathSend
<1>2. CASE FreeCloses
  <2>1. given' = given /\ seqNum' = seqNum /\ net' = {} /\ \A c \in Conns : tx'[c] = NoForward
    BY <1>2 DEF FreeCloses
  <2>2. ASSUME NEW c \in Conns, 1 \in Frames(c) PROVE 0 < FrameChunks[c][1]
    BY <2>2, FrameSizes, StreamAssumption
  <2> QED
    BY <2>1, <2>2 DEF PathInv, NoForward
<1>3. CASE ~FreeCloses /\ \A c \in Conns : ~SendChunk(c)
  <2>1. /\ given' = given /\ seqNum' = seqNum /\ net' \subseteq net
        /\ \A c \in Conns : tx'[c].frame = tx[c].frame /\ tx'[c].offset = tx[c].offset
    BY <1>3, PathQuiet
  <2>2. ASSUME NEW ch \in net'
        PROVE  /\ CutFrom(ch, given', tx')
               /\ ch.offset = 0 => Began(ch.conn, ch.frame, ch.no, given', tx', net')
    <3>1. /\ CutFrom(ch, given, tx) /\ ch.conn \in Conns
          /\ ch.offset = 0 => Began(ch.conn, ch.frame, ch.no, given, tx, net)
      BY <2>1 DEF PathInv, ProviderTypes, ChunkRecords
    <3>2. CutFrom(ch, given', tx')
      BY <2>1, <3>1 DEF CutFrom
    <3> QED
      BY <1>3, <3>1, <3>2, BeganKept
  <2> QED
    BY <2>1, <2>2 DEF PathInv
<1> QED
  BY <1>1, <1>2, <1>3

-----------------------------------------------------------------------------
(***************************************************************************)
(* The reassembly, under the hypothesis that the numbers are fresh.        *)
(***************************************************************************)

\* A frame being assembled began with its first chunk, which is there; all that is
\* there is of that frame.
Assembling(c, r, g, t, m) ==
    /\ Began(c, r.buf[0], r.first, g, t, m)
    /\ r.expected = FrameChunks[c][r.buf[0]] /\ r.num = r.expected
    /\ r.start = (FirstSeq + r.first) % SeqSpace
    /\ 0 \in r.got /\ r.got \subseteq 0..(r.expected - 1)
    /\ \A k \in r.got : r.buf[k] = r.buf[0]

AssemblyInv == \A c \in Conns : rx[c].busy => Assembling(c, rx[c], given, tx, net)

\* What storing a chunk changes.
LEMMA StoreFacts ==
    ASSUME NEW r, NEW ch, NEW s, ConnectionShape(r), s = Store(r, ch)
    PROVE  /\ s.buf = [r.buf EXCEPT ![ch.offset] = ch.frame] /\ s.got = r.got \union {ch.offset}
           /\ s.expected = r.expected /\ s.start = r.start /\ s.first = r.first /\ s.num = r.num
           /\ s.busy = r.busy
BY DEF ConnectionShape, ConnectionFields, Store

\* A connection that stores a chunk goes on assembling.
LEMMA StoreBusy ==
    ASSUME NEW r, NEW ch, NEW s, ConnectionShape(r), s = Store(r, ch), r.busy
    PROVE  s.busy
BY StoreFacts

\* What an offset-0 chunk changes.
LEMMA StartFacts ==
    ASSUME NEW r, NEW ch, NEW s, ConnectionShape(r), s = StartFrame(r, ch)
    PROVE  /\ s.buf = r.buf /\ s.got = {} /\ s.expected = ch.total /\ s.start = ch.seq
           /\ s.first = ch.no /\ s.num = ch.total /\ s.busy = TRUE
BY DEF ConnectionShape, ConnectionFields, StartFrame

\* An offset-0 chunk is always stored, and is the beginning of its frame.
LEMMA FirstChunk ==
    ASSUME ProviderTypes, ConnectionTypes, PathInv, NEW ch \in net, ch.offset = 0,
           NEW r, NEW s, r = Opened(rx[ch.conn], ch), s = Store(r, ch)
    PROVE  Accepts(r, ch) /\ Assembling(ch.conn, s, given, tx, net) /\ s.busy
<1>1. ch \in ChunkRecords /\ ch.conn \in Conns /\ ch.total \in 1..BufferChunks /\ ch.seq \in Nat
  BY DEF ProviderTypes, ChunkRecords
<1>2. ConnectionShape(rx[ch.conn]) /\ ConnectionShape(r)
  BY <1>1, ReassemblyShapes DEF ConnectionTypes
<1>3. CutFrom(ch, given, tx) /\ Began(ch.conn, ch.frame, ch.no, given, tx, net)
  BY DEF PathInv
<1>4. /\ r.buf = rx[ch.conn].buf /\ r.got = {} /\ r.expected = ch.total /\ r.start = ch.seq
      /\ r.first = ch.no /\ r.num = ch.total /\ r.busy = TRUE
  <2>1. r = StartFrame(rx[ch.conn], ch)
    BY DEF Opened
  <2> QED
    BY <1>2, <2>1, StartFacts
<1>5. /\ s.buf = [r.buf EXCEPT ![ch.offset] = ch.frame] /\ s.got = r.got \union {ch.offset}
      /\ s.expected = r.expected /\ s.start = r.start /\ s.first = r.first /\ s.num = r.num
      /\ s.busy = r.busy
  BY <1>2, StoreFacts
<1>6. Accepts(r, ch)
  <2>1. (ch.seq + SeqSpace - ch.seq) % SeqSpace = 0
    <3>1. /\ ch.seq + SeqSpace - ch.seq = (SeqSpace - 1) + 1
          /\ SeqSpace - 1 \in 0..(SeqSpace - 1) /\ SeqSpace \in Nat \ {0}
      BY <1>1, StreamAssumption
    <3>2. ((SeqSpace - 1) + 1) % SeqSpace = 0
      BY <3>1, NextOffset
    <3> QED
      BY <3>1, <3>2, Zenon
  <2>2. PICK e : e = (ch.seq + SeqSpace - r.start) % SeqSpace
    OBVIOUS
  <2>3. e = 0
    BY <1>4, <2>1, <2>2, Zenon
  <2>4. InWindow(r, ch)
    <3>1. e < r.num
      BY <1>1, <1>4, <2>3, StreamAssumption
    <3> QED
      BY <2>2, <3>1, Zenon DEF InWindow
  <2>5. ch.offset < ch.total /\ r.expected # 0
    BY <1>1, <1>4, StreamAssumption
  <2> QED
    BY <1>4, <2>4, <2>5 DEF Accepts
<1>7. s.buf[0] = ch.frame
  <2>1. 0 \in 0..(BufferChunks - 1)
    BY StreamAssumption
  <2> QED
    BY <1>2, <1>5, <2>1 DEF ConnectionShape, Buffers
<1>8. s.got = {0} /\ 0 \in 0..(s.expected - 1)
  BY <1>1, <1>4, <1>5, StreamAssumption
<1>9. s.expected = FrameChunks[ch.conn][ch.frame] /\ s.start = (FirstSeq + s.first) % SeqSpace
  BY <1>3, <1>4, <1>5 DEF CutFrom
<1> QED
  BY <1>3, <1>4, <1>5, <1>6, <1>7, <1>8, <1>9 DEF Assembling

\* A later chunk that the frame-ID guard lets in is of the frame being assembled.
LEMMA LaterChunk ==
    ASSUME ProviderTypes, ConnectionTypes, PathInv, AssemblyInv, Fresh, NEW ch \in net, ch.offset # 0,
           NEW r, NEW s, r = rx[ch.conn], s = Store(r, ch), Accepts(r, ch)
    PROVE  Assembling(ch.conn, s, given, tx, net) /\ s.busy
<1>1. /\ ch \in ChunkRecords /\ ch.conn \in Conns /\ ch.offset \in Nat /\ ch.total \in 1..BufferChunks
      /\ ch.no \in Nat /\ ch.frame \in Nat
  BY DEF ProviderTypes, ChunkRecords
<1>2. ConnectionShape(r) /\ r.busy /\ Assembling(ch.conn, r, given, tx, net)
  BY <1>1 DEF ConnectionTypes, Accepts, AssemblyInv
<1>3. CutFrom(ch, given, tx)
  BY DEF PathInv
<1>4. PICK f, n, num : f = r.buf[0] /\ n = r.first /\ num = r.num
  OBVIOUS
<1>5. /\ f \in Frames(ch.conn) /\ n \in Nat /\ num = FrameChunks[ch.conn][f] /\ num = r.expected
      /\ f < ch.frame => n + num <= ch.no
      /\ ch.frame < f => ch.no < n
  BY <1>1, <1>2, <1>4 DEF Assembling, Began
<1>6. num \in Nat \ {0} /\ f \in Nat
  <2>1. num \in 1..BufferChunks
    BY <1>1, <1>5, FrameSizes
  <2>2. f \in Nat
    BY <1>5 DEF Frames
  <2> QED
    BY <2>1, <2>2, StreamAssumption
<1>7. ch.no < n + SeqSpace /\ n + num <= ch.no + SeqSpace
  BY <1>2, <1>4 DEF Fresh
<1>8. f = ch.frame
  <2>1. PICK x, y, e : /\ x = FirstSeq + ch.no /\ y = FirstSeq + n
                       /\ e = (ch.seq + SeqSpace - r.start) % SeqSpace
    OBVIOUS
  <2>2. ch.seq = x % SeqSpace /\ r.start = y % SeqSpace
    BY <1>2, <1>3, <1>4, <2>1 DEF CutFrom, Assembling
  <2>3. x \in Nat /\ y \in Nat /\ SeqSpace \in Nat \ {0} /\ FirstSeq \in Nat
    BY <1>1, <1>5, <2>1, StreamAssumption
  <2>4. e < num
    BY <1>4, <2>1, Zenon DEF Accepts, InWindow
  <2>5. ~((y + num <= x /\ x < y + SeqSpace) \/ (x < y /\ y + num <= x + SeqSpace))
    BY <1>6, <2>1, <2>2, <2>3, <2>4, WindowRejects
  <2>6. CASE f < ch.frame
    BY <1>1, <1>5, <1>6, <1>7, <2>1, <2>3, <2>5, <2>6
  <2>7. CASE ch.frame < f
    BY <1>1, <1>5, <1>6, <1>7, <2>1, <2>3, <2>5, <2>7
  <2> QED
    BY <1>1, <1>6, <2>6, <2>7
<1>9. /\ s.buf = [r.buf EXCEPT ![ch.offset] = ch.frame] /\ s.got = r.got \union {ch.offset}
      /\ s.expected = r.expected /\ s.start = r.start /\ s.first = r.first /\ s.num = r.num
      /\ s.busy
  <2>1. s.busy
    BY <1>2, StoreBusy
  <2> QED
    BY <1>2, <2>1, StoreFacts
<1>10. ch.total = r.expected /\ ch.offset < ch.total
  BY DEF Accepts
<1>11. /\ ch.offset \in 0..(r.expected - 1)
       /\ ch.offset \in 0..(BufferChunks - 1) /\ 0 \in 0..(BufferChunks - 1)
  BY <1>1, <1>10, StreamAssumption
<1>12. r.buf \in [0..(BufferChunks - 1) -> Nat] /\ r.expected \in 0..BufferChunks
  BY <1>2 DEF ConnectionShape, Buffers
<1>13. s.buf[0] = f
  BY <1>4, <1>9, <1>11, <1>12
<1>14. r.got \subseteq 0..(r.expected - 1) /\ 0 \in r.got
  BY <1>2 DEF Assembling
<1>15. ASSUME NEW k \in s.got PROVE s.buf[k] = f
  <2>1. k \in 0..(BufferChunks - 1)
    BY <1>9, <1>11, <1>12, <1>14, StreamAssumption
  <2>2. CASE k = ch.offset
    BY <1>8, <1>9, <1>12, <2>1, <2>2
  <2>3. CASE k # ch.offset
    <3>1. k \in r.got /\ r.buf[k] = f
      BY <1>2, <1>4, <1>9, <1>15, <2>3 DEF Assembling
    <3> QED
      BY <1>9, <1>12, <2>1, <2>3, <3>1
  <2> QED
    BY <2>2, <2>3
<1>16. 0 \in s.got /\ s.got \subseteq 0..(s.expected - 1)
  BY <1>9, <1>11, <1>14
<1>17. Began(ch.conn, s.buf[0], s.first, given, tx, net)
  BY <1>2, <1>4, <1>9, <1>13 DEF Assembling
<1>18. /\ s.expected = FrameChunks[ch.conn][s.buf[0]] /\ s.num = s.expected
       /\ s.start = (FirstSeq + s.first) % SeqSpace
  BY <1>2, <1>4, <1>9, <1>13 DEF Assembling
<1> QED
  BY <1>2, <1>9, <1>13, <1>15, <1>16, <1>17, <1>18 DEF Assembling

\* A frame all of whose chunks are there is a whole frame of the camera.
LEMMA Complete ==
    ASSUME NEW c \in Conns, NEW s, ConnectionShape(s), Assembling(c, s, given, tx, net),
           ~(Cardinality(s.got) < s.expected)
    PROVE  WholeFrame(Item(c, s.buf, s.expected))
<1>1. s.expected \in Nat /\ s.expected = FrameChunks[c][s.buf[0]] /\ s.buf[0] \in Frames(c)
  BY DEF ConnectionShape, Assembling, Began
<1>2. s.got \subseteq 0..(s.expected - 1)
  BY DEF Assembling
<1>3. IsFiniteSet(0..(s.expected - 1)) /\ Cardinality(0..(s.expected - 1)) = s.expected
  <2>1. 0 \in Int /\ s.expected - 1 \in Int
    BY <1>1
  <2>2. /\ IsFiniteSet(0..(s.expected - 1))
        /\ Cardinality(0..(s.expected - 1)) = IF 0 > s.expected - 1 THEN 0 ELSE s.expected - 1 - 0 + 1
    BY <2>1, FS_Interval
  <2> QED
    BY <1>1, <2>2
<1>4. s.got = 0..(s.expected - 1)
  <2>1. /\ IsFiniteSet(s.got) /\ Cardinality(s.got) <= s.expected
        /\ Cardinality(s.got) = s.expected => s.got = 0..(s.expected - 1)
    BY <1>2, <1>3, FS_Subset
  <2>2. Cardinality(s.got) \in Nat
    BY <2>1, FS_CardinalityType
  <2> QED
    BY <1>1, <2>1, <2>2
<1>5. \A k \in 0..(s.expected - 1) : s.buf[k] = s.buf[0]
  BY <1>4 DEF Assembling
<1> QED
  BY <1>1, <1>5 DEF WholeFrame, Item, Frames
\* A frame being assembled stays one until the session ends, whatever is sent,
\* lost or doubled.
LEMMA AssemblingKept ==
    ASSUME ProviderTypes, PathInv, [Next]_vars, ~FreeCloses,
           NEW c, NEW r, c \in Conns, Assembling(c, r, given, tx, net)
    PROVE  Assembling(c, r, given', tx', net')
<1>1. PICK f, n : f = r.buf[0] /\ n = r.first
  OBVIOUS
<1>2. Began(c, f, n, given, tx, net)
  BY <1>1 DEF Assembling
<1>3. Began(c, f, n, given', tx', net')
  BY <1>2, BeganKept
<1> QED
  BY <1>1, <1>3 DEF Assembling

\* A fresh connection assembles nothing.
LEMMA FreshNotBusy ==
    /\ ~Closed.busy /\ ~Created.busy /\ ~Finished.busy
    /\ \A b : ~[Created EXCEPT !.spare = b].busy
BY DEF Closed, Created, Finished

\* on_recv_camera keeps what is assembled of one frame, and hands over whole
\* frames only.
LEMMA AssemblyRecv ==
    ASSUME StreamTypes, PathInv, AssemblyInv, Fresh, [Next]_vars, NEW ch \in net, OnRecv(ch)
    PROVE  AssemblyInv' /\ (cb'.at = "handover" => WholeFrame(cb'.item))
<1>1. ch \in ChunkRecords /\ ch.conn \in Conns /\ ConnectionShape(rx[ch.conn])
  BY DEF StreamTypes, ProviderTypes, ConnectionTypes, ChunkRecords
<1>2. PICK r, s : r = Opened(rx[ch.conn], ch) /\ s = Store(r, ch)
  OBVIOUS
<1>3. ~FreeCloses
  BY DEF OnRecv, FreeCloses
<1>4. ConnectionShape(r) /\ ConnectionShape(s)
  BY <1>1, <1>2, ReassemblyShapes
<1>5. ASSUME Accepts(r, ch) PROVE Assembling(ch.conn, s, given, tx, net)
  <2>1. CASE ch.offset = 0
    BY <1>2, <2>1, FirstChunk DEF StreamTypes
  <2>2. CASE ch.offset # 0
    <3>1. r = rx[ch.conn]
      BY <1>2, <2>2 DEF Opened
    <3> QED
      BY <1>2, <1>5, <2>2, <3>1, LaterChunk DEF StreamTypes
  <2> QED
    BY <2>1, <2>2
<1>6. ASSUME ~Accepts(r, ch) PROVE r = rx[ch.conn]
  <2>1. ch.offset # 0
    BY <1>2, <1>6, FirstChunk DEF StreamTypes
  <2> QED
    BY <1>2, <2>1 DEF Opened
<1>7. CASE \/ UNCHANGED <<rx, cb>>
           \/ ~Accepts(r, ch) /\ rx' = [rx EXCEPT ![ch.conn] = r] /\ UNCHANGED cb
  <2>1. \A c \in Conns : rx'[c] = rx[c]
    BY <1>1, <1>6, <1>7 DEF StreamTypes, ConnectionTypes
  <2>2. cb'.at # "handover"
    BY <1>7 DEF OnRecv
  <2>3. ASSUME NEW c \in Conns, rx[c].busy PROVE Assembling(c, rx[c], given', tx', net')
    BY <1>3, <2>3, AssemblingKept DEF StreamTypes, AssemblyInv
  <2> QED
    BY <2>1, <2>2, <2>3 DEF AssemblyInv
<1>8. CASE Accepts(r, ch) /\ rx' = [rx EXCEPT ![ch.conn] = s] /\ UNCHANGED cb
  <2>1. rx'[ch.conn] = s /\ \A c \in Conns : c # ch.conn => rx'[c] = rx[c]
    BY <1>1, <1>8 DEF StreamTypes, ConnectionTypes
  <2>2. cb'.at # "handover"
    BY <1>8 DEF OnRecv
  <2>3. Assembling(ch.conn, s, given', tx', net')
    BY <1>1, <1>3, <1>5, <1>8, AssemblingKept DEF StreamTypes
  <2>4. ASSUME NEW c \in Conns, rx[c].busy PROVE Assembling(c, rx[c], given', tx', net')
    BY <1>3, <2>4, AssemblingKept DEF StreamTypes, AssemblyInv
  <2> QED
    BY <2>1, <2>2, <2>3, <2>4 DEF AssemblyInv
<1>9. CASE /\ Accepts(r, ch) /\ ~(Cardinality(s.got) < s.expected)
           /\ rx' = [rx EXCEPT ![ch.conn] = Finished]
           /\ cb' = cb \/ cb' = [at |-> "handover", item |-> Item(ch.conn, s.buf, s.expected)]
  <2>1. rx'[ch.conn] = Finished /\ \A c \in Conns : c # ch.conn => rx'[c] = rx[c]
    BY <1>1, <1>9 DEF StreamTypes, ConnectionTypes
  <2>2. WholeFrame(Item(ch.conn, s.buf, s.expected))
    BY <1>1, <1>4, <1>5, <1>9, Complete
  <2>3. cb'.at = "handover" => WholeFrame(cb'.item)
    BY <1>9, <2>2 DEF OnRecv
  <2>4. ASSUME NEW c \in Conns, rx[c].busy PROVE Assembling(c, rx[c], given', tx', net')
    BY <1>3, <2>4, AssemblingKept DEF StreamTypes, AssemblyInv
  <2> QED
    BY <2>1, <2>3, <2>4, FreshNotBusy DEF AssemblyInv
<1> QED
  BY <1>2, <1>7, <1>8, <1>9, Zenon DEF OnRecv

\* Every other step leaves a frame being assembled alone or forgets it.
LEMMA AssemblyQuiet ==
    ASSUME StreamTypes, PathInv, AssemblyInv, [Next]_vars, \A ch \in net : ~OnRecv(ch)
    PROVE  AssemblyInv'
<1>1. CASE FreeCloses
  BY <1>1, FreshNotBusy DEF FreeCloses, AssemblyInv
<1>2. ASSUME ~FreeCloses, NEW c \in Conns
      PROVE  ~rx'[c].busy \/ rx'[c] = rx[c] \/ \E b : rx'[c] = [rx[c] EXCEPT !.spare = b]
  <2>1. CASE UNCHANGED rx
    BY <2>1
  <2>2. ASSUME NEW d \in Conns, AcceptPlayer(d) \/ ForwardExits(d) \/ CleanupStale(d)
        PROVE  ~rx'[c].busy \/ rx'[c] = rx[c]
    BY <2>2, FreshNotBusy DEF AcceptPlayer, ForwardExits, CleanupStale, StreamTypes,
                              ConnectionTypes
  <2>3. CASE HandOver
    <3>1. UNCHANGED rx \/ \E b : rx' = [rx EXCEPT ![cb.item.conn].spare = b]
      BY <2>3 DEF HandOver
    <3> QED
      BY <3>1 DEF StreamTypes, ConnectionTypes
  <2> QED
    BY <1>2, <2>1, <2>2, <2>3
       DEF Next, vars, ProviderOpens, ProviderEnds, SendChunk, PlayerPauses, PlayerLeaves, Lose, CallbackStep,
           ShutDropped, DispatchStep, DispatchTake, SendSome, SendEnds, SendStuck, Drain, FreeStops
<1>3. ASSUME ~FreeCloses, NEW c \in Conns, rx'[c].busy
      PROVE  Assembling(c, rx'[c], given', tx', net')
  <2>1. PICK r, q : r = rx[c] /\ q = rx'[c]
    OBVIOUS
  <2>2. q = r \/ \E b : q = [r EXCEPT !.spare = b]
    BY <1>2, <1>3, <2>1
  <2>3. ConnectionShape(r)
    BY <2>1 DEF StreamTypes, ConnectionTypes
  <2>4. /\ q.buf = r.buf /\ q.got = r.got /\ q.expected = r.expected /\ q.start = r.start
        /\ q.first = r.first /\ q.num = r.num
    BY <2>2, <2>3 DEF ConnectionShape, ConnectionFields
  <2>5. q.busy <=> r.busy
    BY <2>2, <2>3 DEF ConnectionShape, ConnectionFields
  <2>6. Assembling(c, r, given', tx', net')
    BY <1>3, <2>1, <2>5, AssemblingKept DEF StreamTypes, AssemblyInv
  <2>7. Assembling(c, q, given', tx', net')
    BY <2>4, <2>6 DEF Assembling
  <2> QED
    BY <2>1, <2>7
<1> QED
  BY <1>1, <1>3 DEF AssemblyInv
\* A whole frame stays whole on its way through the queue to the dispatcher.
LEMMA WholeStep ==
    ASSUME StreamTypes, PathInv, AssemblyInv, Fresh, FramesWhole, [Next]_vars
    PROVE  FramesWhole'
<1>1. /\ cb.at = "handover" => WholeFrame(cb.item)
      /\ \A x \in Members(queue) : WholeFrame(x)
      /\ disp.at = "send" => WholeFrame(disp.item)
  BY DEF FramesWhole, Members
<1> SUFFICES /\ cb'.at = "handover" => WholeFrame(cb'.item)
             /\ \A x \in Members(queue') : WholeFrame(x)
             /\ disp'.at = "send" => WholeFrame(disp'.item)
  <2>1. FramesWhole' <=> /\ cb'.at = "handover" => WholeFrame(cb'.item)
                         /\ \A i \in 1..Len(queue') : WholeFrame(queue'[i])
                         /\ disp'.at = "send" => WholeFrame(disp'.item)
    BY DEF FramesWhole, WholeFrame
  <2> QED
    BY <2>1 DEF Members
<1>2. CASE UNCHANGED <<cb, queue, disp>>
  BY <1>1, <1>2
<1>3. ASSUME NEW ch \in net, OnRecv(ch)
      PROVE  UNCHANGED <<queue, disp>> /\ (cb'.at = "handover" => WholeFrame(cb'.item))
  BY <1>3, AssemblyRecv DEF OnRecv
<1>4. CASE HandOver
  <2>1. cb.at = "handover" /\ cb.item \in Items /\ UNCHANGED disp /\ cb'.at # "handover"
    BY <1>4 DEF HandOver, StreamTypes, FrameTypes
  <2>2. UNCHANGED queue \/ queue' = Enqueued(queue, cb.item)
    BY <1>4 DEF HandOver, Enqueued
  <2>3. queue \in Seq(Items)
    BY DEF StreamTypes, FrameTypes
  <2>4. Members(Enqueued(queue, cb.item)) \subseteq Members(queue) \union {cb.item}
    BY <2>1, <2>3, EnqueuedMembers
  <2> QED
    BY <1>1, <2>1, <2>2, <2>4
<1>5. CASE ShutDropped
  BY <1>1, <1>5 DEF ShutDropped
<1>6. CASE DispatchTake
  <2>1. UNCHANGED cb
    BY <1>6 DEF DispatchTake
  <2>2. CASE /\ queue # <<>> /\ disp' = [at |-> "send", item |-> Head(queue), sent |-> 0]
             /\ queue' = Tail(queue)
    <3>1. queue \in Seq(Items) /\ Len(queue) \in Nat /\ Len(queue) # 0
      BY <2>2 DEF StreamTypes, FrameTypes
    <3>2. Tail(queue) = Rest(queue, 1) /\ Head(queue) = queue[1]
      BY <2>2, <3>1 DEF Rest
    <3>3. Members(Rest(queue, 1)) \subseteq Members(queue)
      BY <3>1, RestMembers
    <3>4. Head(queue) \in Members(queue)
      BY <3>1, <3>2 DEF Members
    <3> QED
      BY <1>1, <2>1, <2>2, <3>2, <3>3, <3>4
  <2>3. CASE disp' = [at |-> "drain"] /\ UNCHANGED queue
    BY <1>1, <2>1, <2>3
  <2> QED
    BY <1>6, <2>2, <2>3 DEF DispatchTake
<1>7. CASE SendSome
  <2>1. UNCHANGED <<cb, queue>> /\ disp.at = "send" /\ disp' = [disp EXCEPT !.sent = @ + 1]
    BY <1>7 DEF SendSome
  <2>2. disp = [at |-> "send", item |-> disp.item, sent |-> disp.sent]
    BY <2>1 DEF StreamTypes, FrameTypes
  <2>3. disp'.item = disp.item
    BY <2>1, <2>2
  <2> QED
    BY <1>1, <2>1, <2>3
<1>8. CASE SendEnds \/ SendStuck
  BY <1>1, <1>8 DEF SendEnds, SendStuck, LoopTest
<1>9. CASE Drain
  <2>1. Members(<<>>) = {}
    BY DEF Members
  <2> QED
    BY <1>1, <1>9, <2>1 DEF Drain
<1> QED
  BY <1>1, <1>2, <1>3, <1>4, <1>5, <1>6, <1>7, <1>8, <1>9
     DEF Next, vars, AcceptPlayer, ProviderOpens, ProviderEnds, SendChunk, PlayerPauses, PlayerLeaves,
         ForwardExits, CleanupStale, Lose, CallbackStep, DispatchStep, FreeStops, FreeCloses

\* The inductive invariant of the data path.
StreamInv == PathInv /\ AssemblyInv /\ FramesWhole

\* A session without players satisfies it.
LEMMA StreamInitInv == Init => StreamInv
<1> SUFFICES ASSUME Init PROVE StreamInv
  OBVIOUS
<1>1. PathInv
  <2>1. (FirstSeq + 0) % SeqSpace = FirstSeq
    BY StreamAssumption
  <2>2. ASSUME NEW c \in Conns, 1 \in Frames(c) PROVE 0 < FrameChunks[c][1]
    BY <2>2, FrameSizes, StreamAssumption
  <2> QED
    BY <2>1, <2>2 DEF Init, PathInv, NoForward
<1>2. AssemblyInv
  BY FreshNotBusy DEF Init, AssemblyInv
<1>3. FramesWhole
  BY DEF Init, FramesWhole
<1> QED
  BY <1>1, <1>2, <1>3 DEF StreamInv

\* Every step from a state whose numbers are fresh keeps it.
LEMMA StreamNextInv == ASSUME StreamTypes, StreamInv, Fresh, [Next]_vars PROVE StreamInv'
<1>1. PathInv'
  BY PathStep DEF StreamTypes, StreamInv
<1>2. AssemblyInv'
  BY AssemblyRecv, AssemblyQuiet DEF StreamInv
<1>3. FramesWhole'
  BY WholeStep DEF StreamInv
<1> QED
  BY <1>1, <1>2, <1>3 DEF StreamInv

\* Every frame that leaves on_recv_camera, waits in the queue or is being sent
\* consists of all the chunks of one frame of the camera, for any players, frames,
\* losses, doublings and reorderings, as long as the numbers do not lap a frame.
THEOREM FramesAreWhole == Spec /\ []Fresh => []FramesWhole
<1>1. StreamInv => FramesWhole
  BY DEF StreamInv
<1>2. StreamTypes /\ StreamInv /\ Fresh /\ [Next]_vars => StreamInv'
  BY StreamNextInv
<1> QED
  BY <1>1, <1>2, StreamInitInv, StreamTyped, PTL DEF Spec
\* Fresh is no more than it says: it holds as long as the session has not used up
\* the number space.
COROLLARY WholeBeforeWrap == Spec /\ [](given + BufferChunks <= SeqSpace) => []FramesWhole
<1>1. StreamTypes /\ StreamInv /\ given + BufferChunks <= SeqSpace => Fresh
  <2> SUFFICES ASSUME StreamTypes, StreamInv, given + BufferChunks <= SeqSpace,
                      NEW ch \in net, rx[ch.conn].busy
               PROVE  /\ ch.no < rx[ch.conn].first + SeqSpace
                      /\ rx[ch.conn].first + rx[ch.conn].num <= ch.no + SeqSpace
    BY DEF Fresh
  <2>1. PICK n, num : n = rx[ch.conn].first /\ num = rx[ch.conn].num
    OBVIOUS
  <2>2. ch.conn \in Conns /\ ch.no \in Nat /\ given \in Nat /\ ConnectionShape(rx[ch.conn])
    BY DEF StreamTypes, ProviderTypes, ConnectionTypes, ChunkRecords
  <2>3. ch.no < given
    BY DEF StreamInv, PathInv, CutFrom
  <2>4. n \in Nat /\ n < given /\ num = rx[ch.conn].expected
    BY <2>1, <2>2 DEF StreamInv, AssemblyInv, Assembling, Began
  <2>5. num \in 0..BufferChunks
    BY <2>2, <2>4 DEF ConnectionShape
  <2>6. ch.no < n + SeqSpace /\ n + num <= ch.no + SeqSpace
    <3>1. PICK m : m = ch.no
      OBVIOUS
    <3>2. m \in Nat /\ m < given /\ n < given /\ num <= BufferChunks
      BY <2>2, <2>3, <2>4, <2>5, <3>1, StreamAssumption
    <3>3. n \in Nat /\ num \in Nat /\ given \in Nat /\ BufferChunks \in Nat /\ SeqSpace \in Nat
      BY <2>2, <2>4, <2>5, StreamAssumption
    <3>4. m < n + SeqSpace /\ n + num <= m + SeqSpace
      BY <3>2, <3>3
    <3> QED
      BY <3>1, <3>4
  <2> QED
    BY <2>1, <2>6
<1>2. StreamTypes /\ StreamInv /\ Fresh /\ [Next]_vars => StreamInv'
  BY StreamNextInv
<1>3. StreamInv => FramesWhole
  BY DEF StreamInv
<1> QED
  BY <1>1, <1>2, <1>3, StreamInitInv, StreamTyped, PTL DEF Spec

-----------------------------------------------------------------------------
(***************************************************************************)
(* The players' streams.                                                   *)
(***************************************************************************)

\* The next part of a stream continues the frame, or follows a whole one.
Follows(p, n) ==
    \/ n.frame = p.frame /\ n.offset = p.offset + 1
    \/ p.offset + 1 = p.total /\ n.offset = 0
Unbroken(w) == \A i \in 1..(Len(w) - 1) : Follows(w[i], w[i + 1])

\* The dispatcher d is in the middle of a frame for player c.
Amid(c, d) == d.at = "send" /\ d.item.conn = c /\ d.sent > 0

\* Where a stream stops: at the last part the dispatcher sent, or at the end of a
\* frame.
StopsAt(w, c, d) ==
    w # <<>> => LET l == w[Len(w)]
                IN  /\ Amid(c, d) => /\ l.frame = d.item.buf[d.sent - 1]
                                     /\ l.offset + 1 = d.sent /\ l.total = d.item.size
                    /\ ~Amid(c, d) => l.offset + 1 = l.total

StreamsStop ==
    \A c \in Conns : ~sock[c].shut /\ ~sock[c].gone => StopsAt(sock[c].wire, c, disp)
WireInv == StreamsStop /\ \A c \in Conns : Unbroken(sock[c].wire)

\* A stream with a part appended that continues it is unbroken.
LEMMA UnbrokenPush ==
    ASSUME NEW w, NEW p, NEW v, w \in Seq(Parts), p \in Parts, v = Pushed(w, p),
           Unbroken(w), w # <<>> => Follows(w[Len(w)], p)
    PROVE  Unbroken(v) /\ Len(v) # 0 /\ v[Len(v)] = p
<1>1. PICK n : n = Len(w)
  OBVIOUS
<1>2. n \in Nat /\ (w = <<>> <=> n = 0)
  BY <1>1
<1>3. Len(v) = n + 1 /\ v[n + 1] = p /\ \A j \in 1..n : v[j] = w[j]
  BY <1>1, Appended, SMT DEF Pushed
<1>4. ASSUME NEW i \in 1..n PROVE Follows(v[i], v[i + 1])
  <2>1. CASE i = n
    <3>1. v[i] = w[n] /\ v[i + 1] = p /\ w # <<>>
      BY <1>2, <1>3, <1>4, <2>1
    <3> QED
      BY <1>1, <3>1
  <2>2. CASE i # n
    <3>1. i \in 1..(n - 1) /\ i + 1 \in 1..n
      BY <1>2, <1>4, <2>2
    <3>2. v[i] = w[i] /\ v[i + 1] = w[i + 1]
      BY <1>3, <1>4, <3>1
    <3> QED
      BY <1>1, <3>1, <3>2 DEF Unbroken
  <2> QED
    BY <2>1, <2>2
<1>5. Len(v) - 1 = n /\ Len(v) # 0
  BY <1>2, <1>3
<1> QED
  BY <1>3, <1>4, <1>5 DEF Unbroken

\* What the threads and players do to a stream besides sending: it stays as it is
\* and stays closed, or its player leaves.
LEMMA StreamQuiet ==
    ASSUME StreamTypes, [Next]_vars, ~SendSome, NEW c \in Conns
    PROVE  \/ /\ sock'[c].wire = sock[c].wire
              /\ sock[c].shut => sock'[c].shut
              /\ sock[c].gone => sock'[c].gone
           \/ sock'[c].gone /\ sock'[c].wire = <<>>
<1> USE DEF StreamTypes, SocketTypes
<1>1. CASE UNCHANGED sock
  BY <1>1
<1>2. ASSUME NEW d \in Conns, PlayerPauses(d)
      PROVE  /\ sock'[c].wire = sock[c].wire
             /\ sock'[c].shut = sock[c].shut /\ sock'[c].gone = sock[c].gone
  BY <1>2 DEF PlayerPauses
<1>3. ASSUME NEW d \in Conns, PlayerLeaves(d)
      PROVE  sock'[c] = sock[c] \/ (sock'[c].gone /\ sock'[c].wire = <<>>)
  BY <1>3 DEF PlayerLeaves
<1>4. CASE HandOver
  <2>1. UNCHANGED sock \/ \E D : sock' = [d \in Conns |-> [sock[d] EXCEPT !.dropped = @ \/ d \in D]]
    BY <1>4 DEF HandOver
  <2> QED
    BY <2>1
<1>5. CASE ShutDropped
  <2>1. sock'[c] = [sock[c] EXCEPT !.shut = @ \/ c \in cb.conns]
    BY <1>5 DEF ShutDropped
  <2>2. sock'[c].wire = sock[c].wire /\ sock'[c].gone = sock[c].gone
    BY <2>1
  <2>3. sock[c].shut => sock'[c].shut
    BY <2>1
  <2> QED
    BY <2>2, <2>3
<1>6. CASE SendStuck
  <2>1. sock'[c].wire = sock[c].wire /\ sock'[c].gone = sock[c].gone
    BY <1>6 DEF SendStuck
  <2>2. sock[c].shut => sock'[c].shut
    BY <1>6 DEF SendStuck
  <2> QED
    BY <2>1, <2>2
<1> QED
  BY <1>1, <1>2, <1>3, <1>4, <1>5, <1>6
     DEF Next, vars, AcceptPlayer, ProviderOpens, ProviderEnds, SendChunk, ForwardExits, CleanupStale, Lose,
         OnRecv, CallbackStep, DispatchStep, DispatchTake, SendEnds, Drain, FreeStops, FreeCloses
\* send() continues the frame it is in, or starts one after a whole one.
LEMMA WireSend ==
    ASSUME StreamTypes, FramesWhole, WireInv, SendSome
    PROVE  WireInv'
<1>1. PICK c, p, k, b, size : /\ c = disp.item.conn /\ p = Part(disp) /\ k = disp.sent
                              /\ b = disp.item.buf /\ size = disp.item.size
  OBVIOUS
<1>2. c \in Conns /\ p \in Parts /\ p.frame = b[k] /\ p.offset = k /\ p.total = size
  BY <1>1, PartType DEF SendSome, StreamTypes, Part
<1>3. k \in Nat /\ size \in Nat /\ k < size
  <2>1. disp.item \in Items /\ disp.sent \in 0..disp.item.size
    BY DEF SendSome, StreamTypes, FrameTypes
  <2> QED
    BY <1>1, <2>1, StreamAssumption DEF Items, SendSome
<1>4. PICK f : \A j \in 0..(size - 1) : b[j] = f
  BY <1>1 DEF SendSome, FramesWhole, WholeFrame
<1>5. disp.at = "send" /\ ~sock[c].shut /\ ~sock[c].gone
  BY <1>1 DEF SendSome
<1>6. PICK w, v : w = sock[c].wire /\ v = Pushed(w, p)
  OBVIOUS
<1>7. w \in Seq(Parts) /\ Unbroken(w) /\ StopsAt(w, c, disp)
  BY <1>2, <1>5, <1>6 DEF StreamTypes, SocketTypes, WireInv, StreamsStop
<1>8. ASSUME w # <<>> PROVE Follows(w[Len(w)], p)
  <2>1. PICK l : l = w[Len(w)]
    OBVIOUS
  <2>2. CASE k = 0
    <3>1. ~Amid(c, disp)
      BY <1>1, <2>2 DEF Amid
    <3> QED
      BY <1>2, <1>7, <1>8, <2>2, <3>1 DEF StopsAt, Follows
  <2>3. CASE k # 0
    <3>1. Amid(c, disp)
      BY <1>1, <1>3, <1>5, <2>3 DEF Amid
    <3>2. l.frame = b[k - 1] /\ l.offset + 1 = k
      BY <1>1, <1>7, <1>8, <2>1, <3>1 DEF StopsAt
    <3>3. b[k - 1] = f /\ b[k] = f
      BY <1>3, <1>4, <2>3
    <3> QED
      BY <1>2, <2>1, <3>2, <3>3 DEF Follows
  <2> QED
    BY <2>2, <2>3
<1>9. Unbroken(v) /\ Len(v) # 0 /\ v[Len(v)] = p
  BY <1>2, <1>6, <1>7, <1>8, UnbrokenPush
<1>10. disp' = [at |-> "send", item |-> disp.item, sent |-> k + 1]
  <2>1. /\ disp = [at |-> "send", item |-> disp.item, sent |-> disp.sent]
        /\ disp' = [disp EXCEPT !.sent = @ + 1]
    BY <1>5 DEF SendSome, StreamTypes, FrameTypes
  <2> QED
    BY <1>1, <2>1
<1>11. sock'[c].wire = v /\ \A d \in Conns : d # c => sock'[d] = sock[d]
  <2>1. sock' = [sock EXCEPT ![c].wire = Pushed(@, p)]
    BY <1>1 DEF SendSome, Part, Pushed
  <2> QED
    BY <1>2, <1>6, <2>1 DEF StreamTypes, SocketTypes
<1>12. StopsAt(v, c, disp')
  <2>1. disp'.at = "send" /\ disp'.item = disp.item /\ disp'.sent = k + 1
    BY <1>10
  <2>2. k + 1 > 0 /\ (k + 1) - 1 = k
    BY <1>3
  <2>3. Amid(c, disp')
    BY <1>1, <2>1, <2>2 DEF Amid
  <2>4. /\ p.frame = disp'.item.buf[disp'.sent - 1]
        /\ p.offset + 1 = disp'.sent /\ p.total = disp'.item.size
    BY <1>1, <1>2, <2>1, <2>2
  <2> QED
    BY <1>9, <2>3, <2>4 DEF StopsAt
<1>13. ASSUME NEW d \in Conns, d # c PROVE ~Amid(d, disp) /\ ~Amid(d, disp')
  BY <1>1, <1>10, <1>13 DEF Amid
<1>14. ASSUME NEW d \in Conns, ~sock'[d].shut, ~sock'[d].gone PROVE StopsAt(sock'[d].wire, d, disp')
  <2>1. CASE d = c
    BY <1>11, <1>12, <2>1
  <2>2. CASE d # c
    <3>1. StopsAt(sock[d].wire, d, disp) /\ sock'[d].wire = sock[d].wire
      BY <1>11, <1>14, <2>2 DEF WireInv, StreamsStop
    <3> QED
      BY <1>13, <2>2, <3>1 DEF StopsAt
  <2> QED
    BY <2>1, <2>2
<1>15. ASSUME NEW d \in Conns PROVE Unbroken(sock'[d].wire)
  BY <1>9, <1>11 DEF WireInv
<1> QED
  BY <1>14, <1>15 DEF WireInv, StreamsStop, StopsAt, Unbroken

\* The dispatcher leaves a frame for player c at its end, or with the socket shut
\* or gone; every other step keeps it where it is in the stream.
LEMMA StopKept ==
    ASSUME StreamTypes, FramesWhole, [Next]_vars, ~SendSome, NEW c \in Conns,
           ~sock[c].shut, ~sock[c].gone, ~sock'[c].shut, NEW w, StopsAt(w, c, disp)
    PROVE  StopsAt(w, c, disp')
<1>1. CASE UNCHANGED disp
  BY <1>1
<1>2. ASSUME ~Amid(c, disp), ~Amid(c, disp') PROVE StopsAt(w, c, disp')
  BY <1>2 DEF StopsAt
<1>3. CASE DispatchTake
  <2>1. ~Amid(c, disp)
    BY <1>3 DEF DispatchTake, Amid
  <2>2. disp'.at = "drain" \/ disp'.sent = 0
    BY <1>3 DEF DispatchTake
  <2>3. ~Amid(c, disp')
    BY <2>2 DEF Amid
  <2> QED
    BY <1>2, <2>1, <2>3
<1>4. CASE Drain
  <2>1. ~Amid(c, disp) /\ ~Amid(c, disp')
    BY <1>4 DEF Drain, Amid
  <2> QED
    BY <1>2, <2>1
<1>5. CASE SendEnds
  <2>1. ~Amid(c, disp')
    BY <1>5 DEF SendEnds, LoopTest, Amid
  <2>2. CASE Amid(c, disp)
    <3>1. disp.sent = disp.item.size
      BY <1>5, <2>2 DEF SendEnds, Amid
    <3> QED
      BY <2>1, <2>2, <3>1 DEF StopsAt
  <2>3. CASE ~Amid(c, disp)
    BY <1>2, <2>1, <2>3
  <2> QED
    BY <2>2, <2>3
<1>6. CASE SendStuck
  <2>1. ~Amid(c, disp')
    BY <1>6 DEF SendStuck, LoopTest, Amid
  <2>2. disp.item.conn # c
    BY <1>6 DEF SendStuck, StreamTypes, SocketTypes
  <2>3. ~Amid(c, disp)
    BY <2>2 DEF Amid
  <2> QED
    BY <1>2, <2>1, <2>3
<1> QED
  BY <1>1, <1>3, <1>4, <1>5, <1>6
     DEF Next, vars, AcceptPlayer, ProviderOpens, ProviderEnds, SendChunk, PlayerPauses, PlayerLeaves,
         ForwardExits, CleanupStale, Lose, OnRecv, CallbackStep, HandOver, ShutDropped, DispatchStep, FreeStops, FreeCloses

\* The streams stay unbroken.
LEMMA WireStep ==
    ASSUME StreamTypes, FramesWhole, WireInv, [Next]_vars
    PROVE  WireInv'
<1>1. CASE SendSome
  BY <1>1, WireSend
<1>2. CASE ~SendSome
  <2>1. Unbroken(<<>>) /\ \A c, d : StopsAt(<<>>, c, d)
    BY DEF Unbroken, StopsAt
  <2>2. ASSUME NEW c \in Conns PROVE Unbroken(sock'[c].wire)
    BY <1>2, <2>1, StreamQuiet DEF WireInv
  <2>3. ASSUME NEW c \in Conns, ~sock'[c].shut, ~sock'[c].gone PROVE StopsAt(sock'[c].wire, c, disp')
    <3>1. sock'[c].wire = sock[c].wire /\ ~sock[c].shut /\ ~sock[c].gone
      BY <1>2, <2>3, StreamQuiet
    <3>2. PICK w : w = sock[c].wire
      OBVIOUS
    <3>3. StopsAt(w, c, disp)
      BY <3>1, <3>2 DEF WireInv, StreamsStop
    <3>4. StopsAt(w, c, disp')
      BY <1>2, <2>3, <3>1, <3>3, StopKept
    <3> QED
      BY <3>1, <3>2, <3>4
  <2> QED
    BY <2>2, <2>3 DEF WireInv, StreamsStop, StopsAt, Unbroken
<1> QED
  BY <1>1, <1>2

\* On a player's socket a frame sent in part is the last thing sent, for any
\* players, frames, queue and failures, as long as the numbers do not lap a frame.
THEOREM TornFrameIsLast == Spec /\ []Fresh => []TornIsLast
<1>1. Init => WireInv
  <2> SUFFICES ASSUME Init, NEW c \in Conns PROVE sock[c].wire = <<>>
    BY DEF WireInv, StreamsStop, StopsAt, Unbroken
  <2> QED
    BY DEF Init
<1>2. StreamTypes /\ FramesWhole /\ WireInv /\ [Next]_vars => WireInv'
  BY WireStep
<1>3. WireInv => TornIsLast
  BY DEF WireInv, Unbroken, Follows, TornIsLast
<1> QED
  BY <1>1, <1>2, <1>3, FramesAreWhole, StreamTyped, PTL DEF Spec
=============================================================================
