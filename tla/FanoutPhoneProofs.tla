------------------------- MODULE FanoutPhoneProofs -------------------------
(***************************************************************************)
(* Proofs about the phone viewer bridge, for any number of viewers, any    *)
(* sizes of the ring, the cache and the table, and streams of any length:  *)
(* a failed bootstrap releases every socket, and for the clients that keep *)
(* up the bridge implements StreamFanout.                                  *)
(***************************************************************************)
EXTENDS FanoutPhone, FlvRingProofs

-----------------------------------------------------------------------------
\* The sockets main holds at each step of the bootstrap.
Holding ==
    /\ main \in {"args", "udp", "rendezvous", "failed"} => held = {}
    /\ main \in {"stun", "signaling"} => held = {"udp"}
    /\ main \in {"request", "reply"} => held = {"udp", "sig"}
    /\ main = "http" => held = {"srt"}

\* A client c, in a stream of t bytes with l of them cached, is at a place
\* of the stream; what it received, if it keeps up, is the stream up to
\* Reached: the cursor counts only once all of the cache is out.
Reached(c) == IF c.hdrSent THEN c.cursor ELSE c.hdrOff
Placed(c, t, l) ==
    /\ c.hdrOff \leq l /\ c.cursor \leq t
    /\ ~c.hdrSent => c.cursor \leq l

Distinct(q) == \A i, j \in DOMAIN q : q[i].v = q[j].v => i = j

Types ==
    /\ session \in Nat /\ total \in 0..MaxTotal
    /\ clients \in Seq(Client) /\ Len(clients) \leq MaxHttpClients
    /\ DOMAIN got = Viewers /\ joined \in [Viewers -> 0..MaxTotal]
    /\ conn \in [Viewers -> {"none", "handshake", "open", "closed"}]
Table ==
    /\ Distinct(clients)
    /\ Members = {v \in Viewers : conn[v] = "open"}
    /\ \A v \in Viewers \ Members : got[v] = <<>>
    /\ main # "exited" => lagged \subseteq Members
Stream == CacheHolds /\ RingHolds
Following ==
    \A i \in DOMAIN clients :
        /\ Placed(clients[i], total, Len(header))
        /\ clients[i].v \notin lagged
             => got[clients[i].v] = Slice(session, 0, Reached(clients[i]))
\* Nothing is streamed before the threads are started.
Quiet == main \notin {"joinSrt", "joinHttp", "exited"} => total = 0 /\ clients = <<>>

Inductive == Types /\ Table /\ Stream /\ Following /\ Quiet

-----------------------------------------------------------------------------
\* Every failure path of the bootstrap closes exactly what is held at that
\* point, so a failed start leaves no socket and SRT finds the port free.
THEOREM FailedStartReleases == Spec => []BootstrapReleases
<1>1. Init => Holding
  BY DEF Init, Holding
<1>2. Holding /\ [Next]_vars => Holding'
  <2> SUFFICES ASSUME Holding, [Next]_vars PROVE Holding'
    OBVIOUS
  <2> USE DEF Holding
  <2>1. CASE UNCHANGED vars
    BY <2>1 DEF vars, control
  <2>2. CASE Bootstrap
    <3>1. CASE ParseArgs
      BY <3>1 DEF ParseArgs, Goes
    <3>2. CASE AllocateUdp
      BY <3>2 DEF AllocateUdp, Goes
    <3>3. CASE Discover
      BY <3>3 DEF Discover, Goes
    <3>4. CASE ConnectSignaling
      BY <3>4 DEF ConnectSignaling, Goes
    <3>5. CASE SendRequest
      BY <3>5 DEF SendRequest, Goes
    <3>6. CASE AwaitProvider
      BY <3>6 DEF AwaitProvider, Goes
    <3>7. CASE Rendezvous
      BY <3>7 DEF Rendezvous, Goes
    <3>8. CASE ListenFails
      BY <3>8 DEF ListenFails, Goes
    <3>9. CASE StartThreads
      BY <3>9 DEF StartThreads
    <3> QED
      BY <2>2, <3>1, <3>2, <3>3, <3>4, <3>5, <3>6, <3>7, <3>8, <3>9 DEF Bootstrap
  <2>3. CASE on_signal
    BY <2>3 DEF on_signal
  <2>4. CASE JoinSrt
    BY <2>4 DEF JoinSrt
  <2>5. CASE JoinHttp
    BY <2>5 DEF JoinHttp
  <2>6. CASE Receive
    BY <2>6 DEF Receive
  <2>7. CASE RecvEnds
    BY <2>7 DEF RecvEnds
  <2>8. CASE CloseAll
    BY <2>8 DEF CloseAll
  <2>9. ASSUME NEW v \in Viewers, AcceptHttp(v) \/ Reject(v) \/ Install(v) PROVE Holding'
    BY <2>9 DEF AcceptHttp, Reject, Install
  <2> QED
    BY <2>1, <2>2, <2>3, <2>4, <2>5, <2>6, <2>7, <2>8, <2>9 DEF Next
<1>3. Holding => BootstrapReleases
  BY DEF Holding, BootstrapReleases
<1> QED
  BY <1>1, <1>2, <1>3, PTL DEF Spec

-----------------------------------------------------------------------------
\* At the start there is no stream and nobody is served.
LEMMA StartsInductive == Init => Inductive
<1> SUFFICES ASSUME Init PROVE Inductive
  OBVIOUS
<1> USE RingAssumption DEF Init, RingInit
<1>1. Types
  BY DEF Types
<1>2. Table
  BY DEF Table, Distinct, Members
<1>3. Stream
  <2>1. Least(0, HeaderCacheSize) = 0
    BY DEF Least
  <2>2. 0 \in Nat
    OBVIOUS
  <2>3. CacheHolds
    BY <2>1, <2>2, SliceNothing DEF CacheHolds
  <2>4. RingHolds
    BY DEF RingHolds
  <2> QED
    BY <2>3, <2>4 DEF Stream
<1>4. Following /\ Quiet
  BY DEF Following, Quiet
<1> QED
  BY <1>1, <1>2, <1>3, <1>4 DEF Inductive

\* Steps that leave the table alone and the stream, except that the threads
\* are started before there is any.
Late == {"joinSrt", "joinHttp", "exited"}
Aside ==
    /\ UNCHANGED <<total, buf, header, clients, got, joined, lagged>>
    /\ \/ session' = session
       \/ session' = 1 /\ total = 0 /\ clients = <<>>
    /\ conn' \in [Viewers -> {"none", "handshake", "open", "closed"}]
    /\ \A v \in Viewers : conn'[v] = "open" <=> conn[v] = "open"
    /\ main = "exited" => main' = "exited"
    /\ main \in Late => main' \in Late

\* Steps that leave the stream and the table alone.
LEMMA AsidePreserves ==
    ASSUME Inductive, Aside
    PROVE  Inductive'
<1>1. /\ total' = total /\ buf' = buf /\ header' = header /\ clients' = clients /\ got' = got
      /\ joined' = joined /\ lagged' = lagged
  BY DEF Aside
<1>2. Types'
  BY <1>1 DEF Inductive, Types, Aside
<1>3. Table'
  <2>1. Members' = Members
    BY <1>1 DEF Members
  <2>2. {v \in Viewers : conn'[v] = "open"} = {v \in Viewers : conn[v] = "open"}
    BY DEF Aside
  <2>3. main' # "exited" => main # "exited"
    BY DEF Aside
  <2> QED
    BY <1>1, <2>1, <2>2, <2>3 DEF Inductive, Table
<1>4. Stream' /\ Following'
  <2>1. CASE session' = session
    BY <1>1, <2>1 DEF Inductive, Stream, Following, CacheHolds, RingHolds
  <2>2. CASE session' = 1 /\ total = 0 /\ clients = <<>>
    <3>1. Least(0, HeaderCacheSize) = 0 /\ 0 \in Nat /\ 1 \in Nat /\ session \in Nat
      BY RingAssumption DEF Least, Inductive, Types
    <3>2. Slice(session, 0, 0) = <<>> /\ Slice(1, 0, 0) = <<>>
      BY <3>1, SliceNothing
    <3>3. CacheHolds'
      BY <1>1, <2>2, <3>1, <3>2 DEF Inductive, Stream, CacheHolds
    <3>4. RingHolds'
      BY <1>1, <2>2 DEF RingHolds
    <3>5. Following'
      BY <1>1, <2>2 DEF Following
    <3> QED
      BY <3>3, <3>4, <3>5 DEF Stream
  <2> QED
    BY <2>1, <2>2 DEF Aside
<1>5. Quiet'
  BY <1>1 DEF Inductive, Quiet, Aside, Late
<1> QED
  BY <1>2, <1>3, <1>4, <1>5 DEF Inductive

\* main's cleanup and the receiver's: nobody is served any more.
Emptied ==
    /\ clients' = <<>> /\ got' = [v \in Viewers |-> <<>>]
    /\ conn' \in [Viewers -> {"none", "handshake", "open", "closed"}]
    /\ \A v \in Viewers : conn'[v] # "open"
    /\ UNCHANGED <<session, total, buf, header, joined>>
    /\ lagged' = {} \/ main' = "exited"
    /\ main' \in Late

\* The end of the receiver or of main empties the table.
LEMMA EmptiedPreserves ==
    ASSUME Inductive, Emptied
    PROVE  Inductive'
<1>1. /\ total' = total /\ buf' = buf /\ header' = header /\ session' = session /\ joined' = joined
      /\ clients' = <<>> /\ got' = [v \in Viewers |-> <<>>]
  BY DEF Emptied
<1>2. Types'
  BY <1>1, RingAssumption DEF Inductive, Types, Emptied
<1>3. Table'
  <2>1. Members' = {}
    BY <1>1 DEF Members
  <2>2. Distinct(clients')
    BY <1>1 DEF Distinct
  <2>3. {v \in Viewers : conn'[v] = "open"} = {}
    BY DEF Emptied
  <2>4. main' # "exited" => lagged' \subseteq {}
    BY DEF Emptied
  <2> QED
    BY <1>1, <2>1, <2>2, <2>3, <2>4 DEF Table
<1>4. Stream'
  BY <1>1 DEF Inductive, Stream, CacheHolds, RingHolds
<1>5. Following'
  BY <1>1 DEF Following
<1>6. Quiet'
  BY DEF Quiet, Emptied, Late
<1> QED
  BY <1>2, <1>3, <1>4, <1>5, <1>6 DEF Inductive

\* Install: a new client begins with the cache, nothing sent to it yet.
LEMMA InstallPreserves ==
    ASSUME Inductive, NEW v \in Viewers, Install(v), Len(clients) < MaxHttpClients
    PROVE  Inductive'
<1> DEFINE c == Fresh(v, Len(header))
           n == Len(clients)
<1>1. /\ conn' = [conn EXCEPT ![v] = "open"] /\ clients' = Append(clients, c)
      /\ joined' = [joined EXCEPT ![v] = total]
      /\ conn[v] = "handshake" /\ UNCHANGED <<session, total, buf, header, got, lagged, main>>
      /\ main \in {"joinSrt", "joinHttp"}
  <2>1. n \in Nat
    BY DEF Inductive, Types
  <2>2. ~(n \geq MaxHttpClients)
    BY <2>1, RingAssumption
  <2> QED
    BY <2>2 DEF Install, Running
<1>2. total \in Nat /\ session \in Nat /\ 0 \in Nat
  BY DEF Inductive, Types
<1>3. Len(header) = Least(total, HeaderCacheSize) /\ Len(header) \in Nat
  <2>1. Least(total, HeaderCacheSize) \in Nat
    BY <1>2, RingAssumption DEF Least
  <2>2. header = Slice(session, 0, Least(total, HeaderCacheSize))
    BY DEF Inductive, Stream, CacheHolds
  <2> QED
    BY <1>2, <2>1, <2>2, SliceSeq
<1>4. Len(header) \leq total /\ Len(header) \leq MaxTotal
  <2>1. total \leq MaxTotal
    BY DEF Inductive, Types
  <2> QED
    BY <1>2, <1>3, <2>1, RingAssumption DEF Least
<1>5. c \in Client /\ c.v = v /\ c.cursor = Len(header) /\ c.hdrSent = FALSE /\ c.hdrOff = 0
  <2>1. Len(header) \in 0..MaxTotal /\ 0 \in 0..HeaderCacheSize
    BY <1>3, <1>4, RingAssumption
  <2> QED
    BY <2>1 DEF Fresh, Client
<1> HIDE DEF c
<1>6. /\ n \in Nat /\ DOMAIN clients = 1..n
      /\ Len(clients') = n + 1 /\ DOMAIN clients' = 1..(n + 1)
      /\ clients'[n + 1] = c /\ \A i \in 1..n : clients'[i] = clients[i]
      /\ clients' \in Seq(Client)
  BY <1>1, <1>5 DEF Inductive, Types
<1>7. Types'
  <2>1. n + 1 \leq MaxHttpClients
    BY <1>6, RingAssumption
  <2> HIDE DEF n
  <2> QED
    BY <1>1, <1>6, <2>1 DEF Inductive, Types
<1> HIDE DEF n
<1>8. v \notin Members /\ got[v] = <<>> /\ lagged \subseteq Members
  BY <1>1 DEF Inductive, Table
<1>9. Table'
  <2>1. Members' = Members \union {v}
    BY <1>5, <1>6 DEF Members
  <2>2. Distinct(clients')
    <3>1. \A i \in 1..n : clients[i].v # v
      BY <1>6, <1>8 DEF Members
    <3>2. \A i, j \in 1..n : clients[i].v = clients[j].v => i = j
      BY <1>6 DEF Inductive, Table, Distinct
    <3>3. \A i, j \in 1..(n + 1) : clients'[i].v = clients'[j].v => i = j
      BY <1>5, <1>6, <3>1, <3>2
    <3> QED
      BY <1>6, <3>3 DEF Distinct
  <2>3. {u \in Viewers : conn'[u] = "open"} = {u \in Viewers : conn[u] = "open"} \union {v}
    BY <1>1 DEF Inductive, Types
  <2> QED
    BY <1>1, <1>8, <2>1, <2>2, <2>3 DEF Inductive, Table
<1>10. Stream'
  BY <1>1 DEF Inductive, Stream, CacheHolds, RingHolds
<1>11. Following'
  <2> SUFFICES ASSUME NEW i \in 1..(n + 1)
               PROVE  /\ Placed(clients'[i], total, Len(header))
                      /\ clients'[i].v \notin lagged
                           => got[clients'[i].v] = Slice(session, 0, Reached(clients'[i]))
    BY <1>1, <1>6 DEF Following
  <2>1. CASE i = n + 1
    <3>1. Placed(c, total, Len(header))
      BY <1>3, <1>4, <1>5 DEF Placed
    <3>2. Reached(c) = 0
      BY <1>5 DEF Reached
    <3>3. Slice(session, 0, 0) = <<>>
      BY <1>2, SliceNothing
    <3> QED
      BY <2>1, <1>5, <1>6, <1>8, <3>1, <3>2, <3>3
  <2>2. CASE i \in 1..n
    BY <2>2, <1>6 DEF Inductive, Following
  <2> QED
    BY <2>1, <2>2, <1>6
<1>12. Quiet'
  BY <1>1 DEF Quiet
<1> QED
  BY <1>7, <1>9, <1>10, <1>11, <1>12 DEF Inductive

-----------------------------------------------------------------------------
\* One client, drained after a message.  If it kept up so far and none of what it
\* is sent was overwritten it keeps up: the cache ends where the ring begins.
LEMMA DrainFollows ==
    ASSUME Inductive, NEW n \in 1..MaxMsg, total + n \leq MaxTotal, session' = session,
           header' = CacheHeader(Message(n)), buf' = RingWrite(Message(n)), total' = total + n,
           NEW k \in DOMAIN clients, NEW room \in Nat
    PROVE  /\ Drained(clients[k], room, Continue) \in Client
           /\ Drained(clients[k], room, Continue).v = clients[k].v
           /\ Placed(Drained(clients[k], room, Continue), total', Len(header'))
           /\ clients[k].v \notin lagged /\ ~ReadsOverwritten(clients[k], room)
                => /\ Sent(clients[k], room, Continue) \in Seq(Nat \X Nat)
                   /\ got[clients[k].v] \in Seq(Nat \X Nat)
                   /\ Cat(got[clients[k].v], Sent(clients[k], room, Continue))
                        = Slice(session, 0, Reached(Drained(clients[k], room, Continue)))
<1> DEFINE c == clients[k]
           hl == Least(total + n, HeaderCacheSize)
           D == Drained(c, room, Continue)
           p == Place(c, room, Continue)
<1>1. /\ total \in Nat /\ session \in Nat /\ CacheHolds /\ RingHolds /\ n \in Nat
      /\ HeaderCacheSize \in Nat /\ MaxTotal \in Nat
  BY RingAssumption DEF Inductive, Types, Stream
<1>2. /\ header' = Slice(session, 0, hl) /\ Len(header') = hl
      /\ Len(header) = Least(total, HeaderCacheSize)
  BY <1>1, CacheHoldsAfter
<1>3. RingHolds'
  BY <1>1, RingHoldsAfter
<1>4. hl \in Nat /\ hl \leq HeaderCacheSize /\ Len(header) \leq hl /\ hl \leq total + n /\ Len(header) \in Nat
  BY <1>1, <1>2 DEF Least
<1>5. c \in Client
  BY DEF Inductive, Types
<1>6. Placed(c, total, Len(header)) /\ (c.v \notin lagged => got[c.v] = Slice(session, 0, Reached(c)))
  BY DEF Inductive, Following
<1> HIDE DEF c, hl
<1>7. c.v \in Viewers /\ c.cursor \in 0..MaxTotal /\ c.hdrOff \in 0..HeaderCacheSize
  BY <1>5 DEF Client
<1>8. c.hdrSent \in BOOLEAN
  BY <1>5 DEF Client
<1>9. /\ c.cursor \in Nat /\ c.hdrOff \in Nat /\ c.hdrOff \leq hl /\ c.cursor \leq total + n
      /\ ~c.hdrSent => c.cursor \leq hl
  <2>1. c.hdrOff \leq Len(header) /\ c.cursor \leq total
    BY <1>6 DEF Placed
  <2>2. ~c.hdrSent => c.cursor \leq Len(header)
    BY <1>6 DEF Placed
  <2>3. c.cursor \in Nat /\ c.hdrOff \in Nat /\ c.hdrOff \leq hl /\ c.cursor \leq total + n
    BY <2>1, <1>1, <1>4, <1>7
  <2>4. c.cursor \leq Len(header) => c.cursor \leq hl
    BY <1>4, <2>3
  <2> QED
    BY <2>2, <2>3, <2>4
<1>10. /\ c.hdrSent \/ ~ReplayDone(c, room) => p = c.cursor
       /\ ~c.hdrSent /\ ReplayDone(c, room) => p = hl
  <2>1. Continue[<<c.cursor, hl>>] = IF c.cursor < hl THEN hl ELSE c.cursor
    BY <1>4, <1>7 DEF Continue
  <2>2. ~c.hdrSent => Continue[<<c.cursor, hl>>] = hl
    BY <2>1, <1>4, <1>9
  <2> QED
    BY <1>2, <2>2 DEF Place
<1>11. p \in Nat /\ p \leq total + n
  BY <1>1, <1>4, <1>8, <1>9, <1>10
<1> HIDE DEF p
<1>12. PICK r \in Nat, f \in Nat :
             /\ r = Replayed(c, room) /\ f = FromRing(c, room, Continue)
             /\ c.hdrOff + r \leq hl /\ p + f \leq total'
             /\ c.hdrSent => r = 0
             /\ ReplayDone(c, room) <=> (c.hdrSent \/ c.hdrOff + r = hl)
             /\ ~ReplayDone(c, room) => f = 0
             /\ f = 0 \/ total' - p \leq Cap
                  => Sent(c, room, Continue) = Cat(Slice(session, c.hdrOff, r), Slice(session, p, f))
  <2>1. total' \in Nat /\ p \leq total' /\ p = Place(c, room, Continue)
    BY <1>1, <1>11 DEF p
  <2>2. /\ session \in Nat /\ session' = session /\ hl \in Nat /\ RingHolds' /\ p \in Nat
        /\ header' = Slice(session, 0, hl)
        /\ c.hdrOff \in Nat /\ c.hdrOff \leq hl /\ c.hdrSent \in BOOLEAN
    BY <1>1, <1>2, <1>3, <1>4, <1>8, <1>9, <1>11
  <2> QED
    BY <2>1, <2>2, DrainIs
<1>13. /\ D.v = c.v /\ D.cursor = p + f /\ D.hdrSent = ReplayDone(c, room)
       /\ D.hdrOff = c.hdrOff + r
       /\ D = [v |-> c.v, cursor |-> D.cursor, hdrSent |-> D.hdrSent, hdrOff |-> D.hdrOff]
  <2>1. c \in [v : Viewers, cursor : 0..MaxTotal, hdrSent : BOOLEAN, hdrOff : 0..HeaderCacheSize]
    BY <1>5 DEF Client
  <2>2. /\ D.v = c.v /\ D.cursor = Place(c, room, Continue) + FromRing(c, room, Continue)
        /\ D.hdrSent = ReplayDone(c, room) /\ D.hdrOff = c.hdrOff + Replayed(c, room)
        /\ D = [v |-> c.v, cursor |-> D.cursor, hdrSent |-> D.hdrSent, hdrOff |-> D.hdrOff]
    <3> HIDE DEF D
    <3> QED
      BY <2>1, DrainedFields DEF D
  <2> HIDE DEF D
  <2> QED
    BY <2>2, <1>12 DEF p
<1> HIDE DEF D
<1>14. /\ r \in Nat /\ f \in Nat /\ c.hdrOff + r \leq hl /\ p + f \leq total + n
       /\ D.cursor = p + f /\ D.hdrOff = c.hdrOff + r
  BY <1>12, <1>13
<1>15. D \in Client
  <2>1. D.cursor \in 0..MaxTotal /\ D.hdrOff \in 0..HeaderCacheSize
    BY <1>1, <1>4, <1>9, <1>11, <1>14
  <2>2. D.hdrSent \in BOOLEAN
    BY <1>13 DEF ReplayDone
  <2> QED
    BY <1>7, <1>13, <2>1, <2>2 DEF Client
<1>16. Placed(D, total', Len(header'))
  <2>1. D.hdrOff \leq Len(header') /\ D.cursor \leq total'
    <3>1. Len(header') = hl /\ total' = total + n
      BY <1>2
    <3> QED
      BY <3>1, <1>14
  <2>2. ~D.hdrSent => D.cursor \leq Len(header')
    <3>1. ASSUME ~D.hdrSent PROVE D.cursor \leq hl
      <4>1. ~ReplayDone(c, room) /\ ~c.hdrSent
        BY <3>1, <1>12, <1>13
      <4>2. f = 0 /\ p = c.cursor /\ c.cursor \leq hl
        BY <4>1, <1>9, <1>10, <1>12
      <4> QED
        BY <4>2, <1>9, <1>14
    <3>2. Len(header') = hl
      BY <1>2
    <3> QED
      BY <3>1, <3>2
  <2> QED
    BY <2>1, <2>2 DEF Placed
<1>17. ASSUME c.v \notin lagged, ~ReadsOverwritten(c, room)
       PROVE  /\ Sent(c, room, Continue) \in Seq(Nat \X Nat) /\ got[c.v] \in Seq(Nat \X Nat)
              /\ Cat(got[c.v], Sent(c, room, Continue)) = Slice(session, 0, Reached(D))
  <2> DEFINE e == Reached(c)
             u == e + r
             w == r + f
             z == e + w
  <2>1. e \in Nat /\ u \in Nat /\ w \in Nat /\ z \in Nat
    BY <1>8, <1>9, <1>14 DEF Reached
  <2>2. got[c.v] = Slice(session, 0, e)
    BY <1>6, <1>17
  <2>3. f = 0 \/ total' - p \leq Cap
    <3>1. ~(f > 0 /\ total' - p > Cap)
      BY <1>12, <1>17 DEF ReadsOverwritten, p
    <3>2. total' \in Nat /\ Cap \in Nat
      BY <1>1, RingAssumption
    <3> QED
      BY <3>1, <3>2, <1>11, <1>14
  <2>4. Sent(c, room, Continue) = Cat(Slice(session, c.hdrOff, r), Slice(session, p, f))
    BY <2>3, <1>12
  <2>5. Slice(session, c.hdrOff, r) = Slice(session, e, r)
    <3>1. CASE c.hdrSent
      <4>1. r = 0
        BY <3>1, <1>12
      <4>2. Slice(session, c.hdrOff, 0) = <<>> /\ Slice(session, e, 0) = <<>>
        BY <1>1, <1>9, <2>1, SliceNothing
      <4> QED
        BY <4>1, <4>2
    <3>2. CASE ~c.hdrSent
      BY <3>2 DEF Reached
    <3> QED
      BY <3>1, <3>2
  <2>6. Slice(session, p, f) = Slice(session, u, f) /\ Reached(D) = z
    <3>1. CASE c.hdrSent
      <4>1. r = 0 /\ p = c.cursor /\ e = c.cursor /\ ReplayDone(c, room)
        BY <3>1, <1>10, <1>12 DEF Reached
      <4>2. D.hdrSent
        BY <4>1, <1>13
      <4>3. Reached(D) = D.cursor
        BY <4>2 DEF Reached
      <4>4. p = u
        BY <4>1, <2>1
      <4>5. Reached(D) = z
        BY <4>1, <4>3, <2>1, <1>9, <1>14
      <4> QED
        BY <4>4, <4>5
    <3>2. CASE ~c.hdrSent /\ ReplayDone(c, room)
      <4>1. p = hl /\ e = c.hdrOff /\ c.hdrOff + r = hl
        BY <3>2, <1>10, <1>12 DEF Reached
      <4>2. D.hdrSent
        BY <3>2, <1>13
      <4>3. Reached(D) = D.cursor
        BY <4>2 DEF Reached
      <4>4. p = u
        BY <4>1
      <4>5. Reached(D) = z
        BY <4>1, <4>3, <1>9, <1>14
      <4> QED
        BY <4>4, <4>5
    <3>3. CASE ~ReplayDone(c, room)
      <4>1. f = 0 /\ ~c.hdrSent
        BY <3>3, <1>12
      <4>2. ~D.hdrSent
        BY <3>3, <1>13
      <4>3. Reached(D) = D.hdrOff /\ e = c.hdrOff
        BY <4>1, <4>2 DEF Reached
      <4>4. Slice(session, p, 0) = <<>> /\ Slice(session, u, 0) = <<>>
        BY <1>1, <1>11, <2>1, SliceNothing
      <4>5. Reached(D) = z
        BY <4>1, <4>3, <1>9, <1>14
      <4> QED
        BY <4>1, <4>4, <4>5
    <3> QED
      BY <3>1, <3>2, <3>3
  <2>7. u = e + r /\ w = r + f /\ z = e + w
    OBVIOUS
  <2> HIDE DEF e, u, w, z
  <2>8. Cat(Slice(session, e, r), Slice(session, u, f)) = Slice(session, e, w)
    BY <2>1, <2>7, <1>1, SliceConcat
  <2>9. Cat(Slice(session, 0, e), Slice(session, e, w)) = Slice(session, 0, z)
    <3>1. 0 \in Nat /\ e = 0 + e
      BY <2>1
    <3> QED
      BY <2>1, <2>7, <3>1, <1>1, SliceConcat
  <2>10. Sent(c, room, Continue) = Slice(session, e, w)
    BY <2>4, <2>5, <2>6, <2>8
  <2>11. Slice(session, e, w) \in Seq(Nat \X Nat) /\ Slice(session, 0, e) \in Seq(Nat \X Nat)
    <3>1. 0 \in Nat
      OBVIOUS
    <3> QED
      BY <2>1, <3>1, <1>1, SliceSeq
  <2>12. Cat(got[c.v], Sent(c, room, Continue)) = Slice(session, 0, Reached(D))
    BY <2>2, <2>6, <2>9, <2>10
  <2> QED
    BY <2>2, <2>10, <2>11, <2>12
<1> QED
  BY <1>13, <1>15, <1>16, <1>17 DEF D, c

\* A message: whoever still keeps up kept up before and received more.
LEMMA ReceiveEffects ==
    ASSUME Inductive, Receive
    PROVE  /\ Inductive'
           /\ session' = session /\ joined' = joined /\ total' \in Nat /\ total < total'
           /\ Members' \ lagged' \subseteq Members \ lagged
           /\ \A v \in Members' \ lagged' :
                /\ got[v] \in Seq(Nat \X Nat)
                /\ \E x \in Seq(Nat \X Nat) : got'[v] = Cat(got[v], x)
<1> DEFINE Stay(room) == {v \in Members : room[v] # Out}
<1>1. PICK n \in 1..MaxMsg, room \in [Members -> Rooms] :
         /\ total + n \leq MaxTotal
         /\ header' = CacheHeader(Message(n))
         /\ buf' = RingWrite(Message(n))
         /\ total' = total + n
         /\ clients' = DrainedClients(Stay(room), room, Continue)
         /\ got' = GotAfter(Stay(room), room, Continue)
         /\ conn' = [v \in Viewers |-> IF v \in Members \ Stay(room) THEN "closed" ELSE conn[v]]
         /\ lagged' = (lagged \intersect Stay(room)) \union
                {v \in Stay(room) : \E i \in DOMAIN clients :
                    clients[i].v = v /\ ReadsOverwritten(clients[i], room[v])}
  BY DEF Receive
<1>2. session' = session /\ joined' = joined /\ main' = main /\ main \in {"joinSrt", "joinHttp"}
  BY DEF Receive, Running
<1> DEFINE kept == Stay(room)
<1>3. /\ session \in Nat /\ total \in Nat /\ clients \in Seq(Client) /\ Distinct(clients)
      /\ n \in Nat /\ n \geq 1 /\ total' \in 0..MaxTotal /\ total < total'
  <2>1. session \in Nat /\ total \in Nat /\ clients \in Seq(Client) /\ Distinct(clients)
    BY DEF Inductive, Types, Table
  <2>2. n \in Nat /\ n \geq 1
    BY RingAssumption
  <2> QED
    BY <1>1, <2>1, <2>2, RingAssumption
<1>4. kept \subseteq Members
  OBVIOUS
<1>5. ASSUME NEW k \in DOMAIN clients, clients[k].v \in kept
      PROVE  room[clients[k].v] \in Nat /\ clients[k].v \in Viewers
  <2>1. room[clients[k].v] \in Rooms /\ room[clients[k].v] # Out
    BY <1>5
  <2>2. room[clients[k].v] \in Nat
    BY <2>1, RingAssumption DEF Rooms
  <2>3. clients[k].v \in Viewers
    BY <1>4, <1>5 DEF Inductive, Table
  <2> QED
    BY <2>2, <2>3
<1>6. /\ clients' = DrainedClients(kept, room, Continue) /\ got' = GotAfter(kept, room, Continue)
      /\ \A v \in Viewers : conn'[v] = IF v \in Members \ kept THEN "closed" ELSE conn[v]
      /\ conn' \in [Viewers -> {"none", "handshake", "open", "closed"}]
  <2>1. conn \in [Viewers -> {"none", "handshake", "open", "closed"}]
    BY DEF Inductive, Types
  <2> QED
    BY <1>1, <2>1
<1>7. /\ lagged' \subseteq kept
      /\ \A k \in DOMAIN clients :
           clients[k].v \in kept /\ clients[k].v \notin lagged'
             => clients[k].v \notin lagged /\ ~ReadsOverwritten(clients[k], room[clients[k].v])
  BY <1>1, Zenon
<1> HIDE DEF kept
<1>8. PICK m \in 0..Len(clients) : \E o \in [1..m -> DOMAIN clients] :
             /\ DOMAIN clients' = 1..m /\ Len(clients') = m
             /\ \A T : (\A i \in 1..m : clients'[i] \in T) => clients' \in Seq(T)
             /\ \A i \in 1..m : clients'[i] = Drained(clients[o[i]], room[clients[o[i]].v], Continue)
             /\ \A i, j \in 1..m : o[i] = o[j] => i = j
             /\ \A i \in 1..m : clients[o[i]].v \in kept
             /\ \A j \in DOMAIN clients : clients[j].v \in kept => \E i \in 1..m : o[i] = j
  <2>1. clients \in Seq(Client) /\ clients' = DrainedClients(kept, room, Continue)
    BY <1>3, <1>6
  <2>2. DrainedTo(clients', kept, room, Continue)
    BY <2>1, DrainedSlots
  <2> QED
    BY <2>2, Zenon DEF DrainedTo
<1>9. PICK o \in [1..m -> DOMAIN clients] :
             /\ DOMAIN clients' = 1..m /\ Len(clients') = m
             /\ \A T : (\A i \in 1..m : clients'[i] \in T) => clients' \in Seq(T)
             /\ \A i \in 1..m : clients'[i] = Drained(clients[o[i]], room[clients[o[i]].v], Continue)
             /\ \A i, j \in 1..m : o[i] = o[j] => i = j
             /\ \A i \in 1..m : clients[o[i]].v \in kept
             /\ \A j \in DOMAIN clients : clients[j].v \in kept => \E i \in 1..m : o[i] = j
  BY <1>8
<1>10. ASSUME NEW i \in 1..m
       PROVE  /\ clients'[i] \in Client /\ clients'[i].v = clients[o[i]].v /\ clients'[i].v \in kept
              /\ Placed(clients'[i], total', Len(header'))
              /\ clients'[i].v \notin lagged' =>
                   /\ clients'[i].v \notin lagged /\ got[clients'[i].v] \in Seq(Nat \X Nat)
                   /\ \E x \in Seq(Nat \X Nat) : got'[clients'[i].v] = Cat(got[clients'[i].v], x)
                   /\ got'[clients'[i].v] = Slice(session, 0, Reached(clients'[i]))
  <2> DEFINE k == o[i]
             b == room[clients[k].v]
  <2>1. k \in DOMAIN clients /\ clients[k].v \in kept /\ clients'[i] = Drained(clients[k], b, Continue)
    BY <1>9
  <2>2. b \in Nat /\ clients[k].v \in Viewers
    BY <2>1, <1>5
  <2>3. got'[clients[k].v] = Cat(got[clients[k].v], Sent(clients[k], b, Continue))
    <3>1. \A i_1, j_1 \in DOMAIN clients : clients[i_1].v = clients[j_1].v => i_1 = j_1
      BY <1>3 DEF Distinct
    <3>2. GotAfter(kept, room, Continue)[clients[k].v] = Cat(got[clients[k].v], Sent(clients[k], b, Continue))
      BY <2>1, <2>2, <3>1, GotIs
    <3> QED
      BY <1>6, <3>2
  <2>4. clients[k].v \notin lagged' => clients[k].v \notin lagged /\ ~ReadsOverwritten(clients[k], b)
    BY <2>1, <1>7
  <2> HIDE DEF k, b
  <2>5. /\ Drained(clients[k], b, Continue) \in Client
        /\ Drained(clients[k], b, Continue).v = clients[k].v
        /\ Placed(Drained(clients[k], b, Continue), total', Len(header'))
        /\ clients[k].v \notin lagged /\ ~ReadsOverwritten(clients[k], b)
             => /\ Sent(clients[k], b, Continue) \in Seq(Nat \X Nat)
                /\ got[clients[k].v] \in Seq(Nat \X Nat)
                /\ Cat(got[clients[k].v], Sent(clients[k], b, Continue))
                     = Slice(session, 0, Reached(Drained(clients[k], b, Continue)))
    BY <1>1, <1>2, <2>1, <2>2, DrainFollows
  <2>6. clients'[i].v = clients[k].v
    BY <2>1, <2>5
  <2> QED
    BY <2>1, <2>3, <2>4, <2>5, <2>6 DEF k
<1>11. Members' = kept
  <2>1. Members' = {clients'[i].v : i \in 1..m}
    BY <1>9 DEF Members
  <2>2. ASSUME NEW v \in kept PROVE \E i \in 1..m : clients'[i].v = v
    <3>1. PICK j \in DOMAIN clients : clients[j].v = v
      BY <1>4 DEF Members
    <3>2. PICK i \in 1..m : o[i] = j
      BY <3>1, <1>9
    <3> QED
      BY <3>1, <3>2, <1>10
  <2> QED
    BY <2>1, <2>2, <1>10
<1>12. Types'
  <2>1. clients' \in Seq(Client) /\ Len(clients') \leq MaxHttpClients
    <3>1. \A i \in 1..m : clients'[i] \in Client
      BY <1>10
    <3>2. clients' \in Seq(Client) /\ Len(clients') = m
      BY <1>9, <3>1
    <3>3. Len(clients) \in Nat /\ Len(clients) \leq MaxHttpClients
      BY <1>3 DEF Inductive, Types
    <3> QED
      BY <3>2, <3>3, RingAssumption
  <2>2. DOMAIN got' = Viewers
    BY <1>6 DEF GotAfter
  <2> QED
    BY <1>2, <1>3, <1>6, <2>1, <2>2 DEF Inductive, Types
<1>13. Table'
  <2>1. Distinct(clients')
    <3> SUFFICES ASSUME NEW i \in 1..m, NEW j \in 1..m, clients'[i].v = clients'[j].v
                 PROVE  i = j
      BY <1>9 DEF Distinct
    <3>1. clients[o[i]].v = clients[o[j]].v
      BY <1>10
    <3>2. o[i] = o[j]
      BY <3>1, <1>3 DEF Distinct
    <3> QED
      BY <3>2, <1>9
  <2>2. kept = {v \in Viewers : conn'[v] = "open"}
    <3>1. Members = {v \in Viewers : conn[v] = "open"}
      BY DEF Inductive, Table
    <3> QED
      BY <1>4, <1>6, <3>1
  <2>3. \A v \in Viewers \ kept : got'[v] = <<>>
    BY <1>6 DEF GotAfter
  <2> QED
    BY <1>7, <1>11, <2>1, <2>2, <2>3 DEF Table
<1>14. Stream'
  <2>1. CacheHolds /\ RingHolds
    BY DEF Inductive, Stream
  <2>2. CacheHolds'
    BY <2>1, <1>1, <1>2, <1>3, CacheHoldsAfter
  <2>3. RingHolds'
    BY <2>1, <1>1, <1>2, <1>3, RingHoldsAfter
  <2> QED
    BY <2>2, <2>3 DEF Stream
<1>15. Following' /\ Quiet'
  BY <1>2, <1>9, <1>10 DEF Following, Quiet
<1>16. ASSUME NEW v \in Members' \ lagged'
       PROVE  /\ v \in Members \ lagged /\ got[v] \in Seq(Nat \X Nat)
              /\ \E x \in Seq(Nat \X Nat) : got'[v] = Cat(got[v], x)
  <2>1. PICK i \in 1..m : clients'[i].v = v
    BY <1>9 DEF Members
  <2> QED
    BY <2>1, <1>4, <1>10, <1>11
<1> QED
  BY <1>2, <1>3, <1>12, <1>13, <1>14, <1>15, <1>16 DEF Inductive

-----------------------------------------------------------------------------
\* The four kinds of step; Install with a full table only closes the connection.
LEMMA StepKinds ==
    ASSUME Inductive, [Next]_vars
    PROVE  \/ Aside \/ Emptied \/ Receive
           \/ \E v \in Viewers : Install(v) /\ Len(clients) < MaxHttpClients
<1>1. conn \in [Viewers -> {"none", "handshake", "open", "closed"}]
  BY DEF Inductive, Types
<1>2. ASSUME UNCHANGED <<total, buf, header, clients, got, joined, lagged>>, conn' = conn,
             session' = session \/ (session' = 1 /\ total = 0 /\ clients = <<>>),
             main = "exited" => main' = "exited", main \in Late => main' \in Late
      PROVE  Aside
  BY <1>1, <1>2, Zenon DEF Aside
<1>3. ASSUME NEW v \in Viewers, NEW s \in {"none", "handshake", "closed"},
             UNCHANGED ringVars, UNCHANGED <<main, lagged>>, conn[v] # "open", conn' = [conn EXCEPT ![v] = s]
      PROVE  Aside
  BY <1>1, <1>3 DEF Aside, ringVars
<1>4. CASE UNCHANGED vars
  BY <1>2, <1>4 DEF vars, control, ringVars
<1>5. CASE Bootstrap
  <2>1. ASSUME NEW a \in Steps \ Late, NEW b \in Steps \ Late, NEW h, Goes(a, b, h) PROVE Aside
    BY <1>2, <2>1 DEF Goes, ringVars, Late, Steps
  <2>2. CASE StartThreads
    <3>1. /\ main = "http" /\ main' = "joinSrt" /\ session' = 1 /\ conn' = conn
          /\ UNCHANGED <<total, buf, header, clients, got, joined, lagged>>
      BY <2>2 DEF StartThreads
    <3>2. total = 0 /\ clients = <<>>
      BY <3>1 DEF Inductive, Quiet
    <3> QED
      BY <1>2, <3>1, <3>2 DEF Late
  <2> USE DEF Steps, Late
  <2>3. CASE ParseArgs
    BY <2>1, <2>3 DEF ParseArgs
  <2>4. CASE AllocateUdp
    BY <2>1, <2>4 DEF AllocateUdp
  <2>5. CASE Discover
    BY <2>1, <2>5 DEF Discover
  <2>6. CASE ConnectSignaling
    BY <2>1, <2>6 DEF ConnectSignaling
  <2>7. CASE SendRequest
    BY <2>1, <2>7 DEF SendRequest
  <2>8. CASE AwaitProvider
    BY <2>1, <2>8 DEF AwaitProvider
  <2>9. CASE Rendezvous
    BY <2>1, <2>9 DEF Rendezvous
  <2>10. CASE ListenFails
    BY <2>1, <2>10 DEF ListenFails
  <2> QED
    BY <1>5, <2>2, <2>3, <2>4, <2>5, <2>6, <2>7, <2>8, <2>9, <2>10 DEF Bootstrap
<1>6. CASE on_signal
  BY <1>2, <1>6 DEF on_signal, ringVars
<1>7. CASE JoinSrt
  BY <1>2, <1>7 DEF JoinSrt, ringVars, Late
<1>8. CASE RecvEnds
  BY <1>2, <1>8 DEF RecvEnds, ringVars
<1>9. CASE JoinHttp
  BY <1>1, <1>9 DEF JoinHttp, Emptied, Late
<1>10. CASE CloseAll
  <2>1. \A v \in Viewers : conn[v] = "open" => v \in Members
    BY DEF Inductive, Table
  <2>2. /\ conn' \in [Viewers -> {"none", "handshake", "open", "closed"}]
        /\ \A v \in Viewers : conn'[v] # "open"
    BY <1>1, <1>10, <2>1 DEF CloseAll
  <2> QED
    BY <1>10, <2>2 DEF CloseAll, Running, Emptied, Late
<1>11. ASSUME NEW v \in Viewers, AcceptHttp(v) PROVE Aside
  <2>1. /\ UNCHANGED ringVars /\ UNCHANGED <<main, lagged>> /\ conn[v] = "none"
        /\ conn' = [conn EXCEPT ![v] = "handshake"]
    BY <1>11 DEF AcceptHttp
  <2> QED
    BY <2>1, <1>3
<1>12. ASSUME NEW v \in Viewers, Reject(v) PROVE Aside
  <2>1. /\ UNCHANGED ringVars /\ UNCHANGED <<main, lagged>> /\ conn[v] = "handshake"
        /\ conn' = [conn EXCEPT ![v] = "closed"]
    BY <1>12 DEF Reject
  <2> QED
    BY <2>1, <1>3
<1>13. ASSUME NEW v \in Viewers, Install(v) PROVE Aside \/ Len(clients) < MaxHttpClients
  <2>1. CASE Len(clients) \geq MaxHttpClients
    <3>1. /\ UNCHANGED ringVars /\ UNCHANGED <<main, lagged>> /\ conn[v] = "handshake"
          /\ conn' = [conn EXCEPT ![v] = "closed"]
      BY <2>1, <1>13 DEF Install, ringVars
    <3> QED
      BY <3>1, <1>3
  <2>2. CASE ~(Len(clients) \geq MaxHttpClients)
    <3>1. Len(clients) \in Nat /\ MaxHttpClients \in Nat
      BY RingAssumption DEF Inductive, Types
    <3> QED
      BY <2>2, <3>1
  <2> QED
    BY <2>1, <2>2
<1> QED
  BY <1>4, <1>5, <1>6, <1>7, <1>8, <1>9, <1>10, <1>11, <1>12, <1>13 DEF Next

\* Every step keeps the invariant.
LEMMA StaysInductive == Inductive /\ [Next]_vars => Inductive'
<1> SUFFICES ASSUME Inductive, [Next]_vars PROVE Inductive'
  OBVIOUS
<1>1. CASE Aside
  BY <1>1, AsidePreserves
<1>2. CASE Emptied
  BY <1>2, EmptiedPreserves
<1>3. CASE Receive
  BY <1>3, ReceiveEffects
<1>4. ASSUME NEW v \in Viewers, Install(v), Len(clients) < MaxHttpClients PROVE Inductive'
  BY <1>4, InstallPreserves
<1> QED
  BY <1>1, <1>2, <1>3, <1>4, StepKinds

\* The invariant holds throughout.
LEMMA AlwaysInductive == Spec => []Inductive
BY StartsInductive, StaysInductive, PTL DEF Spec

-----------------------------------------------------------------------------
\* The refinement.  What the abstract stream and the abstract viewers are.
StreamBar == [i \in 1..total |-> <<session, i - 1>>]
SeenBar == [v \in Viewers |-> IF v \in Members \ lagged THEN got[v] ELSE Out]

\* Who keeps up has a prefix of the stream.
KeepsUp ==
    /\ session \in Nat /\ total \in Nat
    /\ \A v \in Members \ lagged : \E e \in 0..total : got[v] = Slice(session, 0, e)

\* What a client that keeps up has seen is a prefix of the stream.
LEMMA WhoKeepsUp == Inductive => KeepsUp
<1> SUFFICES ASSUME Inductive PROVE KeepsUp
  OBVIOUS
<1>1. session \in Nat /\ total \in Nat /\ 0 \in Nat
  BY DEF Inductive, Types
<1>2. Len(header) \in Nat /\ Len(header) \leq total
  <2>1. Least(total, HeaderCacheSize) \in Nat /\ Least(total, HeaderCacheSize) \leq total
    BY <1>1, RingAssumption DEF Least
  <2>2. header = Slice(session, 0, Least(total, HeaderCacheSize))
    BY DEF Inductive, Stream, CacheHolds
  <2> QED
    BY <1>1, <2>1, <2>2, SliceSeq
<1>3. ASSUME NEW v \in Members \ lagged PROVE \E e \in 0..total : got[v] = Slice(session, 0, e)
  <2>1. PICK i \in DOMAIN clients : clients[i].v = v
    BY DEF Members
  <2> DEFINE c == clients[i]
  <2>2. c \in Client
    BY DEF Inductive, Types
  <2>3. Placed(c, total, Len(header)) /\ got[v] = Slice(session, 0, Reached(c))
    BY <2>1 DEF Inductive, Following
  <2> HIDE DEF c
  <2>4. c.cursor \in Nat /\ c.hdrOff \in Nat
    BY <2>2 DEF Client
  <2>5. c.hdrOff \leq Len(header) /\ c.cursor \leq total
    BY <2>3 DEF Placed
  <2>6. Reached(c) \in 0..total
    <3>1. c.hdrOff \in 0..total /\ c.cursor \in 0..total
      BY <1>1, <1>2, <2>4, <2>5
    <3> QED
      BY <3>1 DEF Reached
  <2> QED
    BY <2>3, <2>6
<1> QED
  BY <1>1, <1>3 DEF KeepsUp

\* Such a viewer is never mistaken for one that is not served.
LEMMA ServedAre ==
    ASSUME Inductive
    PROVE  \A v \in Viewers : /\ SeenBar[v] = IF v \in Members \ lagged THEN got[v] ELSE Out
                              /\ SeenBar[v] # Out <=> v \in Members \ lagged
<1>1. KeepsUp
  BY WhoKeepsUp
<1>2. Out \notin Seq(Nat \X Nat)
  BY RingAssumption
<1>3. ASSUME NEW v \in Members \ lagged PROVE got[v] # Out
  <2>1. PICK e \in 0..total : got[v] = Slice(session, 0, e)
    BY <1>1 DEF KeepsUp
  <2>2. e \in Nat /\ 0 \in Nat /\ session \in Nat
    BY <1>1 DEF KeepsUp
  <2>3. Slice(session, 0, e) \in Seq(Nat \X Nat)
    BY <2>2, SliceSeq
  <2> QED
    BY <2>1, <2>3, <1>2
<1> QED
  BY <1>3 DEF SeenBar

-----------------------------------------------------------------------------
\* The initial states and the steps of the bridge, in the abstract.
LEMMA StartsAsFanout == Init => Abstract!Init
<1> SUFFICES ASSUME Init PROVE Abstract!Init
  OBVIOUS
<1>1. total = 0 /\ clients = <<>> /\ joined = [v \in Viewers |-> 0]
  BY DEF Init, RingInit
<1>2. Members = {}
  BY <1>1 DEF Members
<1> QED
  BY <1>1, <1>2 DEF Abstract!Init

\* The session that begins when the threads are started has no bytes yet.
LEMMA AsideIsStutter ==
    ASSUME Aside
    PROVE  UNCHANGED Abstract!vars
<1>1. Members' = Members
  BY DEF Members, Aside
<1>2. StreamBar' = StreamBar
  <2>1. total' = total
    BY DEF Aside
  <2>2. CASE session' = session
    BY <2>1, <2>2 DEF StreamBar
  <2>3. CASE total = 0
    BY <2>1, <2>3 DEF StreamBar
  <2> QED
    BY <2>2, <2>3 DEF Aside
<1>3. SeenBar' = SeenBar
  BY <1>1 DEF SeenBar, Aside
<1>4. joined' = joined
  BY DEF Aside
<1> QED
  BY <1>2, <1>3, <1>4 DEF Abstract!vars, StreamBar, SeenBar

\* Emptying the table is everybody's Leave.
LEMMA EmptiedIsLeave ==
    ASSUME Inductive, Emptied
    PROVE  Abstract!Leave
<1>1. total' = total /\ session' = session /\ joined' = joined /\ Members' = {}
  BY DEF Emptied, Members
<1> QED
  BY <1>1 DEF Abstract!Leave

\* Install is a Join.
LEMMA InstallIsJoin ==
    ASSUME Inductive, NEW v \in Viewers, Install(v), Len(clients) < MaxHttpClients
    PROVE  Abstract!Join(v)
<1>1. /\ clients' = Append(clients, Fresh(v, Len(header))) /\ joined' = [joined EXCEPT ![v] = total]
      /\ conn[v] = "handshake" /\ total' = total /\ session' = session /\ got' = got /\ lagged' = lagged
      /\ main \in {"joinSrt", "joinHttp"}
  <2>1. Len(clients) \in Nat /\ MaxHttpClients \in Nat
    BY RingAssumption DEF Inductive, Types
  <2>2. ~(Len(clients) \geq MaxHttpClients)
    BY <2>1
  <2> QED
    BY <2>2 DEF Install, Running
<1>2. v \notin Members /\ got[v] = <<>> /\ v \notin lagged
  BY <1>1 DEF Inductive, Table
<1>3. Members' = Members \union {v}
  <2> DEFINE n == Len(clients)
             c == Fresh(v, Len(header))
  <2>1. c.v = v
    BY DEF Fresh
  <2> HIDE DEF c
  <2>2. /\ n \in Nat /\ DOMAIN clients = 1..n /\ DOMAIN clients' = 1..(n + 1)
        /\ clients'[n + 1] = c /\ \A i \in 1..n : clients'[i] = clients[i]
    BY <1>1 DEF Inductive, Types, c
  <2> HIDE DEF n
  <2> QED
    BY <2>1, <2>2 DEF Members
<1>4. Len(StreamBar) = total
  <2>1. total \in Nat
    BY DEF Inductive, Types
  <2> QED
    BY <2>1 DEF StreamBar
<1>5. SeenBar[v] = Out
  BY <1>2 DEF SeenBar
<1>6. SeenBar' = [SeenBar EXCEPT ![v] = <<>>]
  BY <1>1, <1>2, <1>3 DEF SeenBar
<1>7. StreamBar' = StreamBar
  BY <1>1 DEF StreamBar
<1> QED
  BY <1>1, <1>4, <1>5, <1>6, <1>7 DEF Abstract!Join, StreamBar, SeenBar

\* Receive is a Feed: the clients that keep up receive more of the stream.
LEMMA ReceiveIsFeed ==
    ASSUME Inductive, KeepsUp', Receive
    PROVE  Abstract!Feed
<1>1. /\ session' = session /\ joined' = joined /\ total' \in Nat /\ total < total'
      /\ Members' \ lagged' \subseteq Members \ lagged
      /\ \A v \in Members' \ lagged' :
           /\ got[v] \in Seq(Nat \X Nat)
           /\ \E x \in Seq(Nat \X Nat) : got'[v] = Cat(got[v], x)
  BY ReceiveEffects
<1>2. session \in Nat /\ total \in Nat
  BY DEF Inductive, Types
<1>3. StreamBar = Slice(session, 0, total) /\ StreamBar' = Slice(session, 0, total')
  <2>1. StreamBar' = Slice(session', 0, total')
    BY <1>1, <1>2 DEF StreamBar, Slice
  <2>2. StreamBar = Slice(session, 0, total)
    BY <1>2 DEF StreamBar, Slice
  <2> QED
    BY <1>1, <2>1, <2>2
<1>4. IsPrefix(StreamBar, StreamBar') /\ StreamBar # StreamBar'
  <2>1. total \leq total'
    BY <1>1, <1>2
  <2> QED
    BY <1>1, <1>2, <1>3, <2>1, SlicePrefix
<1>5. \A v \in Viewers : SeenBar[v] # Out <=> v \in Members \ lagged
  BY ServedAre
<1>6. \A v \in Viewers : SeenBar'[v] = IF v \in Members' \ lagged' THEN got'[v] ELSE Out
  BY DEF SeenBar
<1>7. DOMAIN SeenBar' = Viewers
  BY DEF SeenBar
<1>8. ASSUME NEW v \in Viewers, v \in Members' \ lagged'
      PROVE  /\ SeenBar[v] # Out
             /\ IsPrefix(SeenBar[v], SeenBar'[v])
             /\ IsPrefix(SeenBar'[v], StreamBar')
  <2>1. v \in Members \ lagged /\ SeenBar[v] # Out
    BY <1>1, <1>5, <1>8
  <2>2. SeenBar[v] = got[v] /\ SeenBar'[v] = got'[v]
    BY <2>1, <1>6, <1>8 DEF SeenBar
  <2>3. IsPrefix(got[v], got'[v])
    BY <1>1, <1>8, CatGrows
  <2>4. IsPrefix(got'[v], Slice(session, 0, total'))
    <3>1. PICK e \in 0..total' : got'[v] = Slice(session', 0, e)
      BY <1>8 DEF KeepsUp
    <3>2. e \in Nat /\ e \leq total'
      BY <1>1
    <3> QED
      BY <1>1, <1>2, <3>1, <3>2, SlicePrefix
  <2> QED
    BY <2>1, <2>2, <2>3, <2>4, <1>3
<1>9. Abstract!IsStrictPrefix(StreamBar, StreamBar')
  BY <1>4 DEF Abstract!IsStrictPrefix, Abstract!IsPrefix, IsPrefix
<1>10. ASSUME NEW v \in Viewers
       PROVE  \/ SeenBar'[v] = Out
              \/ /\ v \in {u \in Viewers : SeenBar[u] # Out}
                 /\ Abstract!IsPrefix(SeenBar[v], SeenBar'[v])
                 /\ Abstract!Legal(StreamBar', joined[v], SeenBar'[v])
  <2>1. CASE v \notin Members' \ lagged'
    BY <2>1, <1>6
  <2>2. CASE v \in Members' \ lagged'
    <3>1. SeenBar[v] # Out
      BY <2>2, <1>8
    <3>2. Abstract!IsPrefix(SeenBar[v], SeenBar'[v])
      BY <2>2, <1>8 DEF IsPrefix, Abstract!IsPrefix
    <3>3. Abstract!Legal(StreamBar', joined[v], SeenBar'[v])
      BY <2>2, <1>8 DEF IsPrefix, Abstract!IsPrefix, Abstract!Legal
    <3> QED
      BY <3>1, <3>2, <3>3
  <2> QED
    BY <2>1, <2>2
<1> QED
  BY <1>1, <1>7, <1>9, <1>10, Zenon DEF Abstract!Feed, Abstract!Served, StreamBar, SeenBar

\* Every step is one of StreamFanout or a stutter.
LEMMA StepsAsFanout ==
    Inductive /\ KeepsUp' /\ [Next]_vars => [Abstract!Next]_(Abstract!vars)
<1> SUFFICES ASSUME Inductive, KeepsUp', [Next]_vars PROVE [Abstract!Next]_(Abstract!vars)
  OBVIOUS
<1>1. CASE Aside
  <2>1. UNCHANGED Abstract!vars
    BY <1>1, AsideIsStutter
  <2> QED
    BY <2>1
<1>2. CASE Emptied
  BY <1>2, EmptiedIsLeave DEF Abstract!Next
<1>3. CASE Receive
  BY <1>3, ReceiveIsFeed DEF Abstract!Next
<1>4. ASSUME NEW v \in Viewers, Install(v), Len(clients) < MaxHttpClients PROVE Abstract!Next
  BY <1>4, InstallIsJoin DEF Abstract!Next
<1> QED
  BY <1>1, <1>2, <1>3, <1>4, StepKinds

\* With ring, cache and cursors hidden the phone bridge is StreamFanout for
\* the viewers that keep up: what each one received is a prefix of the stream,
\* with nothing lost or doubled where the cache ends and the ring begins.
THEOREM PhoneImplementsFanout == Spec => ImplementsFanout
<1>1. Init => Abstract!Init
  BY StartsAsFanout
<1>2. Inductive /\ KeepsUp' /\ [Next]_vars => [Abstract!Next]_(Abstract!vars)
  BY StepsAsFanout
<1>3. Inductive => KeepsUp
  BY WhoKeepsUp
<1> QED
  BY <1>1, <1>2, <1>3, AlwaysInductive, PTL DEF Spec, Abstract!Spec, ImplementsFanout
=============================================================================
