------------------------- MODULE FanoutCloudProofs -------------------------
(***************************************************************************)
(* Proofs about the cloud viewer bridge, for any number of viewers, any    *)
(* sizes of the ring, the cache and the table, and sessions of any length: *)
(* the table and the connections agree, no client is ever served from      *)
(* memory that was overwritten, and the bridge implements StreamFanout.    *)
(***************************************************************************)
EXTENDS FanoutCloud, FlvRingProofs

-----------------------------------------------------------------------------
\* What is where at every unlock.  Follows says it of a client c in a
\* session s of t bytes so far, l of them cached, that joined at j and
\* received g: it was sent a beginning of the cache and then, only after all
\* of the cache, everything from where it joined up to its cursor; and what
\* it wants next is still in the ring.
Follows(c, s, t, l, j, g) ==
    /\ c.hdrOff \leq l
    /\ j \leq c.cursor /\ c.cursor \leq t /\ t - c.cursor \leq Cap
    /\ ~c.hdrSent => c.cursor = j
    /\ g = Cat(Slice(s, 0, c.hdrOff), Slice(s, j, c.cursor - j))

Distinct(q) == \A i, j \in DOMAIN q : q[i].v = q[j].v => i = j

Types ==
    /\ session \in Nat /\ total \in 0..MaxTotal
    /\ clients \in Seq(Client) /\ Len(clients) \leq MaxHttpClients
    /\ got \in [Viewers -> Seq(Nat \X Nat)] /\ joined \in [Viewers -> 0..MaxTotal]
    /\ conn \in [Viewers -> {"none", "handshake", "open", "closed"}]
Table ==
    /\ Distinct(clients)
    /\ Members = {v \in Viewers : conn[v] = "open"}
    /\ \A v \in Viewers \ Members : got[v] = <<>>
Stream == CacheHolds /\ RingHolds
Following ==
    \A i \in DOMAIN clients :
        Follows(clients[i], session, total, Len(header), joined[clients[i].v], got[clients[i].v])

Inductive == Types /\ Table /\ Stream /\ Following

-----------------------------------------------------------------------------
\* At the start there is no stream and nobody is served.
LEMMA StartsInductive == Init => Inductive
<1> SUFFICES ASSUME Init PROVE Inductive
  OBVIOUS
<1> USE RingAssumption DEF Init, RingInit
<1>1. Types
  BY DEF Types
<1>2. Table
  BY DEF Table, Distinct, Members
<1>3. Stream
  <2>1. Least(0, HeaderCacheSize) = 0
    BY DEF Least
  <2>2. 0 \in Nat
    OBVIOUS
  <2>3. CacheHolds
    BY <2>1, <2>2, SliceNothing DEF CacheHolds
  <2>4. RingHolds
    BY DEF RingHolds
  <2> QED
    BY <2>3, <2>4 DEF Stream
<1>4. Following
  BY DEF Following
<1> QED
  BY <1>1, <1>2, <1>3, <1>4 DEF Inductive

\* Steps that leave the stream and the table alone: a connection that is not
\* being served only changes to another state of not being served.
LEMMA AsidePreserves ==
    ASSUME Inductive, UNCHANGED ringVars, conn' \in [Viewers -> {"none", "handshake", "open", "closed"}],
           \A v \in Viewers : conn'[v] = "open" <=> conn[v] = "open"
    PROVE  Inductive'
<1> USE DEF ringVars
<1>1. Types' /\ Following' /\ Stream'
  BY DEF Inductive, Types, Following, Stream, CacheHolds, RingHolds
<1>2. Table'
  <2>1. Members' = Members
    BY DEF Members
  <2> QED
    BY <2>1 DEF Inductive, Table
<1> QED
  BY <1>1, <1>2 DEF Inductive

\* Install: a new client starts at the live end, with nothing sent to it yet.
LEMMA InstallPreserves ==
    ASSUME Inductive, NEW v \in Viewers, Install(v), Len(clients) < MaxHttpClients
    PROVE  Inductive'
<1> USE RingAssumption
<1> DEFINE c == Fresh(v, total)
           n == Len(clients)
<1>1. /\ conn' = [conn EXCEPT ![v] = "open"] /\ clients' = Append(clients, c)
      /\ joined' = [joined EXCEPT ![v] = total]
      /\ conn[v] = "handshake" /\ UNCHANGED <<session, total, buf, header, got>>
  <2>1. n \in Nat
    BY DEF Inductive, Types
  <2>2. ~(n \geq MaxHttpClients)
    BY <2>1
  <2> QED
    BY <2>2 DEF Install
<1>2. c \in Client /\ c.v = v /\ c.cursor = total /\ c.hdrSent = FALSE /\ c.hdrOff = 0
  BY DEF Fresh, Client, Inductive, Types
<1> HIDE DEF c
<1>3. /\ n \in Nat /\ DOMAIN clients = 1..n
      /\ Len(clients') = n + 1 /\ DOMAIN clients' = 1..(n + 1)
      /\ clients'[n + 1] = c /\ \A i \in 1..n : clients'[i] = clients[i]
      /\ clients' \in Seq(Client)
  BY <1>1, <1>2 DEF Inductive, Types
<1> HIDE DEF n
<1>4. Types'
  BY <1>1, <1>3 DEF Inductive, Types, n
<1>5. v \notin Members /\ got[v] = <<>>
  BY <1>1 DEF Inductive, Table
<1>6. Table'
  <2>1. Members' = Members \union {v}
    BY <1>2, <1>3 DEF Members
  <2>2. Distinct(clients')
    <3>1. \A i \in 1..n : clients[i].v # v
      BY <1>3, <1>5 DEF Members
    <3>2. \A i, j \in 1..n : clients[i].v = clients[j].v => i = j
      BY <1>3 DEF Inductive, Table, Distinct
    <3>3. ASSUME NEW i \in 1..(n + 1), NEW j \in 1..(n + 1), clients'[i].v = clients'[j].v
          PROVE  i = j
      <4>1. i \in 1..n \/ i = n + 1
        BY <1>3
      <4>2. j \in 1..n \/ j = n + 1
        BY <1>3
      <4>3. clients'[n + 1].v = v /\ \A k \in 1..n : clients'[k].v # v
        BY <1>2, <1>3, <3>1
      <4>4. CASE i \in 1..n /\ j \in 1..n
        BY <1>3, <3>2, <3>3, <4>4
      <4> QED
        BY <3>3, <4>1, <4>2, <4>3, <4>4
    <3> QED
      BY <1>3, <3>3 DEF Distinct
  <2>3. {u \in Viewers : conn'[u] = "open"} = {u \in Viewers : conn[u] = "open"} \union {v}
    BY <1>1 DEF Inductive, Types
  <2> QED
    BY <1>1, <2>1, <2>2, <2>3 DEF Inductive, Table
<1>7. Stream'
  BY <1>1 DEF Inductive, Stream, CacheHolds, RingHolds
<1>8. Following'
  <2> SUFFICES ASSUME NEW i \in 1..(n + 1)
               PROVE  Follows(clients'[i], session, total, Len(header),
                              joined'[clients'[i].v], got[clients'[i].v])
    BY <1>1, <1>3 DEF Following
  <2>1. CASE i = n + 1
    <3>1. Follows(c, session, total, Len(header), total, <<>>)
      <4>1. 0 \in Nat /\ session \in Nat /\ total \in Nat /\ total - total = 0
        BY DEF Inductive, Types
      <4>2. Slice(session, 0, 0) = <<>> /\ Slice(session, total, 0) = <<>>
        BY <4>1, SliceNothing
      <4>3. Cat(Slice(session, 0, 0), Slice(session, total, 0)) = <<>>
        BY <4>2 DEF Cat
      <4>4. Len(header) \in Nat
        <5>1. Least(total, HeaderCacheSize) \in Nat
          BY <4>1 DEF Least
        <5> QED
          BY <4>1, <5>1, SliceSeq DEF Inductive, Stream, CacheHolds
      <4> QED
        BY <1>2, <4>1, <4>3, <4>4 DEF Follows
    <3>2. joined'[v] = total
      BY <1>1 DEF Inductive, Types
    <3> QED
      BY <2>1, <1>2, <1>3, <1>5, <3>1, <3>2
  <2>2. CASE i \in 1..n
    <3>1. clients[i].v # v
      BY <2>2, <1>3, <1>5 DEF Members
    <3>2. joined'[clients[i].v] = joined[clients[i].v]
      BY <1>1, <3>1, <2>2, <1>3 DEF Inductive, Types, Client
    <3> QED
      BY <2>2, <1>3, <3>2 DEF Inductive, Following
  <2> QED
    BY <2>1, <2>2, <1>3
<1> QED
  BY <1>4, <1>6, <1>7, <1>8 DEF Inductive

\* StartSession: ring, cache and every client begin again with the session.
LEMMA StartSessionPreserves ==
    ASSUME Inductive, StartSession
    PROVE  Inductive'
<1> USE RingAssumption
<1>1. /\ session' = session + 1 /\ total' = 0 /\ header' = <<>> /\ conn' = conn
      /\ clients' = [i \in DOMAIN clients |-> Fresh(clients[i].v, 0)]
      /\ got' = [v \in Viewers |-> <<>>] /\ joined' = [v \in Viewers |-> 0]
  BY DEF StartSession, ResetClients
<1> DEFINE n == Len(clients)
<1>2. /\ n \in Nat /\ DOMAIN clients = 1..n
      /\ \A i \in 1..n : clients[i] \in Client /\ clients[i].v \in Viewers
  <2>1. n \in Nat /\ DOMAIN clients = 1..n /\ \A i \in 1..n : clients[i] \in Client
    BY DEF Inductive, Types
  <2>2. \A k \in Client : k.v \in Viewers
    BY DEF Client
  <2> QED
    BY <2>1, <2>2
<1>3. \A i \in 1..n : /\ clients'[i] \in Client /\ clients'[i].v = clients[i].v
                      /\ clients'[i].cursor = 0 /\ clients'[i].hdrSent = FALSE /\ clients'[i].hdrOff = 0
  BY <1>1, <1>2 DEF Fresh, Client
<1>4. clients' \in Seq(Client) /\ Len(clients') = n /\ DOMAIN clients' = 1..n
  BY <1>1, <1>2, <1>3
<1> HIDE DEF n
<1>5. Types'
  BY <1>1, <1>2, <1>4 DEF Inductive, Types, n
<1>6. Table'
  <2>1. Members' = Members
    BY <1>2, <1>3, <1>4 DEF Members
  <2>2. Distinct(clients')
    BY <1>2, <1>3, <1>4 DEF Inductive, Table, Distinct
  <2> QED
    BY <1>1, <2>1, <2>2 DEF Inductive, Table
<1>7. Stream'
  <2>1. Least(0, HeaderCacheSize) = 0
    BY DEF Least
  <2>2. 0 \in Nat /\ session' \in Nat
    BY <1>5 DEF Types
  <2>3. CacheHolds'
    BY <1>1, <2>1, <2>2, SliceNothing DEF CacheHolds
  <2>4. RingHolds'
    BY <1>1 DEF RingHolds
  <2> QED
    BY <2>3, <2>4 DEF Stream
<1>8. Following'
  <2> SUFFICES ASSUME NEW i \in 1..n
               PROVE  Follows(clients'[i], session', 0, 0, 0, <<>>)
    BY <1>1, <1>2, <1>3, <1>4 DEF Following
  <2>1. 0 \in Nat /\ session' \in Nat /\ 0 - 0 = 0
    BY <1>5 DEF Types
  <2>2. Slice(session', 0, 0) = <<>>
    BY <2>1, SliceNothing
  <2>3. Cat(Slice(session', 0, 0), Slice(session', 0, 0)) = <<>>
    BY <2>2 DEF Cat
  <2> QED
    BY <1>3, <2>1, <2>3 DEF Follows
<1> QED
  BY <1>5, <1>6, <1>7, <1>8 DEF Inductive

\* JoinHttp: main closes every client that is left and empties the table.
LEMMA JoinHttpPreserves ==
    ASSUME Inductive, JoinHttp
    PROVE  Inductive'
<1>1. /\ clients' = <<>> /\ got' = [v \in Viewers |-> <<>>]
      /\ conn' = [v \in Viewers |-> IF conn[v] = "none" THEN "none" ELSE "closed"]
      /\ UNCHANGED <<session, total, buf, header, joined>>
  BY DEF JoinHttp
<1>2. Types'
  BY <1>1, RingAssumption DEF Inductive, Types
<1>3. Table'
  BY <1>1 DEF Table, Distinct, Members
<1>4. Stream'
  BY <1>1 DEF Inductive, Stream, CacheHolds, RingHolds
<1>5. Following'
  BY <1>1 DEF Following
<1> QED
  BY <1>2, <1>3, <1>4, <1>5 DEF Inductive

-----------------------------------------------------------------------------
\* One client that is not lagging, drained after a message.
LEMMA DrainFollows ==
    ASSUME Inductive, NEW n \in 1..MaxMsg, total + n \leq MaxTotal, session' = session,
           header' = CacheHeader(Message(n)), buf' = RingWrite(Message(n)), total' = total + n,
           NEW k \in DOMAIN clients, ~Lagged(clients[k]), NEW room \in Nat
    PROVE  /\ Drained(clients[k], room, Continue) \in Client
           /\ Drained(clients[k], room, Continue).v = clients[k].v
           /\ Sent(clients[k], room, Continue) \in Seq(Nat \X Nat)
           /\ Follows(Drained(clients[k], room, Continue), session, total', Len(header'),
                      joined[clients[k].v],
                      Cat(got[clients[k].v], Sent(clients[k], room, Continue)))
<1> USE RingAssumption
<1> DEFINE c == clients[k]
           j == joined[c.v]
           hl == Least(total + n, HeaderCacheSize)
           D == Drained(c, room, Continue)
<1>1. total \in Nat /\ session \in Nat /\ CacheHolds /\ RingHolds
  BY DEF Inductive, Types, Stream
<1>2. /\ header' = Slice(session, 0, hl) /\ Len(header') = hl
      /\ Len(header) = Least(total, HeaderCacheSize)
  BY <1>1, CacheHoldsAfter
<1>3. RingHolds'
  BY <1>1, RingHoldsAfter
<1>4. hl \in Nat /\ hl \leq HeaderCacheSize /\ Len(header) \leq hl
  BY <1>1, <1>2 DEF Least
<1>5. c \in Client
  BY DEF Inductive, Types
<1> HIDE DEF c, hl
<1>6. /\ c.v \in Viewers /\ c.cursor \in 0..MaxTotal /\ c.hdrSent \in BOOLEAN
      /\ c.hdrOff \in 0..HeaderCacheSize
  BY <1>5 DEF Client
<1>7. Follows(c, session, total, Len(header), j, got[c.v])
  BY DEF Inductive, Following, c
<1>8. j \in Nat /\ got[c.v] = Cat(Slice(session, 0, c.hdrOff), Slice(session, j, c.cursor - j))
  BY <1>6, <1>7 DEF Inductive, Types, Follows
<1> HIDE DEF j
<1>9. /\ c.hdrOff \leq hl /\ j \leq c.cursor /\ c.cursor \leq total + n
      /\ ~c.hdrSent => c.cursor = j
  <2>1. c.hdrOff \leq Len(header) /\ j \leq c.cursor /\ c.cursor \leq total
    BY <1>7 DEF Follows
  <2>2. ~c.hdrSent => c.cursor = j
    BY <1>7 DEF Follows
  <2>3. Len(header) \in Nat
    BY <1>1, <1>2 DEF Least
  <2> QED
    BY <2>1, <2>2, <2>3, <1>1, <1>4, <1>6, <1>8
<1>10. total' - c.cursor \leq Cap
  BY <1>1, <1>6 DEF Lagged, c
<1>11. Place(c, room, Continue) = c.cursor
  <2>1. Continue[<<c.cursor, hl>>] = c.cursor
    BY <1>4, <1>6 DEF Continue
  <2> QED
    BY <1>2, <2>1 DEF Place
<1>12. PICK r \in Nat, f \in Nat :
             /\ r = Replayed(c, room) /\ f = FromRing(c, room, Continue)
             /\ c.hdrOff + r \leq hl /\ c.cursor + f \leq total'
             /\ c.hdrSent => r = 0
             /\ ReplayDone(c, room) <=> (c.hdrSent \/ c.hdrOff + r = hl)
             /\ ~ReplayDone(c, room) => f = 0
             /\ Sent(c, room, Continue) = Cat(Slice(session, c.hdrOff, r), Slice(session, c.cursor, f))
  <2>1. total' \in Nat /\ c.hdrOff \in Nat /\ c.cursor \in Nat /\ c.cursor \leq total'
    BY <1>1, <1>6, <1>9
  <2>2. /\ session \in Nat /\ session' = session /\ hl \in Nat /\ RingHolds'
        /\ header' = Slice(session, 0, hl)
        /\ c.hdrOff \leq hl /\ c.hdrSent \in BOOLEAN
        /\ c.cursor = Place(c, room, Continue)
    BY <1>1, <1>2, <1>3, <1>4, <1>6, <1>9, <1>11
  <2>3. PICK r \in Nat, f \in Nat :
             /\ r = Replayed(c, room) /\ f = FromRing(c, room, Continue)
             /\ c.hdrOff + r \leq hl /\ c.cursor + f \leq total'
             /\ c.hdrSent => r = 0
             /\ ReplayDone(c, room) <=> (c.hdrSent \/ c.hdrOff + r = hl)
             /\ ~ReplayDone(c, room) => f = 0
             /\ f = 0 \/ total' - c.cursor \leq Cap
                  => Sent(c, room, Continue)
                       = Cat(Slice(session, c.hdrOff, r), Slice(session, c.cursor, f))
    BY <2>1, <2>2, DrainIs
  <2> QED
    BY <1>10, <2>3
<1>13. /\ D.v = c.v /\ D.cursor = c.cursor + f /\ D.hdrSent = ReplayDone(c, room)
       /\ D.hdrOff = c.hdrOff + r
       /\ D = [v |-> c.v, cursor |-> D.cursor, hdrSent |-> D.hdrSent, hdrOff |-> D.hdrOff]
  <2>1. c \in [v : Viewers, cursor : 0..MaxTotal, hdrSent : BOOLEAN, hdrOff : 0..HeaderCacheSize]
    BY <1>5 DEF Client
  <2>2. /\ D.v = c.v /\ D.cursor = Place(c, room, Continue) + FromRing(c, room, Continue)
        /\ D.hdrSent = ReplayDone(c, room) /\ D.hdrOff = c.hdrOff + Replayed(c, room)
        /\ D = [v |-> c.v, cursor |-> D.cursor, hdrSent |-> D.hdrSent, hdrOff |-> D.hdrOff]
    <3> HIDE DEF D
    <3> QED
      BY <2>1, DrainedFields DEF D
  <2> HIDE DEF D
  <2> QED
    BY <2>2, <1>11, <1>12
<1> HIDE DEF D
<1>14. r \in Nat /\ f \in Nat /\ c.hdrOff + r \leq hl /\ c.cursor + f \leq total + n
  BY <1>12
<1>15. D.cursor = c.cursor + f /\ D.hdrOff = c.hdrOff + r
  BY <1>13
<1>16. /\ c.cursor \in Nat /\ c.hdrOff \in Nat /\ j \in Nat
      /\ j \leq c.cursor /\ c.cursor \leq total + n /\ c.hdrOff \leq hl
  BY <1>6, <1>8, <1>9
<1>17. D \in Client
  <2>1. D.cursor \in 0..MaxTotal /\ D.hdrOff \in 0..HeaderCacheSize
    <3>1. total \in Nat /\ MaxTotal \in Nat /\ HeaderCacheSize \in Nat
      BY <1>1
    <3>2. D.cursor \in Nat /\ D.cursor \leq total + n /\ D.hdrOff \in Nat /\ D.hdrOff \leq hl
      BY <1>14, <1>15, <1>16
    <3> HIDE RingAssumption DEF RingAssumption
    <3> QED
      BY <3>1, <3>2, <1>4
  <2>2. D.hdrSent \in BOOLEAN
    BY <1>13 DEF ReplayDone
  <2> QED
    BY <1>6, <1>13, <2>1, <2>2 DEF Client
<1>18. Sent(c, room, Continue) \in Seq(Nat \X Nat)
  <2>1. c.hdrOff \in Nat /\ c.cursor \in Nat
    BY <1>6
  <2>2. Slice(session, c.hdrOff, r) \in Seq(Nat \X Nat) /\ Slice(session, c.cursor, f) \in Seq(Nat \X Nat)
    BY <2>1, <1>1, SliceSeq
  <2> QED
    BY <2>2, <1>12, CatGrows
<1>19. Cat(got[c.v], Sent(c, room, Continue))
         = Cat(Slice(session, 0, D.hdrOff), Slice(session, j, D.cursor - j))
  <2> DEFINE h == c.hdrOff
             q == c.cursor - j
             p == c.cursor
  <2>1. h \in Nat /\ q \in Nat /\ p \in Nat /\ p = j + q
    BY <1>16
  <2>2. r = 0 \/ q = 0
    <3>1. CASE c.hdrSent
      BY <3>1, <1>12
    <3>2. CASE ~c.hdrSent
      BY <3>2, <1>9, <1>16
    <3> QED
      BY <3>1, <3>2
  <2>3. D.hdrOff = h + r /\ D.cursor - j = q + f
    BY <1>14, <1>15, <1>16
  <2>4. /\ got[c.v] = Cat(Slice(session, 0, h), Slice(session, j, q))
        /\ Sent(c, room, Continue) = Cat(Slice(session, h, r), Slice(session, p, f))
    BY <1>8, <1>12
  <2> HIDE DEF h, q, p
  <2>5. Cat(Cat(Slice(session, 0, h), Slice(session, j, q)), Cat(Slice(session, h, r), Slice(session, p, f)))
             = Cat(Slice(session, 0, h + r), Slice(session, j, q + f))
    <3>1. session \in Nat /\ j \in Nat /\ r \in Nat /\ f \in Nat
      BY <1>1, <1>16, <1>14
    <3> HIDE RingAssumption
    <3> QED
      BY <2>1, <2>2, <3>1, SliceGrow
  <2> QED
    BY <2>3, <2>4, <2>5
<1>20. Follows(D, session, total', Len(header'), j, Cat(got[c.v], Sent(c, room, Continue)))
  <2>1. D.hdrOff \leq Len(header') /\ j \leq D.cursor /\ D.cursor \leq total' /\ total' - D.cursor \leq Cap
    <3>1. Len(header') = hl /\ total' = total + n /\ total' - c.cursor \leq Cap
      BY <1>2, <1>10
    <3> QED
      BY <3>1, <1>1, <1>4, <1>14, <1>15, <1>16
  <2>2. ~D.hdrSent => D.cursor = j
    <3>1. ASSUME ~D.hdrSent PROVE D.cursor = j
      <4>1. ~ReplayDone(c, room) /\ ~c.hdrSent
        BY <3>1, <1>12, <1>13
      <4> QED
        BY <4>1, <1>6, <1>8, <1>9, <1>12, <1>15
    <3> QED
      BY <3>1
  <2> QED
    BY <2>1, <2>2, <1>19 DEF Follows
<1> QED
  BY <1>13, <1>17, <1>18, <1>20 DEF D, c, j

\* A message: whoever is still served was served before and received more.
LEMMA ReceiveEffects ==
    ASSUME Inductive, Receive
    PROVE  /\ Inductive'
           /\ session' = session /\ joined' = joined /\ total' \in Nat /\ total < total'
           /\ Members' \subseteq Members
           /\ \A v \in Members' : \E x \in Seq(Nat \X Nat) : got'[v] = Cat(got[v], x)
<1> DEFINE Kept_(room) == {clients[i].v : i \in {j \in DOMAIN clients :
                             ~Lagged(clients[j]) /\ room[clients[j].v] # Out}}
<1>1. PICK n \in 1..MaxMsg, room \in [Members -> Rooms] :
         /\ total + n \leq MaxTotal
         /\ header' = CacheHeader(Message(n))
         /\ buf' = RingWrite(Message(n))
         /\ total' = total + n
         /\ clients' = DrainedClients(Kept_(room), room, Continue)
         /\ got' = GotAfter(Kept_(room), room, Continue)
         /\ conn' = [v \in Viewers |-> IF v \in Members \ Kept_(room) THEN "closed" ELSE conn[v]]
  BY DEF Receive
<1>2. session' = session /\ joined' = joined
  BY DEF Receive
<1> DEFINE kept == Kept_(room)
<1>3. /\ session \in Nat /\ total \in Nat /\ clients \in Seq(Client) /\ Distinct(clients)
      /\ n \in Nat /\ n \geq 1 /\ total' \in 0..MaxTotal /\ total < total'
  <2>1. session \in Nat /\ total \in Nat /\ clients \in Seq(Client) /\ Distinct(clients)
    BY DEF Inductive, Types, Table
  <2>2. n \in Nat /\ n \geq 1
    BY RingAssumption
  <2> QED
    BY <1>1, <2>1, <2>2, RingAssumption
<1>4. kept \subseteq Members
  BY DEF Members
<1>5. ASSUME NEW k \in DOMAIN clients, clients[k].v \in kept
      PROVE  ~Lagged(clients[k]) /\ room[clients[k].v] \in Nat /\ clients[k].v \in Viewers
  <2>1. PICK i \in DOMAIN clients : clients[i].v = clients[k].v /\ ~Lagged(clients[i]) /\ room[clients[i].v] # Out
    BY <1>5
  <2>2. i = k
    BY <2>1, <1>3 DEF Distinct
  <2>3. clients[k].v \in Members
    BY DEF Members
  <2>4. room[clients[k].v] \in Rooms
    BY <2>3
  <2>5. room[clients[k].v] \in Nat
    BY <2>1, <2>2, <2>4, RingAssumption DEF Rooms
  <2>6. clients[k].v \in Viewers
    BY <2>3 DEF Inductive, Table
  <2> QED
    BY <2>1, <2>2, <2>5, <2>6
<1> HIDE DEF kept
<1>6. PICK m \in 0..Len(clients) : \E o \in [1..m -> DOMAIN clients] :
             /\ DOMAIN clients' = 1..m /\ Len(clients') = m
             /\ \A T : (\A i \in 1..m : clients'[i] \in T) => clients' \in Seq(T)
             /\ \A i \in 1..m : clients'[i] = Drained(clients[o[i]], room[clients[o[i]].v], Continue)
             /\ \A i, j \in 1..m : o[i] = o[j] => i = j
             /\ \A i \in 1..m : clients[o[i]].v \in kept
             /\ \A j \in DOMAIN clients : clients[j].v \in kept => \E i \in 1..m : o[i] = j
  <2>1. clients' = DrainedClients(kept, room, Continue)
    BY <1>1 DEF kept
  <2>2. clients \in Seq(Client)
    BY <1>3
  <2>3. DrainedTo(clients', kept, room, Continue)
    BY <2>1, <2>2, DrainedSlots
  <2> QED
    BY <2>3, Zenon DEF DrainedTo
<1>7. PICK o \in [1..m -> DOMAIN clients] :
             /\ DOMAIN clients' = 1..m /\ Len(clients') = m
             /\ \A T : (\A i \in 1..m : clients'[i] \in T) => clients' \in Seq(T)
             /\ \A i \in 1..m : clients'[i] = Drained(clients[o[i]], room[clients[o[i]].v], Continue)
             /\ \A i, j \in 1..m : o[i] = o[j] => i = j
             /\ \A i \in 1..m : clients[o[i]].v \in kept
             /\ \A j \in DOMAIN clients : clients[j].v \in kept => \E i \in 1..m : o[i] = j
  BY <1>6
<1>8. ASSUME NEW i \in 1..m
      PROVE  /\ clients'[i] \in Client /\ clients'[i].v = clients[o[i]].v /\ clients'[i].v \in kept
             /\ Follows(clients'[i], session, total', Len(header'), joined[clients'[i].v], got'[clients'[i].v])
             /\ \E x \in Seq(Nat \X Nat) : got'[clients'[i].v] = Cat(got[clients'[i].v], x)
  <2> DEFINE k == o[i]
             b == room[clients[k].v]
  <2>1. k \in DOMAIN clients /\ clients[k].v \in kept /\ clients'[i] = Drained(clients[k], b, Continue)
    BY <1>7
  <2>2. ~Lagged(clients[k]) /\ b \in Nat /\ clients[k].v \in Viewers
    BY <2>1, <1>5
  <2>3. got'[clients[k].v] = Cat(got[clients[k].v], Sent(clients[k], b, Continue))
    <3>1. GotAfter(kept, room, Continue)[clients[k].v] = Cat(got[clients[k].v], Sent(clients[k], b, Continue))
      <4>1. \A i_1, j_1 \in DOMAIN clients : clients[i_1].v = clients[j_1].v => i_1 = j_1
        BY <1>3 DEF Distinct
      <4> QED
        BY <2>1, <2>2, <4>1, GotIs
    <3> QED
      BY <1>1, <3>1 DEF kept
  <2> HIDE DEF k, b
  <2>4. /\ Drained(clients[k], b, Continue) \in Client
        /\ Drained(clients[k], b, Continue).v = clients[k].v
        /\ Sent(clients[k], b, Continue) \in Seq(Nat \X Nat)
        /\ Follows(Drained(clients[k], b, Continue), session, total', Len(header'),
                   joined[clients[k].v],
                   Cat(got[clients[k].v], Sent(clients[k], b, Continue)))
    BY <1>1, <1>2, <2>1, <2>2, DrainFollows
  <2>5. clients'[i].v = clients[k].v
    BY <2>1, <2>4
  <2> QED
    BY <2>1, <2>3, <2>4, <2>5 DEF k
<1>9. Members' = kept
  <2>1. Members' = {clients'[i].v : i \in 1..m}
    BY <1>7 DEF Members
  <2>2. ASSUME NEW v \in kept PROVE \E i \in 1..m : clients'[i].v = v
    <3>1. PICK j \in DOMAIN clients : clients[j].v = v
      BY <1>4 DEF Members
    <3>2. PICK i \in 1..m : o[i] = j
      BY <3>1, <1>7
    <3> QED
      BY <3>1, <3>2, <1>8
  <2> QED
    BY <2>1, <2>2, <1>8
<1>10. Types'
  <2>1. clients' \in Seq(Client) /\ Len(clients') \leq MaxHttpClients
    <3>1. \A i \in 1..m : clients'[i] \in Client
      BY <1>8
    <3>2. clients' \in Seq(Client) /\ Len(clients') = m
      BY <1>7, <3>1
    <3>3. Len(clients) \in Nat /\ Len(clients) \leq MaxHttpClients
      BY <1>3 DEF Inductive, Types
    <3> QED
      BY <3>2, <3>3, RingAssumption
  <2>2. got' \in [Viewers -> Seq(Nat \X Nat)]
    <3>1. got' = GotAfter(kept, room, Continue)
      BY <1>1 DEF kept
    <3>2. ASSUME NEW v \in Viewers PROVE got'[v] \in Seq(Nat \X Nat)
      <4>1. CASE v \in kept
        <5>1. PICK i \in 1..m : clients'[i].v = v
          BY <4>1, <1>9, <1>7 DEF Members
        <5>2. PICK x \in Seq(Nat \X Nat) : got'[v] = Cat(got[v], x)
          BY <5>1, <1>8
        <5>3. got[v] \in Seq(Nat \X Nat)
          BY DEF Inductive, Types
        <5> QED
          BY <5>2, <5>3, CatGrows
      <4>2. CASE v \notin kept
        <5>1. got'[v] = <<>>
          BY <1>1, <4>2 DEF GotAfter, kept
        <5> QED
          BY <5>1
      <4> QED
        BY <4>1, <4>2
    <3> QED
      BY <3>1, <3>2, GotType
  <2>3. conn' \in [Viewers -> {"none", "handshake", "open", "closed"}]
    BY <1>1 DEF Inductive, Types
  <2> QED
    BY <1>2, <1>3, <2>1, <2>2, <2>3 DEF Inductive, Types
<1>11. Table'
  <2>1. Distinct(clients')
    <3> SUFFICES ASSUME NEW i \in 1..m, NEW j \in 1..m, clients'[i].v = clients'[j].v
                 PROVE  i = j
      BY <1>7 DEF Distinct
    <3>1. clients[o[i]].v = clients[o[j]].v
      BY <1>8
    <3>2. o[i] = o[j]
      BY <3>1, <1>3 DEF Distinct
    <3> QED
      BY <3>2, <1>7
  <2>2. kept = {v \in Viewers : conn'[v] = "open"}
    <3>1. Members = {v \in Viewers : conn[v] = "open"}
      BY DEF Inductive, Table
    <3>2. \A v \in Viewers : conn'[v] = IF v \in Members \ kept THEN "closed" ELSE conn[v]
      BY <1>1 DEF kept
    <3> QED
      BY <1>4, <3>1, <3>2
  <2>3. \A v \in Viewers \ kept : got'[v] = <<>>
    BY <1>1 DEF GotAfter, kept
  <2> QED
    BY <1>9, <2>1, <2>2, <2>3 DEF Table
<1>12. Stream'
  <2>1. CacheHolds /\ RingHolds
    BY DEF Inductive, Stream
  <2>2. CacheHolds'
    BY <2>1, <1>1, <1>2, <1>3, CacheHoldsAfter
  <2>3. RingHolds'
    BY <2>1, <1>1, <1>2, <1>3, RingHoldsAfter
  <2> QED
    BY <2>2, <2>3 DEF Stream
<1>13. Following'
  BY <1>2, <1>7, <1>8 DEF Following
<1>14. \A v \in Members' : \E x \in Seq(Nat \X Nat) : got'[v] = Cat(got[v], x)
  <2> SUFFICES ASSUME NEW v \in Members' PROVE \E x \in Seq(Nat \X Nat) : got'[v] = Cat(got[v], x)
    OBVIOUS
  <2>1. PICK i \in 1..m : clients'[i].v = v
    BY <1>7 DEF Members
  <2> QED
    BY <2>1, <1>8
<1> QED
  BY <1>2, <1>3, <1>4, <1>9, <1>10, <1>11, <1>12, <1>13, <1>14 DEF Inductive

-----------------------------------------------------------------------------
\* Every step is one of four that touch the stream or the table, or leaves both
\* alone.
Aside ==
    /\ UNCHANGED ringVars
    /\ conn' \in [Viewers -> {"none", "handshake", "open", "closed"}]
    /\ \A v \in Viewers : conn'[v] = "open" <=> conn[v] = "open"

\* The five kinds of step; Install with a full table only closes the connection.
LEMMA StepKinds ==
    ASSUME Inductive, [Next]_vars
    PROVE  \/ Aside \/ JoinHttp \/ StartSession \/ Receive
           \/ \E v \in Viewers : Install(v) /\ Len(clients) < MaxHttpClients
<1>1. conn \in [Viewers -> {"none", "handshake", "open", "closed"}]
  BY DEF Inductive, Types
<1>2. ASSUME UNCHANGED ringVars, conn' = conn PROVE Aside
  BY <1>1, <1>2, Zenon DEF Aside
<1>3. ASSUME NEW v \in Viewers, NEW s \in {"none", "handshake", "closed"},
             UNCHANGED ringVars, conn[v] # "open", conn' = [conn EXCEPT ![v] = s]
      PROVE  Aside
  BY <1>1, <1>3 DEF Aside
<1>4. CASE UNCHANGED vars
  BY <1>2, <1>4 DEF vars, control
<1>5. CASE LoadConfig
  BY <1>2, <1>5 DEF LoadConfig
<1>6. CASE Listen
  BY <1>2, <1>6 DEF Listen
<1>7. CASE on_signal
  BY <1>2, <1>7 DEF on_signal
<1>8. CASE CloseListeners
  BY <1>2, <1>8 DEF CloseListeners
<1>9. CASE JoinSrt
  BY <1>2, <1>9 DEF JoinSrt
<1>10. CASE ProducerReturns
  BY <1>2, <1>10 DEF ProducerReturns
<1>11. CASE RecvEnds
  BY <1>2, <1>11 DEF RecvEnds
<1>12. CASE EndSession
  BY <1>2, <1>12 DEF EndSession
<1>13. ASSUME NEW v \in Viewers, AcceptHttp(v) PROVE Aside
  <2>1. PICK s \in {"handshake", "closed"} : conn' = [conn EXCEPT ![v] = s]
    BY <1>13 DEF AcceptHttp
  <2>2. UNCHANGED ringVars /\ conn[v] = "none"
    BY <1>13 DEF AcceptHttp
  <2> QED
    BY <2>1, <2>2, <1>3
<1>14. ASSUME NEW v \in Viewers, Reject(v) PROVE Aside
  <2>1. UNCHANGED ringVars /\ conn[v] = "handshake" /\ conn' = [conn EXCEPT ![v] = "closed"]
    BY <1>14 DEF Reject
  <2> QED
    BY <2>1, <1>3
<1>15. ASSUME NEW v \in Viewers, Install(v) PROVE Aside \/ Len(clients) < MaxHttpClients
  <2>1. CASE Len(clients) \geq MaxHttpClients
    <3>1. UNCHANGED ringVars /\ conn[v] = "handshake" /\ conn' = [conn EXCEPT ![v] = "closed"]
      BY <2>1, <1>15 DEF Install, ringVars
    <3> QED
      BY <3>1, <1>3
  <2>2. CASE ~(Len(clients) \geq MaxHttpClients)
    <3>1. Len(clients) \in Nat /\ MaxHttpClients \in Nat
      BY RingAssumption DEF Inductive, Types
    <3> QED
      BY <2>2, <3>1
  <2> QED
    BY <2>1, <2>2
<1> QED
  BY <1>4, <1>5, <1>6, <1>7, <1>8, <1>9, <1>10, <1>11, <1>12, <1>13, <1>14, <1>15 DEF Next

\* Every step keeps the invariant.
LEMMA StaysInductive == Inductive /\ [Next]_vars => Inductive'
<1> SUFFICES ASSUME Inductive, [Next]_vars PROVE Inductive'
  OBVIOUS
<1>1. CASE Aside
  BY <1>1, AsidePreserves DEF Aside
<1>2. CASE JoinHttp
  BY <1>2, JoinHttpPreserves
<1>3. CASE StartSession
  BY <1>3, StartSessionPreserves
<1>4. CASE Receive
  BY <1>4, ReceiveEffects
<1>5. ASSUME NEW v \in Viewers, Install(v), Len(clients) < MaxHttpClients PROVE Inductive'
  BY <1>5, InstallPreserves
<1> QED
  BY <1>1, <1>2, <1>3, <1>4, <1>5, StepKinds

\* The invariant holds throughout.
LEMMA AlwaysInductive == Spec => []Inductive
BY StartsInductive, StaysInductive, PTL DEF Spec

-----------------------------------------------------------------------------
\* Handshake threads that install clients, the producer that drops them and
\* main's cleanup never leave a slot without its connection, a connection
\* without its slot, or two slots for one connection.
THEOREM SlotsMatch == Spec => []SlotsMatchConnections
<1>1. Inductive => SlotsMatchConnections
  <2> SUFFICES ASSUME Inductive PROVE SlotsMatchConnections
    OBVIOUS
  <2>1. clients \in Seq(Client) /\ \A i, j \in DOMAIN clients : clients[i].v = clients[j].v => i = j
    BY DEF Inductive, Types, Table, Distinct
  <2>2. Len(clients) = Cardinality(Members)
    BY <2>1, OneSlotEach
  <2> QED
    BY <2>2 DEF Inductive, Table, SlotsMatchConnections
<1> QED
  BY <1>1, AlwaysInductive, PTL

\* No client's cursor passes the end of the stream or falls out of the ring,
\* whatever the pace of the camera and of the viewers' sockets.
THEOREM CursorsStayInWindow == Spec => []CursorsInWindow
<1>1. Inductive => CursorsInWindow
  BY DEF Inductive, Following, Follows, CursorsInWindow
<1> QED
  BY <1>1, AlwaysInductive, PTL

-----------------------------------------------------------------------------
\* The refinement.  What the abstract stream and the abstract viewers are.
StreamBar == [i \in 1..total |-> <<session, i - 1>>]
SeenBar == [v \in Viewers |-> IF v \in Members THEN got[v] ELSE Out]

\* The abstract stream is the session's bytes so far.
LEMMA StreamIs ==
    ASSUME Inductive
    PROVE  /\ StreamBar = Slice(session, 0, total)
           /\ session \in Nat /\ total \in Nat /\ Len(StreamBar) = total
<1>1. session \in Nat /\ total \in Nat /\ 0 \in Nat
  BY DEF Inductive, Types
<1>2. StreamBar = Slice(session, 0, total)
  BY <1>1 DEF StreamBar, Slice
<1> QED
  BY <1>1, <1>2, SliceSeq

\* A served viewer is never mistaken for one that is not.
LEMMA ServedAre ==
    ASSUME Inductive
    PROVE  \A v \in Viewers : /\ SeenBar[v] = IF v \in Members THEN got[v] ELSE Out
                              /\ SeenBar[v] # Out <=> v \in Members
<1>1. \A v \in Viewers : got[v] \in Seq(Nat \X Nat)
  BY DEF Inductive, Types
<1>2. Out \notin Seq(Nat \X Nat)
  BY RingAssumption
<1>3. \A v \in Viewers : got[v] # Out
  BY <1>1, <1>2
<1> QED
  BY <1>3 DEF SeenBar

\* Bytes from a to before b of the stream.
LEMMA RunIs ==
    ASSUME NEW s, NEW t, NEW a, NEW b,
           s \in Nat, t \in Nat, a \in Nat, b \in Nat, a \leq b, b \leq t
    PROVE  Part(Slice(s, 0, t), a + 1, b) = Slice(s, a, b - a)
<1> DEFINE l == a + 1
           r == b - a
<1>1. /\ 0 \in Nat /\ l \in Nat /\ r \in Nat
      /\ l \geq 1 /\ b \leq t /\ b = l + r - 1 /\ a = 0 + l - 1
  OBVIOUS
<1> HIDE DEF l, r
<1>2. Part(Slice(s, 0, t), l, b) = Slice(s, a, r)
  BY <1>1, SliceSub
<1> QED
  BY <1>2 DEF l, r

\* What a client that is followed has received is legal.
LEMMA FollowsIsLegal ==
    ASSUME NEW s \in Nat, NEW t \in Nat, NEW l \in Nat, l \leq t, NEW j \in Nat, NEW c \in Client, NEW g,
           Follows(c, s, t, l, j, g)
    PROVE  \E h \in 0..t, b \in j..t :
             g = Cat(Part(Slice(s, 0, t), 1, h), Part(Slice(s, 0, t), j + 1, b))
<1> DEFINE h == c.hdrOff
           b == c.cursor
<1>1. h \in Nat /\ b \in Nat
  BY DEF Client
<1>2. h \leq l /\ j \leq b /\ b \leq t /\ g = Cat(Slice(s, 0, h), Slice(s, j, b - j))
  BY DEF Follows
<1> HIDE DEF h, b
<1>3. h \leq t
  BY <1>1, <1>2
<1>4. Part(Slice(s, 0, t), j + 1, b) = Slice(s, j, b - j)
  BY <1>1, <1>2, RunIs
<1>5. Part(Slice(s, 0, t), 1, h) = Slice(s, 0, h)
  <2>1. 1 \in Nat /\ 0 \in Nat /\ 1 \geq 1 /\ h = 1 + h - 1 /\ 0 = 0 + 1 - 1
    BY <1>1
  <2> QED
    BY <1>1, <1>3, <2>1, SliceSub
<1>6. g = Cat(Part(Slice(s, 0, t), 1, h), Part(Slice(s, 0, t), j + 1, b))
  BY <1>2, <1>4, <1>5
<1>7. h \in 0..t /\ b \in j..t
  BY <1>1, <1>2, <1>3
<1> QED
  BY <1>6, <1>7

-----------------------------------------------------------------------------
\* The initial states and the steps of the bridge, in the abstract.
LEMMA StartsAsFanout == Init => Abstract!Init
<1> SUFFICES ASSUME Init PROVE Abstract!Init
  OBVIOUS
<1>1. total = 0 /\ clients = <<>> /\ joined = [v \in Viewers |-> 0]
  BY DEF Init, RingInit
<1>2. Members = {}
  BY <1>1 DEF Members
<1> QED
  BY <1>1, <1>2 DEF Abstract!Init

\* What leaves the stream and the table alone is no step of the abstraction.
LEMMA AsideIsStutter ==
    ASSUME UNCHANGED ringVars
    PROVE  UNCHANGED Abstract!vars
<1>1. Members' = Members
  BY DEF Members, ringVars
<1> QED
  BY <1>1 DEF ringVars, Abstract!vars

\* Emptying the table is everybody's Leave.
LEMMA JoinHttpIsLeave ==
    ASSUME Inductive, JoinHttp
    PROVE  Abstract!Leave
<1>1. total' = total /\ session' = session /\ joined' = joined /\ Members' = {}
  BY DEF JoinHttp, Members
<1> QED
  BY <1>1 DEF Abstract!Leave

\* Install is a Join at the live end.
LEMMA InstallIsJoin ==
    ASSUME Inductive, NEW v \in Viewers, Install(v), Len(clients) < MaxHttpClients
    PROVE  Abstract!Join(v)
<1>1. /\ clients' = Append(clients, Fresh(v, total)) /\ joined' = [joined EXCEPT ![v] = total]
      /\ conn[v] = "handshake" /\ total' = total /\ session' = session /\ got' = got
  <2>1. Len(clients) \in Nat /\ MaxHttpClients \in Nat
    BY RingAssumption DEF Inductive, Types
  <2>2. ~(Len(clients) \geq MaxHttpClients)
    BY <2>1
  <2> QED
    BY <2>2 DEF Install
<1>2. v \notin Members /\ got[v] = <<>>
  BY <1>1 DEF Inductive, Table
<1>3. Members' = Members \union {v}
  <2> DEFINE n == Len(clients)
             c == Fresh(v, total)
  <2>1. c.v = v
    BY DEF Fresh
  <2> HIDE DEF c
  <2>2. /\ n \in Nat /\ DOMAIN clients = 1..n /\ DOMAIN clients' = 1..(n + 1)
        /\ clients'[n + 1] = c /\ \A i \in 1..n : clients'[i] = clients[i]
    BY <1>1 DEF Inductive, Types, c
  <2> HIDE DEF n
  <2> QED
    BY <2>1, <2>2 DEF Members
<1>4. Len(StreamBar) = total
  BY StreamIs
<1>5. SeenBar[v] = Out
  BY <1>2 DEF SeenBar
<1>6. SeenBar' = [SeenBar EXCEPT ![v] = <<>>]
  BY <1>1, <1>2, <1>3 DEF SeenBar
<1>7. StreamBar' = StreamBar
  BY <1>1 DEF StreamBar
<1> QED
  BY <1>1, <1>4, <1>5, <1>6, <1>7 DEF Abstract!Join, StreamBar, SeenBar

\* StartSession is a NewSession for whoever is served.
LEMMA StartIsNewSession ==
    ASSUME Inductive, StartSession
    PROVE  Abstract!NewSession
<1>1. /\ total' = 0 /\ got' = [v \in Viewers |-> <<>>] /\ joined' = [v \in Viewers |-> 0]
      /\ clients' = [i \in DOMAIN clients |-> Fresh(clients[i].v, 0)]
  BY DEF StartSession, ResetClients
<1>2. Members' = Members
  BY <1>1 DEF Members, Fresh
<1>3. \A v \in Viewers : SeenBar[v] # Out <=> v \in Members
  BY ServedAre
<1>4. StreamBar' = <<>>
  BY <1>1 DEF StreamBar
<1>5. SeenBar' = [v \in Viewers |-> IF SeenBar[v] # Out THEN <<>> ELSE Out]
  <2>1. SeenBar' = [v \in Viewers |-> IF v \in Members THEN <<>> ELSE Out]
    BY <1>1, <1>2 DEF SeenBar
  <2> QED
    BY <2>1, <1>3, Zenon
<1>6. SeenBar' = [v \in Viewers |-> IF v \in {u \in Viewers : SeenBar[u] # Out} THEN <<>> ELSE Out]
  BY <1>5
<1> QED
  BY <1>1, <1>4, <1>6 DEF Abstract!NewSession, Abstract!Served, StreamBar, SeenBar

\* Receive is a Feed: the clients that stay receive more of the stream, the
\* others leave.
LEMMA ReceiveIsFeed ==
    ASSUME Inductive, Inductive', Receive
    PROVE  Abstract!Feed
<1>1. /\ session' = session /\ joined' = joined /\ total' \in Nat /\ total < total'
      /\ Members' \subseteq Members
      /\ \A v \in Members' : \E x \in Seq(Nat \X Nat) : got'[v] = Cat(got[v], x)
  BY ReceiveEffects
<1>2. StreamBar = Slice(session, 0, total) /\ session \in Nat /\ total \in Nat
  BY StreamIs
<1>3. StreamBar' = Slice(session, 0, total') /\ Len(StreamBar') = total'
  <2>1. StreamBar' = Slice(session', 0, total')
    BY <1>1, <1>2 DEF StreamBar, Slice
  <2>2. 0 \in Nat
    OBVIOUS
  <2> QED
    BY <1>1, <1>2, <2>1, <2>2, SliceSeq
<1>4. IsPrefix(StreamBar, StreamBar') /\ StreamBar # StreamBar'
  <2>1. total \leq total'
    BY <1>1, <1>2
  <2> QED
    BY <1>1, <1>2, <1>3, <2>1, SlicePrefix
<1>5. \A v \in Viewers : SeenBar[v] # Out <=> v \in Members
  BY ServedAre
<1>6. \A v \in Viewers : SeenBar'[v] = IF v \in Members' THEN got'[v] ELSE Out
  BY DEF SeenBar
<1>7. DOMAIN SeenBar' = Viewers
  BY DEF SeenBar
<1>8. ASSUME NEW v \in Viewers, v \in Members'
      PROVE  /\ SeenBar[v] # Out
             /\ IsPrefix(SeenBar[v], SeenBar'[v])
             /\ \E h \in 0..total', b \in joined[v]..total' :
                  SeenBar'[v] = Cat(Part(StreamBar', 1, h), Part(StreamBar', joined[v] + 1, b))
  <2>1. v \in Members /\ SeenBar[v] # Out
    BY <1>1, <1>5, <1>8
  <2>2. SeenBar[v] = got[v] /\ SeenBar'[v] = got'[v]
    BY <2>1, <1>6, <1>8 DEF SeenBar
  <2>3. IsPrefix(got[v], got'[v])
    <3>1. PICK x \in Seq(Nat \X Nat) : got'[v] = Cat(got[v], x)
      BY <1>1, <1>8
    <3>2. got[v] \in Seq(Nat \X Nat)
      BY DEF Inductive, Types
    <3> QED
      BY <3>1, <3>2, CatGrows
  <2>4. PICK i \in DOMAIN clients' : clients'[i].v = v
    BY <1>8 DEF Members
  <2> DEFINE c == clients'[i]
             l == Len(header')
  <2>5. Follows(c, session, total', l, joined[v], got'[v])
    BY <2>4, <1>1 DEF Inductive, Following
  <2>6. c \in Client /\ joined[v] \in Nat
    BY <2>4 DEF Inductive, Types
  <2>7. l \in Nat /\ l \leq total'
    <3>1. Least(total', HeaderCacheSize) \in Nat /\ Least(total', HeaderCacheSize) \leq total'
      BY <1>1, RingAssumption DEF Least
    <3>2. header' = Slice(session', 0, Least(total', HeaderCacheSize))
      BY DEF Inductive, Stream, CacheHolds
    <3>3. l = Least(total', HeaderCacheSize)
      <4>1. 0 \in Nat
        OBVIOUS
      <4> QED
        BY <3>1, <3>2, <4>1, <1>1, <1>2, SliceSeq
    <3> QED
      BY <3>1, <3>3
  <2> HIDE DEF c, l
  <2>8. \E h \in 0..total', b \in joined[v]..total' :
             got'[v] = Cat(Part(Slice(session, 0, total'), 1, h), Part(Slice(session, 0, total'), joined[v] + 1, b))
    BY <1>1, <1>2, <2>5, <2>6, <2>7, FollowsIsLegal
  <2> QED
    BY <2>1, <2>2, <2>3, <2>8, <1>3
<1>9. Abstract!IsStrictPrefix(StreamBar, StreamBar')
  BY <1>4 DEF Abstract!IsStrictPrefix, Abstract!IsPrefix, IsPrefix
<1>10. ASSUME NEW v \in Viewers
       PROVE  \/ SeenBar'[v] = Out
              \/ /\ v \in {u \in Viewers : SeenBar[u] # Out}
                 /\ Abstract!IsPrefix(SeenBar[v], SeenBar'[v])
                 /\ Abstract!Legal(StreamBar', joined[v], SeenBar'[v])
  <2>1. CASE v \notin Members'
    BY <2>1, <1>6
  <2>2. CASE v \in Members'
    <3>1. SeenBar[v] # Out
      BY <2>2, <1>8
    <3>2. Abstract!IsPrefix(SeenBar[v], SeenBar'[v])
      BY <2>2, <1>8 DEF IsPrefix, Abstract!IsPrefix
    <3>3. Abstract!Legal(StreamBar', joined[v], SeenBar'[v])
      <4>1. PICK h \in 0..total', b \in joined[v]..total' :
              SeenBar'[v] = Cat(Part(StreamBar', 1, h), Part(StreamBar', joined[v] + 1, b))
        BY <2>2, <1>8
      <4>2. h \in 0..Len(StreamBar') /\ b \in joined[v]..Len(StreamBar')
        BY <1>3
      <4>3. Part(StreamBar', 0 + 1, h) = Part(StreamBar', 1, h)
        OBVIOUS
      <4>4. SeenBar'[v] = Cat(Part(StreamBar', 0 + 1, h), Part(StreamBar', joined[v] + 1, b))
        BY <4>1, <4>3
      <4> HIDE DEF StreamBar, SeenBar
      <4> QED
        BY <4>2, <4>4, Zenon DEF Abstract!Legal, Abstract!Run, Cat, Part
    <3> QED
      BY <3>1, <3>2, <3>3
  <2> QED
    BY <2>1, <2>2
<1> QED
  BY <1>1, <1>7, <1>9, <1>10, Zenon DEF Abstract!Feed, Abstract!Served, StreamBar, SeenBar

\* Every step is one of StreamFanout or a stutter.
LEMMA StepsAsFanout == Inductive /\ Inductive' /\ [Next]_vars => [Abstract!Next]_(Abstract!vars)
<1> SUFFICES ASSUME Inductive, Inductive', [Next]_vars PROVE [Abstract!Next]_(Abstract!vars)
  OBVIOUS
<1>1. CASE Aside
  <2>1. UNCHANGED Abstract!vars
    BY <1>1, AsideIsStutter DEF Aside
  <2> QED
    BY <2>1
<1>2. CASE JoinHttp
  BY <1>2, JoinHttpIsLeave DEF Abstract!Next
<1>3. CASE StartSession
  BY <1>3, StartIsNewSession DEF Abstract!Next
<1>4. CASE Receive
  BY <1>4, ReceiveIsFeed DEF Abstract!Next
<1>5. ASSUME NEW v \in Viewers, Install(v), Len(clients) < MaxHttpClients PROVE Abstract!Next
  BY <1>5, InstallIsJoin DEF Abstract!Next
<1> QED
  BY <1>1, <1>2, <1>3, <1>4, <1>5, StepKinds

\* With ring, cache and cursors hidden the cloud bridge is StreamFanout: every
\* viewer sees a beginning of the session and then every byte from where it
\* joined, in order and from the camera's memory of this session, or is
\* dropped.
THEOREM CloudImplementsFanout == Spec => ImplementsFanout
<1>1. Init => Abstract!Init
  BY StartsAsFanout
<1>2. Inductive /\ Inductive' /\ [Next]_vars => [Abstract!Next]_(Abstract!vars)
  BY StepsAsFanout
<1> QED
  BY <1>1, <1>2, AlwaysInductive, PTL DEF Spec, Abstract!Spec, ImplementsFanout
=============================================================================
