------------------------------ MODULE FlvRing ------------------------------
(***************************************************************************)
(* The stream state both viewer bridges keep under g_stream.mutex: a ring  *)
(* of the latest bytes, a cache of the first bytes of the session, and the *)
(* table of HTTP clients with each one's place in both.                    *)
(*                                                                         *)
(* A byte is <<session, position>>, which the code does not know: it makes *)
(* visible what the memory of the ring really holds when a client reads    *)
(* it.  got is what a client's TCP connection accepted in this session,    *)
(* joined where the stream was when it became a client.                    *)
(***************************************************************************)
EXTENDS Integers, FiniteSets, SequencesExt

CONSTANTS
    Viewers,          \* HTTP connections
    Out,              \* no byte, or a viewer that is not served
    Cap,              \* RING_SIZE
    HeaderCacheSize,  \* HEADER_CACHE_SIZE
    MaxHttpClients,   \* MAX_HTTP_CLIENTS
    MaxMsg,           \* the largest message srt_recvmsg returns
    MaxTotal,         \* bound: bytes of one session
    MaxSessions       \* bound: camera sessions

ASSUME RingAssumption ==
    /\ Cap \in Nat \ {0} /\ HeaderCacheSize \in Nat \ {0}
    /\ MaxHttpClients \in Nat \ {0} /\ MaxMsg \in 1..Cap
    /\ MaxTotal \in Nat /\ MaxSessions \in Nat
    /\ Out \notin Nat /\ Out \notin Seq(Nat \X Nat)

VARIABLES
    session,   \* which session the camera is in
    total,     \* total_bytes
    buf,       \* the ring's memory
    header,    \* flv_header[0 .. flv_header_len)
    clients,   \* clients[0 .. n_clients)
    got, joined

ringVars == <<session, total, buf, header, clients, got, joined>>

Least(a, b) == IF a < b THEN a ELSE b
Bytes == (1..MaxSessions) \X (0..(MaxTotal - 1))

(* http_client_t; v stands for the descriptor.                             *)
Client == [v : Viewers, cursor : 0..MaxTotal, hdrSent : BOOLEAN, hdrOff : 0..HeaderCacheSize]
Fresh(v, place) == [v |-> v, cursor |-> place, hdrSent |-> FALSE, hdrOff |-> 0]

Members == {clients[i].v : i \in DOMAIN clients}

Message(n) == [i \in 1..n |-> <<session, total + i - 1>>]

RingInit ==
    /\ session = 0 /\ total = 0
    /\ buf = [i \in 0..(Cap - 1) |-> Out]
    /\ header = <<>> /\ clients = <<>>
    /\ got = [v \in Viewers |-> <<>>] /\ joined = [v \in Viewers |-> 0]

RingWrite_NoWrap(msg) ==
    [i \in 0..(Cap - 1) |->
        IF i - (total % Cap) + 1 \in 1..Len(msg) THEN msg[i - (total % Cap) + 1] ELSE buf[i]]

(* The header cache takes what fits of a message.                          *)
CacheHeader(msg) ==
    header \o SubSeq(msg, 1, Least(Len(msg), HeaderCacheSize - Len(header)))

(* ring_write: the bytes go to consecutive places, wrapping at the end.    *)
RingWrite(msg) ==
    [i \in 0..(Cap - 1) |->
        IF \E j \in 1..Len(msg) : (total + j - 1) % Cap = i
        THEN msg[CHOOSE j \in 1..Len(msg) : (total + j - 1) % Cap = i]
        ELSE buf[i]]

(* What the ring's memory shows from cursor c on, k bytes.                 *)
RingRead(c, k) == [i \in 1..k |-> buf'[(c + i - 1) % Cap]]

(* drain_client_locked on the new ring and cache, for a socket with room   *)
(* for `room' bytes: first what is missing of the cache; once that is      *)
(* out the client continues at continue[<<cursor, cached bytes>>].         *)
Replayed(c, room) == IF c.hdrSent THEN 0 ELSE Least(room, Len(header') - c.hdrOff)
ReplayDone(c, room) == c.hdrSent \/ c.hdrOff + Replayed(c, room) = Len(header')
Place(c, room, continue) ==
    IF ~c.hdrSent /\ ReplayDone(c, room) THEN continue[<<c.cursor, Len(header')>>] ELSE c.cursor
FromRing(c, room, continue) ==
    IF ReplayDone(c, room)
    THEN Least(room - Replayed(c, room), total' - Place(c, room, continue))
    ELSE 0

Drained(c, room, continue) ==
    [c EXCEPT !.hdrOff = @ + Replayed(c, room),
              !.hdrSent = ReplayDone(c, room),
              !.cursor = Place(c, room, continue) + FromRing(c, room, continue)]
Sent(c, room, continue) ==
    SubSeq(header', c.hdrOff + 1, c.hdrOff + Replayed(c, room))
      \o RingRead(Place(c, room, continue), FromRing(c, room, continue))

(* What a client's socket takes of what is pending: less than that stops   *)
(* with EAGAIN.  Out stands for a send that fails.                         *)
Rooms == (0..(MaxTotal + HeaderCacheSize)) \union {Out}

(* The client table and what its members received, after a message: the    *)
(* clients in `kept' are drained, the others were closed and the table is  *)
(* compacted.                                                              *)
Kept(kept) ==
    LET slots == {i \in DOMAIN clients : clients[i].v \in kept}
        order == CHOOSE f \in Bijection(1..Cardinality(slots), slots) :
                     \A i, j \in 1..Cardinality(slots) : i < j => f[i] < f[j]
    IN  [i \in 1..Cardinality(slots) |-> clients[order[i]]]
DrainedClients(kept, room, continue) ==
    LET table == Kept(kept)
    IN  [i \in DOMAIN table |-> Drained(table[i], room[table[i].v], continue)]
GotAfter(kept, room, continue) ==
    [v \in Viewers |->
        IF v \in kept
        THEN got[v] \o Sent(clients[CHOOSE i \in DOMAIN clients : clients[i].v = v],
                            room[v], continue)
        ELSE <<>>]

RingTypeOK ==
    /\ session \in 0..MaxSessions /\ total \in 0..MaxTotal
    /\ buf \in [0..(Cap - 1) -> Bytes \union {Out}]
    /\ header \in Seq(Bytes) /\ Len(header) = Least(total, HeaderCacheSize)
    /\ clients \in Seq(Client) /\ Len(clients) \leq MaxHttpClients
    /\ got \in [Viewers -> Seq(Bytes \union {Out})] /\ joined \in [Viewers -> 0..MaxTotal]
=============================================================================
