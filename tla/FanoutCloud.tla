---------------------------- MODULE FanoutCloud ----------------------------
(***************************************************************************)
(* The cloud viewer bridge (src/consumer-srt-cloud/consumer_srt.c): the    *)
(* SRT producer thread, the HTTP accept thread, one detached handshake     *)
(* thread per HTTP connection, and main.  Everything the producer does     *)
(* with one message happens under g_stream.mutex and is one step, and so   *)
(* is the installation of a client by its handshake thread.                *)
(*                                                                         *)
(* Addresses, the stream id and the verify token are data: a camera or a   *)
(* request with the wrong one is a rejected one.                           *)
(***************************************************************************)
EXTENDS FlvRing, FiniteSets

VARIABLES
    producer,   \* srt_producer_thread: "accept" | "recv" | "end" | "returned"
    listener,   \* http_thread: "accept" | "returned"
    main,       \* "config" | "listen" | "run" | "joinSrt" | "joinHttp" | "exited"
    conn,       \* HTTP connections: "none" | "handshake" | "open" | "closed"
    shutdown    \* g_shutdown

control == <<producer, listener, main, conn, shutdown>>
vars == <<ringVars, control>>

Init ==
    /\ RingInit
    /\ producer = "accept" /\ listener = "accept" /\ main = "config"
    /\ conn = [v \in Viewers |-> "none"] /\ shutdown = FALSE

Running == main \in {"run", "joinSrt", "joinHttp"}

-----------------------------------------------------------------------------
(* main: the configuration and then the two listeners, or an early return. *)
LoadConfig ==
    /\ main = "config"
    /\ main' \in {"listen", "exited"}
    /\ UNCHANGED <<ringVars, producer, listener, conn, shutdown>>

Listen ==
    /\ main = "listen"
    /\ main' \in {"run", "exited"}
    /\ UNCHANGED <<ringVars, producer, listener, conn, shutdown>>

on_signal ==
    /\ Running /\ ~shutdown
    /\ shutdown' = TRUE
    /\ UNCHANGED <<ringVars, producer, listener, main, conn>>

(* Both listeners are closed, which wakes srt_accept and not accept.       *)
CloseListeners ==
    /\ main = "run" /\ shutdown
    /\ main' = "joinSrt"
    /\ UNCHANGED <<ringVars, producer, listener, conn, shutdown>>

JoinSrt ==
    /\ main = "joinSrt" /\ producer = "returned"
    /\ main' = "joinHttp"
    /\ UNCHANGED <<ringVars, producer, listener, conn, shutdown>>

JoinHttp ==
    /\ main = "joinHttp" /\ listener = "returned"
    /\ main' = "exited"
    /\ clients' = <<>> /\ got' = [v \in Viewers |-> <<>>]
    /\ conn' = [v \in Viewers |-> IF conn[v] = "none" THEN "none" ELSE "closed"]
    /\ UNCHANGED <<session, total, buf, header, joined, producer, listener, shutdown>>

-----------------------------------------------------------------------------
\* Faulty variants: the last client is forgotten; laggards are kept.
ResetClients_OffByOne == [i \in 1..(Len(clients) - 1) |-> Fresh(clients[i].v, 0)]
Lagged_Never(c) == FALSE

(* A camera is accepted: clients stay, their places and the stream start   *)
(* again.  The memory of the ring keeps the old session's bytes.           *)
ResetClients == [i \in DOMAIN clients |-> Fresh(clients[i].v, 0)]

StartSession ==
    /\ producer = "accept" /\ main = "run" /\ session < MaxSessions
    /\ producer' = IF shutdown THEN "end" ELSE "recv"
    /\ session' = session + 1
    /\ clients' = ResetClients
    /\ total' = 0 /\ header' = <<>>
    /\ got' = [v \in Viewers |-> <<>>] /\ joined' = [v \in Viewers |-> 0]
    /\ UNCHANGED <<buf, listener, main, conn, shutdown>>

(* srt_accept fails on the closed listener, or a rejected camera was the   *)
(* last thing before the loop's test.                                      *)
ProducerReturns ==
    /\ Running /\ producer = "accept" /\ shutdown
    /\ producer' = "returned"
    /\ UNCHANGED <<ringVars, listener, main, conn, shutdown>>

(* prune_lagged_clients_locked: the ring no longer holds what they want.   *)
Lagged(c) == total' - c.cursor > Cap

(* A client goes on at its own cursor after the replay of the cache.       *)
Continue == [place \in (0..MaxTotal) \X (0..HeaderCacheSize) |-> place[1]]

(* One message: cached, written to the ring, lagging clients dropped,      *)
(* the others drained and dropped when a send fails, the table compacted.  *)
Receive ==
    /\ Running /\ producer = "recv"
    /\ \E n \in 1..MaxMsg : \E room \in [Members -> Rooms] :
         LET kept == {clients[i].v : i \in {j \in DOMAIN clients :
                         ~Lagged(clients[j]) /\ room[clients[j].v] # Out}} IN
         /\ total + n \leq MaxTotal
         /\ header' = CacheHeader(Message(n))
         /\ buf' = RingWrite(Message(n))
         /\ total' = total + n
         /\ clients' = DrainedClients(kept, room, Continue)
         /\ got' = GotAfter(kept, room, Continue)
         /\ conn' = [v \in Viewers |-> IF v \in Members \ kept THEN "closed" ELSE conn[v]]
    /\ producer' = IF shutdown THEN "end" ELSE "recv"
    /\ UNCHANGED <<session, joined, listener, main, shutdown>>

(* srt_recvmsg reports an error or the end of the stream.                  *)
RecvEnds ==
    /\ Running /\ producer = "recv"
    /\ producer' = "end"
    /\ UNCHANGED <<ringVars, listener, main, conn, shutdown>>

EndSession ==
    /\ Running /\ producer = "end"
    /\ producer' = IF shutdown THEN "returned" ELSE "accept"
    /\ UNCHANGED <<ringVars, listener, main, conn, shutdown>>

-----------------------------------------------------------------------------
(* http_thread accepts a connection and starts a handshake thread for it,  *)
(* or closes it when that fails.                                           *)
AcceptHttp(v) ==
    /\ Running /\ listener = "accept" /\ conn[v] = "none"
    /\ \E outcome \in {"handshake", "closed"} : conn' = [conn EXCEPT ![v] = outcome]
    /\ listener' = IF shutdown THEN "returned" ELSE "accept"
    /\ UNCHANGED <<ringVars, producer, main, shutdown>>

(* No complete request within 5 s, or one for another path or token.       *)
Reject(v) ==
    /\ Running /\ conn[v] = "handshake"
    /\ conn' = [conn EXCEPT ![v] = "closed"]
    /\ UNCHANGED <<ringVars, producer, listener, main, shutdown>>

(* The request is in order: the client gets a slot or a 503.               *)
Install(v) ==
    /\ Running /\ conn[v] = "handshake"
    /\ IF Len(clients) \geq MaxHttpClients
       THEN /\ conn' = [conn EXCEPT ![v] = "closed"]
            /\ UNCHANGED <<clients, joined>>
       ELSE /\ conn' = [conn EXCEPT ![v] = "open"]
            /\ clients' = Append(clients, Fresh(v, total))
            /\ joined' = [joined EXCEPT ![v] = total]
    /\ UNCHANGED <<session, total, buf, header, got, producer, listener, main, shutdown>>

-----------------------------------------------------------------------------
Next ==
    \/ LoadConfig \/ Listen \/ on_signal \/ CloseListeners \/ JoinSrt \/ JoinHttp
    \/ StartSession \/ ProducerReturns \/ Receive \/ RecvEnds \/ EndSession
    \/ \E v \in Viewers : AcceptHttp(v) \/ Reject(v) \/ Install(v)

Spec == Init /\ [][Next]_vars

-----------------------------------------------------------------------------
TypeOK ==
    /\ RingTypeOK
    /\ producer \in {"accept", "recv", "end", "returned"}
    /\ listener \in {"accept", "returned"}
    /\ main \in {"config", "listen", "run", "joinSrt", "joinHttp", "exited"}
    /\ conn \in [Viewers -> {"none", "handshake", "open", "closed"}]
    /\ shutdown \in BOOLEAN

(* The table and the connections agree at every unlock: each open          *)
(* connection has exactly one slot and nothing that was closed still has   *)
(* one, so no client is drained twice and no number is closed twice.       *)
SlotsMatchConnections ==
    main # "exited" =>
      /\ Members = {v \in Viewers : conn[v] = "open"}
      /\ Len(clients) = Cardinality(Members)

(* No client's place is ahead of the stream, where the unsigned            *)
(* subtraction of prune_lagged_clients_locked would wrap and drop it, and  *)
(* none is behind what the ring holds when the lock is released.           *)
CursorsInWindow ==
    \A i \in DOMAIN clients :
        clients[i].cursor \leq total /\ total - clients[i].cursor \leq Cap

(* The bridge implements StreamFanout: with ring, cache and cursors hidden *)
(* a viewer has seen a beginning of the session and a gapless run of it    *)
(* from where it joined, in the camera's own bytes of this session.        *)
Abstract == INSTANCE StreamFanout WITH
    SkipsToLive <- TRUE,
    stream <- [i \in 1..total |-> <<session, i - 1>>],
    from <- joined,
    seen <- [v \in Viewers |-> IF v \in Members THEN got[v] ELSE Out]
ImplementsFanout == Abstract!Spec

(* "a valid stream from the first byte": nothing is sent twice within a    *)
(* session.                                                                *)
NothingTwice == \A v \in Viewers : IsInjective(got[v])
=============================================================================
