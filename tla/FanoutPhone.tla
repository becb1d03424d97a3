---------------------------- MODULE FanoutPhone ----------------------------
(***************************************************************************)
(* The phone's viewer bridge                                               *)
(* (src/consumer-srt-android/consumer_srt_p2p.c): main discovers its       *)
(* address, asks the signaling server for the camera, hands its UDP port   *)
(* to SRT, and then one thread receives the camera's bytes while HTTP      *)
(* clients come through the same accept and handshake threads as in the    *)
(* cloud.  There is one session; when it ends the process is to end.       *)
(*                                                                         *)
(* Two things differ from FanoutCloud: a client starts behind the cache    *)
(* instead of at the live end, and nobody drops a client that lags.        *)
(* lagged, for the properties, collects the clients that were sent ring    *)
(* memory that had been overwritten.                                       *)
(***************************************************************************)
EXTENDS FlvRing, FiniteSets

VARIABLES
    receiver,   \* srt_recv_thread: "none" | "recv" | "end" | "returned"
    listener,   \* http_listen_thread: "none" | "accept" | "returned"
    main,
    held,       \* sockets main holds
    conn,       \* HTTP connections: "none" | "handshake" | "open" | "closed"
    shutdown,   \* g_shutdown
    lagged

control == <<receiver, listener, main, held, conn, shutdown, lagged>>
vars == <<ringVars, control>>

Steps == {"args", "udp", "stun", "signaling", "request", "reply", "rendezvous", "http",
          "joinSrt", "joinHttp", "exited", "failed"}

Init ==
    /\ RingInit
    /\ receiver = "none" /\ listener = "none"
    /\ main = "args" /\ held = {}
    /\ conn = [v \in Viewers |-> "none"]
    /\ shutdown = FALSE /\ lagged = {}

Running == main \in {"joinSrt", "joinHttp"}

-----------------------------------------------------------------------------
\* Faulty variants: a path that forgets the UDP socket; no step past the cache.
SendRequest_KeepsUdp ==
    /\ main = "request"
    /\ \/ main' = "reply" /\ held' = held
       \/ main' = "failed" /\ held' = held \ {"sig"}
    /\ UNCHANGED <<ringVars, receiver, listener, conn, shutdown, lagged>>
Continue_AtCursor == [place \in (0..MaxTotal) \X (0..HeaderCacheSize) |-> place[1]]

(* main's bootstrap: one step per thing that can fail, each failure with   *)
(* the closes the code makes on that path.                                 *)
Goes(step, next, holding) ==
    /\ main = step
    /\ main' = next /\ held' = holding
    /\ UNCHANGED <<ringVars, receiver, listener, conn, shutdown, lagged>>

ParseArgs == Goes("args", "udp", {}) \/ Goes("args", "failed", {})
AllocateUdp == Goes("udp", "stun", {"udp"}) \/ Goes("udp", "failed", {})
Discover == Goes("stun", "signaling", held) \/ Goes("stun", "failed", held \ {"udp"})
ConnectSignaling ==
    \/ Goes("signaling", "request", held \union {"sig"})
    \/ Goes("signaling", "failed", held \ {"udp"})
SendRequest ==
    \/ Goes("request", "reply", held)
    \/ Goes("request", "failed", held \ {"sig", "udp"})

(* Anything but a complete SRT_PROVIDER ends the program; after that the   *)
(* signaling connection and the UDP socket are closed, and the port is     *)
(* free until SRT binds it.                                                *)
AwaitProvider ==
    \/ Goes("reply", "rendezvous", held \ {"sig", "udp"})
    \/ Goes("reply", "failed", held \ {"sig", "udp"})

Rendezvous ==
    \/ Goes("rendezvous", "http", held \union {"srt"})
    \/ Goes("rendezvous", "failed", held)
ListenFails == Goes("http", "failed", held \ {"srt"})

StartThreads ==
    /\ main = "http"
    /\ main' = "joinSrt" /\ held' = held \union {"http"}
    /\ receiver' = (IF shutdown THEN "end" ELSE "recv")
    /\ listener' = (IF shutdown THEN "returned" ELSE "accept")
    /\ session' = 1
    /\ UNCHANGED <<total, buf, header, clients, got, joined, conn, shutdown, lagged>>

on_signal ==
    /\ main \notin {"exited", "failed"} /\ ~shutdown
    /\ shutdown' = TRUE
    /\ UNCHANGED <<ringVars, receiver, listener, main, held, conn, lagged>>

(* The receiver has returned: main closes the HTTP listener, which does    *)
(* not wake a thread that is blocked in accept on it.                      *)
JoinSrt ==
    /\ main = "joinSrt" /\ receiver = "returned"
    /\ main' = "joinHttp" /\ shutdown' = TRUE /\ held' = held \ {"http"}
    /\ UNCHANGED <<ringVars, receiver, listener, conn, lagged>>

JoinHttp ==
    /\ main = "joinHttp" /\ listener = "returned"
    /\ main' = "exited" /\ held' = held \ {"srt"}
    /\ clients' = <<>> /\ got' = [v \in Viewers |-> <<>>]
    /\ conn' = [v \in Viewers |-> IF conn[v] = "none" THEN "none" ELSE "closed"]
    /\ UNCHANGED <<session, total, buf, header, joined, receiver, listener, shutdown, lagged>>

-----------------------------------------------------------------------------
(* The cursor never stays behind the cached bytes a client was sent.       *)
Continue ==
    [place \in (0..MaxTotal) \X (0..HeaderCacheSize) |->
        IF place[1] < place[2] THEN place[2] ELSE place[1]]

(* A drain that sends memory the ring has overwritten.                     *)
ReadsOverwritten(c, room) ==
    /\ FromRing(c, room, Continue) > 0
    /\ total' - Place(c, room, Continue) > Cap

(* One message: cached, written to the ring, all clients drained, those    *)
(* whose send fails dropped, the table compacted.                          *)
Receive ==
    /\ Running /\ receiver = "recv"
    /\ \E n \in 1..MaxMsg : \E room \in [Members -> Rooms] :
         LET kept == {v \in Members : room[v] # Out} IN
         /\ total + n \leq MaxTotal
         /\ header' = CacheHeader(Message(n))
         /\ buf' = RingWrite(Message(n))
         /\ total' = total + n
         /\ clients' = DrainedClients(kept, room, Continue)
         /\ got' = GotAfter(kept, room, Continue)
         /\ conn' = [v \in Viewers |-> IF v \in Members \ kept THEN "closed" ELSE conn[v]]
         /\ lagged' = (lagged \intersect kept) \union
                {v \in kept : \E i \in DOMAIN clients :
                    clients[i].v = v /\ ReadsOverwritten(clients[i], room[v])}
    /\ receiver' = IF shutdown THEN "end" ELSE "recv"
    /\ UNCHANGED <<session, joined, listener, main, held, shutdown>>

RecvEnds ==
    /\ Running /\ receiver = "recv"
    /\ receiver' = "end"
    /\ UNCHANGED <<ringVars, listener, main, held, conn, shutdown, lagged>>

(* eof: every client is closed and the table emptied, then the program is  *)
(* told to end.                                                            *)
CloseAll ==
    /\ Running /\ receiver = "end"
    /\ receiver' = "returned" /\ shutdown' = TRUE
    /\ conn' = [v \in Viewers |-> IF v \in Members THEN "closed" ELSE conn[v]]
    /\ clients' = <<>> /\ got' = [v \in Viewers |-> <<>>] /\ lagged' = {}
    /\ UNCHANGED <<session, total, buf, header, joined, listener, main, held>>

-----------------------------------------------------------------------------
AcceptHttp(v) ==
    /\ Running /\ listener = "accept" /\ conn[v] = "none"
    /\ conn' = [conn EXCEPT ![v] = "handshake"]
    /\ listener' = IF shutdown THEN "returned" ELSE "accept"
    /\ UNCHANGED <<ringVars, receiver, main, held, shutdown, lagged>>

Reject(v) ==
    /\ Running /\ conn[v] = "handshake"
    /\ conn' = [conn EXCEPT ![v] = "closed"]
    /\ UNCHANGED <<ringVars, receiver, listener, main, held, shutdown, lagged>>

(* A GET for any path: the client starts after the cache of this moment.   *)
Install(v) ==
    /\ Running /\ conn[v] = "handshake"
    /\ IF Len(clients) \geq MaxHttpClients
       THEN /\ conn' = [conn EXCEPT ![v] = "closed"]
            /\ UNCHANGED <<clients, joined>>
       ELSE /\ conn' = [conn EXCEPT ![v] = "open"]
            /\ clients' = Append(clients, Fresh(v, Len(header)))
            /\ joined' = [joined EXCEPT ![v] = total]
    /\ UNCHANGED <<session, total, buf, header, got, receiver, listener, main, held,
                   shutdown, lagged>>

-----------------------------------------------------------------------------
Bootstrap ==
    \/ ParseArgs \/ AllocateUdp \/ Discover \/ ConnectSignaling \/ SendRequest \/ AwaitProvider
    \/ Rendezvous \/ ListenFails \/ StartThreads

Next ==
    \/ Bootstrap \/ on_signal \/ JoinSrt \/ JoinHttp
    \/ Receive \/ RecvEnds \/ CloseAll
    \/ \E v \in Viewers : AcceptHttp(v) \/ Reject(v) \/ Install(v)

Spec == Init /\ [][Next]_vars

-----------------------------------------------------------------------------
TypeOK ==
    /\ RingTypeOK
    /\ receiver \in {"none", "recv", "end", "returned"}
    /\ listener \in {"none", "accept", "returned"}
    /\ main \in Steps /\ held \subseteq {"udp", "sig", "srt", "http"}
    /\ conn \in [Viewers -> {"none", "handshake", "open", "closed"}]
    /\ shutdown \in BOOLEAN /\ lagged \subseteq Viewers

(* A failed bootstrap leaves no socket behind, and SRT never binds the     *)
(* port while main's own UDP socket still has it.                          *)
BootstrapReleases ==
    /\ main = "failed" => held = {}
    /\ main = "rendezvous" => "udp" \notin held

(* The bridge implements StreamFanout without a skip, for the clients that *)
(* kept up: with ring, cache and cursors hidden, what such a client has    *)
(* seen is a prefix of the camera's stream, with nothing doubled where the *)
(* cache ends and the ring begins.                                         *)
Abstract == INSTANCE StreamFanout WITH
    SkipsToLive <- FALSE,
    stream <- [i \in 1..total |-> <<session, i - 1>>],
    from <- joined,
    seen <- [v \in Viewers |-> IF v \in Members \ lagged THEN got[v] ELSE Out]
ImplementsFanout == Abstract!Spec

(* "same logic as consumer_srt.c", where a client whose bytes have been    *)
(* overwritten is dropped: no client that is served has been sent anything *)
(* but the stream.                                                         *)
ServedInOrder ==
    \A v \in Members : IsPrefix(got[v], [i \in 1..total |-> <<session, i - 1>>])
=============================================================================
