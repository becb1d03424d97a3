----------------------------- MODULE JuiceStream -----------------------------
(***************************************************************************)
(* The data path of the legacy libjuice programs, from the camera's local  *)
(* service to a player: the provider's forward threads cut what they read  *)
(* into chunks, the chunks cross an unreliable UDP path, the consumer's    *)
(* ICE callback thread puts frames together again and queues them, and a   *)
(* dispatch thread writes them to the players' TCP sockets.                *)
(*                                                                         *)
(* Sizes are counted in chunks (MAX_CHUNK_PAYLOAD bytes).  The payload of  *)
(* a chunk is the number of the frame it was cut from, so a mixed frame is *)
(* one whose buffer holds two numbers.  given, no and first are history:   *)
(* what the wrapped numbers of the code would be if they did not wrap.  No *)
(* step depends on them; they state what the frame-ID guard relies on.     *)
(***************************************************************************)
EXTENDS Naturals, Sequences, FiniteSets, SequencesExt

CONSTANTS
    Conns,          \* connection ids of one camera session, one per player
    FrameChunks,    \* [Conns -> Seq(1..BufferChunks)]: what the local service sends
    BufferChunks,   \* BUFFER_SIZE in chunks
    SeqSpace,         \* 2^32 in the code: sequence numbers wrap
    FirstSeq,       \* where global_seq_num starts
    QueueSlots,     \* DISPATCH_QUEUE_SIZE: a ring, so it holds one item less
    QueueChunks,    \* DISPATCH_QUEUE_MAX_BYTES in chunks
    MaxInFlight,    \* bound: chunks on the path at once
    MaxTrouble      \* bound: chunks lost or doubled, calls that fail and
                    \* connections of the provider that end

ASSUME StreamAssumption ==
    /\ IsFiniteSet(Conns)
    /\ BufferChunks \in Nat \ {0} /\ SeqSpace \in Nat /\ SeqSpace > 1
    /\ FirstSeq \in 0..(SeqSpace - 1)
    /\ QueueSlots \in Nat /\ QueueSlots > 1 /\ QueueChunks \in Nat
    /\ MaxInFlight \in Nat /\ MaxTrouble \in Nat
    /\ FrameChunks \in [Conns -> Seq(1..BufferChunks)]

VARIABLES
    seqNum,   \* service_state_t.global_seq_num, shared by all forward threads
    given,    \* history: how many numbers it has given out
    tx,       \* [Conns -> [at, frame, offset]]: the provider's connection and its thread
    net,      \* the chunks on the path
    trouble,  \* how often something has gone wrong so far
    rx,       \* [Conns -> connection_t of the consumer]
    cb,       \* the ICE callback thread between two of its critical sections
    queue,    \* dispatch_queue_t, oldest item first
    disp,     \* the dispatch thread
    sock,     \* [Conns -> the player's TCP connection]
    life      \* how far free_camera_session has come

vars == <<seqNum, given, tx, net, trouble, rx, cb, queue, disp, sock, life>>

NoFrame == [i \in 0..(BufferChunks - 1) |-> 0]
Item(c, buf, size) == [conn |-> c, buf |-> buf, size |-> size]

-----------------------------------------------------------------------------
(* connection_t of the consumer: what create_connection and close_connection leave *)
Closed == [open |-> FALSE, buf |-> NoFrame, got |-> {}, expected |-> 0,
           start |-> 0, first |-> 0, num |-> 0, busy |-> FALSE, spare |-> FALSE]
Created == [Closed EXCEPT !.open = TRUE, !.spare = TRUE]

(* The provider before it knows a connection. *)
NoForward == [at |-> "none", frame |-> 1, offset |-> 0]

Init ==
    /\ seqNum = FirstSeq /\ given = 0
    /\ tx = [c \in Conns |-> NoForward]
    /\ net = {}
    /\ trouble = 0
    /\ rx = [c \in Conns |-> Closed]
    /\ cb = [at |-> "idle"]
    /\ queue = <<>>
    /\ disp = [at |-> "wait"]
    /\ sock = [c \in Conns |-> [wire |-> <<>>, shut |-> FALSE, reading |-> TRUE,
                                gone |-> FALSE, dropped |-> FALSE]]
    /\ life = "up"

(* Something goes wrong, at most MaxTrouble times. *)
Trouble == trouble < MaxTrouble /\ trouble' = trouble + 1

-----------------------------------------------------------------------------
(* The consumer's accept thread takes a player; its first request is on its way. *)
AcceptPlayer(c) ==
    /\ life = "up"
    /\ ~rx[c].open /\ ~sock[c].gone
    /\ rx' = [rx EXCEPT ![c] = Created]
    /\ UNCHANGED <<seqNum, given, tx, net, trouble, cb, queue, disp, sock, life>>

(* on_recv of the provider: the first chunk of an unknown conn_id makes the *)
(* connection, connects to the local service outside the lock and starts    *)
(* the forward thread; a refused connection is removed again.               *)
ProviderOpens(c) ==
    /\ rx[c].open /\ tx[c].at = "none"
    /\ \/ tx' = [tx EXCEPT ![c].at = "forward"] /\ UNCHANGED trouble
       \/ Trouble /\ UNCHANGED tx
    /\ UNCHANGED <<seqNum, given, net, rx, cb, queue, disp, sock, life>>

(* forward_local_to_p2p of the provider: one turn of the chunk loop.  A      *)
(* chunk that juice_send gives up on after its retries has spent its number  *)
(* and the loop goes on: it is one that the path loses.                      *)
SendChunk(c) ==
    LET f == tx[c].frame
        total == FrameChunks[c][f]
        ch == [conn |-> c, seq |-> seqNum, total |-> total,
               offset |-> tx[c].offset, frame |-> f, no |-> given]
    IN  /\ tx[c].at = "forward" /\ f <= Len(FrameChunks[c])
        /\ Cardinality(net) < MaxInFlight
        /\ net' = net \cup {ch}
        /\ seqNum' = (seqNum + 1) % SeqSpace /\ given' = given + 1
        /\ tx' = [tx EXCEPT ![c].offset = (@ + 1) % total,
                            ![c].frame = IF tx[c].offset + 1 = total THEN f + 1 ELSE f]
        /\ UNCHANGED <<trouble, rx, cb, queue, disp, sock, life>>

(* The end of a forward thread at its loop test, between two frames: the     *)
(* local service has closed, or cleanup_thread has closed the connection,    *)
(* after 30 s without a chunk of the player, while the thread was in recv or *)
(* sending.  The next offset-0 chunk makes the connection again; that it     *)
(* does so while the old thread still runs is not modelled.                  *)
ProviderEnds(c) ==
    /\ tx[c].at = "forward" /\ tx[c].offset = 0
    /\ Trouble
    /\ tx' = [tx EXCEPT ![c].at = "none"]
    /\ UNCHANGED <<seqNum, given, net, rx, cb, queue, disp, sock, life>>

(* The path loses a chunk. *)
Lose(ch) ==
    /\ ch \in net /\ Trouble
    /\ net' = net \ {ch}
    /\ UNCHANGED <<seqNum, given, tx, rx, cb, queue, disp, sock, life>>

-----------------------------------------------------------------------------
(* on_recv_camera under cam->mutex *)

(* An offset-0 chunk resets the frame being assembled. *)
StartFrame(r, ch) ==
    [r EXCEPT !.got = {}, !.expected = ch.total, !.start = ch.seq, !.first = ch.no,
              !.num = ch.total, !.busy = TRUE]

(* Faulty variant: chunks of other frames are let in. *)
InWindow_Missing(r, ch) == TRUE

(* The frame-ID guard: subtraction modulo 2^32 from the frame's first number. *)
InWindow(r, ch) == (ch.seq + SeqSpace - r.start) % SeqSpace < r.num

Accepts(r, ch) ==
    /\ r.busy /\ r.expected # 0
    /\ InWindow(r, ch)
    /\ ch.total = r.expected /\ ch.offset < ch.total
    /\ ch.offset \notin r.got

Store(r, ch) ==
    [r EXCEPT !.buf[ch.offset] = ch.frame, !.got = @ \cup {ch.offset}]

Opened(r, ch) == IF ch.offset = 0 THEN StartFrame(r, ch) ELSE r

(* A complete frame leaves the buffer; the spare takes its place.  What the *)
(* next offset-0 chunk overwrites is forgotten here.                        *)
Finished == [Created EXCEPT !.spare = FALSE]

OnRecv(ch) ==
    LET c == ch.conn
        r == Opened(rx[c], ch)
        s == Store(r, ch)
    IN  /\ cb.at = "idle" /\ ch \in net
        /\ \/ net' = net \ {ch} /\ UNCHANGED trouble
           \/ Trouble /\ UNCHANGED net
        /\ IF ~rx[c].open THEN UNCHANGED <<rx, cb>>
           ELSE IF ~Accepts(r, ch) THEN rx' = [rx EXCEPT ![c] = r] /\ UNCHANGED cb
           ELSE IF Cardinality(s.got) < s.expected
                THEN rx' = [rx EXCEPT ![c] = s] /\ UNCHANGED cb
           ELSE /\ rx' = [rx EXCEPT ![c] = Finished]
                /\ cb' = IF s.spare
                         THEN [at |-> "handover", item |-> Item(c, s.buf, s.expected)]
                         ELSE cb
        /\ UNCHANGED <<seqNum, given, tx, queue, disp, sock, life>>

-----------------------------------------------------------------------------
(* dispatch_enqueue: drop the oldest until the new item fits, then append.  *)
(* The watchdog's respawn is not here: dispatch_running is set before the   *)
(* thread exists and falls only when should_stop is set, which the watchdog *)
(* excludes.                                                                *)
Chunks(q) == FoldSeq(LAMBDA i, n : i.size + n, 0, q)
Fits(q, size) == /\ Len(q) + 1 < QueueSlots
                 /\ Chunks(q) + size <= QueueChunks \/ q = <<>>
Drops(q, size) ==
    CHOOSE k \in 0..Len(q) :
        /\ Fits(SubSeq(q, k + 1, Len(q)), size)
        /\ \A j \in 0..(k - 1) : ~Fits(SubSeq(q, j + 1, Len(q)), size)

(* The callback thread outside cam->mutex: the spare is replaced if malloc   *)
(* finds one and the connection is still there, and the frame is queued,     *)
(* unless dup failed and it is freed.                                        *)
HandOver ==
    LET c == cb.item.conn
        k == Drops(queue, cb.item.size)
        dropped == {queue[i].conn : i \in 1..k}
        Respare == rx' = [rx EXCEPT ![c].spare = rx[c].open]
        Queued == /\ queue' = Append(SubSeq(queue, k + 1, Len(queue)), cb.item)
                  /\ sock' = [d \in Conns |-> [sock[d] EXCEPT !.dropped = @ \/ d \in dropped]]
                  /\ cb' = IF k = 0 THEN [at |-> "idle"]
                                    ELSE [at |-> "shut", conns |-> dropped]
    IN  /\ cb.at = "handover"
        /\ \/ Queued /\ Respare /\ UNCHANGED trouble
           \/ Queued /\ Trouble /\ UNCHANGED rx
           \/ Respare /\ Trouble /\ cb' = [at |-> "idle"] /\ UNCHANGED <<queue, sock>>
        /\ UNCHANGED <<seqNum, given, tx, net, disp, life>>

(* Faulty variant: a dropped item is closed, its socket left open. *)
ShutDropped_CloseOnly ==
    /\ cb.at = "shut"
    /\ cb' = [at |-> "idle"]
    /\ UNCHANGED <<seqNum, given, tx, net, trouble, rx, queue, disp, sock, life>>

(* After the queue's lock: every dropped item half-closes its socket. *)
ShutDropped ==
    /\ cb.at = "shut"
    /\ sock' = [c \in Conns |-> [sock[c] EXCEPT !.shut = @ \/ c \in cb.conns]]
    /\ cb' = [at |-> "idle"]
    /\ UNCHANGED <<seqNum, given, tx, net, trouble, rx, queue, disp, life>>

-----------------------------------------------------------------------------
(* dispatch_thread_func *)

(* The test of the outer loop, made when an item is done with. *)
LoopTest == IF life = "up" THEN [at |-> "wait"] ELSE [at |-> "drain"]

(* The inner loop waits for an item or for should_stop. *)
DispatchTake ==
    /\ disp.at = "wait"
    /\ \/ /\ queue # <<>>
          /\ disp' = [at |-> "send", item |-> Head(queue), sent |-> 0]
          /\ queue' = Tail(queue)
       \/ /\ queue = <<>> /\ life # "up"
          /\ disp' = [at |-> "drain"]
          /\ UNCHANGED queue
    /\ UNCHANGED <<seqNum, given, tx, net, trouble, rx, cb, sock, life>>

(* send() takes another chunk of the frame. *)
SendSome ==
    LET c == disp.item.conn
    IN  /\ disp.at = "send" /\ disp.sent < disp.item.size
        /\ sock[c].reading /\ ~sock[c].shut /\ ~sock[c].gone
        /\ sock' = [sock EXCEPT ![c].wire = Append(@, [frame |-> disp.item.buf[disp.sent],
                                                       offset |-> disp.sent,
                                                       total |-> disp.item.size])]
        /\ disp' = [disp EXCEPT !.sent = @ + 1]
        /\ UNCHANGED <<seqNum, given, tx, net, trouble, rx, cb, queue, life>>

(* Everything sent, or a hard error: the item is closed and freed. *)
SendEnds ==
    LET c == disp.item.conn
    IN  /\ disp.at = "send"
        /\ disp.sent = disp.item.size \/ sock[c].shut \/ sock[c].gone
        /\ disp' = LoopTest
        /\ UNCHANGED <<seqNum, given, tx, net, trouble, rx, cb, queue, sock, life>>

(* Faulty variants: a stuck frame is given up without closing the socket; *)
(* or is never given up.                                                   *)
SendStuck_SkipFrame ==
    /\ disp.at = "send" /\ disp.sent < disp.item.size
    /\ ~sock[disp.item.conn].reading
    /\ disp' = LoopTest
    /\ UNCHANGED <<seqNum, given, tx, net, trouble, rx, cb, queue, sock, life>>
SendStuck_Never ==
    /\ FALSE
    /\ UNCHANGED vars

(* NO_PROGRESS_TIMEOUT_MS without progress: half-close and go on. *)
SendStuck ==
    LET c == disp.item.conn
    IN  /\ disp.at = "send" /\ disp.sent < disp.item.size
        /\ ~sock[c].reading
        /\ sock' = [sock EXCEPT ![c].shut = TRUE]
        /\ disp' = LoopTest
        /\ UNCHANGED <<seqNum, given, tx, net, trouble, rx, cb, queue, life>>

(* The thread leaves: what is queued at that moment is closed and freed. *)
Drain ==
    /\ disp.at = "drain"
    /\ queue' = <<>>
    /\ disp' = [at |-> "exited"]
    /\ UNCHANGED <<seqNum, given, tx, net, trouble, rx, cb, sock, life>>

-----------------------------------------------------------------------------
(* The player stops reading, or reads again; it leaves. *)
PlayerPauses(c) ==
    /\ rx[c].open /\ ~sock[c].gone /\ ~sock[c].shut
    /\ sock' = [sock EXCEPT ![c].reading = ~@]
    /\ UNCHANGED <<seqNum, given, tx, net, trouble, rx, cb, queue, disp, life>>

PlayerLeaves(c) ==
    /\ rx[c].open /\ ~sock[c].gone
    /\ sock' = [sock EXCEPT ![c] = [@ EXCEPT !.gone = TRUE, !.wire = <<>>, !.reading = TRUE]]
    /\ UNCHANGED <<seqNum, given, tx, net, trouble, rx, cb, queue, disp, life>>

(* forward_local_to_p2p of the consumer reads the end of the player's stream *)
(* and closes the connection under the lock.                                 *)
ForwardExits(c) ==
    /\ rx[c].open /\ sock[c].gone
    /\ rx' = [rx EXCEPT ![c] = Closed]
    /\ UNCHANGED <<seqNum, given, tx, net, trouble, cb, queue, disp, sock, life>>

(* cleanup_stale_connections: a frame idle for REASSEMBLY_TIMEOUT (30 s,     *)
(* longer than any chunk stays on the path) is given up, the connection      *)
(* stays.                                                                    *)
CleanupStale(c) ==
    /\ life = "up" /\ rx[c].open /\ rx[c].busy
    /\ \A ch \in net : ch.conn # c
    /\ rx' = [rx EXCEPT ![c] = [Created EXCEPT !.spare = rx[c].spare]]
    /\ UNCHANGED <<seqNum, given, tx, net, trouble, cb, queue, disp, sock, life>>

(* free_camera_session: should_stop and the wake-up of the dispatcher; a     *)
(* second later juice_destroy, which waits for the callback thread and ends  *)
(* the path, and the connections are closed.  It does not wait for the       *)
(* dispatch thread; the next session in this slot (allocate_camera_session's *)
(* memset) is not modelled.                                                  *)
FreeStops ==
    /\ life = "up"
    /\ life' = "stopping"
    /\ UNCHANGED <<seqNum, given, tx, net, trouble, rx, cb, queue, disp, sock>>
FreeCloses ==
    /\ life = "stopping" /\ cb.at = "idle"
    /\ net' = {}
    /\ tx' = [c \in Conns |-> NoForward]
    /\ rx' = [c \in Conns |-> Closed]
    /\ life' = "freed"
    /\ UNCHANGED <<seqNum, given, trouble, cb, queue, disp, sock>>

CallbackStep == HandOver \/ ShutDropped
DispatchStep == DispatchTake \/ SendSome \/ SendEnds \/ SendStuck \/ Drain
Next ==
    \/ \E c \in Conns : \/ AcceptPlayer(c) \/ ProviderOpens(c) \/ SendChunk(c) \/ ProviderEnds(c)
                        \/ PlayerPauses(c) \/ PlayerLeaves(c)
                        \/ ForwardExits(c) \/ CleanupStale(c)
    \/ \E ch \in net : Lose(ch) \/ OnRecv(ch)
    \/ CallbackStep
    \/ DispatchStep
    \/ FreeStops \/ FreeCloses

Spec == Init /\ [][Next]_vars

(* The two threads are scheduled; nothing is asked of the path, of the *)
(* players or of the owner of the session.                             *)
FairSpec == Spec /\ WF_vars(CallbackStep) /\ WF_vars(DispatchStep)
-----------------------------------------------------------------------------
(* Properties *)

(* A frame that leaves the reassembly consists of all the chunks of one      *)
(* frame of the camera, whatever is lost, late or doubled on the path and    *)
(* however the connections share the sequence numbers: the frame-ID guard of *)
(* on_recv_camera.                                                           *)
WholeFrame(i) == LET f == i.buf[0]
                 IN  /\ f \in 1..Len(FrameChunks[i.conn])
                     /\ i.size = FrameChunks[i.conn][f]
                     /\ \A k \in 0..(i.size - 1) : i.buf[k] = f
FramesWhole ==
    /\ cb.at = "handover" => WholeFrame(cb.item)
    /\ \A i \in 1..Len(queue) : WholeFrame(queue[i])
    /\ disp.at = "send" => WholeFrame(disp.item)

(* What the wrapped numbers can bear: the chunks of a connection that are on *)
(* the path and the frame it is assembling are less than one number space    *)
(* apart.  A frame is replaced by the next one that starts and given up      *)
(* after 30 s without a chunk, and 2^32 chunks are terabytes of video.       *)
Fresh ==
    \A ch \in net : LET r == rx[ch.conn]
                    IN  r.busy => /\ ch.no < r.first + SeqSpace
                                  /\ r.first + r.num <= ch.no + SeqSpace

(* On a player's socket a frame that was sent in part is the last thing      *)
(* sent: the next frame never follows half a frame (the no-progress policy   *)
(* of dispatch_thread_func).                                                 *)
TornIsLast ==
    \A c \in Conns : \A i \in 1..(Len(sock[c].wire) - 1) :
        LET p == sock[c].wire[i]
            n == sock[c].wire[i + 1]
        IN  \/ n.frame = p.frame /\ n.offset = p.offset + 1
            \/ p.offset + 1 = p.total /\ n.offset = 0

(* Once dispatch_enqueue has returned from dropping a frame of a connection, *)
(* the player of that connection receives nothing more, also not from items  *)
(* that were queued behind the dropped one or were being sent.               *)
DropEndsStream ==
    [][\A c \in Conns : sock[c].dropped /\ cb.at # "shut" => Len(sock'[c].wire) <= Len(sock[c].wire)]_vars

(* The queue does not stay filled while the session lasts, although one      *)
(* dispatch thread serves every player of the camera and any of them may     *)
(* stop reading for ever (the load is finite, so every frame leaves it).     *)
QueueServed == (queue # <<>>) ~> (queue = <<>> \/ life # "up")

(* What dispatch_enqueue's comment promises: a player never receives bytes   *)
(* from behind a dropped frame.                                              *)
GaplessWhileOpen ==
    \A c \in Conns : \A i \in 1..(Len(sock[c].wire) - 1) :
        sock[c].wire[i + 1].frame <= sock[c].wire[i].frame + 1

(* What the frame-ID guard's comment takes for granted: the chunks of the    *)
(* frame being assembled lie in the window of numbers that starts with its   *)
(* first chunk.                                                              *)
WindowHolds ==
    \A ch \in net : LET r == rx[ch.conn]
                    IN  r.busy /\ r.buf[0] = ch.frame => InWindow(r, ch)
=============================================================================
