--------------------------- MODULE JuiceRegistry ---------------------------
(***************************************************************************)
(* The libjuice half of the signaling server                               *)
(* (src/signaling-server/signaling_server.cpp): the handle_client threads  *)
(* of cameras that REGISTER and of consumers that SUBSCRIBE or REQUEST,    *)
(* notify_subscribers, ping_monitor_thread, and what they share: providers *)
(* under registry_mutex, pending_sdp_requests, subscriber_sockets and the  *)
(* process's descriptor table.                                             *)
(*                                                                         *)
(* A thread knows its connection by a descriptor number (sock).  With      *)
(* Recycle the kernel gives closed numbers to new connections; without it  *)
(* every connection has a number of its own, and what the threads do to    *)
(* each other through the tables is seen by itself.                        *)
(*                                                                         *)
(* An SDP is named by the consumer it was gathered for; None is the SDP a  *)
(* camera registers with.  Names, addresses, TURN data, byte counters and  *)
(* the downtime history are left out: only the dashboard shows them.       *)
(***************************************************************************)
EXTENDS Naturals, FiniteSets

CONSTANTS
    Cams, Consumers,    \* connections, and their handler threads
    Fds,                \* descriptor numbers
    Services, None,
    ServiceOf,          \* the service each camera connection registers
    MaxMissedPongs,     \* MAX_MISSED_PONGS
    MaxProviders,       \* max_providers, 0 for no limit
    RoleMixes,          \* what the peers may do, see roles
    Recycle

Conns == Cams \union Consumers

ASSUME JuiceAssumption ==
    /\ None \notin Conns \union Fds \union Services
    /\ Cams \intersect Consumers = {} /\ Fds \subseteq Nat
    /\ ServiceOf \in [Cams -> Services]
    /\ MaxMissedPongs \in Nat \ {0} /\ MaxProviders \in Nat /\ Recycle \in BOOLEAN
    /\ RoleMixes \subseteq [subscribers : SUBSET Consumers, requesters : SUBSET Consumers,
                           closing : SUBSET Conns, vanishing : SUBSET Conns]
    /\ ~Recycle => \E f \in [Conns -> Fds] : \A c, d \in Conns : f[c] = f[d] => c = d

VARIABLES
    roles,              \* consumers that SUBSCRIBE and that REQUEST, connections
                        \* whose peer may close and whose peer may vanish
    file, sock, link,   \* descriptor table, each thread's number, the peers' ends
    pc, at, job,        \* handler threads: where, whose bytes recv waits for, locals
    providers,          \* service -> entry or None
    lock,               \* the thread that keeps registry_mutex while it sends
    pending, slot,      \* pending_sdp_requests, and the PendingSDP of each request
    subs,               \* subscriber_sockets
    registered, owed, connects,   \* cameras: REGISTER sent, PINGs and
                        \* CONSUMER_CONNECTs they have not answered
    monitor,
    known, gathered, shared, answered   \* for the properties

net == <<file, sock, link>>
threads == <<pc, at, job>>
tables == <<providers, lock, pending, slot, subs>>
cameras == <<registered, owed, connects>>
ghosts == <<known, gathered, shared, answered>>
vars == <<net, threads, tables, cameras, monitor, ghosts>>

Entry == [fd : Fds, conn : Conns, missed : 0..(MaxMissedPongs + 1),
          sdp : Consumers \union {None}, hasConsumer : BOOLEAN]
NoJob == [svc |-> None, conn |-> None, fd |-> None, sdp |-> None, fds |-> {}]
EmptySlot == [ready |-> FALSE, sdp |-> None]
Idle == [pc |-> "sleep", targets |-> {}, failed |-> {}, stale |-> {}]
MaxOwed == MaxMissedPongs   \* bound: PINGs waiting at a camera

Init ==
    /\ roles \in RoleMixes
    /\ file = [n \in Fds |-> None] /\ sock = [c \in Conns |-> None]
    /\ link = [c \in Conns |-> "none"]
    /\ pc = [c \in Conns |-> "none"] /\ at = [c \in Conns |-> None]
    /\ job = [c \in Conns |-> NoJob]
    /\ providers = [s \in Services |-> None] /\ lock = None
    /\ pending = [s \in Services |-> None]
    /\ slot = [c \in Consumers |-> EmptySlot]
    /\ subs = {}
    /\ registered = {} /\ owed = [c \in Conns |-> 0] /\ connects = [c \in Conns |-> {}]
    /\ monitor = Idle
    /\ known = [c \in Consumers |-> {}]
    /\ gathered = {} /\ shared = {} /\ answered = {}

Listed == {s \in Services : providers[s] # None}

-----------------------------------------------------------------------------
(* The connections.  A peer can close, which the server's side learns, or  *)
(* vanish, which it does not.                                              *)
OwnNumber == CHOOSE f \in [Conns -> Fds] : \A c, d \in Conns : f[c] = f[d] => c = d
FreeNumbers == {n \in Fds : file[n] = None}
Numbers(c) ==   \* accept returns the lowest free one
    IF Recycle THEN {n \in FreeNumbers : \A m \in FreeNumbers : n \leq m}
    ELSE {OwnNumber[c]}

Accept(c) ==
    /\ pc[c] = "none"
    /\ \E n \in Numbers(c) :
         /\ file' = [file EXCEPT ![n] = c]
         /\ sock' = [sock EXCEPT ![c] = n]
    /\ link' = [link EXCEPT ![c] = "up"]
    /\ pc' = [pc EXCEPT ![c] = "recv"] /\ at' = [at EXCEPT ![c] = c]
    /\ UNCHANGED <<job, tables, cameras, monitor, ghosts>>

PeerChanges(c, how) ==
    /\ link[c] \in {"up", "silent"} /\ link[c] # how
    /\ link' = [link EXCEPT ![c] = how]
    /\ UNCHANGED <<file, sock, threads, tables, cameras, monitor, ghosts>>

(* Back to recv_message: it waits for the connection the number names now. *)
GoRecv(c) ==
    /\ pc' = [pc EXCEPT ![c] = "recv"]
    /\ at' = [at EXCEPT ![c] = file'[sock[c]]]

Steps(c, from, to) == pc[c] = from /\ pc' = [pc EXCEPT ![c] = to] /\ UNCHANGED at

(* A message of connection d arrives in thread c.                          *)
Hears(c, d) == pc[c] = "recv" /\ at[c] = d /\ d # None /\ link[d] = "up"

(* What a send to number n may come to.                                    *)
MayFail(n) == file[n] # None => link[file[n]] = "gone"
MayReach(n) == file[n] # None

-----------------------------------------------------------------------------
(* REGISTER: token and capacity are tested in a critical section of their  *)
(* own, the entry is made in the next one, then subscribers are told.      *)
AtCapacity(s) ==
    MaxProviders > 0 /\ s \notin Listed /\ Cardinality(Listed) \geq MaxProviders

REGISTER(c, d) ==
    /\ Hears(c, d) /\ d \in Cams \ registered /\ lock = None
    /\ registered' = registered \union {d}
    /\ \E to \in {"cleanup", IF AtCapacity(ServiceOf[d]) THEN "cleanup" ELSE "insert"} :
         Steps(c, "recv", to)
    /\ job' = [job EXCEPT ![c] = [NoJob EXCEPT !.svc = ServiceOf[d], !.conn = d]]
    /\ UNCHANGED <<net, tables, owed, connects, monitor, ghosts>>

Insert(c) ==
    /\ Steps(c, "insert", "notify") /\ lock = None
    /\ providers' = [providers EXCEPT ![job[c].svc] =
           [fd |-> sock[c], conn |-> job[c].conn, missed |-> 0, sdp |-> None,
            hasConsumer |-> FALSE]]
    /\ UNCHANGED <<net, job, lock, pending, slot, subs, cameras, monitor, ghosts>>

(* notify_subscribers: copy the set, send without the lock, and close the  *)
(* descriptors that failed.                                                *)
CopySubscribers(c) ==
    /\ Steps(c, "notify", "notifySend")
    /\ job' = [job EXCEPT ![c].fds = subs]
    /\ UNCHANGED <<net, tables, cameras, monitor, ghosts>>

NotifySend(c) ==
    /\ Steps(c, "notifySend", "notifyDrop")
    /\ \E failed \in SUBSET job[c].fds :
         /\ \A n \in job[c].fds : IF n \in failed THEN MayFail(n) ELSE MayReach(n)
         /\ job' = [job EXCEPT ![c].fds = failed]
         /\ known' = [k \in Consumers |->
                IF \E n \in job[c].fds \ failed : file[n] = k
                THEN known[k] \union {job[c].svc} ELSE known[k]]
    /\ UNCHANGED <<net, tables, cameras, monitor, gathered, shared, answered>>

NotifyDrop(c) ==
    /\ pc[c] = "notifyDrop"
    /\ subs' = subs \ job[c].fds
    /\ file' = [n \in Fds |-> IF n \in job[c].fds THEN None ELSE file[n]]
    /\ job' = [job EXCEPT ![c] = NoJob]
    /\ GoRecv(c)
    /\ UNCHANGED <<sock, link, providers, lock, pending, slot, cameras, monitor, ghosts>>

-----------------------------------------------------------------------------
\* Faulty variant: a new subscriber is not told what is listed already.
SUBSCRIBE_Unlisted(c, d) ==
    /\ Hears(c, d) /\ d \in roles.subscribers /\ sock[c] \notin subs
    /\ subs' = subs \union {sock[c]}
    /\ UNCHANGED <<net, threads, providers, lock, pending, slot, cameras, monitor, ghosts>>

(* SUBSCRIBE: first the set, then the services listed so far, sent while   *)
(* registry_mutex is held.                                                 *)
SUBSCRIBE(c, d) ==
    /\ Hears(c, d) /\ d \in roles.subscribers /\ sock[c] \notin subs
    /\ subs' = subs \union {sock[c]}
    /\ Steps(c, "recv", "list")
    /\ UNCHANGED <<net, job, providers, lock, pending, slot, cameras, monitor, ghosts>>

List(c) ==
    /\ Steps(c, "list", "listing") /\ lock = None
    /\ lock' = c
    /\ UNCHANGED <<net, job, providers, pending, slot, subs, cameras, monitor, ghosts>>

ListSent(c) ==
    /\ pc[c] = "listing"
    /\ lock' = None
    /\ known' = [k \in Consumers |->
           IF file[sock[c]] = k THEN known[k] \union Listed ELSE known[k]]
    /\ file' = file /\ GoRecv(c)
    /\ UNCHANGED <<sock, link, job, providers, pending, slot, subs, cameras, monitor,
                   gathered, shared, answered>>

-----------------------------------------------------------------------------
(* REQUEST, one step per critical section or send: copy the entry, clear   *)
(* has_consumer, install the PendingSDP, forward CONSUMER_CONNECT, wait    *)
(* for it or for 5 s, remove the service's pending slot, answer.           *)
Requesting == {"slot", "forward", "wait", "unslot", "reply"}
Rivals(c, s) == {k \in Consumers \ {c} : pc[k] \in Requesting /\ job[k].svc = s}
Late(c, s) ==   \* requests answered without their SDP, which may still come
    {k \in Consumers \ {c} : \E d \in Cams :
        /\ ServiceOf[d] = s
        /\ k \in connects[d] \/ (pc[d] \in {"find", "fill"} /\ job[d].sdp = k)}

REQUEST(c, d, s) ==
    /\ Hears(c, d) /\ lock = None
    /\ d \in roles.requesters \ answered   \* bound: one request each
    /\ IF s \in Listed
       THEN /\ Steps(c, "recv", "clear")
            /\ job' = [job EXCEPT ![c] = [NoJob EXCEPT !.svc = s, !.conn = d,
                         !.fd = providers[s].fd, !.sdp = providers[s].sdp]]
            /\ UNCHANGED answered
       ELSE /\ answered' = answered \union {d}
            /\ UNCHANGED threads
    /\ UNCHANGED <<net, tables, cameras, monitor, known, gathered, shared>>

SetHasConsumer(s, value) ==
    [providers EXCEPT ![s] = IF @ = None THEN None ELSE [@ EXCEPT !.hasConsumer = value]]

ClearConsumer(c) ==
    /\ Steps(c, "clear", "slot") /\ lock = None
    /\ providers' = SetHasConsumer(job[c].svc, FALSE)
    /\ UNCHANGED <<net, job, lock, pending, slot, subs, cameras, monitor, ghosts>>

InstallSlot(c) ==
    /\ Steps(c, "slot", "forward")
    /\ pending' = [pending EXCEPT ![job[c].svc] = c]
    /\ slot' = [slot EXCEPT ![c] = EmptySlot]
    /\ shared' = shared \union Rivals(c, job[c].svc)
           \union IF Rivals(c, job[c].svc) \union Late(c, job[c].svc) = {} THEN {} ELSE {c}
    /\ UNCHANGED <<net, job, providers, lock, subs, cameras, monitor, known, gathered, answered>>

Forward(c) ==
    /\ Steps(c, "forward", "wait") /\ MayReach(job[c].fd)
    /\ connects' = [connects EXCEPT ![file[job[c].fd]] = @ \union {c}]
    /\ UNCHANGED <<net, job, tables, registered, owed, monitor, ghosts>>

ForwardFails(c) ==
    /\ Steps(c, "forward", "stale") /\ MayFail(job[c].fd)
    /\ pending' = [pending EXCEPT ![job[c].svc] = None]
    /\ UNCHANGED <<net, job, providers, lock, slot, subs, cameras, monitor, ghosts>>

(* The handler's PendingSDP goes out of scope.                             *)
Forget(c) ==
    /\ slot' = [slot EXCEPT ![c] = EmptySlot]
    /\ gathered' = gathered \ {c} /\ shared' = shared \ {c}

EraseStale(c) ==
    /\ pc[c] = "stale" /\ lock = None
    /\ providers' = [providers EXCEPT ![job[c].svc] = None]
    /\ answered' = answered \union {job[c].conn}
    /\ job' = [job EXCEPT ![c] = NoJob]
    /\ file' = file /\ GoRecv(c)
    /\ Forget(c)
    /\ UNCHANGED <<sock, link, lock, pending, subs, cameras, monitor, known>>

\* Faulty variant: the wait has no time limit.
WaitEnds_Unbounded(c) ==
    /\ Steps(c, "wait", "unslot") /\ slot[c].ready
    /\ job' = [job EXCEPT ![c].sdp = slot[c].sdp]
    /\ UNCHANGED <<net, tables, cameras, monitor, ghosts>>

(* The wait ends with the slot's SDP, or after 5 s with the copied one.    *)
WaitEnds(c) ==
    /\ Steps(c, "wait", "unslot")
    /\ job' = IF slot[c].ready THEN [job EXCEPT ![c].sdp = slot[c].sdp] ELSE job
    /\ UNCHANGED <<net, tables, cameras, monitor, ghosts>>

RemoveSlot(c) ==
    /\ Steps(c, "unslot", "reply")
    /\ pending' = [pending EXCEPT ![job[c].svc] = None]
    /\ UNCHANGED <<net, job, providers, lock, slot, subs, cameras, monitor, ghosts>>

Reply(c) ==
    /\ pc[c] = "reply" /\ lock = None
    /\ answered' = answered \union {job[c].conn}
    /\ providers' = SetHasConsumer(job[c].svc, TRUE)
    /\ job' = [job EXCEPT ![c] = NoJob]
    /\ file' = file /\ GoRecv(c)
    /\ Forget(c)
    /\ UNCHANGED <<sock, link, lock, pending, subs, cameras, monitor, known>>

-----------------------------------------------------------------------------
(* What a camera sends after REGISTER.  SDP_READY updates the entry, then  *)
(* finds the pending request, then fills its slot.                         *)
SDP_READY(c, d, k) ==
    /\ Hears(c, d) /\ d \in Cams /\ k \in connects[d] /\ lock = None
    /\ connects' = [connects EXCEPT ![d] = @ \ {k}]
    /\ providers' = [providers EXCEPT ![ServiceOf[d]] =
           IF @ = None THEN None ELSE [@ EXCEPT !.sdp = k]]
    /\ job' = [job EXCEPT ![c] = [NoJob EXCEPT !.svc = ServiceOf[d], !.sdp = k]]
    /\ Steps(c, "recv", "find")
    /\ UNCHANGED <<net, lock, pending, slot, subs, registered, owed, monitor, ghosts>>

FindPending(c) ==
    /\ Steps(c, "find", "fill")
    /\ job' = [job EXCEPT ![c].conn = pending[job[c].svc]]
    /\ UNCHANGED <<net, tables, cameras, monitor, ghosts>>

\* Faulty variant: the slot is filled and its waiter not told.
FillSlot_NotReady(c) ==
    /\ pc[c] = "fill"
    /\ slot' = IF job[c].conn = None THEN slot
               ELSE [slot EXCEPT ![job[c].conn].sdp = job[c].sdp]
    /\ gathered' = IF pc[job[c].sdp] \in {"forward", "wait"}
                   THEN gathered \union {job[c].sdp} ELSE gathered
    /\ job' = [job EXCEPT ![c] = NoJob]
    /\ file' = file /\ GoRecv(c)
    /\ UNCHANGED <<sock, link, providers, lock, pending, subs, cameras, monitor,
                   known, shared, answered>>

FillSlot(c) ==
    /\ pc[c] = "fill"
    /\ slot' = IF job[c].conn = None THEN slot
               ELSE [slot EXCEPT ![job[c].conn] = [ready |-> TRUE, sdp |-> job[c].sdp]]
    /\ gathered' = IF pc[job[c].sdp] \in {"forward", "wait"}
                   THEN gathered \union {job[c].sdp} ELSE gathered
    /\ job' = [job EXCEPT ![c] = NoJob]
    /\ file' = file /\ GoRecv(c)
    /\ UNCHANGED <<sock, link, providers, lock, pending, subs, cameras, monitor,
                   known, shared, answered>>

\* Faulty variant: the answer does not clear missed_pongs.
PONG_Uncounted(c, d) ==
    /\ Hears(c, d) /\ d \in Cams /\ owed[d] > 0 /\ lock = None
    /\ owed' = [owed EXCEPT ![d] = @ - 1]
    /\ file' = file /\ GoRecv(c)
    /\ UNCHANGED <<sock, link, job, tables, registered, connects, monitor, ghosts>>

(* PONG: whichever socket is listed for its service is alive, and with it  *)
(* every service on that socket.                                           *)
PONG(c, d) ==
    /\ Hears(c, d) /\ d \in Cams /\ owed[d] > 0 /\ lock = None
    /\ owed' = [owed EXCEPT ![d] = @ - 1]
    /\ LET s == ServiceOf[d]
           fd == IF s \in Listed THEN providers[s].fd ELSE sock[c] IN
         providers' = [t \in Services |->
             IF t \in Listed /\ providers[t].fd = fd
             THEN [providers[t] EXCEPT !.missed = 0] ELSE providers[t]]
    /\ file' = file /\ GoRecv(c)
    /\ UNCHANGED <<sock, link, job, lock, pending, slot, subs, registered, connects, monitor, ghosts>>

PROVIDER_DISCONNECTED(c, d) ==
    /\ Hears(c, d) /\ d \in Cams \intersect registered /\ lock = None
    /\ providers' = SetHasConsumer(ServiceOf[d], FALSE)
    /\ file' = file /\ GoRecv(c)
    /\ UNCHANGED <<sock, link, job, lock, pending, slot, subs, cameras, monitor, ghosts>>

-----------------------------------------------------------------------------
(* The end of a handler: its subscription, its entries by number, close.   *)
RecvFails(c) ==
    /\ Steps(c, "recv", "cleanup")
    /\ at[c] # None => link[at[c]] = "gone"
    /\ UNCHANGED <<net, job, tables, cameras, monitor, ghosts>>

Unsubscribe(c) ==
    /\ Steps(c, "cleanup", "unlist")
    /\ subs' = subs \ {sock[c]}
    /\ UNCHANGED <<net, job, providers, lock, pending, slot, cameras, monitor, ghosts>>

Without(fd) ==
    [s \in Services |-> IF s \in Listed /\ providers[s].fd = fd THEN None ELSE providers[s]]

Unlist(c) ==
    /\ Steps(c, "unlist", "close") /\ lock = None
    /\ providers' = Without(sock[c])
    /\ UNCHANGED <<net, job, lock, pending, slot, subs, cameras, monitor, ghosts>>

Close(c) ==
    /\ Steps(c, "close", "done")
    /\ file' = [file EXCEPT ![sock[c]] = None]
    /\ job' = [job EXCEPT ![c] = NoJob]
    /\ UNCHANGED <<sock, link, tables, cameras, monitor, ghosts>>

-----------------------------------------------------------------------------
(* ping_monitor_thread: collect under the lock, send without it, count     *)
(* under it, and remove what is stale, one number after the other.  A      *)
(* number that is given up is kept with the connection that was judged.    *)
Collect ==
    /\ monitor.pc = "sleep" /\ lock = None /\ Listed # {}
    /\ LET late == {s \in Listed : providers[s].missed \geq MaxMissedPongs} IN
         monitor' = [pc |-> "send", failed |-> {},
             stale |-> {<<providers[s].fd, providers[s].conn>> : s \in late},
             targets |-> {[svc |-> s, fd |-> providers[s].fd, conn |-> providers[s].conn] :
                          s \in {t \in Listed : \A u \in late : providers[u].fd # providers[t].fd}}]
    /\ UNCHANGED <<net, threads, tables, cameras, ghosts>>

SendPings ==
    /\ monitor.pc = "send"
    /\ \E failed \in SUBSET monitor.targets :
         /\ \A t \in monitor.targets : IF t \in failed THEN MayFail(t.fd) ELSE MayReach(t.fd)
         /\ monitor' = [monitor EXCEPT !.pc = "count", !.failed = failed]
         /\ owed' = [c \in Conns |->
                IF owed[c] < MaxOwed /\ \E t \in monitor.targets \ failed : file[t.fd] = c
                THEN owed[c] + 1 ELSE owed[c]]
    /\ UNCHANGED <<net, threads, tables, registered, connects, ghosts>>

\* Faulty variant: a PING that is sent is not counted.
Count_FailuresOnly ==
    /\ monitor.pc = "count" /\ lock = None
    /\ monitor' = [Idle EXCEPT !.pc = "drop",
           !.stale = monitor.stale \union {<<t.fd, t.conn>> : t \in monitor.failed}]
    /\ UNCHANGED <<net, threads, tables, cameras, ghosts>>

Count ==
    /\ monitor.pc = "count" /\ lock = None
    /\ providers' = [s \in Services |->
           IF s \in Listed /\ \E t \in monitor.targets \ monitor.failed : t.svc = s
           THEN [providers[s] EXCEPT !.missed = @ + 1] ELSE providers[s]]
    /\ monitor' = [Idle EXCEPT !.pc = "drop",
           !.stale = monitor.stale \union {<<t.fd, t.conn>> : t \in monitor.failed}]
    /\ UNCHANGED <<net, threads, lock, pending, slot, subs, cameras, ghosts>>

DropStale ==
    /\ monitor.pc = "drop" /\ lock = None
    /\ IF monitor.stale = {} THEN monitor' = Idle /\ UNCHANGED providers
       ELSE \E x \in monitor.stale :
              /\ providers' = Without(x[1])
              /\ monitor' = [monitor EXCEPT !.pc = "close", !.targets = {x}]
    /\ UNCHANGED <<net, threads, lock, pending, slot, subs, cameras, ghosts>>

CloseStale ==
    /\ monitor.pc = "close"
    /\ \E x \in monitor.targets :
         /\ file' = [file EXCEPT ![x[1]] = None]
         /\ monitor' = [monitor EXCEPT !.pc = "drop", !.stale = @ \ {x}, !.targets = {}]
    /\ UNCHANGED <<sock, link, threads, tables, cameras, ghosts>>

-----------------------------------------------------------------------------
HandlerStep(c) ==
    \/ Insert(c) \/ CopySubscribers(c) \/ NotifySend(c) \/ NotifyDrop(c)
    \/ List(c)
    \/ ClearConsumer(c) \/ Forward(c) \/ ForwardFails(c) \/ EraseStale(c)
    \/ WaitEnds(c) \/ RemoveSlot(c) \/ Reply(c)
    \/ FindPending(c) \/ FillSlot(c)
    \/ RecvFails(c) \/ Unsubscribe(c) \/ Unlist(c) \/ Close(c)

RequestStep(c) == c \in Consumers /\ InstallSlot(c)

Message(c) ==
    \E d \in Conns :
        \/ REGISTER(c, d) \/ PONG(c, d) \/ PROVIDER_DISCONNECTED(c, d)
        \/ SUBSCRIBE(c, d)
        \/ \E s \in Services : REQUEST(c, d, s)
        \/ \E k \in Consumers : SDP_READY(c, d, k)

MonitorStep == Collect \/ SendPings \/ Count \/ DropStale \/ CloseStale

Step ==
    \/ MonitorStep
    \/ \E c \in Conns :
         \/ Accept(c) \/ HandlerStep(c) \/ RequestStep(c) \/ ListSent(c) \/ Message(c)
         \/ c \in roles.vanishing /\ PeerChanges(c, "silent")
         \/ c \in roles.closing /\ PeerChanges(c, "gone")

Next == Step /\ UNCHANGED roles

(* Threads run; peers, the network and cameras need not do anything.       *)
Spec == Init /\ [][Next]_<<roles, vars>>
(* The list of services fits a new subscriber's socket buffer (a thread in *)
(* recv has only the failure of the read as a step of its own) ...         *)
FairSpec ==
    /\ Spec /\ WF_vars(MonitorStep)
    /\ \A c \in Conns : WF_vars(
          \/ pc[c] = "recv" /\ RecvFails(c)
          \/ /\ pc[c] \notin {"none", "recv", "done"}
             /\ HandlerStep(c) \/ RequestStep(c) \/ ListSent(c))
(* ... or it may not, and then the send waits for the subscriber.          *)
StallingSpec ==
    /\ Spec /\ WF_vars(MonitorStep)
    /\ \A c \in Conns : WF_vars(HandlerStep(c) \/ RequestStep(c))

-----------------------------------------------------------------------------
TypeOK ==
    /\ file \in [Fds -> Conns \union {None}] /\ sock \in [Conns -> Fds \union {None}]
    /\ providers \in [Services -> Entry \union {None}]
    /\ lock \in Conns \union {None}
    /\ pending \in [Services -> Consumers \union {None}]
    /\ subs \subseteq Fds
    /\ owed \in [Conns -> 0..MaxOwed]
    /\ at \in [Conns -> Conns \union {None}]

(* A subscriber that is back in recv has been told of every listed service *)
(* whose registration is complete: by the list SUBSCRIBE sends or by the   *)
(* registration's own notification, in whatever order the two run.         *)
SubscriberKnows ==
    \A k \in Consumers, s \in Listed :
        /\ pc[k] = "recv" /\ sock[k] \in subs /\ file[sock[k]] = k /\ link[k] = "up"
        /\ \A c \in Conns : pc[c] \in {"notify", "notifySend"} => job[c].svc # s
        => s \in known[k]

(* The monitor gives a camera up for silence only if at least              *)
(* MAX_MISSED_PONGS - 1 PINGs are unanswered: a PONG that overtakes the    *)
(* count of its own PING costs one round and no more.                      *)
AnsweringIsKept ==
    \A s \in Listed :
        providers[s].missed > 0 /\ file[providers[s].fd] = providers[s].conn
        => providers[s].missed \leq owed[providers[s].conn] + 1

(* A request that shares its service neither with another one nor with the *)
(* late SDP of an earlier one gets the SDP the camera gathered for it      *)
(* whenever that arrived while it was being served.                        *)
AloneIsFresh ==
    \A k \in Consumers :
        /\ pc[k] \in {"unslot", "reply"} /\ k \in gathered /\ k \notin shared
        => job[k].sdp = k

(* Every request is answered, whatever its camera does.                    *)
RequestAnswered ==
    \A c \in Consumers : pc[c] = "clear" ~> pc[c] \in {"recv", "cleanup"}

(* A camera that is gone, noticed or not, is eventually unlisted.          *)
DeadIsUnlisted ==
    \A c \in Cams, s \in Services :
        (providers[s] # None /\ providers[s].conn = c /\ link[c] # "up")
            ~> (providers[s] = None \/ providers[s].conn # c)

-----------------------------------------------------------------------------
(* What comments of the server say and the model refutes (README,          *)
(* section 6).                                                             *)

(* "ensures every PROVIDER_INFO response contains current ICE candidates": *)
(* the same, for all requests.                                             *)
EveryInfoFresh ==
    \A k \in Consumers :
        pc[k] \in {"unslot", "reply"} /\ k \in gathered => job[k].sdp = k

(* What the monitor closes is the connection it gave up.                   *)
MonitorClosesStale ==
    [][monitor.pc = "close" /\ monitor'.pc = "drop" =>
        \A x \in monitor.targets : file[x[1]] \in {x[2], None}]_vars

(* "registry_mutex is NOT held during send()" ... "preventing any new      *)
(* provider/consumer from registering": a registration goes through.       *)
RegistrationCompletes ==
    \A c \in Conns : pc[c] = "insert" ~> pc[c] # "insert"

(* "Enforce provider capacity limit".                                      *)
WithinCapacity == MaxProviders > 0 => Cardinality(Listed) \leq MaxProviders
=============================================================================
