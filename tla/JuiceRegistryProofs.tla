------------------------- MODULE JuiceRegistryProofs -------------------------
(***************************************************************************)
(* Proofs about JuiceRegistry, for any cameras, consumers, services,       *)
(* descriptor numbers and roles: the three invariants the run checks.      *)
(*                                                                         *)
(* AnsweringIsKept holds however descriptor numbers are used again.        *)
(* SubscriberKnows and AloneIsFresh are proved for closed numbers that are *)
(* used again, too, on one condition: no connection gets a number that a   *)
(* handler still running got before it (somebody else closed it), or that  *)
(* a request has copied and has yet to send to (KeepsApart).  OwnNumbers   *)
(* is what this comes to.                                                  *)
(***************************************************************************)
EXTENDS JuiceRegistry, TLAPS

Places ==
    {"none", "recv", "insert", "notify", "notifySend", "notifyDrop", "list", "listing", "clear",
     "slot", "forward", "stale", "wait", "unslot", "reply", "find", "fill", "cleanup", "unlist",
     "close", "done"}
Served == {"forward", "wait", "unslot", "reply"}
Job == [svc : Services \union {None}, conn : Conns \union {None}, fd : Fds \union {None},
        sdp : Consumers \union {None}, fds : SUBSET Fds]
Target == [svc : Services, fd : Fds, conn : Conns]

\* The types of the variables, and which thread may be where with what.
Types ==
    /\ TypeOK /\ roles \in RoleMixes
    /\ link \in [Conns -> {"none", "up", "silent", "gone"}]
    /\ pc \in [Conns -> Places] /\ job \in [Conns -> Job]
    /\ slot \in [Consumers -> [ready : BOOLEAN, sdp : Consumers \union {None}]]
    /\ connects \in [Conns -> SUBSET Consumers]
    /\ known \in [Consumers -> SUBSET Services]
    /\ shared \subseteq Consumers /\ gathered \subseteq Consumers

\* What a thread has in hand where it is.
InHand ==
    \A c \in Conns :
        /\ pc[c] # "none" => sock[c] \in Fds
        /\ pc[c] \in {"insert", "notify", "notifySend", "notifyDrop"}
              => job[c].conn \in Cams /\ job[c].svc = ServiceOf[job[c].conn]
        /\ pc[c] \in {"clear", "slot", "stale"} \union Served
              => job[c].svc \in Services /\ job[c].fd \in Fds
        /\ pc[c] \in {"stale"} \union Served => c \in Consumers
        /\ pc[c] \in {"find", "fill"}
              => job[c].svc \in Services /\ job[c].sdp \in Consumers
        /\ pc[c] = "fill" => job[c].conn \in Consumers \union {None}

\* What the monitor has in hand.
MonitorInHand ==
    /\ monitor = [pc |-> monitor.pc, targets |-> monitor.targets, failed |-> monitor.failed,
                  stale |-> monitor.stale]
    /\ monitor.pc \in {"sleep", "send", "count", "drop", "close"}
    /\ monitor.pc \in {"send", "count"} => monitor.targets \subseteq Target
    /\ monitor.pc = "count" => monitor.failed \subseteq monitor.targets
    /\ monitor.stale \subseteq Fds \X Conns
    /\ monitor.pc = "close" => monitor.targets \subseteq Fds \X Conns

\* An entry was made for its own service, by a connection that was accepted.
Entries ==
    /\ \A s \in Listed : providers[s].conn \in Cams /\ ServiceOf[providers[s].conn] = s
    /\ \A s \in Listed : pc[providers[s].conn] # "none"
    /\ \A c \in Conns : pc[c] \in {"insert"} => pc[job[c].conn] # "none"
    /\ \A c \in Conns : at[c] # None => pc[at[c]] # "none"
    /\ \A n \in Fds : file[n] # None => pc[file[n]] # "none"

\* An entry the monitor is about to ask is not late yet, and is the one it read
\* or a new one; one it has asked owes an answer more than it is charged with.
Charged ==
    /\ \A t \in monitor.targets :
         /\ monitor.pc \in {"send", "count"} /\ t.svc \in Listed
            => providers[t.svc].missed < MaxMissedPongs
         /\ monitor.pc = "send" /\ t.svc \in Listed /\ providers[t.svc].missed > 0
            => providers[t.svc].fd = t.fd
         /\ /\ monitor.pc = "count" /\ t \notin monitor.failed /\ t.svc \in Listed
            /\ providers[t.svc].missed > 0
            /\ file[providers[t.svc].fd] = providers[t.svc].conn
            => providers[t.svc].missed \leq owed[providers[t.svc].conn]
    /\ AnsweringIsKept

-----------------------------------------------------------------------------
\* A number somebody still takes for its own or for its camera's: the handler
\* that accept gave it to, until that handler is done, or a request that copied it
\* from the entry and has not forwarded yet.
Live(c) == pc[c] \notin {"none", "done"}
Copied == {"clear", "slot", "forward"}
StillUsed(n) ==
    \E c \in Conns : (Live(c) /\ sock[c] = n) \/ (pc[c] \in Copied /\ job[c].fd = n)

\* The condition on accept: a number is given out again only when nobody uses it
\* for the connection it named.
KeepsApart == \A c \in Conns : pc[c] = "none" /\ pc'[c] # "none" => ~StillUsed(sock'[c])

\* Then a number belongs to one running handler at a time, and a thread hears only
\* its own peer.
OwnNumbers ==
    /\ \A c \in Conns : Live(c) => file[sock[c]] \in {c, None}
    /\ \A c \in Conns : at[c] \in {c, None}
    /\ \A c \in Conns, n \in Fds : file[n] = c => Live(c) /\ n = sock[c]
    /\ \A c, d \in Conns : Live(c) /\ Live(d) /\ sock[c] = sock[d] => c = d
    /\ \A n \in subs : \E c \in Conns : Live(c) /\ pc[c] \notin {"unlist", "close"} /\ sock[c] = n
    /\ \A s \in Listed : /\ Live(providers[s].conn) /\ pc[providers[s].conn] # "close"
                         /\ providers[s].fd = sock[providers[s].conn]
    /\ \A c \in Conns : pc[c] \in Copied
          => \E d \in Cams : /\ ServiceOf[d] = job[c].svc
                            /\ \A e \in Conns : Live(e) /\ sock[e] = job[c].fd => e = d
    /\ \A c \in Conns : pc[c] \in {"insert", "clear", "slot", "stale"} \union Served
          => job[c].conn = c

\* A subscriber that has not been told of a listed service is about to be: by
\* its own list, or by a notification that has its number or will copy it.
Listening(k) ==
    /\ pc[k] \notin {"none", "list", "listing"} /\ sock[k] \in subs
    /\ file[sock[k]] = k /\ link[k] = "up"
ToldOf(k, s) ==
    \/ s \in known[k]
    \/ \E c \in Conns : pc[c] = "notify" /\ job[c].svc = s
    \/ \E c \in Conns : pc[c] = "notifySend" /\ job[c].svc = s /\ sock[k] \in job[c].fds
Told == \A k \in Consumers, s \in Listed : Listening(k) => ToldOf(k, s)

\* A consumer whose one request has not reached a camera is unheard of; one
\* whose request is being served is known for its own service only, and an SDP
\* is taken in by the thread of the camera that gathered it.
Unasked(k) == k \notin answered /\ pc[k] \notin {"stale"} \union Served
Unheard(k) ==
    /\ \A s \in Services : pending[s] # k
    /\ \A d \in Conns : k \notin connects[d]
    /\ \A c \in Conns : pc[c] \in {"find", "fill"} => job[c].sdp # k
    /\ \A c \in Conns : pc[c] = "fill" => job[c].conn # k
    /\ k \notin gathered
HeardFor(k) ==
    /\ \A s \in Services : pending[s] = k => s = job[k].svc
    /\ \A d \in Conns : k \in connects[d] => d \in Cams /\ ServiceOf[d] = job[k].svc
    /\ \A c \in Conns : pc[c] \in {"find", "fill"} /\ job[c].sdp = k => job[c].svc = job[k].svc
Heard ==
    /\ \A c \in Conns : pc[c] \in {"find", "fill"} => c \in Cams /\ job[c].svc = ServiceOf[c]
    /\ \A k \in Consumers : pc[k] \in {"clear", "slot"} => k \notin answered
    /\ \A k \in Consumers : Unasked(k) => Unheard(k)
    /\ \A k \in Consumers : pc[k] \in Served => HeardFor(k)

\* A request that shares its service with no other has the pending slot of its
\* service, and whatever SDP is on its way to that slot is its own.
AloneFor(k) ==
    /\ \A j \in Consumers \ {k} : pc[j] \in Served => job[j].svc # job[k].svc
    /\ \A d \in Cams : ServiceOf[d] = job[k].svc => connects[d] \subseteq {k}
    /\ \A c \in Conns : pc[c] \in {"find", "fill"} /\ job[c].svc = job[k].svc => job[c].sdp = k
    /\ \A c \in Conns : pc[c] = "fill" /\ job[c].conn = k => job[c].svc = job[k].svc
    /\ slot[k].ready => slot[k].sdp = k
    /\ pc[k] \in {"forward", "wait"} =>
         /\ pending[job[k].svc] = k
         /\ \A c \in Conns : pc[c] = "fill" /\ job[c].sdp = k => job[c].conn = k
         /\ k \in gathered => slot[k].ready
    /\ pc[k] \in {"unslot", "reply"} /\ k \in gathered => job[k].sdp = k
Alone == \A k \in Consumers \ shared : pc[k] \in Served => AloneFor(k)

-----------------------------------------------------------------------------
\* Each connection has a number of its own when numbers are not reused.
LEMMA OwnNumberFact ==
    ~Recycle => OwnNumber \in [Conns -> Fds] /\ \A c, d \in Conns : OwnNumber[c] = OwnNumber[d] => c = d
BY JuiceAssumption DEF OwnNumber

\* A handler's locals stay locals when one of them is assigned.
LEMMA JobFields ==
    ASSUME NEW j \in Job, NEW F \in SUBSET Fds, NEW k \in Consumers \union {None},
           NEW d \in Conns \union {None}
    PROVE  /\ [j EXCEPT !.fds = F] \in Job /\ [j EXCEPT !.sdp = k] \in Job
           /\ [j EXCEPT !.conn = d] \in Job
BY DEF Job

\* The steps of thread c that a message of its peer starts.
MessageOf(c, d) ==
    \/ REGISTER(c, d) \/ PONG(c, d) \/ PROVIDER_DISCONNECTED(c, d) \/ SUBSCRIBE(c, d)
    \/ \E s \in Services : REQUEST(c, d, s)
    \/ \E k \in Consumers : SDP_READY(c, d, k)

\* Types: accept, the peers, and a registration.
LEMMA RegistrationTypes ==
    ASSUME Types, InHand, NEW c \in Conns,
           \/ Accept(c) \/ PeerChanges(c, "silent") \/ PeerChanges(c, "gone")
           \/ Insert(c) \/ CopySubscribers(c) \/ NotifySend(c) \/ NotifyDrop(c)
           \/ List(c) \/ ListSent(c),
           UNCHANGED roles
    PROVE  Types'
<1> USE JuiceAssumption DEF Types, TypeOK, Job, Places, Steps, GoRecv, net, threads, tables, cameras, ghosts
<1>1. CASE Accept(c)
  <2>1. \A n \in Numbers(c) : n \in Fds
    BY OwnNumberFact DEF Numbers, FreeNumbers
  <2> QED
    BY <1>1, <2>1 DEF Accept
<1>2. CASE PeerChanges(c, "silent") \/ PeerChanges(c, "gone")
  <2>1. link' \in [Conns -> {"none", "up", "silent", "gone"}]
    BY <1>2 DEF PeerChanges
  <2>2. UNCHANGED <<file, sock, threads, tables, cameras, monitor, ghosts>>
    BY <1>2 DEF PeerChanges
  <2> QED
    BY <2>1, <2>2
<1>3. CASE Insert(c)
  <2>1. [fd |-> sock[c], conn |-> job[c].conn, missed |-> 0, sdp |-> None, hasConsumer |-> FALSE]
          \in Entry
    BY <1>3 DEF Insert, InHand, Entry, Conns
  <2> QED
    BY <1>3, <2>1 DEF Insert
<1>4. CASE CopySubscribers(c)
  <2>1. [job[c] EXCEPT !.fds = subs] \in Job
    <3>1. job[c] \in Job /\ subs \in SUBSET Fds
      OBVIOUS
    <3> QED
      BY <3>1, JobFields
  <2>2. job' \in [Conns -> Job]
    BY <1>4, <2>1 DEF CopySubscribers
  <2> QED
    BY <1>4, <2>2 DEF CopySubscribers
<1>5. CASE NotifySend(c)
  <2>1. PICK failed \in SUBSET job[c].fds : job' = [job EXCEPT ![c].fds = failed]
    BY <1>5 DEF NotifySend
  <2>2. [job[c] EXCEPT !.fds = failed] \in Job
    <3>1. job[c] \in Job /\ failed \in SUBSET Fds
      OBVIOUS
    <3> QED
      BY <3>1, JobFields
  <2>3. job' \in [Conns -> Job]
    BY <2>1, <2>2
  <2>4. job[c].svc \in Services
    BY <1>5 DEF NotifySend, InHand
  <2>5. known' \in [Consumers -> SUBSET Services]
    BY <1>5, <2>4 DEF NotifySend
  <2> QED
    BY <1>5, <2>3, <2>5 DEF NotifySend
<1>6. CASE NotifyDrop(c)
  BY <1>6 DEF NotifyDrop, NoJob, InHand
<1>7. CASE List(c)
  BY <1>7 DEF List
<1>8. CASE ListSent(c)
  BY <1>8 DEF ListSent, Listed, InHand
<1> QED
  BY <1>1, <1>2, <1>3, <1>4, <1>5, <1>6, <1>7, <1>8

\* An entry stays an entry when one of its fields is assigned.
LEMMA EntryFields ==
    ASSUME NEW e \in Entry, NEW v \in BOOLEAN, NEW k \in Consumers \union {None},
           NEW m \in 0..(MaxMissedPongs + 1)
    PROVE  /\ [e EXCEPT !.hasConsumer = v] \in Entry /\ [e EXCEPT !.sdp = k] \in Entry
           /\ [e EXCEPT !.missed = m] \in Entry
BY DEF Entry

\* Marking an entry as taken keeps the table a table.
LEMMA HasConsumerType ==
    ASSUME TypeOK, NEW s \in Services, NEW v \in BOOLEAN
    PROVE  SetHasConsumer(s, v) \in [Services -> Entry \union {None}]
<1>1. providers \in [Services -> Entry \union {None}]
  BY DEF TypeOK
<1>2. providers[s] # None => [providers[s] EXCEPT !.hasConsumer = v] \in Entry
  BY <1>1 DEF Entry
<1> QED
  BY <1>1, <1>2 DEF SetHasConsumer

\* Types: the steps of a request.
LEMMA RequestTypes ==
    ASSUME Types, InHand, NEW c \in Conns,
           \/ ClearConsumer(c) \/ RequestStep(c) \/ Forward(c) \/ ForwardFails(c) \/ EraseStale(c)
           \/ WaitEnds(c) \/ RemoveSlot(c) \/ Reply(c),
           UNCHANGED roles
    PROVE  Types'
<1> USE JuiceAssumption DEF Types, TypeOK, Places, Steps, GoRecv, net, threads, tables, cameras, ghosts
<1>1. NoJob \in Job /\ EmptySlot \in [ready : BOOLEAN, sdp : Consumers \union {None}]
  BY DEF NoJob, Job, EmptySlot
<1>2. CASE ClearConsumer(c)
  <2>1. job[c].svc \in Services
    BY <1>2 DEF ClearConsumer, InHand
  <2>2. providers' \in [Services -> Entry \union {None}]
    BY <1>2, <2>1, HasConsumerType DEF ClearConsumer
  <2> QED
    BY <1>2, <2>2 DEF ClearConsumer
<1>3. CASE RequestStep(c)
  <2>1. Rivals(c, job[c].svc) \subseteq Consumers /\ c \in Consumers
    BY <1>3 DEF RequestStep, Rivals
  <2>2. pending' \in [Services -> Consumers \union {None}] /\ pc' \in [Conns -> Places]
    BY <1>3, <2>1 DEF RequestStep, InstallSlot
  <2>3. slot' \in [Consumers -> [ready : BOOLEAN, sdp : Consumers \union {None}]]
    BY <1>1, <1>3, <2>1 DEF RequestStep, InstallSlot
  <2>4. shared' \subseteq Consumers
    BY <1>3, <2>1 DEF RequestStep, InstallSlot
  <2> QED
    BY <1>3, <2>2, <2>3, <2>4 DEF RequestStep, InstallSlot
<1>4. CASE Forward(c)
  <2>1. c \in Consumers /\ job[c].fd \in Fds
    BY <1>4 DEF Forward, InHand, Served
  <2>2. connects' \in [Conns -> SUBSET Consumers] /\ pc' \in [Conns -> Places]
    BY <1>4, <2>1 DEF Forward, MayReach
  <2> QED
    BY <1>4, <2>2 DEF Forward
<1>5. CASE ForwardFails(c)
  <2>1. pending' \in [Services -> Consumers \union {None}] /\ pc' \in [Conns -> Places]
    BY <1>5 DEF ForwardFails
  <2> QED
    BY <1>5, <2>1 DEF ForwardFails
<1>6. CASE EraseStale(c)
  <2>1. sock[c] \in Fds /\ file' = file
    BY <1>6 DEF EraseStale, InHand
  <2>2. /\ providers' \in [Services -> Entry \union {None}] /\ job' \in [Conns -> Job]
        /\ pc' \in [Conns -> Places] /\ at' \in [Conns -> Conns \union {None}]
    BY <1>1, <1>6, <2>1 DEF EraseStale
  <2>3. /\ slot' \in [Consumers -> [ready : BOOLEAN, sdp : Consumers \union {None}]]
        /\ shared' \subseteq Consumers /\ gathered' \subseteq Consumers
    BY <1>1, <1>6 DEF EraseStale, Forget
  <2> QED
    BY <1>6, <2>1, <2>2, <2>3 DEF EraseStale
<1>7. CASE WaitEnds(c)
  <2>1. c \in Consumers
    BY <1>7 DEF WaitEnds, InHand, Served
  <2>2. slot[c].sdp \in Consumers \union {None} /\ job[c] \in Job
    BY <2>1
  <2>3. [job[c] EXCEPT !.sdp = slot[c].sdp] \in Job
    BY <2>2, JobFields
  <2>4. job' \in [Conns -> Job] /\ pc' \in [Conns -> Places]
    BY <1>7, <2>3 DEF WaitEnds
  <2> QED
    BY <1>7, <2>4 DEF WaitEnds
<1>8. CASE RemoveSlot(c)
  <2>1. pending' \in [Services -> Consumers \union {None}] /\ pc' \in [Conns -> Places]
    BY <1>8 DEF RemoveSlot
  <2> QED
    BY <1>8, <2>1 DEF RemoveSlot
<1>9. CASE Reply(c)
  <2>1. sock[c] \in Fds /\ file' = file /\ job[c].svc \in Services
    BY <1>9 DEF Reply, InHand, Served
  <2>2. providers' \in [Services -> Entry \union {None}]
    BY <1>9, <2>1, HasConsumerType DEF Reply
  <2>3. /\ job' \in [Conns -> Job]
        /\ pc' \in [Conns -> Places] /\ at' \in [Conns -> Conns \union {None}]
    BY <1>1, <1>9, <2>1 DEF Reply
  <2>4. /\ slot' \in [Consumers -> [ready : BOOLEAN, sdp : Consumers \union {None}]]
        /\ shared' \subseteq Consumers /\ gathered' \subseteq Consumers
    BY <1>1, <1>9 DEF Reply, Forget
  <2> QED
    BY <1>9, <2>1, <2>2, <2>3, <2>4 DEF Reply
<1> QED
  BY <1>2, <1>3, <1>4, <1>5, <1>6, <1>7, <1>8, <1>9

\* Types: what a camera's thread does with an SDP, and the end of a thread.
LEMMA EndTypes ==
    ASSUME Types, InHand, NEW c \in Conns,
           \/ FindPending(c) \/ FillSlot(c)
           \/ RecvFails(c) \/ Unsubscribe(c) \/ Unlist(c) \/ Close(c),
           UNCHANGED roles
    PROVE  Types'
<1> USE JuiceAssumption DEF Types, TypeOK, Places, Steps, GoRecv, net, threads, tables, cameras, ghosts
<1>1. NoJob \in Job
  BY DEF NoJob, Job
<1>2. CASE FindPending(c)
  <2>1. pending[job[c].svc] \in Conns \union {None} /\ job[c] \in Job
    BY <1>2 DEF FindPending, InHand, Conns
  <2>2. [job[c] EXCEPT !.conn = pending[job[c].svc]] \in Job
    BY <2>1, JobFields
  <2>3. job' \in [Conns -> Job] /\ pc' \in [Conns -> Places]
    BY <1>2, <2>2 DEF FindPending
  <2> QED
    BY <1>2, <2>3 DEF FindPending
<1>3. CASE FillSlot(c)
  <2>1. sock[c] \in Fds /\ file' = file /\ job[c].sdp \in Consumers
        /\ job[c].conn \in Consumers \union {None}
    BY <1>3 DEF FillSlot, InHand
  <2>2. slot' \in [Consumers -> [ready : BOOLEAN, sdp : Consumers \union {None}]]
    BY <1>3, <2>1 DEF FillSlot
  <2>3. job' \in [Conns -> Job] /\ gathered' \subseteq Consumers
    BY <1>1, <1>3, <2>1 DEF FillSlot
  <2>4. pc' \in [Conns -> Places] /\ at' \in [Conns -> Conns \union {None}]
    BY <1>3, <2>1 DEF FillSlot
  <2> QED
    BY <1>3, <2>1, <2>2, <2>3, <2>4 DEF FillSlot
<1>4. CASE RecvFails(c)
  BY <1>4 DEF RecvFails
<1>5. CASE Unsubscribe(c)
  BY <1>5 DEF Unsubscribe
<1>6. CASE Unlist(c)
  <2>1. sock[c] \in Fds
    BY <1>6 DEF Unlist, InHand
  <2>2. providers' \in [Services -> Entry \union {None}] /\ pc' \in [Conns -> Places]
    BY <1>6, <2>1 DEF Unlist, Without
  <2> QED
    BY <1>6, <2>2 DEF Unlist
<1>7. CASE Close(c)
  <2>1. file' \in [Fds -> Conns \union {None}] /\ job' \in [Conns -> Job] /\ pc' \in [Conns -> Places]
    BY <1>1, <1>7 DEF Close
  <2> QED
    BY <1>7, <2>1 DEF Close
<1> QED
  BY <1>2, <1>3, <1>4, <1>5, <1>6, <1>7

\* Types: the messages.
LEMMA MessageTypes ==
    ASSUME Types, InHand, NEW c \in Conns, NEW d \in Conns, MessageOf(c, d), UNCHANGED roles
    PROVE  Types'
<1> USE JuiceAssumption DEF Types, TypeOK, Places, Steps, GoRecv, net, threads, tables, cameras,
        ghosts, Hears
<1>1. pc[c] = "recv" /\ sock[c] \in Fds
  BY DEF MessageOf, REGISTER, PONG, PROVIDER_DISCONNECTED, SUBSCRIBE, REQUEST, SDP_READY, InHand
<1>2. CASE REGISTER(c, d)
  <2>1. [NoJob EXCEPT !.svc = ServiceOf[d], !.conn = d] \in Job
    BY <1>2 DEF REGISTER, NoJob, Job
  <2>2. job' \in [Conns -> Job] /\ pc' \in [Conns -> Places]
    BY <1>2, <2>1 DEF REGISTER
  <2> QED
    BY <1>2, <2>2 DEF REGISTER
<1>3. CASE PONG(c, d)
  <2>1. \A t \in Services : providers[t] # None => [providers[t] EXCEPT !.missed = 0] \in Entry
    BY DEF Entry
  <2>2. providers' \in [Services -> Entry \union {None}]
    BY <1>3, <2>1 DEF PONG, Listed
  <2>3. owed' \in [Conns -> 0..MaxOwed]
    BY <1>3 DEF PONG, MaxOwed
  <2>4. file' = file /\ pc' \in [Conns -> Places] /\ at' \in [Conns -> Conns \union {None}]
    BY <1>1, <1>3 DEF PONG
  <2> QED
    BY <1>3, <2>2, <2>3, <2>4 DEF PONG
<1>4. CASE PROVIDER_DISCONNECTED(c, d)
  <2>1. ServiceOf[d] \in Services /\ FALSE \in BOOLEAN
    BY <1>4 DEF PROVIDER_DISCONNECTED
  <2>2. providers' \in [Services -> Entry \union {None}]
    BY <1>4, <2>1, HasConsumerType DEF PROVIDER_DISCONNECTED
  <2>3. file' = file /\ pc' \in [Conns -> Places] /\ at' \in [Conns -> Conns \union {None}]
    BY <1>1, <1>4 DEF PROVIDER_DISCONNECTED
  <2> QED
    BY <1>4, <2>2, <2>3 DEF PROVIDER_DISCONNECTED
<1>5. CASE SUBSCRIBE(c, d)
  BY <1>1, <1>5 DEF SUBSCRIBE
<1>6. ASSUME NEW s \in Services, REQUEST(c, d, s) PROVE Types'
  <2>1. CASE s \in Listed
    <3>1. providers[s].fd \in Fds /\ providers[s].sdp \in Consumers \union {None}
      BY <2>1 DEF Listed, Entry
    <3>2. [NoJob EXCEPT !.svc = s, !.conn = d, !.fd = providers[s].fd, !.sdp = providers[s].sdp] \in Job
      BY <3>1 DEF NoJob, Job
    <3>3. job' \in [Conns -> Job] /\ pc' \in [Conns -> Places]
      BY <1>6, <2>1, <3>2 DEF REQUEST
    <3> QED
      BY <1>6, <2>1, <3>3 DEF REQUEST
  <2>2. CASE s \notin Listed
    BY <1>6, <2>2 DEF REQUEST
  <2> QED
    BY <2>1, <2>2
<1>7. ASSUME NEW k \in Consumers, SDP_READY(c, d, k) PROVE Types'
  <2>1. [NoJob EXCEPT !.svc = ServiceOf[d], !.sdp = k] \in Job
    BY <1>7 DEF SDP_READY, NoJob, Job
  <2>2. job' \in [Conns -> Job] /\ pc' \in [Conns -> Places]
    BY <1>7, <2>1 DEF SDP_READY
  <2>3. \A t \in Services : providers[t] # None => [providers[t] EXCEPT !.sdp = k] \in Entry
    BY DEF Entry
  <2>4. providers' \in [Services -> Entry \union {None}]
    BY <1>7, <2>3 DEF SDP_READY
  <2>5. connects' \in [Conns -> SUBSET Consumers]
    BY <1>7 DEF SDP_READY
  <2> QED
    BY <1>7, <2>2, <2>4, <2>5 DEF SDP_READY
<1> QED
  BY <1>2, <1>3, <1>4, <1>5, <1>6, <1>7 DEF MessageOf

\* Types: the monitor.  That a count stays within its range rests on Charged.
LEMMA MonitorTypes ==
    ASSUME Types, MonitorInHand, Charged, MonitorStep, UNCHANGED roles
    PROVE  Types' /\ MonitorInHand'
<1> USE JuiceAssumption DEF Types, TypeOK, MonitorInHand, net, threads, tables, cameras, ghosts, Idle
<1>1. CASE Collect
  <2>1. \A s \in Listed : providers[s].fd \in Fds /\ providers[s].conn \in Conns /\ s \in Services
    BY DEF Listed, Entry
  <2>2. /\ monitor'.pc = "send" /\ monitor'.targets \subseteq Target
        /\ monitor'.stale \subseteq Fds \X Conns
        /\ monitor' = [pc |-> monitor'.pc, targets |-> monitor'.targets,
                       failed |-> monitor'.failed, stale |-> monitor'.stale]
    BY <1>1, <2>1 DEF Collect, Target
  <2> QED
    BY <1>1, <2>2 DEF Collect
<1>2. CASE SendPings
  <2>1. owed' \in [Conns -> 0..MaxOwed]
    BY <1>2 DEF SendPings, MaxOwed
  <2>2. MonitorInHand'
    BY <1>2 DEF SendPings
  <2> QED
    BY <1>2, <2>1, <2>2 DEF SendPings
<1>3. CASE Count
  <2>1. \A s \in Listed : (\E t \in monitor.targets \ monitor.failed : t.svc = s)
          => [providers[s] EXCEPT !.missed = @ + 1] \in Entry
    <3> SUFFICES ASSUME NEW s \in Listed,
                        \E t \in monitor.targets \ monitor.failed : t.svc = s
                 PROVE  [providers[s] EXCEPT !.missed = @ + 1] \in Entry
      OBVIOUS
    <3>1. providers[s] \in Entry
      BY DEF Listed
    <3>2. providers[s].missed \in 0..MaxMissedPongs
      BY <1>3, <3>1 DEF Count, Charged, Listed, Entry
    <3>3. providers[s].missed + 1 \in 0..(MaxMissedPongs + 1)
      BY <3>2
    <3> HIDE DEF Types, TypeOK, MonitorInHand
    <3> QED
      BY <3>1, <3>3 DEF Entry
  <2>2. providers' \in [Services -> Entry \union {None}]
    BY <1>3, <2>1 DEF Count, Listed
  <2>3. \A t \in monitor.failed : <<t.fd, t.conn>> \in Fds \X Conns
    BY <1>3 DEF Count, Target
  <2>4. monitor' = [pc |-> "drop", targets |-> {}, failed |-> {},
                    stale |-> monitor.stale \union {<<t.fd, t.conn>> : t \in monitor.failed}]
    BY <1>3 DEF Count
  <2>5. monitor.stale \union {<<t.fd, t.conn>> : t \in monitor.failed} \subseteq Fds \X Conns
    BY <2>3
  <2>6. MonitorInHand'
    BY <2>4, <2>5
  <2> QED
    BY <1>3, <2>2, <2>6 DEF Count
<1>4. CASE DropStale
  <2>1. CASE monitor.stale = {}
    <3>1. monitor' = [pc |-> "sleep", targets |-> {}, failed |-> {}, stale |-> {}]
          /\ providers' = providers
      BY <1>4, <2>1 DEF DropStale
    <3> QED
      BY <1>4, <3>1 DEF DropStale
  <2>2. CASE monitor.stale # {}
    <3>1. PICK x \in monitor.stale :
            /\ providers' = Without(x[1])
            /\ monitor' = [monitor EXCEPT !.pc = "close", !.targets = {x}]
      BY <1>4, <2>2 DEF DropStale
    <3>2. providers' \in [Services -> Entry \union {None}]
      BY <3>1 DEF Without
    <3>3. MonitorInHand'
      BY <3>1
    <3> QED
      BY <1>4, <3>2, <3>3 DEF DropStale
  <2> QED
    BY <2>1, <2>2
<1>5. CASE CloseStale
  <2>1. PICK x \in monitor.targets :
          /\ file' = [file EXCEPT ![x[1]] = None]
          /\ monitor' = [monitor EXCEPT !.pc = "drop", !.stale = @ \ {x}, !.targets = {}]
    BY <1>5 DEF CloseStale
  <2>2. file' \in [Fds -> Conns \union {None}]
    BY <2>1
  <2>3. MonitorInHand'
    BY <2>1
  <2> QED
    BY <1>5, <2>2, <2>3 DEF CloseStale
<1> QED
  BY <1>1, <1>2, <1>3, <1>4, <1>5 DEF MonitorStep

\* A thread has in hand what its next steps need.
LEMMA HandlerInHand ==
    ASSUME Types, InHand, NEW c \in Conns,
           Accept(c) \/ HandlerStep(c) \/ RequestStep(c) \/ ListSent(c)
    PROVE  InHand'
<1> USE JuiceAssumption DEF Types, TypeOK, InHand, Served, Steps, GoRecv, net, threads
<1>1. CASE Accept(c)
  <2>1. \A n \in Numbers(c) : n \in Fds
    BY OwnNumberFact DEF Numbers, FreeNumbers
  <2> QED
    BY <1>1, <2>1 DEF Accept
<1>2. CASE Insert(c)
  BY <1>2 DEF Insert
<1>3. CASE CopySubscribers(c)
  BY <1>3 DEF CopySubscribers, Job
<1>4. CASE NotifySend(c)
  BY <1>4 DEF NotifySend, Job
<1>5. CASE NotifyDrop(c)
  BY <1>5 DEF NotifyDrop
<1>6. CASE List(c)
  BY <1>6 DEF List
<1>7. CASE ListSent(c)
  BY <1>7 DEF ListSent
<1>8. CASE ClearConsumer(c)
  BY <1>8 DEF ClearConsumer
<1>9. CASE RequestStep(c)
  BY <1>9 DEF RequestStep, InstallSlot
<1>10. CASE Forward(c)
  BY <1>10 DEF Forward
<1>11. CASE ForwardFails(c)
  BY <1>11 DEF ForwardFails
<1>12. CASE EraseStale(c)
  BY <1>12 DEF EraseStale
<1>13. CASE WaitEnds(c)
  BY <1>13 DEF WaitEnds, Job
<1>14. CASE RemoveSlot(c)
  BY <1>14 DEF RemoveSlot
<1>15. CASE Reply(c)
  BY <1>15 DEF Reply
<1>16. CASE FindPending(c)
  BY <1>16 DEF FindPending, Job
<1>17. CASE FillSlot(c)
  BY <1>17 DEF FillSlot
<1>18. CASE RecvFails(c)
  BY <1>18 DEF RecvFails
<1>19. CASE Unsubscribe(c)
  BY <1>19 DEF Unsubscribe
<1>20. CASE Unlist(c)
  BY <1>20 DEF Unlist
<1>21. CASE Close(c)
  BY <1>21 DEF Close
<1> QED
  BY <1>1, <1>2, <1>3, <1>4, <1>5, <1>6, <1>7, <1>8, <1>9, <1>10, <1>11, <1>12, <1>13, <1>14, <1>15,
     <1>16, <1>17, <1>18, <1>19, <1>20, <1>21 DEF HandlerStep

\* The locals with which a message starts.
LEMMA FirstJobs ==
    ASSUME NEW s, NEW d, NEW f, NEW k
    PROVE  /\ LET j == [NoJob EXCEPT !.svc = s, !.conn = d, !.fd = f, !.sdp = k] IN
                 j.svc = s /\ j.conn = d /\ j.fd = f /\ j.sdp = k /\ j.fds = {}
           /\ LET j == [NoJob EXCEPT !.svc = s, !.sdp = k] IN
                 j.svc = s /\ j.conn = None /\ j.sdp = k /\ j.fds = {}
           /\ LET j == [NoJob EXCEPT !.svc = s, !.conn = d] IN
                 j.svc = s /\ j.conn = d /\ j.sdp = None /\ j.fds = {}
BY DEF NoJob

\* What a thread has in hand after the message it reads.
LEMMA MessageInHand ==
    ASSUME Types, InHand, NEW c \in Conns, NEW d \in Conns, MessageOf(c, d)
    PROVE  InHand'
<1> USE JuiceAssumption DEF Types, TypeOK, InHand, Served, Steps, GoRecv, net, threads, Hears
<1>1. CASE REGISTER(c, d)
  BY <1>1 DEF REGISTER, NoJob
<1>2. CASE PONG(c, d) \/ PROVIDER_DISCONNECTED(c, d)
  <2>1. UNCHANGED <<sock, job>> /\ pc' = [pc EXCEPT ![c] = "recv"] /\ pc[c] = "recv"
    BY <1>2 DEF PONG, PROVIDER_DISCONNECTED
  <2> QED
    BY <2>1
<1>3. CASE SUBSCRIBE(c, d)
  BY <1>3 DEF SUBSCRIBE
<1>4. ASSUME NEW s \in Services, REQUEST(c, d, s) PROVE InHand'
  <2>1. CASE s \in Listed
    <3>1. providers[s].fd \in Fds
      BY <2>1 DEF Listed, Entry
    <3>2. /\ sock' = sock /\ pc[c] = "recv" /\ pc' = [pc EXCEPT ![c] = "clear"]
          /\ job' = [job EXCEPT ![c] = [NoJob EXCEPT !.svc = s, !.conn = d,
                       !.fd = providers[s].fd, !.sdp = providers[s].sdp]]
      BY <1>4, <2>1 DEF REQUEST
    <3>3. job'[c].svc = s /\ job'[c].fd = providers[s].fd /\ \A e \in Conns \ {c} : job'[e] = job[e]
      BY <3>2, FirstJobs
    <3> QED
      BY <3>1, <3>2, <3>3
  <2>2. CASE s \notin Listed
    BY <1>4, <2>2 DEF REQUEST
  <2> QED
    BY <2>1, <2>2
<1>5. ASSUME NEW k \in Consumers, SDP_READY(c, d, k) PROVE InHand'
  BY <1>5 DEF SDP_READY, NoJob
<1> QED
  BY <1>1, <1>2, <1>3, <1>4, <1>5 DEF MessageOf

\* Only an insertion makes an entry or changes whose it is.
Kept ==
    \A s \in Listed' : /\ s \in Listed
                       /\ providers'[s].conn = providers[s].conn
                       /\ providers'[s].fd = providers[s].fd
Uncharged == \A s \in Listed' : providers'[s].missed \in {providers[s].missed, 0}

\* A handler thread, except where it inserts, keeps every entry's identity and
\* count.
LEMMA HandlerKeeps ==
    ASSUME Types, InHand, NEW c \in Conns,
           Accept(c) \/ HandlerStep(c) \/ RequestStep(c) \/ ListSent(c), ~Insert(c)
    PROVE  Kept /\ Uncharged /\ UNCHANGED <<owed, monitor>>
<1> USE JuiceAssumption DEF Types, TypeOK, Kept, Uncharged, Listed, Steps, tables, cameras
<1>1. UNCHANGED <<owed, monitor>>
  BY DEF HandlerStep, RequestStep, Accept, CopySubscribers, NotifySend, NotifyDrop, List, ListSent,
         ClearConsumer, InstallSlot, Forward, ForwardFails, EraseStale, WaitEnds, RemoveSlot, Reply,
         FindPending, FillSlot, RecvFails, Unsubscribe, Unlist, Close
<1>2. CASE ClearConsumer(c) \/ Reply(c)
  <2>1. PICK v \in BOOLEAN : providers' = SetHasConsumer(job[c].svc, v)
    BY <1>2 DEF ClearConsumer, Reply
  <2> QED
    BY <1>1, <2>1 DEF SetHasConsumer, Entry
<1>3. CASE EraseStale(c)
  BY <1>1, <1>3 DEF EraseStale
<1>4. CASE Unlist(c)
  BY <1>1, <1>4 DEF Unlist, Without
<1>5. CASE ~ClearConsumer(c) /\ ~Reply(c) /\ ~EraseStale(c) /\ ~Unlist(c)
  <2>1. providers' = providers
    BY <1>5 DEF HandlerStep, RequestStep, Accept, CopySubscribers, NotifySend, NotifyDrop, List,
         ListSent, InstallSlot, Forward, ForwardFails, WaitEnds, RemoveSlot, FindPending, FillSlot,
         RecvFails, Unsubscribe, Close
  <2> QED
    BY <1>1, <2>1
<1> QED
  BY <1>2, <1>3, <1>4, <1>5

\* So does the reading of a message.
LEMMA MessageKeeps ==
    ASSUME Types, InHand, NEW c \in Conns, NEW d \in Conns, MessageOf(c, d)
    PROVE  Kept /\ Uncharged /\ UNCHANGED <<file, sock, monitor>> /\ (PONG(c, d) \/ owed' = owed)
<1> USE JuiceAssumption DEF Types, TypeOK, Kept, Uncharged, Listed, Steps, net, tables, cameras
<1>1. UNCHANGED <<file, sock, monitor>> /\ (PONG(c, d) \/ owed' = owed)
  BY DEF MessageOf, REGISTER, PONG, PROVIDER_DISCONNECTED, SUBSCRIBE, REQUEST, SDP_READY
<1>2. CASE PONG(c, d)
  BY <1>1, <1>2 DEF PONG, Entry
<1>3. CASE PROVIDER_DISCONNECTED(c, d)
  BY <1>1, <1>3 DEF PROVIDER_DISCONNECTED, SetHasConsumer, Entry
<1>4. ASSUME NEW k \in Consumers, SDP_READY(c, d, k) PROVE Kept /\ Uncharged
  BY <1>4 DEF SDP_READY, Entry
<1>5. CASE REGISTER(c, d) \/ SUBSCRIBE(c, d) \/ \E s \in Services : REQUEST(c, d, s)
  <2>1. providers' = providers
    BY <1>5 DEF REGISTER, SUBSCRIBE, REQUEST
  <2> QED
    BY <1>1, <2>1
<1> QED
  BY <1>1, <1>2, <1>3, <1>4, <1>5 DEF MessageOf

\* The monitor keeps every entry's identity, and counts only in Count.
LEMMA MonitorKeeps ==
    ASSUME Types, MonitorInHand, MonitorStep
    PROVE  Kept /\ (Count \/ Uncharged)
<1> USE DEF Types, TypeOK, Kept, Uncharged, Listed, tables
<1>1. CASE Collect \/ SendPings \/ CloseStale
  <2>1. providers' = providers
    BY <1>1 DEF Collect, SendPings, CloseStale
  <2> QED
    BY <2>1
<1>2. CASE Count
  BY <1>2 DEF Count, Entry
<1>3. CASE DropStale
  BY <1>3 DEF DropStale, Without
<1> QED
  BY <1>1, <1>2, <1>3 DEF MonitorStep

\* No thread goes back to before its accept, and what a thread waits for or a
\* number names has been accepted.
LEMMA Started ==
    ASSUME Types, InHand, NEW c \in Conns,
           \/ Accept(c) \/ HandlerStep(c) \/ RequestStep(c) \/ ListSent(c)
           \/ PeerChanges(c, "silent") \/ PeerChanges(c, "gone")
           \/ \E d \in Conns : MessageOf(c, d)
    PROVE  /\ \A e \in Conns : pc[e] # "none" => pc'[e] # "none"
           /\ \A e \in Conns \ {c} : pc'[e] = pc[e] /\ at'[e] = at[e] /\ job'[e] = job[e]
           /\ pc'[c] = "insert" => UNCHANGED <<pc, job>> \/ \E d \in Conns : REGISTER(c, d)
           /\ at'[c] = at[c] \/ (Accept(c) /\ at'[c] = c) \/ at'[c] = file'[sock[c]]
           /\ \A n \in Fds : file'[n] \in {file[n], None} \/ (Accept(c) /\ file'[n] = c)
           /\ pc[c] # "none" => sock[c] \in Fds
<1> USE DEF Types, TypeOK, Places, Steps, GoRecv, net, threads
<1>1. CASE Accept(c)
  BY <1>1 DEF Accept, InHand
<1>2. CASE PeerChanges(c, "silent") \/ PeerChanges(c, "gone")
  BY <1>2 DEF PeerChanges, InHand
<1>3. CASE HandlerStep(c) \/ RequestStep(c) \/ ListSent(c)
  <2>1. \/ at' = at
        \/ at' = [at EXCEPT ![c] = file'[sock[c]]]
    BY <1>3 DEF HandlerStep, RequestStep, ListSent, Insert, CopySubscribers, NotifySend, NotifyDrop,
         List, ClearConsumer, InstallSlot, Forward, ForwardFails, EraseStale, WaitEnds, RemoveSlot,
         Reply, FindPending, FillSlot, RecvFails, Unsubscribe, Unlist, Close
  <2>2. \A e \in Conns \ {c} : job'[e] = job[e]
    BY <1>3 DEF HandlerStep, RequestStep, ListSent, Insert, CopySubscribers, NotifySend, NotifyDrop,
         List, ClearConsumer, InstallSlot, Forward, ForwardFails, EraseStale, WaitEnds, RemoveSlot,
         Reply, FindPending, FillSlot, RecvFails, Unsubscribe, Unlist, Close
  <2>3. \E p \in Places \ {"none", "insert"} : pc' = [pc EXCEPT ![c] = p]
    BY <1>3 DEF HandlerStep, RequestStep, ListSent, Insert, CopySubscribers, NotifySend, NotifyDrop,
         List, ClearConsumer, InstallSlot, Forward, ForwardFails, EraseStale, WaitEnds, RemoveSlot,
         Reply, FindPending, FillSlot, RecvFails, Unsubscribe, Unlist, Close
  <2>4. \A n \in Fds : file'[n] \in {file[n], None}
    <3>1. CASE NotifyDrop(c)
      BY <3>1 DEF NotifyDrop
    <3>2. CASE Close(c)
      BY <3>2 DEF Close
    <3>3. CASE ~NotifyDrop(c) /\ ~Close(c)
      <4>1. file' = file
        BY <1>3, <3>3 DEF HandlerStep, RequestStep, ListSent, Insert, CopySubscribers, NotifySend,
           List, ClearConsumer, InstallSlot, Forward, ForwardFails, EraseStale, WaitEnds, RemoveSlot,
           Reply, FindPending, FillSlot, RecvFails, Unsubscribe, Unlist
      <4> QED
        BY <4>1
    <3> QED
      BY <3>1, <3>2, <3>3
  <2> QED
    BY <2>1, <2>3, <2>4, <2>2 DEF InHand
<1>4. ASSUME NEW d \in Conns, MessageOf(c, d)
      PROVE  /\ at' = at \/ at' = [at EXCEPT ![c] = file'[sock[c]]]
             /\ UNCHANGED <<pc, job>> \/ \E p \in Places \ {"none"} : pc' = [pc EXCEPT ![c] = p]
             /\ REGISTER(c, d) \/ pc' = pc \/ \E p \in Places \ {"none", "insert"} : pc' = [pc EXCEPT ![c] = p]
             /\ \A e \in Conns \ {c} : job'[e] = job[e]
             /\ file' = file
             /\ pc[c] = "recv"
  <2>1. file' = file /\ pc[c] = "recv"
    BY <1>4 DEF MessageOf, REGISTER, PONG, PROVIDER_DISCONNECTED, SUBSCRIBE, REQUEST, SDP_READY, Hears
  <2>2. at' = at \/ at' = [at EXCEPT ![c] = file'[sock[c]]]
    BY <1>4 DEF MessageOf, REGISTER, PONG, PROVIDER_DISCONNECTED, SUBSCRIBE, REQUEST, SDP_READY
  <2>3. \A e \in Conns \ {c} : job'[e] = job[e]
    BY <1>4 DEF MessageOf, REGISTER, PONG, PROVIDER_DISCONNECTED, SUBSCRIBE, REQUEST, SDP_READY
  <2>4. CASE REGISTER(c, d)
    BY <2>1, <2>2, <2>3, <2>4 DEF REGISTER
  <2>5. CASE PONG(c, d) \/ PROVIDER_DISCONNECTED(c, d)
    BY <2>1, <2>2, <2>3, <2>5 DEF PONG, PROVIDER_DISCONNECTED
  <2>6. CASE SUBSCRIBE(c, d) \/ \E k \in Consumers : SDP_READY(c, d, k)
    BY <2>1, <2>2, <2>3, <2>6 DEF SUBSCRIBE, SDP_READY
  <2>7. CASE \E s \in Services : REQUEST(c, d, s)
    BY <2>1, <2>2, <2>3, <2>7 DEF REQUEST
  <2> QED
    BY <1>4, <2>4, <2>5, <2>6, <2>7 DEF MessageOf
<1>5. CASE \E d \in Conns : MessageOf(c, d)
  BY <1>4, <1>5 DEF InHand
<1> QED
  BY <1>1, <1>2, <1>3, <1>5

\* Every entry still belongs to its service and to an accepted connection.
LEMMA EntriesStep ==
    ASSUME Types, InHand, MonitorInHand, Entries, Step, UNCHANGED roles
    PROVE  Entries'
<1> USE JuiceAssumption DEF Types, TypeOK
<1>1. CASE MonitorStep
  <2>1. Kept
    BY <1>1, MonitorKeeps
  <2>2. UNCHANGED <<pc, at, job>>
    BY <1>1 DEF MonitorStep, Collect, SendPings, Count, DropStale, CloseStale, threads
  <2>3. \A n \in Fds : file'[n] \in {file[n], None}
    <3>1. CASE CloseStale
      BY <3>1 DEF CloseStale
    <3>2. CASE ~CloseStale
      BY <1>1, <3>2 DEF MonitorStep, Collect, SendPings, Count, DropStale, net
    <3> QED
      BY <3>1, <3>2
  <2> QED
    BY <2>1, <2>2, <2>3 DEF Entries, Kept, Listed
<1>2. ASSUME NEW c \in Conns,
             \/ Accept(c) \/ HandlerStep(c) \/ RequestStep(c) \/ ListSent(c)
             \/ PeerChanges(c, "silent") \/ PeerChanges(c, "gone")
             \/ \E d \in Conns : MessageOf(c, d)
      PROVE  Entries'
  <2>1. /\ \A e \in Conns : pc[e] # "none" => pc'[e] # "none"
        /\ \A e \in Conns \ {c} : pc'[e] = pc[e] /\ at'[e] = at[e] /\ job'[e] = job[e]
        /\ pc'[c] = "insert" => UNCHANGED <<pc, job>> \/ \E d \in Conns : REGISTER(c, d)
        /\ at'[c] = at[c] \/ (Accept(c) /\ at'[c] = c) \/ at'[c] = file'[sock[c]]
        /\ \A n \in Fds : file'[n] \in {file[n], None} \/ (Accept(c) /\ file'[n] = c)
        /\ pc[c] # "none" => sock[c] \in Fds
    BY <1>2, Started
  <2>2. Accept(c) => pc'[c] # "none" /\ at'[c] = c
    BY DEF Accept
  <2>3. ~Accept(c) => pc[c] # "none" \/ UNCHANGED <<at, pc>>
    BY <1>2 DEF HandlerStep, RequestStep, ListSent, Insert, CopySubscribers, NotifySend, NotifyDrop,
         List, ClearConsumer, InstallSlot, Forward, ForwardFails, EraseStale, WaitEnds, RemoveSlot,
         Reply, FindPending, FillSlot, RecvFails, Unsubscribe, Unlist, Close, Steps, PeerChanges,
         MessageOf, REGISTER, PONG, PROVIDER_DISCONNECTED, SUBSCRIBE, REQUEST, SDP_READY, Hears, threads
  <2>4. \A n \in Fds : file'[n] # None => pc'[file'[n]] # "none"
    BY <2>1, <2>2 DEF Entries
  <2>5. \A e \in Conns : at'[e] # None => pc'[at'[e]] # "none"
    <3>1. \A e \in Conns \ {c} : at'[e] # None => pc'[at'[e]] # "none"
      BY <2>1 DEF Entries
    <3>2. CASE at'[c] = at[c] \/ (Accept(c) /\ at'[c] = c)
      BY <2>1, <2>2, <3>1, <3>2 DEF Entries
    <3>3. CASE at'[c] = file'[sock[c]] /\ ~Accept(c) /\ pc[c] # "none"
      BY <2>1, <2>4, <3>1, <3>3
    <3> QED
      BY <2>1, <2>2, <2>3, <3>2, <3>3
  <2>6. \A d \in Conns : REGISTER(c, d) => pc[d] # "none" /\ job'[c].conn = d
    BY FirstJobs DEF REGISTER, Hears, Entries
  <2>7. \A e \in Conns : pc'[e] = "insert" => pc'[job'[e].conn] # "none"
    BY <2>1, <2>6 DEF Entries, InHand, Conns
  <2>8. CASE ~Insert(c)
    <3>1. Kept
      BY <1>2, <2>8, HandlerKeeps, MessageKeeps DEF PeerChanges, tables, Kept, Listed
    <3> QED
      BY <3>1, <2>1, <2>4, <2>5, <2>7 DEF Entries, Kept, Listed, Entry
  <2>9. CASE Insert(c)
    <3>1. \A s \in Listed' : \/ s = job[c].svc /\ providers'[s].conn = job[c].conn
                             \/ s \in Listed /\ providers'[s] = providers[s]
      <4>1. job[c].svc \in Services
        BY <2>9 DEF Insert, InHand, Steps
      <4>2. providers' = [providers EXCEPT ![job[c].svc] =
              [fd |-> sock[c], conn |-> job[c].conn, missed |-> 0, sdp |-> None, hasConsumer |-> FALSE]]
        BY <2>9 DEF Insert
      <4>3. providers'[job[c].svc].conn = job[c].conn
        BY <4>1, <4>2
      <4>4. \A s \in Services : s # job[c].svc => providers'[s] = providers[s]
        BY <4>2
      <4> QED
        BY <4>3, <4>4 DEF Listed
    <3>2. pc[job[c].conn] # "none" /\ job[c].conn \in Cams /\ ServiceOf[job[c].conn] = job[c].svc
      BY <2>9 DEF Insert, Steps, Entries, InHand
    <3> QED
      BY <3>1, <3>2, <2>1, <2>4, <2>5, <2>7 DEF Entries, Listed, Entry, Conns
  <2> QED
    BY <2>8, <2>9
<1> QED
  BY <1>1, <1>2 DEF Step, Message, MessageOf

\* A step that charges nobody and takes no answer keeps the account balanced.
LEMMA ChargedFrame ==
    ASSUME Types, MonitorInHand, Entries, Charged, Kept, Uncharged, UNCHANGED <<owed, monitor>>,
           \A n \in Fds, e \in Conns : file'[n] = e /\ pc[e] # "none" => file[n] = e
    PROVE  Charged'
<1>1. \A s \in Listed : /\ providers[s].fd \in Fds /\ providers[s].conn \in Conns
                        /\ providers[s].missed \in Nat /\ owed[providers[s].conn] \in Nat
                        /\ pc[providers[s].conn] # "none"
  BY DEF Types, TypeOK, Entry, Listed, Entries, MaxOwed
<1>2. \A s \in Listed' : file'[providers'[s].fd] = providers'[s].conn
        => file[providers[s].fd] = providers[s].conn
  BY <1>1 DEF Kept
<1>3. MaxMissedPongs \in Nat \ {0}
  BY JuiceAssumption
<1>4. \A s \in Listed' : providers'[s].missed \in Nat /\ providers'[s].missed \leq providers[s].missed
  BY <1>1 DEF Kept, Uncharged
<1>5. AnsweringIsKept'
  BY <1>1, <1>2, <1>4 DEF AnsweringIsKept, Charged, Kept, Uncharged
<1>6. ASSUME NEW t \in monitor'.targets, t.svc \in Listed'
      PROVE  /\ monitor'.pc \in {"send", "count"} => providers'[t.svc].missed < MaxMissedPongs
             /\ monitor'.pc = "send" /\ providers'[t.svc].missed > 0 => providers'[t.svc].fd = t.fd
             /\ /\ monitor'.pc = "count" /\ t \notin monitor'.failed /\ providers'[t.svc].missed > 0
                /\ file'[providers'[t.svc].fd] = providers'[t.svc].conn
                => providers'[t.svc].missed \leq owed'[providers'[t.svc].conn]
  <2>1. t \in monitor.targets /\ t.svc \in Listed
    BY <1>6 DEF Kept
  <2>2. providers'[t.svc].missed \in {providers[t.svc].missed, 0}
    BY <1>6 DEF Uncharged
  <2>3. monitor.pc \in {"send", "count"} => providers'[t.svc].missed < MaxMissedPongs
    BY <2>1, <2>2, <1>1, <1>3 DEF Charged
  <2>4. monitor.pc = "send" /\ providers'[t.svc].missed > 0 => providers'[t.svc].fd = t.fd
    BY <2>1, <2>2, <1>6 DEF Charged, Kept
  <2>5. /\ monitor.pc = "count" /\ t \notin monitor.failed /\ providers'[t.svc].missed > 0
        /\ file'[providers'[t.svc].fd] = providers'[t.svc].conn
        => providers'[t.svc].missed \leq owed[providers'[t.svc].conn]
    BY <2>1, <2>2, <1>2, <1>6 DEF Charged, Kept
  <2> QED
    BY <2>3, <2>4, <2>5
<1> QED
  BY <1>5, <1>6 DEF Charged

\* Threads other than the monitor.
LEMMA HandlerCharged ==
    ASSUME Types, InHand, MonitorInHand, Entries, Charged, NEW c \in Conns,
           \/ Accept(c) \/ HandlerStep(c) \/ RequestStep(c) \/ ListSent(c)
           \/ PeerChanges(c, "silent") \/ PeerChanges(c, "gone")
           \/ \E d \in Conns : MessageOf(c, d)
    PROVE  Charged'
<1>1. \A n \in Fds, e \in Conns : file'[n] = e /\ pc[e] # "none" => file[n] = e
  <2>1. \A n \in Fds : file'[n] \in {file[n], None} \/ (Accept(c) /\ file'[n] = c)
    BY Started
  <2>2. Accept(c) => pc[c] = "none"
    BY DEF Accept
  <2> QED
    BY <2>1, <2>2, JuiceAssumption
<1>2. CASE Insert(c)
  <2>1. job[c].svc \in Services /\ job[c].conn \in Conns
    BY <1>2, JuiceAssumption DEF Insert, InHand, Steps, Conns
  <2>2. providers' = [providers EXCEPT ![job[c].svc] =
          [fd |-> sock[c], conn |-> job[c].conn, missed |-> 0, sdp |-> None, hasConsumer |-> FALSE]]
    BY <1>2 DEF Insert
  <2>3. UNCHANGED <<file, owed, monitor>>
    BY <1>2 DEF Insert, net, cameras
  <2>4. providers'[job[c].svc].missed = 0
    BY <2>1, <2>2 DEF Types, TypeOK
  <2>5. \A s \in Listed' : \/ s = job[c].svc
                           \/ s \in Listed /\ providers'[s] = providers[s]
    BY <2>2 DEF Listed, Types, TypeOK
  <2>6. MaxMissedPongs \in Nat \ {0}
    BY JuiceAssumption
  <2>7. AnsweringIsKept'
    BY <2>3, <2>4, <2>5 DEF AnsweringIsKept, Charged
  <2> QED
    BY <2>3, <2>4, <2>5, <2>6, <2>7 DEF Charged
<1>3. CASE ~Insert(c) /\ \A d \in Conns : ~PONG(c, d)
  <2>1. Kept /\ Uncharged /\ UNCHANGED <<owed, monitor>>
    <3>1. CASE PeerChanges(c, "silent") \/ PeerChanges(c, "gone")
      BY <3>1 DEF PeerChanges, tables, cameras, Kept, Uncharged, Listed
    <3> QED
      BY <1>3, <3>1, HandlerKeeps, MessageKeeps
  <2> QED
    BY <1>1, <2>1, ChargedFrame
<1>4. ASSUME NEW d \in Conns, PONG(c, d) PROVE Charged'
  <2>1. Kept /\ Uncharged /\ UNCHANGED <<file, monitor>>
    BY <1>4, MessageKeeps DEF MessageOf
  <2>2. d \in Cams /\ owed[d] > 0 /\ owed' = [owed EXCEPT ![d] = @ - 1]
    BY <1>4 DEF PONG
  <2>3. \A s \in Listed' : providers'[s].conn = d => providers'[s].missed = 0
    <3> SUFFICES ASSUME NEW s \in Listed', providers'[s].conn = d PROVE providers'[s].missed = 0
      OBVIOUS
    <3>1. s \in Listed /\ s = ServiceOf[d]
      BY <2>1 DEF Kept, Entries
    <3>2. providers'[s] = [providers[s] EXCEPT !.missed = 0]
      BY <1>4, <3>1 DEF PONG, Listed
    <3> QED
      BY <3>1, <3>2 DEF Types, TypeOK, Entry, Listed
  <2>4. \A s \in Listed' : providers'[s].conn \in Conns /\ providers[s].conn \in Conns /\ s \in Listed
    BY <2>1 DEF Kept, Entries, Conns
  <2>5. \A e \in Conns : e # d => owed'[e] = owed[e]
    BY <2>2 DEF Types, TypeOK
  <2>6. \A s \in Listed' : providers'[s].missed = 0 \/
             (owed'[providers'[s].conn] = owed[providers[s].conn] /\ providers'[s].missed = providers[s].missed)
    BY <2>1, <2>3, <2>4, <2>5 DEF Kept, Uncharged
  <2>7. AnsweringIsKept'
    BY <2>1, <2>6 DEF AnsweringIsKept, Kept, Charged
  <2>8. MaxMissedPongs \in Nat \ {0}
    BY JuiceAssumption
  <2>9. \A t \in monitor'.targets :
         /\ monitor'.pc \in {"send", "count"} /\ t.svc \in Listed'
            => providers'[t.svc].missed < MaxMissedPongs
         /\ monitor'.pc = "send" /\ t.svc \in Listed' /\ providers'[t.svc].missed > 0
            => providers'[t.svc].fd = t.fd
    BY <2>1, <2>6, <2>8 DEF Charged, Kept
  <2>10. \A t \in monitor'.targets :
         /\ monitor'.pc = "count" /\ t \notin monitor'.failed /\ t.svc \in Listed'
         /\ providers'[t.svc].missed > 0
         /\ file'[providers'[t.svc].fd] = providers'[t.svc].conn
         => providers'[t.svc].missed \leq owed'[providers'[t.svc].conn]
    BY <2>1, <2>6, <2>4 DEF Charged, Kept
  <2> QED
    BY <2>7, <2>9, <2>10 DEF Charged
<1> QED
  BY <1>2, <1>3, <1>4

\* The monitor: it charges a camera only after it has asked it.
LEMMA MonitorCharged ==
    ASSUME Types, MonitorInHand, Entries, Charged, MonitorStep
    PROVE  Charged'
<1>1. MaxMissedPongs \in Nat \ {0}
  BY JuiceAssumption
<1>2. \A s \in Listed : /\ providers[s].fd \in Fds /\ providers[s].conn \in Conns
                        /\ providers[s].missed \in Nat /\ owed[providers[s].conn] \in 0..MaxMissedPongs
  BY DEF Types, TypeOK, Entry, Listed, MaxOwed
<1>3. CASE Collect
  <2>1. UNCHANGED <<providers, file, owed>> /\ monitor'.pc = "send"
    BY <1>3 DEF Collect, net, tables, cameras
  <2>2. \A t \in monitor'.targets : \E s \in Listed :
          t = [svc |-> s, fd |-> providers[s].fd, conn |-> providers[s].conn]
          /\ ~(providers[s].missed \geq MaxMissedPongs)
    BY <1>3 DEF Collect
  <2>3. \A t \in monitor'.targets : /\ t.svc \in Listed /\ providers[t.svc].fd = t.fd
                                    /\ providers[t.svc].missed < MaxMissedPongs
    BY <2>2, <1>1, <1>2
  <2> QED
    BY <2>1, <2>3 DEF Charged, AnsweringIsKept, Listed
<1>4. CASE SendPings
  <2>1. PICK failed \in SUBSET monitor.targets :
          /\ monitor' = [monitor EXCEPT !.pc = "count", !.failed = failed]
          /\ owed' = [c \in Conns |->
                IF owed[c] < MaxOwed /\ \E t \in monitor.targets \ failed : file[t.fd] = c
                THEN owed[c] + 1 ELSE owed[c]]
    BY <1>4 DEF SendPings
  <2>2. UNCHANGED <<providers, file>> /\ monitor.pc = "send"
    BY <1>4 DEF SendPings, net, tables
  <2>3. monitor'.pc = "count" /\ monitor'.failed = failed /\ monitor'.targets = monitor.targets
    BY <2>1 DEF MonitorInHand
  <2>4. \A s \in Listed : owed'[providers[s].conn] \in Nat /\ owed'[providers[s].conn] \geq owed[providers[s].conn]
    BY <2>1, <1>1, <1>2
  <2>5. AnsweringIsKept'
    BY <2>2, <2>4, <1>2 DEF AnsweringIsKept, Charged, Listed
  <2>6. ASSUME NEW t \in monitor.targets, t \notin failed, t.svc \in Listed, providers[t.svc].missed > 0,
               file[providers[t.svc].fd] = providers[t.svc].conn
        PROVE  providers[t.svc].missed \leq owed'[providers[t.svc].conn]
    <3>1. /\ providers[t.svc].fd = t.fd /\ providers[t.svc].missed < MaxMissedPongs
          /\ providers[t.svc].missed \leq owed[providers[t.svc].conn] + 1
      BY <2>2, <2>6 DEF Charged, AnsweringIsKept
    <3>2. \/ owed'[providers[t.svc].conn] = owed[providers[t.svc].conn] + 1
          \/ owed'[providers[t.svc].conn] = owed[providers[t.svc].conn]
             /\ ~(owed[providers[t.svc].conn] < MaxMissedPongs)
      BY <2>1, <2>6, <3>1, <1>2 DEF MaxOwed
    <3> QED
      BY <3>1, <3>2, <2>6, <1>1, <1>2
  <2> QED
    BY <2>2, <2>3, <2>5, <2>6 DEF Charged, Listed
<1>5. CASE Count
  <2>1. monitor'.targets = {}
    BY <1>5 DEF Count, Idle
  <2>2. UNCHANGED <<file, owed>> /\ monitor.pc = "count"
    BY <1>5 DEF Count, net, cameras
  <2>3. Kept
    BY <1>5, MonitorKeeps DEF MonitorStep
  <2>4. ASSUME NEW s \in Listed', providers'[s].missed > 0, file[providers[s].fd] = providers[s].conn
        PROVE  providers'[s].missed \leq owed[providers[s].conn] + 1
    <3>1. s \in Listed
      BY <2>3, <2>4 DEF Kept
    <3>2. CASE \E t \in monitor.targets \ monitor.failed : t.svc = s
      <4>1. providers'[s] = [providers[s] EXCEPT !.missed = @ + 1]
        BY <1>5, <3>1, <3>2 DEF Count, Listed
      <4>2. providers'[s].missed = providers[s].missed + 1
        BY <4>1, <3>1 DEF Types, TypeOK, Entry, Listed
      <4>3. providers[s].missed > 0 => providers[s].missed \leq owed[providers[s].conn]
        BY <2>2, <2>4, <3>1, <3>2 DEF Charged
      <4> QED
        BY <4>2, <4>3, <3>1, <1>2
    <3>3. CASE ~\E t \in monitor.targets \ monitor.failed : t.svc = s
      <4>1. providers'[s] = providers[s]
        BY <1>5, <3>1, <3>3 DEF Count, Listed
      <4> QED
        BY <4>1, <2>4, <3>1 DEF Charged, AnsweringIsKept
    <3> QED
      BY <3>2, <3>3
  <2>5. AnsweringIsKept'
    BY <2>2, <2>3, <2>4 DEF AnsweringIsKept, Kept
  <2> QED
    BY <2>1, <2>5 DEF Charged
<1>6. CASE DropStale \/ CloseStale
  <2>1. monitor'.pc \notin {"send", "count"}
    <3>1. CASE DropStale
      <4>1. monitor' = Idle \/ \E x \in monitor.stale :
              monitor' = [monitor EXCEPT !.pc = "close", !.targets = {x}]
        BY <3>1 DEF DropStale
      <4>2. monitor' = Idle => monitor'.pc = "sleep"
        BY DEF Idle
      <4>3. ASSUME NEW x, monitor' = [monitor EXCEPT !.pc = "close", !.targets = {x}]
            PROVE  monitor'.pc = "close"
        BY <4>3 DEF MonitorInHand
      <4> QED
        BY <4>1, <4>2, <4>3
    <3>2. CASE CloseStale
      BY <3>2 DEF CloseStale, MonitorInHand
    <3> QED
      BY <1>6, <3>1, <3>2
  <2>2. Kept /\ Uncharged
    <3>1. ~Count
      BY <1>6 DEF DropStale, CloseStale, Count
    <3> QED
      BY <3>1, <1>6, MonitorKeeps
  <2>3. owed' = owed /\ \A n \in Fds : file'[n] \in {file[n], None}
    BY <1>6 DEF DropStale, CloseStale, net, cameras, Types, TypeOK
  <2>4. \A s \in Listed' : file'[providers'[s].fd] = providers'[s].conn
          => file[providers[s].fd] = providers[s].conn
    <3>1. \A s \in Listed' : /\ providers'[s].fd = providers[s].fd
                             /\ providers'[s].conn = providers[s].conn
                             /\ providers[s].fd \in Fds /\ providers[s].conn # None
      BY <2>2, <1>2, JuiceAssumption DEF Kept
    <3> QED
      BY <2>3, <3>1
  <2>5. AnsweringIsKept'
    BY <2>2, <2>3, <2>4 DEF Charged, AnsweringIsKept, Kept, Uncharged
  <2> QED
    BY <2>1, <2>5 DEF Charged
<1> QED
  BY <1>3, <1>4, <1>5, <1>6 DEF MonitorStep

-----------------------------------------------------------------------------
\* What holds with and without reuse of descriptor numbers.
BaseInv == Types /\ InHand /\ MonitorInHand /\ Entries /\ Charged

\* The part of the invariant that needs no assumption on descriptor numbers.
LEMMA BaseInit == Init => BaseInv
<1> SUFFICES ASSUME Init PROVE BaseInv
  OBVIOUS
<1> USE JuiceAssumption DEF Init
<1>1. NoJob \in Job /\ EmptySlot \in [ready : BOOLEAN, sdp : Consumers \union {None}]
  BY DEF NoJob, Job, EmptySlot
<1>2. TypeOK
  BY DEF TypeOK, MaxOwed
<1>3. Types
  BY <1>1, <1>2 DEF Types, Places
<1>4. InHand
  BY DEF InHand, Served
<1>5. MonitorInHand
  BY DEF MonitorInHand, Idle
<1>6. Entries
  BY DEF Entries, Listed
<1>7. Charged
  BY DEF Charged, AnsweringIsKept, Listed, Idle
<1> QED
  BY <1>3, <1>4, <1>5, <1>6, <1>7 DEF BaseInv

\* It is kept by every step.
LEMMA BaseStep == BaseInv /\ [Next]_<<roles, vars>> => BaseInv'
<1> SUFFICES ASSUME BaseInv, [Next]_<<roles, vars>> PROVE BaseInv'
  OBVIOUS
<1> USE DEF BaseInv
<1>1. CASE UNCHANGED <<roles, vars>>
  <2> USE <1>1 DEF vars, net, threads, tables, cameras, ghosts
  <2>1. Types'
    BY DEF Types, TypeOK
  <2>2. InHand' /\ MonitorInHand'
    BY DEF InHand, MonitorInHand
  <2>3. Entries' /\ Charged'
    BY DEF Entries, Charged, AnsweringIsKept, Listed
  <2> QED
    BY <2>1, <2>2, <2>3
<1>2. CASE MonitorStep /\ UNCHANGED roles
  <2>1. Types' /\ MonitorInHand' /\ Charged'
    BY <1>2, MonitorTypes, MonitorCharged
  <2>2. UNCHANGED <<sock, pc, job>>
    BY <1>2 DEF MonitorStep, Collect, SendPings, Count, DropStale, CloseStale, net, threads
  <2>3. InHand'
    BY <2>2 DEF InHand
  <2>4. Entries'
    BY <1>2, EntriesStep DEF Step
  <2> QED
    BY <2>1, <2>3, <2>4
<1>3. ASSUME NEW c \in Conns, UNCHANGED roles,
             \/ Accept(c) \/ HandlerStep(c) \/ RequestStep(c) \/ ListSent(c)
             \/ c \in roles.vanishing /\ PeerChanges(c, "silent")
             \/ c \in roles.closing /\ PeerChanges(c, "gone")
             \/ \E d \in Conns : MessageOf(c, d)
      PROVE  BaseInv'
  <2>1. Types'
    BY <1>3, RegistrationTypes, RequestTypes, EndTypes, MessageTypes DEF HandlerStep
  <2>2. InHand'
    <3>1. CASE PeerChanges(c, "silent") \/ PeerChanges(c, "gone")
      BY <3>1 DEF PeerChanges, threads, InHand
    <3> QED
      BY <1>3, <3>1, HandlerInHand, MessageInHand
  <2>3. MonitorInHand'
    <3>1. monitor' = monitor
      BY <1>3, HandlerKeeps, MessageKeeps DEF PeerChanges, Insert
    <3> QED
      BY <3>1 DEF MonitorInHand
  <2>4. Entries'
    BY <1>3, EntriesStep DEF Step, Message, MessageOf
  <2>5. Charged'
    BY <1>3, HandlerCharged
  <2> QED
    BY <2>1, <2>2, <2>3, <2>4, <2>5
<1> QED
  BY <1>1, <1>2, <1>3 DEF Next, Step, Message, MessageOf

\* It holds throughout.
LEMMA BaseInvariance == Spec => []BaseInv
BY BaseInit, BaseStep, PTL DEF Spec

\* ping_monitor_thread: a camera is charged with at most one unanswered PING
\* more than it owes, so one that answers is not given up, for any number of
\* cameras and services and with descriptor numbers reused or not.
THEOREM AnsweringKept == Spec => []AnsweringIsKept
<1>1. BaseInv => AnsweringIsKept
  BY DEF BaseInv, Charged
<1> QED
  BY <1>1, BaseInvariance, PTL

-----------------------------------------------------------------------------
\* A number names its connection or nothing: the monitor only takes away.
LEMMA MonitorOwnNumbers ==
    ASSUME BaseInv, OwnNumbers, MonitorStep
    PROVE  OwnNumbers'
<1> USE JuiceAssumption DEF BaseInv, Types, TypeOK
<1>1. Kept
  BY MonitorKeeps
<1>2. UNCHANGED <<pc, at, job, sock, subs>>
  BY DEF MonitorStep, Collect, SendPings, Count, DropStale, CloseStale, threads, net, tables
<1>3. \A n \in Fds : file'[n] \in {file[n], None}
  <2>1. CASE CloseStale
    BY <2>1 DEF CloseStale
  <2>2. CASE ~CloseStale
    BY <2>2 DEF MonitorStep, Collect, SendPings, Count, DropStale, net
  <2> QED
    BY <2>1, <2>2
<1>4. \A c \in Conns : Live(c)' = Live(c) /\ (Live(c) => sock[c] \in Fds)
  BY <1>2 DEF Live, InHand
<1>5. \A c \in Conns : Live(c)' => file'[sock'[c]] \in {c, None}
  BY <1>2, <1>3, <1>4 DEF OwnNumbers
<1>6. \A c \in Conns, n \in Fds : file'[n] = c => Live(c)' /\ n = sock'[c]
  BY <1>2, <1>3, <1>4 DEF OwnNumbers
<1>7. \A s \in Listed' : /\ Live(providers[s].conn)' /\ pc'[providers'[s].conn] # "close"
                         /\ providers'[s].fd = sock'[providers'[s].conn]
  BY <1>1, <1>2 DEF OwnNumbers, Kept, Live
<1> QED
  BY <1>2, <1>4, <1>5, <1>6, <1>7 DEF OwnNumbers, Live

\* A new connection gets a number nobody uses.
LEMMA AcceptOwnNumbers ==
    ASSUME BaseInv, OwnNumbers, KeepsApart, NEW c \in Conns, Accept(c)
    PROVE  OwnNumbers'
<1> USE JuiceAssumption DEF BaseInv, Types, TypeOK
<1>1. PICK n \in Fds : /\ file' = [file EXCEPT ![n] = c] /\ sock' = [sock EXCEPT ![c] = n]
                       /\ pc[c] = "none" /\ pc' = [pc EXCEPT ![c] = "recv"]
                       /\ at' = [at EXCEPT ![c] = c] /\ UNCHANGED <<job, subs, providers>>
  <2>1. \A n \in Numbers(c) : n \in Fds
    BY OwnNumberFact DEF Numbers, FreeNumbers
  <2> QED
    BY <2>1 DEF Accept, tables
<1>2. /\ sock'[c] = n /\ pc'[c] = "recv" /\ file'[n] = c /\ at'[c] = c /\ ~Live(c) /\ Live(c)'
      /\ \A e \in Conns \ {c} : sock'[e] = sock[e] /\ pc'[e] = pc[e] /\ at'[e] = at[e]
      /\ \A e \in Conns \ {c} : Live(e)' = Live(e)
      /\ \A m \in Fds \ {n} : file'[m] = file[m]
  BY <1>1 DEF Live
<1>3. ~StillUsed(n)
  BY <1>1, <1>2 DEF KeepsApart
<1>4. /\ \A e \in Conns : Live(e) => sock[e] # n /\ sock[e] \in Fds
      /\ \A e \in Conns : pc[e] \in Copied => job[e].fd # n
  BY <1>3 DEF StillUsed, InHand, Live
<1>5. ASSUME NEW e \in Conns, Live(e)' PROVE file'[sock'[e]] \in {e, None}
  <2>1. CASE e = c
    BY <2>1, <1>2
  <2>2. CASE e # c
    <3>1. Live(e) /\ sock'[e] = sock[e]
      BY <2>2, <1>2, <1>5
    <3>2. sock[e] \in Fds \ {n} /\ file[sock[e]] \in {e, None}
      BY <3>1, <1>4 DEF OwnNumbers
    <3> QED
      BY <3>1, <3>2, <1>2
  <2> QED
    BY <2>1, <2>2
<1>6. \A e \in Conns : at'[e] \in {e, None}
  BY <1>2 DEF OwnNumbers
<1>7. \A e \in Conns, m \in Fds : file'[m] = e => Live(e)' /\ m = sock'[e]
  <2> SUFFICES ASSUME NEW e \in Conns, NEW m \in Fds, file'[m] = e
               PROVE  Live(e)' /\ m = sock'[e]
    OBVIOUS
  <2>1. CASE m = n
    BY <2>1, <1>2
  <2>2. CASE m # n
    <3>1. Live(e) /\ m = sock[e]
      BY <2>2, <1>2 DEF OwnNumbers
    <3> QED
      BY <3>1, <1>2
  <2> QED
    BY <2>1, <2>2
<1>8. \A e, f \in Conns : Live(e)' /\ Live(f)' /\ sock'[e] = sock'[f] => e = f
  BY <1>2, <1>4 DEF OwnNumbers
<1>9. \A m \in subs' : \E e \in Conns : Live(e)' /\ pc'[e] \notin {"unlist", "close"} /\ sock'[e] = m
  <2> SUFFICES ASSUME NEW m \in subs
               PROVE  \E e \in Conns : Live(e)' /\ pc'[e] \notin {"unlist", "close"} /\ sock'[e] = m
    BY <1>1
  <2>1. PICK e \in Conns : Live(e) /\ pc[e] \notin {"unlist", "close"} /\ sock[e] = m
    BY DEF OwnNumbers
  <2>2. e # c
    BY <2>1, <1>2
  <2> QED
    BY <2>1, <2>2, <1>2
<1>10. \A s \in Listed' : /\ Live(providers[s].conn)' /\ pc'[providers'[s].conn] # "close"
                          /\ providers'[s].fd = sock'[providers'[s].conn]
  <2> SUFFICES ASSUME NEW s \in Listed
               PROVE  /\ Live(providers[s].conn)' /\ pc'[providers'[s].conn] # "close"
                      /\ providers'[s].fd = sock'[providers'[s].conn]
    BY <1>1 DEF Listed
  <2> DEFINE e == providers[s].conn
  <2>1. /\ e \in Conns /\ Live(e) /\ pc[e] # "close" /\ providers[s].fd = sock[e]
    BY DEF OwnNumbers, Entries, Conns
  <2>2. e # c /\ providers' = providers
    BY <2>1, <1>1, <1>2
  <2>3. pc'[e] = pc[e] /\ sock'[e] = sock[e]
    BY <2>1, <2>2, <1>2
  <2> QED
    BY <2>1, <2>2, <2>3 DEF Live
<1>11. ASSUME NEW e \in Conns, pc'[e] \in Copied
       PROVE  \E d \in Cams : /\ ServiceOf[d] = job'[e].svc
                              /\ \A f \in Conns : Live(f)' /\ sock'[f] = job'[e].fd => f = d
  <2>1. e # c /\ pc[e] \in Copied /\ job'[e] = job[e]
    BY <1>1, <1>2, <1>11 DEF Copied
  <2>2. PICK d \in Cams : /\ ServiceOf[d] = job[e].svc
                          /\ \A f \in Conns : Live(f) /\ sock[f] = job[e].fd => f = d
    BY <2>1 DEF OwnNumbers
  <2>3. job[e].fd # n
    BY <2>1, <1>4
  <2> QED
    BY <2>1, <2>2, <2>3, <1>2
<1>12. \A e \in Conns : pc'[e] \in {"insert", "clear", "slot", "stale"} \union Served
         => job'[e].conn = e
  <2>1. \A e \in Conns : pc'[e] \in {"insert", "clear", "slot", "stale"} \union Served
          => e # c
    BY <1>2 DEF Served
  <2> QED
    BY <2>1, <1>1, <1>2 DEF OwnNumbers
<1> QED
  BY <1>5, <1>6, <1>7, <1>8, <1>9, <1>10, <1>11, <1>12 DEF OwnNumbers

\* Where the other steps of a connection and its thread take it: a thread leaves
\* its subscription, its entries and its number behind in this order.
LEMMA Endings ==
    ASSUME Types, InHand, OwnNumbers, NEW c \in Conns,
           \/ HandlerStep(c) \/ RequestStep(c) \/ ListSent(c)
           \/ PeerChanges(c, "silent") \/ PeerChanges(c, "gone")
           \/ \E d \in Conns : MessageOf(c, d)
    PROVE  /\ sock' = sock
           /\ UNCHANGED <<pc, at, job, subs>> \/ Live(c)
           /\ pc'[c] \in {"unlist", "close", "done"} => \/ pc'[c] = pc[c]
                                                        \/ Unsubscribe(c) \/ Unlist(c) \/ Close(c)
           /\ subs' \subseteq subs
              \/ (subs' = subs \union {sock[c]} /\ pc[c] = "recv" /\ pc'[c] = "list")
<1> USE DEF Types, TypeOK
<1>1. CASE PeerChanges(c, "silent") \/ PeerChanges(c, "gone")
  BY <1>1 DEF PeerChanges, threads, tables
<1>2. CASE \/ HandlerStep(c) \/ RequestStep(c) \/ ListSent(c) \/ \E d \in Conns : MessageOf(c, d)
  <2>1. sock' = sock /\ Live(c)
    BY <1>2
       DEF HandlerStep, RequestStep, ListSent, Insert, CopySubscribers, NotifySend, NotifyDrop,
           List, ClearConsumer, InstallSlot, Forward, ForwardFails, EraseStale, WaitEnds, RemoveSlot,
           Reply, FindPending, FillSlot, RecvFails, Unsubscribe, Unlist, Close, Steps,
           MessageOf, REGISTER, PONG, PROVIDER_DISCONNECTED, SUBSCRIBE, REQUEST, SDP_READY, Hears,
           net, Live
  <2>2. subs' \subseteq subs
        \/ (subs' = subs \union {sock[c]} /\ pc[c] = "recv" /\ pc'[c] = "list")
    BY <1>2
       DEF HandlerStep, RequestStep, ListSent, Insert, CopySubscribers, NotifySend, NotifyDrop,
           List, ClearConsumer, InstallSlot, Forward, ForwardFails, EraseStale, WaitEnds, RemoveSlot,
           Reply, FindPending, FillSlot, RecvFails, Unsubscribe, Unlist, Close, Steps,
           MessageOf, REGISTER, PONG, PROVIDER_DISCONNECTED, SUBSCRIBE, REQUEST, SDP_READY, Hears,
           tables
  <2>3. pc'[c] \in {"unlist", "close", "done"} => \/ pc'[c] = pc[c]
                                                  \/ Unsubscribe(c) \/ Unlist(c) \/ Close(c)
    <3>1. CASE \E d \in Conns : MessageOf(c, d)
      <4> PICK d \in Conns : MessageOf(c, d)
        BY <3>1
      <4>1. CASE REGISTER(c, d) \/ PONG(c, d) \/ PROVIDER_DISCONNECTED(c, d) \/ SUBSCRIBE(c, d)
        BY <4>1 DEF REGISTER, PONG, PROVIDER_DISCONNECTED, SUBSCRIBE, Steps, GoRecv
      <4>2. CASE \E s \in Services : REQUEST(c, d, s)
        BY <4>2 DEF REQUEST, Steps, threads
      <4>3. CASE \E k \in Consumers : SDP_READY(c, d, k)
        BY <4>3 DEF SDP_READY, Steps
      <4> QED
        BY <4>1, <4>2, <4>3 DEF MessageOf
    <3>2. CASE \/ Insert(c) \/ CopySubscribers(c) \/ NotifySend(c) \/ NotifyDrop(c) \/ List(c)
               \/ ListSent(c) \/ EraseStale(c) \/ Reply(c)
      BY <3>2 DEF Insert, CopySubscribers, NotifySend, NotifyDrop, List, ListSent, EraseStale, Reply,
                  Steps, GoRecv
    <3>3. CASE \/ ClearConsumer(c) \/ RequestStep(c) \/ Forward(c) \/ ForwardFails(c)
               \/ WaitEnds(c) \/ RemoveSlot(c) \/ FindPending(c) \/ FillSlot(c) \/ RecvFails(c)
      BY <3>3 DEF ClearConsumer, RequestStep, InstallSlot, Forward, ForwardFails, WaitEnds, RemoveSlot,
                  FindPending, FillSlot, RecvFails, Steps, GoRecv
    <3> QED
      BY <1>2, <3>1, <3>2, <3>3 DEF HandlerStep
  <2> QED
    BY <2>1, <2>2, <2>3
<1> QED
  BY <1>1, <1>2

\* Where a handler has its own connection or an entry's number in hand, it got it
\* from REGISTER or REQUEST or has had it before.
LEMMA InHandFrom ==
    ASSUME Types, InHand, OwnNumbers, NEW c \in Conns,
           \/ HandlerStep(c) \/ RequestStep(c) \/ ListSent(c)
           \/ PeerChanges(c, "silent") \/ PeerChanges(c, "gone")
           \/ \E d \in Conns : MessageOf(c, d),
           pc'[c] \in {"insert", "clear", "slot", "stale"} \union Served
    PROVE  \/ /\ pc[c] \in {"insert", "clear", "slot", "stale"} \union Served
              /\ pc'[c] # "insert" => pc[c] # "insert"
              /\ pc'[c] \in Copied => pc[c] \in Copied
              /\ job'[c].conn = job[c].conn /\ job'[c].svc = job[c].svc /\ job'[c].fd = job[c].fd
           \/ REGISTER(c, c) \/ \E s \in Services : REQUEST(c, c, s) /\ s \in Listed
<1> USE DEF Types, TypeOK
<1>1. CASE PeerChanges(c, "silent") \/ PeerChanges(c, "gone")
  BY <1>1 DEF PeerChanges, threads, Served, Copied
<1>2. CASE \E d \in Conns : MessageOf(c, d)
  <2> PICK d \in Conns : MessageOf(c, d)
    BY <1>2
  <2>1. d = c
    BY DEF MessageOf, REGISTER, PONG, PROVIDER_DISCONNECTED, SUBSCRIBE, REQUEST, SDP_READY,
           Hears, OwnNumbers
  <2>2. CASE REGISTER(c, d) \/ \E s \in Services : REQUEST(c, d, s)
    BY <2>1, <2>2 DEF REQUEST, Hears, threads, Served
  <2>3. CASE PONG(c, d) \/ PROVIDER_DISCONNECTED(c, d) \/ SUBSCRIBE(c, d)
    BY <2>3 DEF PONG, PROVIDER_DISCONNECTED, SUBSCRIBE, Steps, GoRecv, Served
  <2>4. CASE \E k \in Consumers : SDP_READY(c, d, k)
    BY <2>4 DEF SDP_READY, Steps, Served
  <2> QED
    BY <2>2, <2>3, <2>4 DEF MessageOf
<1>3. CASE HandlerStep(c) \/ RequestStep(c) \/ ListSent(c)
  <2>1. CASE WaitEnds(c)
    BY <2>1 DEF WaitEnds, Steps, Served, Job, Copied
  <2>2. CASE ClearConsumer(c) \/ RequestStep(c) \/ Forward(c) \/ ForwardFails(c) \/ RemoveSlot(c)
    BY <2>2 DEF ClearConsumer, RequestStep, InstallSlot, Forward, ForwardFails, RemoveSlot, Steps,
                Served, Copied
  <2>3. CASE \/ ListSent(c) \/ Insert(c) \/ CopySubscribers(c) \/ NotifySend(c) \/ NotifyDrop(c)
             \/ List(c) \/ EraseStale(c) \/ Reply(c)
    BY <2>3 DEF ListSent, Insert, CopySubscribers, NotifySend, NotifyDrop, List, EraseStale, Reply,
                Steps, GoRecv, Served
  <2>4. CASE \/ FindPending(c) \/ FillSlot(c) \/ RecvFails(c) \/ Unsubscribe(c) \/ Unlist(c)
             \/ Close(c)
    BY <2>4 DEF FindPending, FillSlot, RecvFails, Unsubscribe, Unlist, Close, Steps, GoRecv, Served
  <2> QED
    BY <1>3, <2>1, <2>2, <2>3, <2>4 DEF HandlerStep
<1> QED
  BY <1>1, <1>2, <1>3

\* The other steps keep a number its handler's own.
LEMMA HandlerOwnNumbers ==
    ASSUME BaseInv, OwnNumbers, NEW c \in Conns,
           \/ HandlerStep(c) \/ RequestStep(c) \/ ListSent(c)
           \/ PeerChanges(c, "silent") \/ PeerChanges(c, "gone")
           \/ \E d \in Conns : MessageOf(c, d)
    PROVE  OwnNumbers'
<1> USE JuiceAssumption DEF BaseInv, Types, TypeOK
<1>1. /\ \A e \in Conns \ {c} : pc'[e] = pc[e] /\ at'[e] = at[e] /\ job'[e] = job[e]
      /\ at'[c] = at[c] \/ at'[c] = file'[sock[c]]
      /\ \A n \in Fds : file'[n] \in {file[n], None}
  <2>1. ~Accept(c)
    BY DEF HandlerStep, RequestStep, ListSent, Insert, CopySubscribers, NotifySend, NotifyDrop,
           List, ClearConsumer, InstallSlot, Forward, ForwardFails, EraseStale, WaitEnds, RemoveSlot,
           Reply, FindPending, FillSlot, RecvFails, Unsubscribe, Unlist, Close, Steps, PeerChanges,
           MessageOf, REGISTER, PONG, PROVIDER_DISCONNECTED, SUBSCRIBE, REQUEST, SDP_READY, Hears,
           threads, Accept
  <2> QED
    BY <2>1, Started
<1>2. /\ sock' = sock
      /\ UNCHANGED <<pc, at, job, subs>> \/ Live(c)
      /\ pc'[c] \in {"unlist", "close", "done"} => \/ pc'[c] = pc[c]
                                                   \/ Unsubscribe(c) \/ Unlist(c) \/ Close(c)
      /\ subs' \subseteq subs
         \/ (subs' = subs \union {sock[c]} /\ pc[c] = "recv" /\ pc'[c] = "list")
  BY Endings
<1>3. /\ Close(c) => pc[c] = "close" /\ pc'[c] = "done" /\ file'[sock[c]] = None
      /\ Unlist(c) => pc[c] = "unlist" /\ pc'[c] = "close"
      /\ Unsubscribe(c) => pc[c] = "cleanup" /\ pc'[c] = "unlist" /\ sock[c] \notin subs'
      /\ \A e \in Conns : Live(e) => sock[e] \in Fds
  BY DEF Close, Unlist, Unsubscribe, Steps, InHand, Live
<1>4. /\ \A e \in Conns : Live(e)' => Live(e)
      /\ \A e \in Conns : Live(e) /\ ~Live(e)' => e = c /\ Close(c)
  <2>1. pc[c] # "none" => pc'[c] # "none"
    BY Started
  <2> QED
    BY <2>1, <1>1, <1>2, <1>3 DEF Live
<1>5. \A e \in Conns : Live(e)' => file'[sock'[e]] \in {e, None}
  BY <1>1, <1>2, <1>3, <1>4 DEF OwnNumbers
<1>6. \A e \in Conns : at'[e] \in {e, None}
  <2>1. Live(c) => file'[sock[c]] \in {c, None}
    BY <1>1, <1>3 DEF OwnNumbers
  <2> QED
    BY <2>1, <1>1, <1>2 DEF OwnNumbers
<1>7. \A e \in Conns, n \in Fds : file'[n] = e => Live(e)' /\ n = sock'[e]
  <2> SUFFICES ASSUME NEW e \in Conns, NEW n \in Fds, file'[n] = e
               PROVE  Live(e)' /\ n = sock[e]
    BY <1>2
  <2>1. file[n] = e /\ e # None
    BY <1>1
  <2>2. Live(e) /\ n = sock[e]
    BY <2>1 DEF OwnNumbers
  <2>3. ~(e = c /\ Close(c))
    BY <2>1, <2>2, <1>3
  <2> QED
    BY <2>2, <2>3, <1>4
<1>8. \A e, f \in Conns : Live(e)' /\ Live(f)' /\ sock'[e] = sock'[f] => e = f
  BY <1>2, <1>4 DEF OwnNumbers
<1>9. \A n \in subs' : \E e \in Conns : Live(e)' /\ pc'[e] \notin {"unlist", "close"} /\ sock'[e] = n
  <2> SUFFICES ASSUME NEW n \in subs'
               PROVE  \E e \in Conns : Live(e)' /\ pc'[e] \notin {"unlist", "close"} /\ sock[e] = n
    BY <1>2
  <2>1. CASE n \in subs
    <3>1. PICK e \in Conns : Live(e) /\ pc[e] \notin {"unlist", "close"} /\ sock[e] = n
      BY <2>1 DEF OwnNumbers
    <3>2. CASE e # c
      BY <3>1, <3>2, <1>1 DEF Live
    <3>3. CASE e = c
      <4>1. ~Unsubscribe(c) /\ ~Unlist(c) /\ ~Close(c)
        BY <3>1, <3>3, <1>3
      <4>2. pc'[c] \notin {"unlist", "close"}
        BY <4>1, <3>1, <3>3, <1>2
      <4> QED
        BY <4>1, <4>2, <3>1, <3>3, <1>4
    <3> QED
      BY <3>2, <3>3
  <2>2. CASE n \notin subs
    BY <2>2, <1>2 DEF Live
  <2> QED
    BY <2>1, <2>2
<1>10. ASSUME NEW s \in Listed'
       PROVE  /\ Live(providers[s].conn)' /\ pc'[providers'[s].conn] # "close"
              /\ providers'[s].fd = sock'[providers'[s].conn]
  <2>1. CASE Insert(c) /\ s = job[c].svc
    <3>1. job[c].svc \in Services /\ job[c].conn = c /\ pc'[c] = "notify"
      BY <2>1 DEF Insert, InHand, Steps, OwnNumbers
    <3>2. providers'[s].conn = c /\ providers'[s].fd = sock[c]
      BY <2>1, <3>1 DEF Insert
    <3> QED
      BY <3>1, <3>2, <1>2 DEF Live
  <2>2. CASE ~(Insert(c) /\ s = job[c].svc)
    <3>1. s \in Listed /\ providers'[s].conn = providers[s].conn /\ providers'[s].fd = providers[s].fd
      <4>1. CASE Insert(c)
        BY <4>1, <2>2 DEF Insert, InHand, Listed
      <4>2. CASE ~Insert(c)
        BY <4>2, HandlerKeeps, MessageKeeps DEF PeerChanges, tables, Kept, Listed
      <4> QED
        BY <4>1, <4>2
    <3> DEFINE e == providers[s].conn
    <3>2. e \in Conns /\ Live(e) /\ pc[e] # "close" /\ providers[s].fd = sock[e]
      BY <3>1 DEF OwnNumbers, Entries, Conns
    <3>3. ~(e = c /\ Close(c))
      BY <3>2, <1>3
    <3>4. ~(e = c /\ Unlist(c))
      <4>1. Unlist(c) => \A t \in Listed' : providers[t].fd # sock[c]
        BY DEF Unlist, Without, Listed
      <4> QED
        BY <4>1, <3>2
    <3>5. pc'[e] # "close"
      <4>1. CASE e = c
        BY <4>1, <3>2, <3>3, <3>4, <1>2, <1>3
      <4>2. CASE e # c
        BY <4>2, <3>2, <1>1
      <4> QED
        BY <4>1, <4>2
    <3>6. pc'[e] \notin {"none", "done"}
      BY <3>2, <3>3, <1>4 DEF Live
    <3> QED
      BY <3>1, <3>2, <3>5, <3>6, <1>2 DEF Live
  <2> QED
    BY <2>1, <2>2
<1>11. REGISTER(c, c) => job'[c].conn = c /\ pc'[c] \notin Copied
  <2>1. [NoJob EXCEPT !.svc = ServiceOf[c], !.conn = c].conn = c
    BY FirstJobs
  <2> QED
    BY <2>1 DEF REGISTER, Steps, Copied
<1>12. ASSUME NEW s \in Services, REQUEST(c, c, s), s \in Listed
       PROVE  job'[c].conn = c /\ job'[c].svc = s /\ job'[c].fd = providers[s].fd
  <2>1. LET j == [NoJob EXCEPT !.svc = s, !.conn = c, !.fd = providers[s].fd,
                               !.sdp = providers[s].sdp]
        IN  j.conn = c /\ j.svc = s /\ j.fd = providers[s].fd
    BY FirstJobs
  <2> QED
    BY <2>1, <1>12 DEF REQUEST
<1>13. ASSUME NEW e \in Conns, pc'[e] \in Copied
       PROVE  \E d \in Cams : /\ ServiceOf[d] = job'[e].svc
                              /\ \A f \in Conns : Live(f)' /\ sock'[f] = job'[e].fd => f = d
  <2>1. CASE \/ e # c
             \/ pc[c] \in Copied /\ job'[c].svc = job[c].svc /\ job'[c].fd = job[c].fd
    <3>1. pc[e] \in Copied /\ job'[e].svc = job[e].svc /\ job'[e].fd = job[e].fd
      BY <2>1, <1>1, <1>13
    <3>2. PICK d \in Cams : /\ ServiceOf[d] = job[e].svc
                            /\ \A f \in Conns : Live(f) /\ sock[f] = job[e].fd => f = d
      BY <3>1 DEF OwnNumbers
    <3> QED
      BY <3>1, <3>2, <1>2, <1>4
  <2>2. CASE e = c /\ \E s \in Services : REQUEST(c, c, s) /\ s \in Listed
    <3>1. PICK s \in Services : REQUEST(c, c, s) /\ s \in Listed
      BY <2>2
    <3>2. job'[e].svc = s /\ job'[e].fd = providers[s].fd
      BY <2>2, <3>1, <1>12
    <3> DEFINE d == providers[s].conn
    <3>3. d \in Cams /\ ServiceOf[d] = s /\ Live(d) /\ providers[s].fd = sock[d]
      BY <3>1 DEF OwnNumbers, Entries
    <3>4. \A f \in Conns : Live(f) /\ sock[f] = sock[d] => f = d
      BY <3>3 DEF OwnNumbers, Conns
    <3> QED
      BY <3>2, <3>3, <3>4, <1>2, <1>4
  <2>3. e = c => \/ pc[c] \in Copied /\ job'[c].svc = job[c].svc /\ job'[c].fd = job[c].fd
                 \/ REGISTER(c, c) \/ \E s \in Services : REQUEST(c, c, s) /\ s \in Listed
    <3>1. Copied \subseteq {"insert", "clear", "slot", "stale"} \union Served
      BY DEF Copied, Served
    <3> QED
      BY <3>1, <1>13, InHandFrom
  <2> QED
    BY <2>1, <2>2, <2>3, <1>11, <1>13
<1>14. \A e \in Conns : pc'[e] \in {"insert", "clear", "slot", "stale"} \union Served
         => job'[e].conn = e
  <2>1. pc'[c] \in {"insert", "clear", "slot", "stale"} \union Served => job'[c].conn = c
    BY <1>11, <1>12, InHandFrom DEF OwnNumbers
  <2> QED
    BY <2>1, <1>1 DEF OwnNumbers
<1> QED
  BY <1>5, <1>6, <1>7, <1>8, <1>9, <1>10, <1>13, <1>14 DEF OwnNumbers

\* So a number is its handler's own throughout.
LEMMA OwnNumbersStep ==
    ASSUME BaseInv, OwnNumbers, Step, KeepsApart
    PROVE  OwnNumbers'
BY MonitorOwnNumbers, AcceptOwnNumbers, HandlerOwnNumbers DEF Step, Message, MessageOf

-----------------------------------------------------------------------------
\* What a subscriber knows is undisturbed by a step that lists nothing, sends no
\* notification and makes nobody a subscriber.
LEMMA ToldFrame ==
    ASSUME Told, Listed' \subseteq Listed, known' = known, sock' = sock,
           \A e \in Conns : pc[e] \in {"notify", "notifySend"} => pc'[e] = pc[e] /\ job'[e] = job[e],
           \A k \in Consumers : Listening(k)' => Listening(k)
    PROVE  Told'
BY DEF Told, ToldOf

\* The steps of ToldFrame.
LEMMA ToldUndisturbed ==
    ASSUME BaseInv, OwnNumbers, Told, NEW c \in Conns,
           \/ PeerChanges(c, "silent") \/ PeerChanges(c, "gone")
           \/ List(c) \/ ClearConsumer(c) \/ Forward(c) \/ ForwardFails(c) \/ EraseStale(c)
           \/ WaitEnds(c) \/ RemoveSlot(c) \/ Reply(c) \/ FindPending(c) \/ FillSlot(c)
           \/ RecvFails(c) \/ Unsubscribe(c) \/ Unlist(c) \/ Close(c) \/ RequestStep(c)
           \/ NotifyDrop(c) \/ \E d \in Conns : MessageOf(c, d)
    PROVE  Told'
<1> USE JuiceAssumption DEF BaseInv, Types, TypeOK
<1>1. Listed' \subseteq Listed
  <2>1. Insert(c) => FALSE
    BY DEF PeerChanges, List, ClearConsumer, Forward, ForwardFails, EraseStale, WaitEnds, RemoveSlot,
           Reply, FindPending, FillSlot, RecvFails, Unsubscribe, Unlist, Close, RequestStep, InstallSlot,
           NotifyDrop, MessageOf, REGISTER, PONG, PROVIDER_DISCONNECTED, SUBSCRIBE, REQUEST, SDP_READY,
           Hears, Insert, Steps, threads
  <2> QED
    BY <2>1, HandlerKeeps, MessageKeeps DEF PeerChanges, tables, Kept, Listed, HandlerStep
<1>2. UNCHANGED <<known, sock>>
  BY DEF PeerChanges, List, ClearConsumer, Forward, ForwardFails, EraseStale, WaitEnds, RemoveSlot,
         Reply, FindPending, FillSlot, RecvFails, Unsubscribe, Unlist, Close, RequestStep, InstallSlot,
         NotifyDrop, MessageOf, REGISTER, PONG, PROVIDER_DISCONNECTED, SUBSCRIBE, REQUEST, SDP_READY,
         net, ghosts
<1>3. /\ pc[c] \in {"notify", "notifySend"} => pc'[c] = pc[c] /\ job'[c] = job[c]
      /\ pc[c] \in {"none", "list", "listing"} => pc'[c] \in {"none", "list", "listing"}
  BY DEF PeerChanges, List, ClearConsumer, Forward, ForwardFails, EraseStale, WaitEnds, RemoveSlot,
         Reply, FindPending, FillSlot, RecvFails, Unsubscribe, Unlist, Close, RequestStep, InstallSlot,
         NotifyDrop, MessageOf, REGISTER, PONG, PROVIDER_DISCONNECTED, SUBSCRIBE, REQUEST, SDP_READY,
         Hears, Steps, GoRecv, threads
<1>4. /\ \A e \in Conns \ {c} : pc'[e] = pc[e] /\ job'[e] = job[e]
      /\ \A n \in Fds : file'[n] \in {file[n], None} \/ Accept(c)
  BY Started DEF HandlerStep
<1>5. ~Accept(c)
  BY DEF PeerChanges, List, ClearConsumer, Forward, ForwardFails, EraseStale, WaitEnds, RemoveSlot,
         Reply, FindPending, FillSlot, RecvFails, Unsubscribe, Unlist, Close, RequestStep, InstallSlot,
         NotifyDrop, MessageOf, REGISTER, PONG, PROVIDER_DISCONNECTED, SUBSCRIBE, REQUEST, SDP_READY,
         Hears, Steps, GoRecv, threads, Accept, net
<1>6. \A k \in Conns : link'[k] = "up" => link[k] = "up"
  BY DEF PeerChanges, List, ClearConsumer, Forward, ForwardFails, EraseStale, WaitEnds, RemoveSlot,
         Reply, FindPending, FillSlot, RecvFails, Unsubscribe, Unlist, Close, RequestStep, InstallSlot,
         NotifyDrop, MessageOf, REGISTER, PONG, PROVIDER_DISCONNECTED, SUBSCRIBE, REQUEST, SDP_READY,
         net
<1>7. \/ subs' \subseteq subs
      \/ pc'[c] = "list" /\ subs' = subs \union {sock[c]} /\ \A n \in Fds : file'[n] = file[n]
  BY DEF PeerChanges, List, ClearConsumer, Forward, ForwardFails, EraseStale, WaitEnds, RemoveSlot,
         Reply, FindPending, FillSlot, RecvFails, Unsubscribe, Unlist, Close, RequestStep, InstallSlot,
         NotifyDrop, MessageOf, REGISTER, PONG, PROVIDER_DISCONNECTED, SUBSCRIBE, REQUEST, SDP_READY,
         net, tables, Steps
<1>8. pc'[c] = "list" => pc[c] \notin {"none", "done"}
  BY DEF PeerChanges, List, ClearConsumer, Forward, ForwardFails, EraseStale, WaitEnds, RemoveSlot,
         Reply, FindPending, FillSlot, RecvFails, Unsubscribe, Unlist, Close, RequestStep, InstallSlot,
         NotifyDrop, MessageOf, REGISTER, PONG, PROVIDER_DISCONNECTED, SUBSCRIBE, REQUEST, SDP_READY,
         Hears, Steps, GoRecv, threads
<1>9. ASSUME NEW k \in Consumers, Listening(k)' PROVE Listening(k)
  <2>1. /\ k \in Conns /\ pc'[k] \notin {"none", "list", "listing"} /\ sock[k] \in subs'
        /\ file'[sock[k]] = k /\ link[k] = "up"
    BY <1>9, <1>2, <1>6 DEF Listening, Conns
  <2>2. pc[k] \notin {"none", "list", "listing"}
    BY <2>1, <1>3, <1>4
  <2>3. sock[k] \in Fds /\ file[sock[k]] = k
    <3>1. sock[k] \in Fds
      BY <2>1, <2>2 DEF InHand
    <3>2. file'[sock[k]] \in {file[sock[k]], None}
      BY <3>1, <1>4, <1>5
    <3>3. k # None
      BY <2>1
    <3> QED
      BY <3>1, <3>2, <3>3, <2>1
  <2>4. sock[k] \in subs
    <3>1. CASE subs' \subseteq subs
      BY <3>1, <2>1
    <3>2. CASE pc'[c] = "list" /\ subs' = subs \union {sock[c]}
      <4>1. k # c
        BY <3>2, <2>1
      <4>2. file[sock[c]] \in {c, None}
        BY <3>2, <1>8 DEF OwnNumbers, Live
      <4>3. sock[k] # sock[c]
        BY <2>1, <2>3, <4>1, <4>2
      <4> QED
        BY <2>1, <3>2, <4>3
    <3> QED
      BY <3>1, <3>2, <1>7
  <2> QED
    BY <2>1, <2>2, <2>3, <2>4 DEF Listening
<1> QED
  BY <1>1, <1>2, <1>3, <1>4, <1>9, ToldFrame

\* A subscriber is told of every listed service or is about to be.
LEMMA ToldStep ==
    ASSUME BaseInv, OwnNumbers, KeepsApart, Told, Step
    PROVE  Told'
<1> USE JuiceAssumption DEF BaseInv, Types, TypeOK
<1>1. CASE MonitorStep
  <2>1. Listed' \subseteq Listed
    BY <1>1, MonitorKeeps DEF Kept
  <2>2. UNCHANGED <<pc, at, job, sock, subs, known, link>>
    BY <1>1 DEF MonitorStep, Collect, SendPings, Count, DropStale, CloseStale, threads, net, tables,
                ghosts
  <2>3. \A n \in Fds : file'[n] \in {file[n], None}
    <3>1. CASE CloseStale
      BY <3>1 DEF CloseStale
    <3>2. CASE ~CloseStale
      BY <1>1, <3>2 DEF MonitorStep, Collect, SendPings, Count, DropStale, net
    <3> QED
      BY <3>1, <3>2
  <2>4. ASSUME NEW k \in Consumers, Listening(k)' PROVE Listening(k)
    <3>1. k \in Conns /\ k # None /\ pc[k] \notin {"none", "list", "listing"}
      BY <2>2, <2>4 DEF Listening, Conns
    <3>2. sock[k] \in Fds
      BY <3>1 DEF InHand
    <3>3. file'[sock[k]] = k /\ sock[k] \in subs /\ link[k] = "up"
      BY <2>2, <2>4 DEF Listening
    <3>4. file[sock[k]] = k
      BY <3>1, <3>2, <3>3, <2>3
    <3> QED
      BY <3>1, <3>3, <3>4 DEF Listening
  <2> QED
    BY <2>1, <2>2, <2>4, ToldFrame
<1>2. ASSUME NEW c \in Conns, Accept(c) PROVE Told'
  <2>1. PICK n \in Fds :
          /\ pc[c] = "none" /\ pc' = [pc EXCEPT ![c] = "recv"] /\ link' = [link EXCEPT ![c] = "up"]
          /\ sock' = [sock EXCEPT ![c] = n] /\ file' = [file EXCEPT ![n] = c]
          /\ UNCHANGED <<job, subs, providers, known>>
    <3>1. \A n \in Numbers(c) : n \in Fds
      BY OwnNumberFact DEF Numbers, FreeNumbers
    <3> QED
      BY <1>2, <3>1 DEF Accept, tables, ghosts
  <2>2. Listed' = Listed
    BY <2>1 DEF Listed
  <2>3. \A e \in Conns : pc[e] \in {"notify", "notifySend"} => pc'[e] = pc[e] /\ job'[e] = job[e]
    BY <2>1
  <2>4. ASSUME NEW k \in Consumers, Listening(k)'
        PROVE  Listening(k) /\ sock'[k] = sock[k]
    <3>1. n \notin subs /\ k \in Conns
      <4>1. ~StillUsed(n)
        BY <2>1 DEF KeepsApart
      <4> QED
        BY <4>1 DEF StillUsed, OwnNumbers, Conns
    <3>2. k # c
      BY <3>1, <2>1, <2>4 DEF Listening
    <3>3. /\ sock'[k] = sock[k] /\ pc'[k] = pc[k] /\ link'[k] = link[k]
          /\ pc[k] \notin {"none", "list", "listing"} /\ sock[k] \in subs
      BY <3>1, <3>2, <2>1, <2>4 DEF Listening
    <3>4. sock[k] # n
      BY <3>3, <3>1
    <3> QED
      BY <3>3, <3>4, <2>1, <2>4 DEF Listening
  <2>5. ASSUME NEW k \in Consumers, NEW s \in Listed', Listening(k)' PROVE ToldOf(k, s)'
    <3>1. ToldOf(k, s) /\ sock'[k] = sock[k]
      BY <2>2, <2>4, <2>5 DEF Told
    <3> QED
      BY <3>1, <2>1, <2>3 DEF ToldOf
  <2> QED
    BY <2>5 DEF Told
<1>3. ASSUME NEW c \in Conns, Insert(c) PROVE Told'
  <2>1. /\ job[c].svc \in Services /\ pc' = [pc EXCEPT ![c] = "notify"] /\ pc[c] = "insert"
        /\ UNCHANGED <<job, sock, file, link, subs, known>>
        /\ \A s \in Services : s # job[c].svc => providers'[s] = providers[s]
    BY <1>3 DEF Insert, InHand, Steps, net, ghosts
  <2>2. ASSUME NEW k \in Consumers, NEW s \in Listed', Listening(k)' PROVE ToldOf(k, s)'
    <3>1. CASE s = job[c].svc
      BY <3>1, <2>1 DEF ToldOf
    <3>2. CASE s # job[c].svc
      <4>1. s \in Listed
        BY <3>2, <2>1 DEF Listed
      <4>2. Listening(k)
        BY <2>1, <2>2 DEF Listening
      <4>3. ToldOf(k, s)
        BY <4>1, <4>2 DEF Told
      <4> QED
        BY <4>3, <2>1 DEF ToldOf
    <3> QED
      BY <3>1, <3>2
  <2> QED
    BY <2>2 DEF Told
<1>4. ASSUME NEW c \in Conns, CopySubscribers(c) PROVE Told'
  <2>1. /\ pc[c] = "notify" /\ pc' = [pc EXCEPT ![c] = "notifySend"]
        /\ UNCHANGED <<sock, file, link, subs, known, providers>>
        /\ job' = [job EXCEPT ![c].fds = subs]
    BY <1>4 DEF CopySubscribers, Steps, net, ghosts, tables
  <2>2. job'[c].svc = job[c].svc /\ job'[c].fds = subs /\ \A e \in Conns \ {c} : job'[e] = job[e]
    BY <2>1 DEF Job
  <2>3. ASSUME NEW k \in Consumers, NEW s \in Listed', Listening(k)' PROVE ToldOf(k, s)'
    <3>1. Listening(k) /\ s \in Listed /\ sock'[k] \in subs
      BY <2>1, <2>3 DEF Listening, Listed
    <3>2. ToldOf(k, s)
      BY <3>1 DEF Told
    <3> QED
      BY <3>1, <3>2, <2>1, <2>2 DEF ToldOf
  <2> QED
    BY <2>3 DEF Told
<1>5. ASSUME NEW c \in Conns, NotifySend(c) PROVE Told'
  <2>1. /\ pc[c] = "notifySend" /\ pc' = [pc EXCEPT ![c] = "notifyDrop"]
        /\ UNCHANGED <<sock, file, link, subs, providers>>
        /\ \A e \in Conns \ {c} : job'[e] = job[e]
    BY <1>5 DEF NotifySend, Steps, net, tables
  <2>2. PICK failed \in SUBSET job[c].fds :
          /\ \A n \in job[c].fds : IF n \in failed THEN MayFail(n) ELSE MayReach(n)
          /\ known' = [k \in Consumers |->
                IF \E n \in job[c].fds \ failed : file[n] = k
                THEN known[k] \union {job[c].svc} ELSE known[k]]
    BY <1>5 DEF NotifySend
  <2>3. ASSUME NEW k \in Consumers, NEW s \in Listed', Listening(k)' PROVE ToldOf(k, s)'
    <3>1. Listening(k) /\ s \in Listed
      BY <2>1, <2>3 DEF Listening, Listed
    <3>2. ToldOf(k, s) /\ file[sock[k]] = k /\ link[k] = "up" /\ k \in Conns
      BY <3>1 DEF Told, Listening, Conns
    <3>3. CASE s \in known[k]
      BY <3>3, <2>2 DEF ToldOf
    <3>4. CASE job[c].svc = s /\ sock[k] \in job[c].fds
      <4>1. sock[k] \notin failed
        BY <3>2, <3>4, <2>2 DEF MayFail
      <4> QED
        BY <3>2, <3>4, <4>1, <2>2 DEF ToldOf
    <3>5. CASE \E e \in Conns \ {c} : /\ pc[e] \in {"notify", "notifySend"} /\ job[e].svc = s
                                      /\ pc[e] = "notifySend" => sock[k] \in job[e].fds
      BY <3>5, <2>1 DEF ToldOf
    <3> QED
      BY <3>2, <3>3, <3>4, <3>5, <2>1 DEF ToldOf
  <2> QED
    BY <2>3 DEF Told
<1>6. ASSUME NEW c \in Conns, ListSent(c) PROVE Told'
  <2>1. /\ pc[c] = "listing" /\ pc' = [pc EXCEPT ![c] = "recv"]
        /\ UNCHANGED <<job, sock, file, link, subs, providers>>
        /\ known' = [k \in Consumers |->
             IF file[sock[c]] = k THEN known[k] \union Listed ELSE known[k]]
    BY <1>6 DEF ListSent, GoRecv
  <2>2. ASSUME NEW k \in Consumers, NEW s \in Listed', Listening(k)' PROVE ToldOf(k, s)'
    <3>1. s \in Listed /\ k \in Conns
      BY <2>1 DEF Listed, Conns
    <3>2. CASE k = c
      BY <3>1, <3>2, <2>1, <2>2 DEF ToldOf, Listening
    <3>3. CASE k # c
      <4>1. Listening(k)
        BY <3>1, <3>3, <2>1, <2>2 DEF Listening
      <4>2. ToldOf(k, s)
        BY <3>1, <4>1 DEF Told
      <4> QED
        BY <4>2, <2>1 DEF ToldOf
    <3> QED
      BY <3>2, <3>3
  <2> QED
    BY <2>2 DEF Told
<1> QED
  BY <1>1, <1>2, <1>3, <1>4, <1>5, <1>6, ToldUndisturbed DEF Step, HandlerStep, Message, MessageOf

\* A step that changes nothing keeps the numbers apart.
LEMMA StutterKeepsApart == [KeepsApart]_vars => KeepsApart
BY DEF KeepsApart, vars, threads

\* SUBSCRIBE and notify_subscribers: a subscriber back in recv knows every
\* listed service whose registration has sent its notifications, for any
\* number of registrations and subscriptions at once, and for descriptor numbers
\* used again as long as nobody uses them still.
THEOREM SubscribersKnow == Spec /\ [][KeepsApart]_vars => []SubscriberKnows
<1>1. Init => OwnNumbers /\ Told
  BY JuiceAssumption DEF Init, OwnNumbers, Told, Listed, Served, Copied, Live
<1>2. BaseInv /\ OwnNumbers /\ Told /\ [Next]_<<roles, vars>> /\ [KeepsApart]_vars
        => (OwnNumbers /\ Told)'
  <2> SUFFICES ASSUME BaseInv, OwnNumbers, Told, [Next]_<<roles, vars>>, KeepsApart
               PROVE  (OwnNumbers /\ Told)'
    BY StutterKeepsApart
  <2>1. CASE Next
    BY <2>1, OwnNumbersStep, ToldStep DEF Next
  <2>2. CASE UNCHANGED <<roles, vars>>
    <3>1. UNCHANGED <<pc, at, job, file, sock, link, subs, providers, known>>
      BY <2>2 DEF vars, net, threads, tables, ghosts
    <3>2. OwnNumbers'
      BY <3>1 DEF OwnNumbers, Listed, Live
    <3>3. Told'
      BY <3>1 DEF Told, ToldOf, Listening, Listed
    <3> QED
      BY <3>2, <3>3
  <2> QED
    BY <2>1, <2>2
<1>3. Told => SubscriberKnows
  BY DEF Told, ToldOf, Listening, SubscriberKnows, Conns
<1> QED
  BY <1>1, <1>2, <1>3, BaseInvariance, PTL DEF Spec

-----------------------------------------------------------------------------
\* Who is served what is undisturbed by a step outside the requests and the SDPs.
Active == {"clear", "slot", "stale", "find", "fill"} \union Served

\* Threads that are not serving a request do not disturb one that is.
LEMMA RequestsFrame ==
    ASSUME Heard, Alone, UNCHANGED <<pending, slot, connects, gathered, shared>>,
           answered \subseteq answered', \A k \in answered' \ answered : pc'[k] \notin {"clear", "slot"},
           \A e \in Conns : \/ pc'[e] = pc[e] /\ job'[e] = job[e]
                            \/ pc[e] \notin Active /\ pc'[e] \notin Active
    PROVE  Heard' /\ Alone'
<1>1. \A e \in Conns : pc'[e] \in Active \/ pc[e] \in Active => pc'[e] = pc[e] /\ job'[e] = job[e]
  OBVIOUS
<1>2. /\ \A e \in Conns : pc'[e] \in {"find", "fill"} => pc'[e] = pc[e] /\ job'[e] = job[e]
      /\ \A e \in Conns : pc[e] \in {"find", "fill"} => pc'[e] = pc[e] /\ job'[e] = job[e]
      /\ \A e \in Consumers : pc'[e] \in {"clear", "slot", "stale"} \union Served
                                => pc'[e] = pc[e] /\ job'[e] = job[e]
      /\ \A e \in Consumers : pc[e] \in {"clear", "slot", "stale"} \union Served
                                => pc'[e] = pc[e] /\ job'[e] = job[e]
  BY <1>1 DEF Active, Conns
<1>3. Heard'
  <2>1. ASSUME NEW k \in Consumers, Unasked(k)' PROVE Unheard(k)'
    <3>1. Unasked(k)
      BY <1>2, <2>1 DEF Unasked
    <3>2. Unheard(k)
      BY <3>1 DEF Heard
    <3> QED
      BY <3>2, <1>2 DEF Unheard
  <2>2. ASSUME NEW k \in Consumers, pc'[k] \in Served PROVE HeardFor(k)'
    <3>1. pc[k] \in Served /\ job'[k] = job[k]
      BY <1>2, <2>2
    <3>2. HeardFor(k)
      BY <3>1 DEF Heard
    <3> QED
      BY <3>1, <3>2, <1>2 DEF HeardFor
  <2>3. \A c \in Conns : pc'[c] \in {"find", "fill"} => c \in Cams /\ job'[c].svc = ServiceOf[c]
    BY <1>2 DEF Heard
  <2>4. \A k \in Consumers : pc'[k] \in {"clear", "slot"} => k \notin answered'
    BY <1>2 DEF Heard
  <2> QED
    BY <2>1, <2>2, <2>3, <2>4 DEF Heard
<1>4. ASSUME NEW k \in Consumers \ shared', pc'[k] \in Served PROVE AloneFor(k)'
  <2>1. pc[k] \in Served /\ pc'[k] = pc[k] /\ job'[k] = job[k] /\ k \notin shared
    BY <1>2, <1>4
  <2>2. AloneFor(k)
    BY <2>1, <1>4 DEF Alone
  <2> QED
    BY <2>1, <2>2, <1>2 DEF AloneFor
<1> QED
  BY <1>3, <1>4 DEF Alone

\* The steps of RequestsFrame.
LEMMA RequestsUndisturbed ==
    ASSUME Types, InHand, OwnNumbers, Heard, Alone, NEW c \in Conns,
           \/ Accept(c) \/ PeerChanges(c, "silent") \/ PeerChanges(c, "gone")
           \/ Insert(c) \/ CopySubscribers(c) \/ NotifySend(c) \/ NotifyDrop(c) \/ List(c) \/ ListSent(c)
           \/ RecvFails(c) \/ Unsubscribe(c) \/ Unlist(c) \/ Close(c)
           \/ \E d \in Conns : REGISTER(c, d) \/ PONG(c, d) \/ PROVIDER_DISCONNECTED(c, d)
                               \/ SUBSCRIBE(c, d)
           \/ \E d \in Conns : \E s \in Services \ Listed : REQUEST(c, d, s)
    PROVE  Heard' /\ Alone'
<1> USE DEF Types
<1>1. UNCHANGED <<pending, slot, connects, gathered, shared>>
  BY DEF Accept, PeerChanges, Insert, CopySubscribers, NotifySend, NotifyDrop, List, ListSent, RecvFails,
         Unsubscribe, Unlist, Close, REGISTER, PONG, PROVIDER_DISCONNECTED, SUBSCRIBE, REQUEST,
         tables, cameras, ghosts
<1>2. /\ answered \subseteq answered'
      /\ \A k \in answered' \ answered : pc'[k] \notin {"clear", "slot"}
  <2>1. CASE \E d \in Conns : \E s \in Services \ Listed : REQUEST(c, d, s)
    <3>1. PICK d \in Conns, s \in Services \ Listed : REQUEST(c, d, s)
      BY <2>1
    <3>2. d = c /\ pc[c] = "recv" /\ pc' = pc /\ answered' = answered \union {d}
      BY <3>1 DEF REQUEST, threads, Hears, OwnNumbers
    <3> QED
      BY <3>2
  <2>2. CASE answered' = answered
    BY <2>2
  <2> QED
    BY <2>1, <2>2
       DEF Accept, PeerChanges, Insert, CopySubscribers, NotifySend, NotifyDrop, List, ListSent,
           RecvFails, Unsubscribe, Unlist, Close, REGISTER, PONG, PROVIDER_DISCONNECTED, SUBSCRIBE, ghosts
<1>3. \A e \in Conns \ {c} : pc'[e] = pc[e] /\ job'[e] = job[e]
  BY Started DEF HandlerStep, MessageOf
<1>4. \/ pc'[c] = pc[c] /\ job'[c] = job[c]
      \/ pc[c] \notin Active /\ pc'[c] \notin Active
  <2>1. CASE \/ Accept(c) \/ PeerChanges(c, "silent") \/ PeerChanges(c, "gone")
             \/ \E d \in Conns : \E s \in Services \ Listed : REQUEST(c, d, s)
    BY <2>1 DEF Accept, PeerChanges, REQUEST, threads, Active, Served
  <2>2. CASE \/ Insert(c) \/ CopySubscribers(c) \/ NotifySend(c) \/ List(c)
             \/ RecvFails(c) \/ Unsubscribe(c) \/ Unlist(c) \/ Close(c)
    BY <2>2 DEF Insert, CopySubscribers, NotifySend, List, RecvFails, Unsubscribe, Unlist, Close, Steps,
                Active, Served
  <2>3. CASE \/ NotifyDrop(c) \/ ListSent(c)
             \/ \E d \in Conns : REGISTER(c, d) \/ PONG(c, d) \/ PROVIDER_DISCONNECTED(c, d)
                                 \/ SUBSCRIBE(c, d)
    BY <2>3 DEF NotifyDrop, ListSent, REGISTER, PONG, PROVIDER_DISCONNECTED, SUBSCRIBE, Hears, Steps,
                GoRecv, Active, Served
  <2> QED
    BY <2>1, <2>2, <2>3
<1> QED
  BY <1>1, <1>2, <1>3, <1>4, RequestsFrame

\* What the steps of a request leave of the tables.
LEMMA RequestEffects ==
    ASSUME Types, InHand, OwnNumbers, NEW c \in Conns,
           \/ \E s \in Listed : REQUEST(c, c, s)
           \/ ClearConsumer(c) \/ RequestStep(c) \/ Forward(c) \/ ForwardFails(c) \/ EraseStale(c)
           \/ WaitEnds(c) \/ RemoveSlot(c) \/ Reply(c)
    PROVE  /\ \A e \in Conns \ {c} : pc'[e] = pc[e] /\ job'[e] = job[e]
           /\ pc[c] \notin {"find", "fill"} /\ pc'[c] \notin {"find", "fill"}
           /\ pc'[c] \in Served => /\ c \in Consumers /\ job'[c].svc = job[c].svc
                                   /\ RequestStep(c) \/ pc[c] \in Served
           /\ gathered' \subseteq gathered
           /\ RequestStep(c) \/ \A s \in Services : pending'[s] \in {pending[s], None}
           /\ Forward(c) \/ connects' = connects
           /\ answered \subseteq answered' /\ answered' \subseteq answered \union {c}
           /\ pc[c] \in {"stale"} \union Served
                => c \in answered' \/ pc'[c] \in {"stale"} \union Served
           /\ pc'[c] \in {"clear", "slot"} => c \notin answered' \/ pc[c] = "clear"
           /\ pc'[c] \in {"clear", "slot"} => answered' = answered
<1> USE DEF Types, TypeOK
<1>1. \A e \in Conns \ {c} : pc'[e] = pc[e] /\ job'[e] = job[e]
  BY Started DEF HandlerStep, MessageOf, Listed
<1>2. CASE \E s \in Listed : REQUEST(c, c, s)
  BY <1>1, <1>2 DEF REQUEST, Steps, Hears, tables, cameras, Served
<1>3. CASE ClearConsumer(c) \/ Forward(c)
  BY <1>1, <1>3 DEF ClearConsumer, Forward, Steps, tables, cameras, ghosts, Served, InHand
<1>4. CASE RequestStep(c)
  BY <1>1, <1>4 DEF RequestStep, InstallSlot, Steps, cameras, Served
<1>5. CASE ForwardFails(c) \/ RemoveSlot(c)
  BY <1>1, <1>5 DEF ForwardFails, RemoveSlot, Steps, cameras, ghosts, Served, InHand
<1>6. CASE WaitEnds(c)
  <2>1. job'[c].svc = job[c].svc
    BY <1>6 DEF WaitEnds, Job
  <2> QED
    BY <1>1, <1>6, <2>1 DEF WaitEnds, Steps, tables, cameras, ghosts, Served, InHand
<1>7. CASE EraseStale(c) \/ Reply(c)
  <2>1. job[c].conn = c
    BY <1>7 DEF EraseStale, Reply, OwnNumbers, Served
  <2>2. pc'[c] = "recv" /\ pc[c] \in {"stale", "reply"}
    BY <1>7 DEF EraseStale, Reply, GoRecv
  <2>3. answered' = answered \union {c}
    BY <1>7, <2>1 DEF EraseStale, Reply
  <2>4. gathered' \subseteq gathered /\ pending' = pending /\ connects' = connects
    BY <1>7 DEF EraseStale, Reply, Forget, cameras
  <2> QED
    BY <1>1, <2>2, <2>3, <2>4 DEF Served
<1> QED
  BY <1>2, <1>3, <1>4, <1>5, <1>6, <1>7

\* CONSUMER_CONNECT goes to a camera of the requested service.
LEMMA ForwardReaches ==
    ASSUME Types, InHand, OwnNumbers, NEW c \in Conns, Forward(c)
    PROVE  \E d \in Cams : /\ ServiceOf[d] = job[c].svc
                           /\ connects' = [connects EXCEPT ![d] = @ \union {c}]
<1>1. PICK d \in Cams : /\ ServiceOf[d] = job[c].svc
                       /\ \A e \in Conns : Live(e) /\ sock[e] = job[c].fd => e = d
  BY DEF Forward, Steps, Copied, OwnNumbers
<1>2. job[c].fd \in Fds /\ file[job[c].fd] \in Conns
  BY DEF Forward, Steps, MayReach, Types, TypeOK, InHand, Served
<1>3. file[job[c].fd] = d
  BY <1>1, <1>2 DEF OwnNumbers
<1> QED
  BY <1>1, <1>3 DEF Forward

\* The steps of a request keep Heard.
LEMMA HeardRequest ==
    ASSUME Types, InHand, OwnNumbers, Heard, NEW c \in Conns,
           \/ \E s \in Listed : REQUEST(c, c, s)
           \/ ClearConsumer(c) \/ RequestStep(c) \/ Forward(c) \/ ForwardFails(c) \/ EraseStale(c)
           \/ WaitEnds(c) \/ RemoveSlot(c) \/ Reply(c)
    PROVE  Heard'
<1> USE JuiceAssumption DEF Types, TypeOK
<1>1. /\ \A e \in Conns \ {c} : pc'[e] = pc[e] /\ job'[e] = job[e]
      /\ pc[c] \notin {"find", "fill"} /\ pc'[c] \notin {"find", "fill"}
      /\ pc'[c] \in Served => /\ c \in Consumers /\ job'[c].svc = job[c].svc
                              /\ RequestStep(c) \/ pc[c] \in Served
      /\ gathered' \subseteq gathered
      /\ RequestStep(c) \/ \A s \in Services : pending'[s] \in {pending[s], None}
      /\ Forward(c) \/ connects' = connects
      /\ answered \subseteq answered' /\ answered' \subseteq answered \union {c}
      /\ pc[c] \in {"stale"} \union Served
           => c \in answered' \/ pc'[c] \in {"stale"} \union Served
      /\ pc'[c] \in {"clear", "slot"} => c \notin answered' \/ pc[c] = "clear"
      /\ pc'[c] \in {"clear", "slot"} => answered' = answered
  BY RequestEffects
<1>2. RequestStep(c) =>
        /\ c \in Consumers /\ pc[c] = "slot" /\ pc'[c] = "forward" /\ job[c].svc \in Services
        /\ pending' = [pending EXCEPT ![job[c].svc] = c]
  BY DEF RequestStep, InstallSlot, Steps, InHand
<1>3. Forward(c) => /\ c \in Consumers /\ pc[c] = "forward" /\ pc'[c] = "wait"
                    /\ \E d \in Cams : /\ ServiceOf[d] = job[c].svc
                                       /\ connects' = [connects EXCEPT ![d] = @ \union {c}]
  <2>1. Forward(c) => /\ c \in Consumers /\ pc[c] = "forward" /\ pc'[c] = "wait"
    BY DEF Forward, Steps, InHand, Served
  <2> QED
    BY <2>1, ForwardReaches
<1>4. ASSUME NEW k \in Consumers, Unasked(k)' PROVE Unheard(k)'
  <2>1. k \in Conns
    BY DEF Conns
  <2>2. Unasked(k)
    BY <1>1, <1>4, <2>1 DEF Unasked
  <2>3. Unheard(k)
    BY <2>2 DEF Heard
  <2>4. k = c => ~RequestStep(c) /\ ~Forward(c)
    BY <1>2, <1>3, <1>4 DEF Unasked, Served
  <2>5. \A s \in Services : pending'[s] # k
    BY <2>1, <2>3, <2>4, <1>1, <1>2 DEF Unheard
  <2>6. \A d \in Conns : k \notin connects'[d]
    <3>1. CASE Forward(c)
      <4>1. PICK d \in Cams : connects' = [connects EXCEPT ![d] = @ \union {c}]
        BY <3>1, <1>3
      <4> QED
        BY <4>1, <3>1, <2>3, <2>4 DEF Unheard
    <3>2. CASE ~Forward(c)
      BY <3>2, <2>3, <1>1 DEF Unheard
    <3> QED
      BY <3>1, <3>2
  <2> QED
    BY <2>3, <2>5, <2>6, <1>1 DEF Unheard
<1>5. ASSUME NEW k \in Consumers, pc'[k] \in Served PROVE HeardFor(k)'
  <2>1. k \in Conns /\ job'[k].svc = job[k].svc
    BY <1>1, <1>5 DEF Conns
  <2>2. CASE k = c /\ RequestStep(c)
    <3>1. Unheard(k) /\ connects' = connects
      <4>1. Unasked(k)
        BY <2>2, <1>2 DEF Heard, Unasked, Served
      <4>2. ~Forward(c)
        BY <2>2, <1>2, <1>3
      <4> QED
        BY <4>1, <4>2, <1>1 DEF Heard
    <3> QED
      BY <2>1, <2>2, <3>1, <1>1, <1>2 DEF Unheard, HeardFor
  <2>3. CASE ~(k = c /\ RequestStep(c))
    <3>1. HeardFor(k)
      BY <2>1, <2>3, <1>1, <1>5 DEF Heard
    <3>2. \A s \in Services : pending'[s] = k => s = job'[k].svc
      BY <3>1, <2>1, <2>3, <1>1, <1>2 DEF HeardFor
    <3>3. \A d \in Conns : k \in connects'[d] => d \in Cams /\ ServiceOf[d] = job'[k].svc
      <4>1. CASE Forward(c)
        <5>1. PICK d \in Cams : /\ ServiceOf[d] = job[c].svc
                                /\ connects' = [connects EXCEPT ![d] = @ \union {c}]
          BY <4>1, <1>3
        <5> QED
          BY <5>1, <3>1, <2>1 DEF HeardFor
      <4>2. CASE ~Forward(c)
        BY <4>2, <3>1, <2>1, <1>1 DEF HeardFor
      <4> QED
        BY <4>1, <4>2
    <3> QED
      BY <3>1, <3>2, <3>3, <2>1, <1>1 DEF HeardFor
  <2> QED
    BY <2>2, <2>3
<1>6. \A e \in Conns : pc'[e] \in {"find", "fill"} => e \in Cams /\ job'[e].svc = ServiceOf[e]
  BY <1>1 DEF Heard
<1>7. \A k \in Consumers : pc'[k] \in {"clear", "slot"} => k \notin answered'
  BY <1>1 DEF Heard, Conns
<1> QED
  BY <1>4, <1>5, <1>6, <1>7 DEF Heard

\* The steps of an SDP keep Heard.
LEMMA HeardSdp ==
    ASSUME Types, InHand, OwnNumbers, Heard, NEW c \in Conns,
           FindPending(c) \/ FillSlot(c) \/ \E k \in Consumers : SDP_READY(c, c, k)
    PROVE  Heard'
<1> USE JuiceAssumption DEF Types, TypeOK
<1>1. /\ \A e \in Conns \ {c} : pc'[e] = pc[e] /\ job'[e] = job[e]
      /\ UNCHANGED <<pending, answered>>
  BY Started DEF HandlerStep, MessageOf, FindPending, FillSlot, SDP_READY, tables, ghosts
<1>2. /\ pc[c] \notin Served \union {"stale", "clear", "slot"}
      /\ pc'[c] \notin Served \union {"stale", "clear", "slot"}
  BY DEF FindPending, FillSlot, SDP_READY, Steps, GoRecv, Served, Hears
<1>3. \A k \in Consumers : /\ Unasked(k)' = Unasked(k)
                           /\ pc'[k] \in Served => pc[k] \in Served /\ job'[k] = job[k]
  BY <1>1, <1>2 DEF Unasked, Conns
<1>4. CASE FindPending(c)
  <2>1. /\ pc[c] = "find" /\ pc'[c] = "fill" /\ UNCHANGED <<connects, gathered>>
        /\ job'[c].svc = job[c].svc /\ job'[c].sdp = job[c].sdp
        /\ job'[c].conn = pending[job[c].svc] /\ job[c].svc \in Services
    BY <1>4 DEF FindPending, Steps, Job, cameras, ghosts, InHand
  <2>2. ASSUME NEW k \in Consumers, Unasked(k)' PROVE Unheard(k)'
    BY <2>1, <2>2, <1>1, <1>3 DEF Heard, Unheard
  <2>3. ASSUME NEW k \in Consumers, pc'[k] \in Served PROVE HeardFor(k)'
    BY <2>1, <2>3, <1>1, <1>3 DEF Heard, HeardFor
  <2> QED
    BY <2>1, <2>2, <2>3, <1>1, <1>2 DEF Heard, Conns
<1>5. CASE FillSlot(c)
  <2>1. /\ pc[c] = "fill" /\ pc'[c] = "recv" /\ connects' = connects
        /\ gathered' \subseteq gathered \union {job[c].sdp}
    BY <1>5 DEF FillSlot, GoRecv, cameras
  <2>2. ASSUME NEW k \in Consumers, Unasked(k)' PROVE Unheard(k)'
    BY <2>1, <2>2, <1>1, <1>3 DEF Heard, Unheard
  <2>3. ASSUME NEW k \in Consumers, pc'[k] \in Served PROVE HeardFor(k)'
    BY <2>1, <2>3, <1>1, <1>3 DEF Heard, HeardFor
  <2> QED
    BY <2>1, <2>2, <2>3, <1>1, <1>2 DEF Heard, Conns
<1>6. ASSUME NEW j \in Consumers, SDP_READY(c, c, j) PROVE Heard'
  <2>1. /\ pc'[c] = "find" /\ gathered' = gathered /\ c \in Cams /\ j \in connects[c]
        /\ \A d \in Conns : connects'[d] \subseteq connects[d]
    <3>1. pc'[c] = "find" /\ gathered' = gathered /\ c \in Cams /\ j \in connects[c]
      BY <1>6 DEF SDP_READY, Steps, ghosts
    <3>2. connects' = [connects EXCEPT ![c] = @ \ {j}]
      BY <1>6 DEF SDP_READY
    <3>3. \A d \in Conns : connects'[d] \subseteq connects[d]
      BY <3>2
    <3> QED
      BY <3>1, <3>3
  <2>2. job'[c].svc = ServiceOf[c] /\ job'[c].sdp = j
    <3>1. LET x == [NoJob EXCEPT !.svc = ServiceOf[c], !.sdp = j] IN x.svc = ServiceOf[c] /\ x.sdp = j
      BY DEF NoJob
    <3> QED
      BY <3>1, <1>6 DEF SDP_READY
  <2>3. ASSUME NEW k \in Consumers, Unasked(k)' PROVE Unheard(k)'
    BY <2>1, <2>2, <2>3, <1>1, <1>3 DEF Heard, Unheard
  <2>4. ASSUME NEW k \in Consumers, pc'[k] \in Served PROVE HeardFor(k)'
    BY <2>1, <2>2, <2>4, <1>1, <1>3 DEF Heard, HeardFor
  <2>5. \A e \in Conns : pc'[e] \in {"find", "fill"} => e \in Cams /\ job'[e].svc = ServiceOf[e]
    BY <2>1, <2>2, <1>1 DEF Heard
  <2>6. \A k \in Consumers : pc'[k] \in {"clear", "slot"} => k \notin answered'
    BY <1>1, <1>2 DEF Heard, Conns
  <2> QED
    BY <2>3, <2>4, <2>5, <2>6 DEF Heard
<1> QED
  BY <1>4, <1>5, <1>6

\* InstallSlot: a request that finds its service free has it to itself.
LEMMA AloneInstall ==
    ASSUME Types, InHand, OwnNumbers, Heard, Alone, NEW c \in Conns, RequestStep(c)
    PROVE  Alone'
<1> USE JuiceAssumption DEF Types, TypeOK
<1>1. /\ c \in Consumers /\ pc[c] = "slot" /\ pc' = [pc EXCEPT ![c] = "forward"]
      /\ job[c].svc \in Services
      /\ UNCHANGED <<job, connects, gathered>>
      /\ pending' = [pending EXCEPT ![job[c].svc] = c] /\ slot' = [slot EXCEPT ![c] = EmptySlot]
  BY DEF RequestStep, InstallSlot, Steps, InHand, cameras
<1>2. ASSUME NEW k \in Consumers \ shared', pc'[k] \in Served PROVE AloneFor(k)'
  <2>1. k \in Conns
    BY DEF Conns
  <2>2. CASE k = c
    <3>1. Rivals(c, job[c].svc) = {} /\ Late(c, job[c].svc) = {}
      BY <1>2, <2>2 DEF RequestStep, InstallSlot
    <3>2. Unheard(c)
      BY <1>1 DEF Heard, Unasked, Served
    <3>3. \A j \in Consumers \ {c} : pc[j] \in Served => job[j].svc # job[c].svc
      BY <3>1 DEF Rivals, Requesting, Served
    <3>4. \A d \in Cams : ServiceOf[d] = job[c].svc => connects[d] = {}
      <4>1. \A d \in Cams : ServiceOf[d] = job[c].svc => \A j \in Consumers \ {c} : j \notin connects[d]
        BY <3>1 DEF Late
      <4>2. \A d \in Cams : c \notin connects[d]
        BY <3>2 DEF Unheard, Conns
      <4>3. \A d \in Cams : connects[d] \subseteq Consumers
        BY DEF Conns
      <4> QED
        BY <4>1, <4>2, <4>3
    <3>5. ASSUME NEW e \in Conns, pc[e] \in {"find", "fill"} PROVE job[e].svc # job[c].svc
      <4>1. e \in Cams /\ job[e].svc = ServiceOf[e]
        BY <3>5 DEF Heard
      <4>2. job[e].sdp \in Consumers \ {c}
        BY <3>2, <3>5 DEF Unheard, InHand
      <4> QED
        BY <3>1, <3>5, <4>1, <4>2 DEF Late
    <3>6. \A e \in Conns : pc'[e] \in {"find", "fill"} => pc[e] \in {"find", "fill"}
      BY <1>1
    <3>7. \A e \in Conns : pc'[e] = "fill" => pc[e] = "fill"
      BY <1>1
    <3>8. slot'[c] = EmptySlot /\ slot'[c].ready = FALSE
      BY <1>1 DEF EmptySlot
    <3>9. c \notin gathered /\ pc'[c] = "forward" /\ pending'[job[c].svc] = c
      BY <1>1, <3>2 DEF Unheard
    <3>10. \A j \in Consumers \ {c} : pc'[j] \in Served => job'[j].svc # job'[c].svc
      BY <1>1, <3>3 DEF Conns
    <3>11. \A d \in Cams : ServiceOf[d] = job'[c].svc => connects'[d] \subseteq {c}
      BY <1>1, <3>4
    <3>12. \A e \in Conns : pc'[e] \in {"find", "fill"} => job'[e].svc # job'[c].svc /\ job'[e].sdp # c
      BY <1>1, <3>2, <3>5, <3>6 DEF Unheard
    <3>13. \A e \in Conns : pc'[e] = "fill" => job'[e].conn # c
      BY <1>1, <3>2, <3>7 DEF Unheard
    <3> QED
      BY <2>2, <1>1, <3>8, <3>9, <3>10, <3>11, <3>12, <3>13 DEF AloneFor
  <2>3. CASE k # c
    <3>1. pc'[k] = pc[k] /\ slot'[k] = slot[k]
      BY <1>1, <2>1, <2>3
    <3>2. k \notin shared /\ k \notin Rivals(c, job[c].svc)
      BY <1>2 DEF RequestStep, InstallSlot
    <3>3. AloneFor(k)
      BY <1>2, <3>1, <3>2 DEF Alone
    <3>4. job[k].svc # job[c].svc
      BY <1>2, <2>3, <3>1, <3>2 DEF Rivals, Requesting, Served
    <3>5. pending'[job[k].svc] = pending[job[k].svc]
      BY <1>1, <3>4
    <3>6. \A e \in Conns : pc'[e] = pc[e] \/ (e = c /\ pc'[e] = "forward")
      BY <1>1
    <3> QED
      BY <1>1, <3>1, <3>3, <3>4, <3>5, <3>6 DEF AloneFor, Conns
  <2> QED
    BY <2>2, <2>3
<1> QED
  BY <1>2 DEF Alone

\* The other steps of a request keep Alone.
LEMMA AloneRequest ==
    ASSUME Types, InHand, OwnNumbers, Heard, Alone, NEW c \in Conns,
           \/ \E s \in Listed : REQUEST(c, c, s)
           \/ ClearConsumer(c) \/ Forward(c) \/ ForwardFails(c) \/ EraseStale(c)
           \/ WaitEnds(c) \/ RemoveSlot(c) \/ Reply(c)
    PROVE  Alone'
<1> USE JuiceAssumption DEF Types, TypeOK
<1>1. ~RequestStep(c)
  BY DEF RequestStep, InstallSlot, REQUEST, Hears, ClearConsumer, Forward, ForwardFails, EraseStale,
         WaitEnds, RemoveSlot, Reply, Steps
<1>2. /\ \A e \in Conns \ {c} : pc'[e] = pc[e] /\ job'[e] = job[e]
      /\ pc[c] \notin {"find", "fill"} /\ pc'[c] \notin {"find", "fill"}
      /\ pc'[c] \in Served => /\ c \in Consumers /\ job'[c].svc = job[c].svc
                              /\ pc[c] \in Served
      /\ gathered' \subseteq gathered
      /\ Forward(c) \/ connects' = connects
  BY <1>1, RequestEffects
<1>3. ASSUME NEW k \in Consumers \ shared', pc'[k] \in Served PROVE AloneFor(k)'
  <2>1. k \in Conns /\ job'[k].svc = job[k].svc /\ pc[k] \in Served
    BY <1>2, <1>3 DEF Conns
  <2>2. k \notin shared /\ slot'[k] = slot[k]
    <3>1. CASE EraseStale(c) \/ Reply(c)
      <4>1. c # k
        BY <1>3, <3>1, <2>1 DEF EraseStale, Reply, GoRecv, Served
      <4>2. slot' = [slot EXCEPT ![c] = EmptySlot] /\ shared' = shared \ {c}
        BY <3>1 DEF EraseStale, Reply, Forget
      <4> QED
        BY <4>1, <4>2, <1>3
    <3>2. CASE ~EraseStale(c) /\ ~Reply(c)
      <4>1. shared' = shared /\ slot' = slot
        BY <3>2 DEF REQUEST, ClearConsumer, Forward, ForwardFails, WaitEnds, RemoveSlot, tables, ghosts
      <4> QED
        BY <4>1, <1>3
    <3> QED
      BY <3>1, <3>2
  <2>3. AloneFor(k)
    BY <2>1, <2>2 DEF Alone
  <2>4. pc[c] \in Served /\ c # k => c \in Consumers /\ job[c].svc # job[k].svc
    BY <2>3 DEF AloneFor, InHand
  <2>5. \A j \in Consumers \ {k} : pc'[j] \in Served => job'[j].svc # job'[k].svc
    <3> SUFFICES ASSUME NEW j \in Consumers \ {k}, pc'[j] \in Served
                 PROVE  job'[j].svc # job[k].svc
      BY <2>1
    <3>1. j \in Conns /\ pc[j] \in Served /\ job'[j].svc = job[j].svc
      BY <1>2 DEF Conns
    <3> QED
      BY <3>1, <2>3 DEF AloneFor
  <2>6. \A d \in Cams : ServiceOf[d] = job'[k].svc => connects'[d] \subseteq {k}
    <3>1. CASE Forward(c)
      <4>1. PICK d \in Cams : /\ ServiceOf[d] = job[c].svc
                              /\ connects' = [connects EXCEPT ![d] = @ \union {c}]
        BY <3>1, ForwardReaches
      <4>2. pc[c] \in Served
        BY <3>1 DEF Forward, Steps, Served
      <4>3. c = k \/ ServiceOf[d] # job[k].svc
        BY <4>1, <4>2, <2>4
      <4>4. d \in Conns
        BY DEF Conns
      <4>5. connects'[d] = connects[d] \union {c} /\ \A e \in Cams \ {d} : connects'[e] = connects[e]
        BY <4>1, <4>4 DEF Conns
      <4> QED
        BY <4>3, <4>5, <2>1, <2>3 DEF AloneFor
    <3>2. CASE ~Forward(c)
      BY <3>2, <2>1, <2>3, <1>2 DEF AloneFor
    <3> QED
      BY <3>1, <3>2
  <2>7. pc'[k] \in {"forward", "wait"} =>
          pc[k] \in {"forward", "wait"} /\ pending'[job[k].svc] = pending[job[k].svc]
    <3>1. CASE ForwardFails(c) \/ RemoveSlot(c)
      <4>1. /\ pc[c] \in Served /\ pc'[c] \notin {"forward", "wait"}
            /\ pending' = [pending EXCEPT ![job[c].svc] = None]
        BY <3>1 DEF ForwardFails, RemoveSlot, Steps, Served
      <4>2. CASE c = k
        BY <4>1, <4>2
      <4>3. CASE c # k
        <5>1. job[c].svc # job[k].svc /\ pc'[k] = pc[k]
          BY <4>1, <4>3, <2>1, <2>4, <1>2
        <5>2. job[k].svc \in Services
          BY <2>1 DEF InHand
        <5> QED
          BY <5>1, <5>2, <4>1
      <4> QED
        BY <4>2, <4>3
    <3>2. CASE ~ForwardFails(c) /\ ~RemoveSlot(c)
      <4>1. pending' = pending
        BY <3>2 DEF REQUEST, ClearConsumer, Forward, EraseStale, WaitEnds, Reply, tables
      <4>2. pc'[k] \in {"forward", "wait"} => pc[k] \in {"forward", "wait"}
        <5>1. CASE k # c
          BY <5>1, <2>1, <1>2
        <5>2. CASE k = c
          BY <3>2, <5>2, <2>1
             DEF REQUEST, ClearConsumer, Forward, EraseStale, WaitEnds, Reply, Steps, GoRecv, Hears, Served
        <5> QED
          BY <5>1, <5>2
      <4> QED
        BY <4>1, <4>2
    <3> QED
      BY <3>1, <3>2
  <2>8. pc'[k] \in {"unslot", "reply"} /\ k \in gathered' => job'[k].sdp = k
    <3>1. CASE WaitEnds(c) /\ c = k
      <4>1. pc[k] = "wait" /\ k \in gathered => slot[k].ready /\ slot[k].sdp = k
        BY <2>3 DEF AloneFor
      <4>2. pc[k] = "wait" /\ gathered' = gathered
        BY <3>1 DEF WaitEnds, Steps, ghosts
      <4>3. slot[k].ready => job'[k].sdp = slot[k].sdp
        BY <3>1, <2>1 DEF WaitEnds, Job
      <4> QED
        BY <4>1, <4>2, <4>3
    <3>2. CASE c # k
      BY <3>2, <2>1, <2>3, <1>2 DEF AloneFor
    <3>3. CASE c = k /\ ~WaitEnds(c)
      <4>1. pc'[k] \in {"unslot", "reply"} => pc[k] \in {"unslot", "reply"} /\ job'[k] = job[k]
        BY <3>3, <2>1 DEF REQUEST, ClearConsumer, Forward, ForwardFails, EraseStale, RemoveSlot, Reply,
                          Steps, GoRecv, Hears, Served
      <4> QED
        BY <4>1, <2>3, <1>2 DEF AloneFor
    <3> QED
      BY <3>1, <3>2, <3>3
  <2>9. \A e \in Conns : pc'[e] \in {"find", "fill"} => pc'[e] = pc[e] /\ job'[e] = job[e]
    BY <1>2
  <2> QED
    BY <2>1, <2>2, <2>3, <2>5, <2>6, <2>7, <2>8, <2>9, <1>2 DEF AloneFor
<1> QED
  BY <1>3 DEF Alone

\* The steps of an SDP keep Alone.
LEMMA AloneSdp ==
    ASSUME Types, InHand, OwnNumbers, Heard, Alone, NEW c \in Conns,
           FindPending(c) \/ FillSlot(c) \/ \E k \in Consumers : SDP_READY(c, c, k)
    PROVE  Alone'
<1> USE JuiceAssumption DEF Types, TypeOK
<1>1. /\ \A e \in Conns \ {c} : pc'[e] = pc[e] /\ job'[e] = job[e]
      /\ UNCHANGED <<pending, shared>>
  BY Started DEF HandlerStep, MessageOf, FindPending, FillSlot, SDP_READY, tables, ghosts
<1>2. pc[c] \notin Served /\ pc'[c] \notin Served
  BY DEF FindPending, FillSlot, SDP_READY, Steps, GoRecv, Served, Hears
<1>3. ASSUME NEW k \in Consumers \ shared', pc'[k] \in Served PROVE AloneFor(k)'
  <2>1. k \in Conns /\ k # c /\ pc'[k] = pc[k] /\ job'[k] = job[k] /\ pc[k] \in Served /\ k \notin shared
    BY <1>1, <1>2, <1>3 DEF Conns
  <2>2. AloneFor(k) /\ HeardFor(k)
    BY <2>1 DEF Alone, Heard
  <2>3. \A j \in Consumers \ {k} : pc'[j] \in Served => job'[j].svc # job'[k].svc
    BY <2>1, <2>2, <1>1, <1>2 DEF AloneFor, Conns
  <2>4. CASE FindPending(c)
    <3>1. /\ pc[c] = "find" /\ pc'[c] = "fill" /\ UNCHANGED <<connects, gathered, slot>>
          /\ job'[c].svc = job[c].svc /\ job'[c].sdp = job[c].sdp
          /\ job'[c].conn = pending[job[c].svc] /\ job[c].svc \in Services
      BY <2>4 DEF FindPending, Steps, Job, cameras, ghosts, InHand, tables
    <3>2. pc[k] \in {"forward", "wait"} /\ job[c].sdp = k => job'[c].conn = k
      BY <3>1, <2>2 DEF AloneFor, HeardFor
    <3>3. job'[c].conn = k => job'[c].svc = job[k].svc
      BY <3>1, <2>2 DEF HeardFor
    <3>4. \A e \in Conns \ {c} : pc'[e] \in {"find", "fill"} => pc'[e] = pc[e] /\ job'[e] = job[e]
      BY <1>1
    <3>5. /\ \A e \in Conns : pc'[e] \in {"find", "fill"} /\ job'[e].svc = job[k].svc => job'[e].sdp = k
          /\ \A e \in Conns : pc'[e] = "fill" /\ job'[e].conn = k => job'[e].svc = job[k].svc
      BY <2>2, <3>1, <3>3, <3>4 DEF AloneFor
    <3>6. pc[k] \in {"forward", "wait"}
            => \A e \in Conns : pc'[e] = "fill" /\ job'[e].sdp = k => job'[e].conn = k
      BY <2>2, <3>1, <3>2, <3>4 DEF AloneFor
    <3> QED
      BY <2>1, <2>2, <2>3, <3>1, <3>5, <3>6, <1>1 DEF AloneFor
  <2>5. CASE FillSlot(c)
    <3>1. /\ pc[c] = "fill" /\ pc'[c] = "recv" /\ connects' = connects
          /\ k \in gathered' => k \in gathered \/ (k = job[c].sdp /\ pc[k] \in {"forward", "wait"})
      BY <2>5 DEF FillSlot, GoRecv, cameras
    <3>2. job[c].conn # k => slot'[k] = slot[k]
      BY <2>5 DEF FillSlot
    <3>3. job[c].conn = k => slot'[k].ready /\ slot'[k].sdp = k
      <4>1. job[c].conn = k => job[c].sdp = k
        BY <3>1, <2>2 DEF AloneFor
      <4>2. k # None
        BY <2>1
      <4>3. job[c].conn = k => slot'[k] = [ready |-> TRUE, sdp |-> job[c].sdp]
        BY <2>5, <4>2 DEF FillSlot
      <4> QED
        BY <4>1, <4>3
    <3>4. k \in gathered' /\ pc[k] \in {"forward", "wait"} => slot'[k].ready
      <4>1. k \in gathered /\ pc[k] \in {"forward", "wait"} => slot'[k].ready
        BY <2>2, <3>2, <3>3 DEF AloneFor
      <4>2. k = job[c].sdp /\ pc[k] \in {"forward", "wait"} => job[c].conn = k
        BY <2>2, <3>1 DEF AloneFor
      <4> QED
        BY <3>1, <3>3, <4>1, <4>2
    <3>5. slot'[k].ready => slot'[k].sdp = k
      BY <2>2, <3>2, <3>3 DEF AloneFor
    <3>6. pc[k] \in {"unslot", "reply"} /\ k \in gathered' => job[k].sdp = k
      BY <2>2, <3>1 DEF AloneFor
    <3>7. \A e \in Conns : pc'[e] \in {"find", "fill"} => pc'[e] = pc[e] /\ job'[e] = job[e]
      BY <3>1, <1>1
    <3> QED
      BY <2>1, <2>2, <2>3, <3>1, <3>4, <3>5, <3>6, <3>7, <1>1 DEF AloneFor
  <2>6. ASSUME NEW j \in Consumers, SDP_READY(c, c, j) PROVE AloneFor(k)'
    <3>1. /\ pc'[c] = "find" /\ UNCHANGED <<gathered, slot>> /\ c \in Cams /\ j \in connects[c]
      <4>1. pc'[c] = "find"
        <5>1. pc' = [pc EXCEPT ![c] = "find"] /\ pc \in [Conns -> Places]
          BY <2>6 DEF SDP_READY, Steps
        <5> QED
          BY <5>1
      <4>2. UNCHANGED <<gathered, slot>> /\ c \in Cams /\ j \in connects[c]
        BY <2>6 DEF SDP_READY, ghosts
      <4> QED
        BY <4>1, <4>2
    <3>2. connects' = [connects EXCEPT ![c] = @ \ {j}]
      BY <2>6 DEF SDP_READY
    <3>3. \A d \in Conns : connects'[d] \subseteq connects[d]
      BY <3>2
    <3>4. job'[c].svc = ServiceOf[c] /\ job'[c].sdp = j
      <4>1. LET x == [NoJob EXCEPT !.svc = ServiceOf[c], !.sdp = j] IN x.svc = ServiceOf[c] /\ x.sdp = j
        BY DEF NoJob
      <4> QED
        BY <4>1, <2>6 DEF SDP_READY
    <3>5. job'[c].svc = job[k].svc => job'[c].sdp = k
      BY <2>2, <3>1, <3>4 DEF AloneFor
    <3>6. \A d \in Cams : ServiceOf[d] = job'[k].svc => connects'[d] \subseteq {k}
      BY <2>1, <2>2, <3>3 DEF AloneFor, Conns
    <3> QED
      BY <2>1, <2>2, <2>3, <3>1, <3>5, <3>6, <1>1 DEF AloneFor
  <2> QED
    BY <2>4, <2>5, <2>6
<1> QED
  BY <1>3 DEF Alone

\* REQUEST, SDP_READY and the pending slots: a request that shares its service
\* with no other answers with the SDP the camera gathered for it, for any
\* number of cameras and consumers, and for descriptor numbers used again as long
\* as nobody uses them still.
THEOREM AloneFresh == Spec /\ [][KeepsApart]_vars => []AloneIsFresh
<1>1. Init => OwnNumbers /\ Heard /\ Alone
  <2> SUFFICES ASSUME Init PROVE OwnNumbers /\ Heard /\ Alone
    OBVIOUS
  <2>1. OwnNumbers
    BY JuiceAssumption DEF Init, OwnNumbers, Listed, Served, Copied, Live
  <2>2. \A k \in Consumers : Unheard(k)
    BY JuiceAssumption DEF Init, Unheard, Conns
  <2>3. Heard /\ Alone
    BY <2>2 DEF Init, Heard, Alone, Served, Conns
  <2> QED
    BY <2>1, <2>3
<1>2. BaseInv /\ OwnNumbers /\ Heard /\ Alone /\ [Next]_<<roles, vars>> /\ [KeepsApart]_vars
        => (OwnNumbers /\ Heard /\ Alone)'
  <2> SUFFICES ASSUME BaseInv, OwnNumbers, Heard, Alone, [Next]_<<roles, vars>>, KeepsApart
               PROVE  (OwnNumbers /\ Heard /\ Alone)'
    BY StutterKeepsApart
  <2> USE DEF BaseInv
  <2>1. CASE UNCHANGED <<roles, vars>>
    <3>1. UNCHANGED <<pc, at, job, file, sock, subs, providers>>
      BY <2>1 DEF vars, net, threads, tables
    <3>2. UNCHANGED <<pending, slot, connects, gathered, shared, answered>>
      BY <2>1 DEF vars, tables, cameras, ghosts
    <3>3. OwnNumbers'
      BY <3>1 DEF OwnNumbers, Listed, Live
    <3> QED
      BY <3>1, <3>2, <3>3, RequestsFrame
  <2>2. CASE Next
    <3>1. OwnNumbers'
      BY <2>2, OwnNumbersStep DEF Next
    <3>2. CASE MonitorStep
      <4>1. UNCHANGED <<pc, job>>
        BY <3>2 DEF MonitorStep, Collect, SendPings, Count, DropStale, CloseStale, threads
      <4>2. UNCHANGED <<pending, slot, connects, gathered, shared, answered>>
        BY <3>2 DEF MonitorStep, Collect, SendPings, Count, DropStale, CloseStale, tables, cameras, ghosts
      <4> QED
        BY <3>1, <4>1, <4>2, RequestsFrame
    <3>3. ASSUME NEW c \in Conns, NEW d \in Conns, MessageOf(c, d) PROVE Heard' /\ Alone'
      <4>1. d = c
        BY <3>3 DEF MessageOf, REGISTER, PONG, PROVIDER_DISCONNECTED, SUBSCRIBE, REQUEST, SDP_READY,
                    Hears, OwnNumbers
      <4>2. CASE \/ REGISTER(c, d) \/ PONG(c, d) \/ PROVIDER_DISCONNECTED(c, d) \/ SUBSCRIBE(c, d)
                 \/ \E s \in Services \ Listed : REQUEST(c, d, s)
        BY <4>2, RequestsUndisturbed
      <4>3. CASE \E s \in Listed : REQUEST(c, c, s)
        BY <4>3, HeardRequest, AloneRequest
      <4>4. CASE \E k \in Consumers : SDP_READY(c, c, k)
        BY <4>4, HeardSdp, AloneSdp
      <4> QED
        BY <3>3, <4>1, <4>2, <4>3, <4>4 DEF MessageOf
    <3>4. ASSUME NEW c \in Conns,
                 \/ Accept(c) \/ PeerChanges(c, "silent") \/ PeerChanges(c, "gone")
                 \/ ListSent(c) \/ HandlerStep(c) \/ RequestStep(c)
          PROVE  Heard' /\ Alone'
      <4>1. CASE RequestStep(c)
        BY <4>1, HeardRequest, AloneInstall
      <4>2. CASE FindPending(c) \/ FillSlot(c)
        BY <4>2, HeardSdp, AloneSdp
      <4>3. CASE \/ ClearConsumer(c) \/ Forward(c) \/ ForwardFails(c) \/ EraseStale(c)
                 \/ WaitEnds(c) \/ RemoveSlot(c) \/ Reply(c)
        BY <4>3, HeardRequest, AloneRequest
      <4>4. CASE \/ Accept(c) \/ PeerChanges(c, "silent") \/ PeerChanges(c, "gone")
                 \/ Insert(c) \/ CopySubscribers(c) \/ NotifySend(c) \/ NotifyDrop(c) \/ List(c)
                 \/ ListSent(c) \/ RecvFails(c) \/ Unsubscribe(c) \/ Unlist(c) \/ Close(c)
        BY <4>4, RequestsUndisturbed
      <4> QED
        BY <3>4, <4>1, <4>2, <4>3, <4>4 DEF HandlerStep
    <3> QED
      BY <2>2, <3>1, <3>2, <3>3, <3>4 DEF Next, Step, Message, MessageOf
  <2> QED
    BY <2>1, <2>2
<1>3. Alone => AloneIsFresh
  BY DEF Alone, AloneFor, AloneIsFresh, Served
<1> QED
  BY <1>1, <1>2, <1>3, BaseInvariance, PTL DEF Spec
=============================================================================
