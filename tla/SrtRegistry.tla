---------------------------- MODULE SrtRegistry ----------------------------
(***************************************************************************)
(* The SRT half of the signaling server                                    *)
(* (src/signaling-server/signaling_server.cpp): the accept loop, one       *)
(* handle_client thread per connection, and the srt_providers registry     *)
(* those threads share under srt_registry_mutex.                           *)
(*                                                                         *)
(* A connection and its thread are one identity; the thread knows its      *)
(* connection only by the descriptor number accept returned, and so do the *)
(* registry and the threads that copied an entry.  file is the process's   *)
(* descriptor table: a number that was closed can name another connection  *)
(* by the time somebody uses it.  An entry also records the connection     *)
(* that made it (conn), which the code does not keep: it is there for the  *)
(* properties.                                                             *)
(*                                                                         *)
(* The server of this module has SRT clients only.  Libjuice providers and *)
(* subscribers share the descriptor table with them, and the ping monitor  *)
(* and notify_subscribers close the descriptors of those, which this       *)
(* module does not describe.                                               *)
(***************************************************************************)
CONSTANTS
    Conns,      \* connections, and their handler threads
    Fds,        \* descriptor numbers
    Cameras,    \* cameras, named by their service_id
    Viewers,
    Addrs,      \* public addresses cameras register
    None

ASSUME RegistryAssumption ==
    /\ None \notin Conns /\ None \notin Fds /\ None \notin Addrs
    /\ None \notin Cameras \union Viewers
    /\ Cameras \intersect Viewers = {}

VARIABLES
    file,          \* descriptor table: the connection a number names
    pc,            \* where each handler thread is
    client,        \* who is at the other end
    link,          \* whether that end is still there
    sock,          \* client_socket, the thread's copy of its number
    srtProviders,  \* srt_providers, None where a service has no entry
    job,           \* the entry an SRT_REQUEST copied
    registered     \* the connections an SRT_REGISTER was accepted on

vars == <<file, pc, client, link, sock, srtProviders, job, registered>>

Entry == [fd : Fds, addr : Addrs, conn : Conns, consumer : {"none", "seen"}]

NoJob == [service |-> None, fd |-> None, addr |-> None]

Job == {NoJob} \union [service : Cameras, fd : Fds, addr : Addrs]

Running(c) == pc[c] # "none"

\* Every variable has its type.
RegistryTypeOK ==
    /\ file \in [Fds -> Conns \union {None}]
    /\ pc \in [Conns -> {"none", "recv", "mark", "send", "reply", "erase", "cleanup", "close"}]
    /\ client \in [Conns -> Cameras \union Viewers \union {None}]
    /\ link \in [Conns -> {"none", "up", "dead"}]
    /\ sock \in [Conns -> Fds \union {None}]
    /\ srtProviders \in [Cameras -> Entry \union {None}]
    /\ job \in [Conns -> Job]
    /\ registered \in SUBSET Conns

Init ==
    /\ file = [f \in Fds |-> None]
    /\ pc = [c \in Conns |-> "none"]
    /\ client = [c \in Conns |-> None]
    /\ link = [c \in Conns |-> "none"]
    /\ sock = [c \in Conns |-> None]
    /\ srtProviders = [s \in Cameras |-> None]
    /\ job = [c \in Conns |-> NoJob]
    /\ registered = {}

-----------------------------------------------------------------------------
(***************************************************************************)
(* Connections.                                                            *)
(***************************************************************************)

\* A camera has closed its old connection when it opens another; the server
\* may not have noticed yet.
MayConnect(who) == \A c \in Conns : client[c] = who => link[c] = "dead"

\* The accept loop: any free number, and a detached thread for it.
Accept(c, f, who) ==
    /\ ~Running(c)
    /\ file[f] = None
    /\ MayConnect(who)
    /\ file' = [file EXCEPT ![f] = c]
    /\ sock' = [sock EXCEPT ![c] = f]
    /\ client' = [client EXCEPT ![c] = who]
    /\ link' = [link EXCEPT ![c] = "up"]
    /\ pc' = [pc EXCEPT ![c] = "recv"]
    /\ UNCHANGED <<srtProviders, job, registered>>

\* The other end closes, crashes or becomes unreachable.
PeerGone(c) ==
    /\ link[c] = "up"
    /\ link' = [link EXCEPT ![c] = "dead"]
    /\ UNCHANGED <<file, pc, client, sock, srtProviders, job, registered>>

\* Faulty variant: the failed read is tried again.
RecvFails_Retries(c) ==
    /\ pc[c] = "recv"
    /\ link[c] = "dead"
    /\ UNCHANGED vars

\* recv_message fails: end of file, an error, or the TCP keep-alive.
RecvFails(c) ==
    /\ pc[c] = "recv"
    /\ link[c] = "dead"
    /\ pc' = [pc EXCEPT ![c] = "cleanup"]
    /\ UNCHANGED <<file, client, link, sock, srtProviders, job, registered>>

\* A message longer than 64 KB or a wrong API token: the loop is left.
Refused(c) ==
    /\ pc[c] = "recv"
    /\ pc' = [pc EXCEPT ![c] = "cleanup"]
    /\ UNCHANGED <<file, client, link, sock, srtProviders, job, registered>>

Others(c) == [s \in Cameras |-> IF srtProviders[s] # None /\ srtProviders[s].fd = sock[c]
                                THEN None
                                ELSE srtProviders[s]]

\* Faulty variants: nothing is removed; what the same client registered is.
Cleanup_KeepsEntries(c) ==
    /\ pc[c] = "cleanup"
    /\ pc' = [pc EXCEPT ![c] = "close"]
    /\ UNCHANGED <<file, client, link, sock, srtProviders, job, registered>>

Cleanup_ByService(c) ==
    /\ pc[c] = "cleanup"
    /\ srtProviders' = [s \in Cameras |-> IF s = client[c] THEN None ELSE srtProviders[s]]
    /\ pc' = [pc EXCEPT ![c] = "close"]
    /\ UNCHANGED <<file, client, link, sock, job, registered>>

\* The end of handle_client: drop the entries of this descriptor ...
Cleanup(c) ==
    /\ pc[c] = "cleanup"
    /\ srtProviders' = Others(c)
    /\ pc' = [pc EXCEPT ![c] = "close"]
    /\ UNCHANGED <<file, client, link, sock, job, registered>>

\* ... and close it.  close() takes whatever the number names.
Close(c) ==
    /\ pc[c] = "close"
    /\ file' = [file EXCEPT ![sock[c]] = None]
    /\ pc' = [pc EXCEPT ![c] = "none"]
    /\ sock' = [sock EXCEPT ![c] = None]
    /\ client' = [client EXCEPT ![c] = None]
    /\ link' = [link EXCEPT ![c] = "none"]
    /\ registered' = registered \ {c}
    /\ UNCHANGED <<srtProviders, job>>

-----------------------------------------------------------------------------
(***************************************************************************)
(* Messages.                                                               *)
(***************************************************************************)

\* SRT_REGISTER, the first one and every later one on the same connection: a
\* new entry in place of the old.  The acknowledgement's result is ignored.
SRT_REGISTER(c, addr) ==
    /\ pc[c] = "recv"
    /\ client[c] \in Cameras
    /\ srtProviders' = [srtProviders EXCEPT ![client[c]] =
                            [fd |-> sock[c], addr |-> addr, conn |-> c, consumer |-> "none"]]
    /\ registered' = registered \union {c}
    /\ UNCHANGED <<file, pc, client, link, sock, job>>

\* SRT_REQUEST: the entry is copied under the lock.  A request for a service
\* without one is answered with an error, which changes nothing.
SRT_REQUEST(c, s) ==
    /\ pc[c] = "recv"
    /\ client[c] \in Viewers
    /\ srtProviders[s] # None
    /\ job' = [job EXCEPT ![c] = [service |-> s, fd |-> srtProviders[s].fd,
                                  addr |-> srtProviders[s].addr]]
    /\ pc' = [pc EXCEPT ![c] = "mark"]
    /\ UNCHANGED <<file, client, link, sock, srtProviders, registered>>

Seen(e) == [fd |-> e.fd, addr |-> e.addr, conn |-> e.conn, consumer |-> "seen"]

\* The dashboard's bookkeeping, in a second critical section.
MarkConsumer(c) ==
    /\ pc[c] = "mark"
    /\ LET s == job[c].service IN
          srtProviders' = [srtProviders EXCEPT ![s] =
                              IF srtProviders[s] = None THEN None ELSE Seen(srtProviders[s])]
    /\ pc' = [pc EXCEPT ![c] = "send"]
    /\ UNCHANGED <<file, client, link, sock, job, registered>>

\* SRT_PEER to the copied descriptor number, without a lock.  It fails when the
\* number names nothing or the other end is known to be gone; the first bytes
\* sent to an end that is gone still seem to be sent.
Reaches(f) == file[f] # None

PushPeerSucceeds(c) ==
    /\ pc[c] = "send"
    /\ Reaches(job[c].fd)
    /\ pc' = [pc EXCEPT ![c] = "reply"]
    /\ UNCHANGED <<file, client, link, sock, srtProviders, job, registered>>

PushPeerFails(c) ==
    /\ pc[c] = "send"
    /\ Reaches(job[c].fd) => link[file[job[c].fd]] = "dead"
    /\ pc' = [pc EXCEPT ![c] = "erase"]
    /\ UNCHANGED <<file, client, link, sock, srtProviders, job, registered>>

\* Faulty variant: the stale descriptor is closed as well.
EraseStale_AndCloses(c) ==
    /\ pc[c] = "erase"
    /\ srtProviders' = [srtProviders EXCEPT ![job[c].service] = None]
    /\ file' = [file EXCEPT ![job[c].fd] = None]
    /\ job' = [job EXCEPT ![c] = NoJob]
    /\ pc' = [pc EXCEPT ![c] = "recv"]
    /\ UNCHANGED <<client, link, sock, registered>>

\* The service is dropped from the registry, whatever entry it has by now, and
\* the viewer is told to try again.
EraseStale(c) ==
    /\ pc[c] = "erase"
    /\ srtProviders' = [srtProviders EXCEPT ![job[c].service] = None]
    /\ job' = [job EXCEPT ![c] = NoJob]
    /\ pc' = [pc EXCEPT ![c] = "recv"]
    /\ UNCHANGED <<file, client, link, sock, registered>>

\* SRT_PROVIDER with the copied address; the result is ignored.
ReplyProvider(c) ==
    /\ pc[c] = "reply"
    /\ job' = [job EXCEPT ![c] = NoJob]
    /\ pc' = [pc EXCEPT ![c] = "recv"]
    /\ UNCHANGED <<file, client, link, sock, srtProviders, registered>>

-----------------------------------------------------------------------------

\* What a thread does by itself, and what it does when a message arrives.
HandlerSteps(c) ==
    \/ RecvFails(c)
    \/ Cleanup(c)
    \/ Close(c)
    \/ MarkConsumer(c)
    \/ PushPeerSucceeds(c)
    \/ PushPeerFails(c)
    \/ EraseStale(c)
    \/ ReplyProvider(c)

Arrivals(c) ==
    \/ Refused(c)
    \/ \E addr \in Addrs : SRT_REGISTER(c, addr)
    \/ \E s \in Cameras : SRT_REQUEST(c, s)

Next ==
    \E c \in Conns :
        \/ HandlerSteps(c)
        \/ Arrivals(c)
        \/ PeerGone(c)
        \/ \E f \in Fds, who \in Cameras \union Viewers : Accept(c, f, who)

Spec == Init /\ [][Next]_vars

\* Threads run; the TCP keep-alive ends a read from an end that is gone.
FairSpec == Spec /\ \A c \in Conns : WF_vars(HandlerSteps(c))

-----------------------------------------------------------------------------
(***************************************************************************)
(* Properties.                                                             *)
(***************************************************************************)

\* A thread's descriptor number names its own connection until the thread
\* itself closes it: no close() of another thread can take it away, so no read,
\* send or close of this thread touches somebody else's connection.
OwnsItsSocket ==
    /\ \A c \in Conns : Running(c) => sock[c] \in Fds /\ file[sock[c]] = c
    /\ \A f \in Fds : file[f] # None => Running(file[f]) /\ sock[file[f]] = f

\* An entry of the registry names the open connection that registered it, one
\* whose thread has not yet cleaned up: a viewer is never sent to a camera
\* through a number that names nothing or somebody else at the time of the look-up.
EntriesAreOpen ==
    \A s \in Cameras : srtProviders[s] # None =>
        LET e == srtProviders[s] IN
            /\ file[e.fd] = e.conn
            /\ client[e.conn] = s
            /\ e.conn \in registered
            /\ pc[e.conn] # "close"

\* The clean-up of a connection never removes what a newer connection of the
\* same camera registered.
CleanupKeepsNewer ==
    [][\A c \in Conns, s \in Cameras :
          pc[c] = "cleanup" /\ pc'[c] = "close"
              /\ srtProviders[s] # None /\ srtProviders'[s] = None
          => srtProviders[s].conn = c]_vars

\* The entry a failed SRT_PEER removes is that of a connection that has gone
\* stale (the comment at signaling_server.cpp:1687-1689): a camera whose
\* connection is up is not taken out of the registry.
ErasedIsStale ==
    [][\A c \in Conns :
          pc[c] = "erase" /\ pc'[c] = "recv" /\ srtProviders[job[c].service] # None
          => link[srtProviders[job[c].service].conn] = "dead"]_vars

\* A camera that is gone does not stay in the registry.
GoneIsUnlisted ==
    \A s \in Cameras, c \in Conns :
        (srtProviders[s] # None /\ srtProviders[s].conn = c /\ link[c] = "dead")
            ~> (srtProviders[s] = None \/ srtProviders[s].conn # c \/ link[c] # "dead")

=============================================================================
