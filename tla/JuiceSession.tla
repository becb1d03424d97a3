---------------------------- MODULE JuiceSession ----------------------------
(***************************************************************************)
(* One camera session of the legacy libjuice programs, end to end: the     *)
(* consumer's session with its ICE agent, keep-alive and reconnect monitor *)
(* (_legacy_libjuice_consumer_api.c), the provider that rebuilds its agent *)
(* for every CONSUMER_CONNECT it does not ignore                           *)
(* (_legacy_libjuice_provider_configurable.c), and the REQUEST handler of  *)
(* the signaling server between them.                                      *)
(*                                                                         *)
(* Time passes in periods of five seconds: the monitor wakes once in each, *)
(* the keep-alive thread sends one PING.  An ICE agent is a number; it     *)
(* stands for the agent's credentials, so the two ends belong together     *)
(* when the provider's remote description is the consumer's agent.         *)
(***************************************************************************)
EXTENDS Naturals, Sequences, FiniteSets

CONSTANTS
    Agents,      \* names for the consumer's ICE agents, reused
    MaxExp,      \* 3: the exponent at which the backoff stops growing
    Debounce,    \* 15 s in the provider: periods in which a CONSUMER_CONNECT is a duplicate
    PongPeriods, \* PONG_TIMEOUT in periods
    Strikes,     \* PONG_TIMEOUT_STRIKES
    Lag,         \* periods the provider's loop may leave a message unread
    MaxMishaps   \* bound: how often something breaks, comes at an unlucky moment,
                 \* or a relayed session is renewed

ASSUME SessionAssumption ==
    /\ IsFiniteSet(Agents) /\ Agents # {} /\ Agents \subseteq Nat \ {0}
    /\ MaxExp \in Nat /\ Debounce \in Nat /\ PongPeriods \in Nat
    /\ Strikes \in Nat \ {0} /\ Lag \in Nat /\ MaxMishaps \in Nat

VARIABLES
    cam,      \* camera_session_t
    agents,   \* [Agents -> state of the ICE agent]
    thr,      \* the monitor thread and a thread of the HTTP API
    sig,      \* the consumer's signaling socket works
    reply,    \* what the server has for the request in progress
    inbox,    \* CONSUMER_CONNECTs on their way to the provider
    prov,     \* service_state_t
    path,     \* the network between the two ends works
    mishaps   \* how often something has broken so far

sessionVars == <<cam, agents, thr, sig, reply, inbox, prov, path, mishaps>>

None == 0
Threads == {"monitor", "api"}
Pow2(n) == 2 ^ n
LongAgo == Pow2(MaxExp)     \* no timer looks further back
Older(n, cap) == IF n < cap THEN n + 1 ELSE n

(* A session as allocate_camera_session leaves it. *)
NewSession == [active |-> TRUE, connected |-> FALSE, needs |-> FALSE, agent |-> None,
               attempts |-> 0, since |-> LongAgo, silent |-> 0, strikes |-> 0, turn |-> FALSE]
Idle == [at |-> "sleep", ag |-> None, again |-> FALSE, then |-> "sleep"]

(* A camera that streams: connect_to_camera has returned, both ends are up. *)
SessionInit ==
    LET g == CHOOSE a \in Agents : TRUE
    IN  /\ cam = [NewSession EXCEPT !.connected = TRUE, !.agent = g]
        /\ agents = [a \in Agents |-> IF a = g THEN "connected" ELSE "free"]
        /\ thr = [t \in Threads |-> Idle]
        /\ sig = TRUE /\ reply = "none" /\ inbox = <<>>
        /\ prov = [connected |-> TRUE, remote |-> g, had |-> TRUE,
                   since |-> Debounce + 1, agent |-> TRUE, registered |-> TRUE, unread |-> 0]
        /\ path = TRUE /\ mishaps = 0

Mishap == mishaps < MaxMishaps /\ mishaps' = mishaps + 1

-----------------------------------------------------------------------------
(* on_state_changed_camera: the session does not ask which agent reports. *)

(* CONNECTED or COMPLETED, over a relay or not. *)
NowConnected(relay) ==
    [cam EXCEPT !.connected = TRUE, !.turn = relay,
                !.needs    = IF cam.connected THEN @ ELSE FALSE,
                !.attempts = IF cam.connected THEN @ ELSE 0,
                !.silent   = IF cam.connected THEN @ ELSE 0,
                !.strikes  = IF cam.connected THEN @ ELSE 0]

NowFailed == [cam EXCEPT !.connected = FALSE, !.needs = TRUE, !.turn = FALSE]

(* DISCONNECTED: our own juice_destroy if the agent pointer is NULL. *)
NowDisconnected == [cam EXCEPT !.connected = FALSE, !.turn = FALSE,
                               !.needs = @ \/ cam.agent # None]

(* The two ends can reach each other with what they know of each other. *)
CanConnect(g) == path /\ prov.remote = g /\ agents[g] # "dead"

(* A report of an agent that is being destroyed needs an unlucky moment. *)
Reports(g) == IF g = cam.agent THEN UNCHANGED mishaps ELSE Mishap

IceConnects(g) ==
    /\ agents[g] = "checking" /\ CanConnect(g) /\ Reports(g)
    /\ agents' = [agents EXCEPT ![g] = "connected"]
    /\ \E relay \in BOOLEAN : cam' = NowConnected(relay)
    /\ UNCHANGED <<thr, sig, reply, inbox, prov, path>>

IceCompletes(g) ==
    /\ agents[g] = "connected" /\ Reports(g)
    /\ agents' = [agents EXCEPT ![g] = "completed"]
    /\ cam' = NowConnected(cam.turn)
    /\ UNCHANGED <<thr, sig, reply, inbox, prov, path>>

(* FAILED comes after more than thirty seconds of checks; by then the          *)
(* provider's loop, busy for Lag periods at the most, has read its messages.   *)
IceFails(g) ==
    /\ agents[g] = "checking" /\ ~CanConnect(g) /\ inbox = <<>> /\ Reports(g)
    /\ agents' = [agents EXCEPT ![g] = "failed"]
    /\ cam' = NowFailed
    /\ UNCHANGED <<thr, sig, reply, inbox, prov, path>>

-----------------------------------------------------------------------------
(* reconnect_monitor_func *)

(* Consent freshness is off: neither end's agent notices that the path died; *)
(* the PONGs do.  One period of PING, provider's PONG and the three timers.  *)
PongArrives ==
    /\ cam.connected /\ cam.agent # None /\ path
    /\ agents[cam.agent] \in {"connected", "completed"}
    /\ prov.connected /\ prov.remote = cam.agent

Tick ==
    /\ thr["monitor"].at \notin {"watch", "retry"}
    /\ inbox # <<>> => prov.unread < Lag
    /\ cam' = [cam EXCEPT !.since = Older(@, LongAgo),
                          !.silent = IF PongArrives THEN 0 ELSE Older(@, PongPeriods + 1),
                          !.strikes = IF PongArrives THEN 0 ELSE @]
    /\ prov' = [prov EXCEPT !.since = Older(@, Debounce + 1),
                            !.unread = IF inbox = <<>> THEN 0 ELSE Older(@, Lag)]
    /\ thr' = [thr EXCEPT !["monitor"].at = IF @ = "sleep" THEN "watch" ELSE @]
    /\ UNCHANGED <<agents, sig, reply, inbox, path, mishaps>>

(* The PONG watchdog, and the two timed jobs of a relayed session (the STUN *)
(* probe and the TURN refresh), which reset the backoff.  When they are due *)
(* is left open, how often is bounded.                                      *)
Silenced_Relayed ==    \* faulty variant: the watchdog guards relayed sessions only
    cam.active /\ cam.connected /\ cam.turn /\ ~cam.needs /\ cam.silent > PongPeriods
Silenced == cam.active /\ cam.connected /\ ~cam.needs /\ cam.silent > PongPeriods
Refresh == [cam EXCEPT !.needs = TRUE, !.attempts = 0, !.since = LongAgo]
MonitorWatches ==
    /\ thr["monitor"].at = "watch"
    /\ \/ /\ Silenced
          /\ cam' = IF cam.strikes + 1 >= Strikes
                    THEN [cam EXCEPT !.needs = TRUE, !.strikes = 0]
                    ELSE [cam EXCEPT !.strikes = @ + 1, !.silent = 0]
          /\ UNCHANGED mishaps
       \/ /\ cam.active /\ cam.connected /\ cam.turn /\ ~cam.needs /\ Mishap
          /\ cam' = Refresh
       \/ /\ ~Silenced /\ UNCHANGED <<cam, mishaps>>
    /\ thr' = [thr EXCEPT !["monitor"].at = IF cam.active THEN "retry" ELSE "sleep"]
    /\ UNCHANGED <<agents, sig, reply, inbox, prov, path>>

Backoff == Pow2(IF cam.attempts < MaxExp THEN cam.attempts ELSE MaxExp)

(* reconnect_camera_ice takes the agent away under the lock. *)
MonitorRetries ==
    /\ thr["monitor"].at = "retry"
    /\ IF cam.needs /\ cam.since >= Backoff
       THEN /\ cam' = [cam EXCEPT !.agent = None, !.connected = FALSE, !.needs = FALSE,
                                  !.attempts = Older(@, MaxExp), !.since = 0]
            /\ thr' = [thr EXCEPT !["monitor"] = [Idle EXCEPT !.at = "destroy", !.ag = cam.agent]]
       ELSE /\ thr' = [thr EXCEPT !["monitor"] = Idle]
            /\ UNCHANGED cam
    /\ UNCHANGED <<agents, sig, reply, inbox, prov, path, mishaps>>

(* juice_destroy outside the lock; it may report DISCONNECTED before it returns. *)
Without(g) == IF g = None THEN agents ELSE [agents EXCEPT ![g] = "free"]
DestroyOld(t) ==
    /\ thr[t].at = "destroy"
    /\ agents' = Without(thr[t].ag)
    /\ cam' \in {cam, NowDisconnected}
    /\ thr' = [thr EXCEPT ![t] = [@ EXCEPT !.ag = None, !.at = IF t = "monitor" THEN "create" ELSE "close"]]
    /\ UNCHANGED <<sig, reply, inbox, prov, path, mishaps>>

-----------------------------------------------------------------------------
(* reconnect_camera_ice_attempt, and the same steps of connect_to_camera_attempt *)

(* What a failed attempt does: the monitor tries again, the API gives up. *)
GiveUp(t) == [thr EXCEPT ![t] = [Idle EXCEPT !.at = IF t = "monitor" THEN "abandon" ELSE "grab"]]

(* juice_create, or it fails; the candidates are gathered. *)
CreateAgent(t) ==
    /\ thr[t].at = "create"
    /\ \/ \E g \in Agents :
             /\ agents[g] = "free" /\ prov.remote # g /\ \A i \in 1..Len(inbox) : inbox[i] # g
             /\ \A h \in Agents : h < g => agents[h] # "free" \/ prov.remote = h
             /\ agents' = [agents EXCEPT ![g] = "gathered"]
             /\ cam' = [cam EXCEPT !.agent = g]
             /\ thr' = [thr EXCEPT ![t] = [@ EXCEPT !.at = "request", !.ag = g, !.again = FALSE]]
             /\ UNCHANGED mishaps
       \/ /\ Mishap
          /\ cam' = [cam EXCEPT !.agent = None]
          /\ thr' = GiveUp(t)
          /\ UNCHANGED agents
    /\ UNCHANGED <<sig, reply, inbox, prov, path>>

(* The REQUEST handler of the server: CONSUMER_CONNECT to a registered       *)
(* provider, an error otherwise.                                             *)
Asked(g) ==
    IF prov.registered
    THEN inbox' = Append(inbox, g) /\ reply' = "pending"
    ELSE reply' = "error" /\ UNCHANGED inbox

(* The request is sent and its answer awaited under the signaling mutex.  A  *)
(* failed send opens the socket again and repeats the request once; opening  *)
(* may fail, and the first send into a dead socket may seem to work.         *)
SendRequest(t) ==
    /\ thr[t].at = "request" /\ \A u \in Threads \ {t} : thr[u].at # "await"
    /\ \/ /\ sig
          /\ Asked(thr[t].ag)
          /\ thr' = [thr EXCEPT ![t].at = "await"]
          /\ UNCHANGED <<sig, mishaps>>
       \/ /\ ~sig /\ ~thr[t].again
          /\ sig' = TRUE
          /\ thr' = [thr EXCEPT ![t].again = TRUE]
          /\ UNCHANGED <<reply, inbox, mishaps>>
       \/ /\ ~sig
          /\ IF thr[t].again THEN UNCHANGED mishaps ELSE Mishap
          /\ thr' = GiveUp(t)
          /\ UNCHANGED <<sig, reply, inbox>>
       \/ /\ ~sig /\ Mishap
          /\ thr' = [thr EXCEPT ![t].at = "await"]
          /\ UNCHANGED <<sig, reply, inbox>>
    /\ UNCHANGED <<cam, agents, prov, path>>

(* Faulty variant: the request is repeated when its answer is lost. *)
ReplyLost_Repeats(t) ==
    /\ thr[t].at = "await" /\ ~sig
    /\ reply' = "none"
    /\ thr' = [thr EXCEPT ![t].at = "request"]
    /\ UNCHANGED <<cam, agents, sig, inbox, prov, path, mishaps>>

(* The request went out and its answer is lost: no second request.  The      *)
(* socket has no receive timeout and no keep-alive, so recv_message returns  *)
(* only if the broken connection is reported to it.                          *)
ReplyLost(t) ==
    /\ thr[t].at = "await" /\ ~sig
    /\ reply' = "none"
    /\ thr' = GiveUp(t)
    /\ UNCHANGED <<cam, agents, sig, inbox, prov, path, mishaps>>

(* PROVIDER_INFO starts the connectivity checks; an error ends the attempt. *)
ReplyArrives(t) ==
    /\ thr[t].at = "await" /\ sig /\ reply \in {"info", "error"}
    /\ reply' = "none"
    /\ IF reply = "info" /\ cam.agent # None
       THEN /\ agents' = [agents EXCEPT ![cam.agent] = "checking"]
            /\ thr' = [thr EXCEPT ![t] = IF t = "monitor" THEN Idle ELSE [@ EXCEPT !.at = "wait"]]
       ELSE thr' = GiveUp(t) /\ UNCHANGED agents
    /\ UNCHANGED <<cam, sig, inbox, prov, path, mishaps>>

(* The server waits for SDP_READY and falls back to the cached description. *)
ServerTimesOut ==
    /\ reply = "pending"
    /\ reply' = "info"
    /\ UNCHANGED <<cam, agents, thr, sig, inbox, prov, path, mishaps>>

(* DESTROY_AGENT_AND_RETURN_MINUS1: the pointer first, then the agent; the  *)
(* reconnect is scheduled again.                                            *)
Abandon ==
    LET t == "monitor"
    IN  /\ thr[t].at = "abandon"
        /\ agents' = Without(cam.agent)
        /\ cam' = [cam EXCEPT !.agent = None, !.needs = TRUE]
        /\ thr' = [thr EXCEPT ![t] = Idle]
        /\ UNCHANGED <<sig, reply, inbox, prov, path, mishaps>>

-----------------------------------------------------------------------------
(* The provider *)

(* Faulty variant: the server sends the message without the flag. *)
ForceReconnect_Missing == FALSE

(* What the server puts into CONSUMER_CONNECT. *)
ForceReconnect == TRUE

(* handle_consumer_connect: a session that is up is kept unless forced, and a *)
(* second request within the debounce window of one that is not up yet.       *)
Ignored ==
    \/ prov.connected /\ ~ForceReconnect
    \/ prov.had /\ prov.since <= Debounce /\ ~prov.connected

HandleConsumerConnect ==
    /\ inbox # <<>> /\ prov.registered
    /\ inbox' = Tail(inbox)
    /\ IF Ignored THEN prov' = [prov EXCEPT !.unread = 0] /\ UNCHANGED <<reply, mishaps>>
       ELSE \/ /\ prov' = [prov EXCEPT !.connected = FALSE, !.remote = Head(inbox),
                                       !.agent = TRUE, !.had = TRUE, !.since = 0, !.unread = 0]
               /\ reply' = IF reply = "pending" THEN "info" ELSE reply
               /\ UNCHANGED mishaps
            \/ /\ Mishap       \* juice_create fails
               /\ prov' = [prov EXCEPT !.connected = FALSE, !.remote = None,
                                       !.agent = FALSE, !.since = 0, !.unread = 0]
               /\ UNCHANGED reply
            \/ /\ Mishap       \* the consumer's description is too long or refused
               /\ prov' = [prov EXCEPT !.connected = FALSE, !.remote = None,
                                       !.agent = TRUE, !.had = TRUE, !.since = 0, !.unread = 0]
               /\ UNCHANGED reply
    /\ UNCHANGED <<cam, agents, thr, sig, path>>

(* on_state_changed of the provider. *)
ProviderConnects ==
    LET g == prov.remote
    IN  /\ ~prov.connected /\ g # None /\ path
        /\ agents[g] \in {"checking", "connected", "completed"}
        /\ prov' = [prov EXCEPT !.connected = TRUE]
        /\ UNCHANGED <<cam, agents, thr, sig, reply, inbox, path, mishaps>>

(* The signaling connection of the provider's main loop breaks; the loop     *)
(* connects and registers again, with the description of its agent: without  *)
(* an agent every registration fails.                                        *)
ProviderDrops ==
    /\ prov.registered /\ Mishap
    /\ prov' = [prov EXCEPT !.registered = FALSE, !.unread = 0]
    /\ inbox' = <<>>
    /\ UNCHANGED <<cam, agents, thr, sig, reply, path>>
ProviderRegisters ==
    /\ ~prov.registered /\ prov.agent
    /\ prov' = [prov EXCEPT !.registered = TRUE]
    /\ UNCHANGED <<cam, agents, thr, sig, reply, inbox, path, mishaps>>

-----------------------------------------------------------------------------
(* The network *)
PathBreaks ==
    /\ path /\ Mishap /\ path' = FALSE
    /\ UNCHANGED <<cam, agents, thr, sig, reply, inbox, prov>>
PathHeals ==
    /\ ~path /\ path' = TRUE
    /\ UNCHANGED <<cam, agents, thr, sig, reply, inbox, prov, mishaps>>
(* A NAT mapping moves: the selected pair never carries anything again. *)
PairDies(g) ==
    /\ agents[g] \in {"connected", "completed"} /\ Mishap
    /\ agents' = [agents EXCEPT ![g] = "dead"]
    /\ UNCHANGED <<cam, thr, sig, reply, inbox, prov, path>>
SignalingBreaks ==
    /\ sig /\ Mishap /\ sig' = FALSE
    /\ UNCHANGED <<cam, agents, thr, reply, inbox, prov, path>>

-----------------------------------------------------------------------------
(* A thread of the HTTP API (http_api.h) *)

(* handle_connect_camera reads the session without a lock. *)
ApiConnects ==
    /\ thr["api"].at = "sleep" /\ Mishap
    /\ cam.active => ~cam.connected /\ ~cam.needs /\ cam.agent = None
    /\ thr' = [thr EXCEPT !["api"].at = "recheck"]
    /\ UNCHANGED <<cam, agents, sig, reply, inbox, prov, path>>

(* connect_to_camera: a session that is not connected is freed first. *)
ApiRechecks ==
    /\ thr["api"].at = "recheck"
    /\ thr' = [thr EXCEPT !["api"] =
                 IF ~cam.active THEN [Idle EXCEPT !.at = "alloc"]
                 ELSE IF cam.connected THEN Idle
                 ELSE [Idle EXCEPT !.at = "grab", !.then = "alloc"]]
    /\ UNCHANGED <<cam, agents, sig, reply, inbox, prov, path, mishaps>>

(* handle_disconnect_camera *)
ApiDisconnects ==
    /\ thr["api"].at = "sleep" /\ cam.active /\ Mishap
    /\ thr' = [thr EXCEPT !["api"].at = "grab"]
    /\ UNCHANGED <<cam, agents, sig, reply, inbox, prov, path>>

(* free_camera_session: the agent is taken away, destroyed, the slot released. *)
FreeGrabs ==
    /\ thr["api"].at = "grab"
    /\ thr' = [thr EXCEPT !["api"].at = "destroy", !["api"].ag = cam.agent]
    /\ cam' = [cam EXCEPT !.agent = None, !.connected = FALSE]
    /\ UNCHANGED <<agents, sig, reply, inbox, prov, path, mishaps>>
FreeReleases ==
    /\ thr["api"].at = "close"
    /\ cam' = [cam EXCEPT !.active = FALSE]
    /\ thr' = [thr EXCEPT !["api"] = [Idle EXCEPT !.at = thr["api"].then]]
    /\ UNCHANGED <<agents, sig, reply, inbox, prov, path, mishaps>>

ApiAllocates ==
    /\ thr["api"].at = "alloc"
    /\ cam' = NewSession
    /\ thr' = [thr EXCEPT !["api"].at = "create"]
    /\ UNCHANGED <<agents, sig, reply, inbox, prov, path, mishaps>>

(* wait_for_camera_connected: half a minute, then the session is freed. *)
ApiWaits ==
    /\ thr["api"].at = "wait"
    /\ thr' = [thr EXCEPT !["api"] = IF cam.connected THEN Idle ELSE [Idle EXCEPT !.at = "grab"]]
    /\ UNCHANGED <<cam, agents, sig, reply, inbox, prov, path, mishaps>>

-----------------------------------------------------------------------------
Attempt(t) == CreateAgent(t) \/ SendRequest(t) \/ ReplyArrives(t)
MonitorStep == MonitorWatches \/ MonitorRetries \/ DestroyOld("monitor") \/ Abandon
               \/ Attempt("monitor")
IceStep == \E g \in Agents : IceConnects(g) \/ IceCompletes(g) \/ IceFails(g)
SessionNext ==
    \/ Tick \/ MonitorStep \/ ReplyLost("monitor") \/ IceStep
    \/ ServerTimesOut \/ HandleConsumerConnect \/ ProviderConnects
    \/ ProviderDrops \/ ProviderRegisters
    \/ PathBreaks \/ PathHeals \/ SignalingBreaks \/ \E g \in Agents : PairDies(g)

SessionSpec == SessionInit /\ [][SessionNext]_sessionVars

(* The same with a client of the HTTP API, whose connect_to_camera_attempt *)
(* goes through the steps of the monitor's attempt.                        *)
ConnectAttempt == Attempt("api") \/ ReplyLost("api")
ApiNext ==
    \/ ApiConnects \/ ApiRechecks \/ ApiDisconnects \/ FreeGrabs \/ DestroyOld("api")
    \/ FreeReleases \/ ApiAllocates \/ ConnectAttempt \/ ApiWaits
ApiSpec == SessionInit /\ [][SessionNext \/ ApiNext]_sessionVars

(* Clocks run, threads are scheduled, the server's wait ends, the provider's  *)
(* main loop and the network come back.  The two agents of an attempt connect *)
(* if they get the chance again and again before the monitor's timers end the *)
(* attempt.  Nothing makes a lost answer known to the monitor.                *)
SessionFairSpec ==
    /\ SessionSpec
    /\ WF_sessionVars(Tick) /\ WF_sessionVars(MonitorStep)
    /\ \A g \in Agents : /\ SF_sessionVars(IceConnects(g) /\ g = cam.agent)
                        /\ WF_sessionVars(IceFails(g))
    /\ SF_sessionVars(ProviderConnects /\ prov.remote = cam.agent)
    /\ WF_sessionVars(ServerTimesOut) /\ WF_sessionVars(HandleConsumerConnect)
    /\ WF_sessionVars(ProviderRegisters) /\ WF_sessionVars(PathHeals)

-----------------------------------------------------------------------------
(* Properties of the session *)

(* The camera answers the keep-alive again and again once the provider is     *)
(* back at the server for good: when the path died unseen by both ends, when  *)
(* the signaling connection broke or an answer was lost, when an agent could  *)
(* not be made or a description not be used, and although the provider takes  *)
(* a new negotiation for a duplicate for a while and does not notice that its *)
(* old consumer is gone.  It needs that a broken signaling connection is      *)
(* reported to the monitor that waits on it.                                  *)
BreakIsReported == []<>(sig \/ thr["monitor"].at # "await")
Recovers == <>[]prov.registered /\ BreakIsReported => []<>PongArrives

(* The provider never gives up the negotiation its consumer is still in: a    *)
(* request whose answer was lost is not repeated, and a late CONSUMER_CONNECT *)
(* of an abandoned attempt cannot overtake the current one (the comments in   *)
(* reconnect_camera_ice_attempt and handle_consumer_connect).                 *)
LiveNegotiationKept ==
    [][prov'.remote # prov.remote \/ (prov.connected /\ ~prov'.connected)
         => \/ prov.remote # cam.agent \/ cam.agent = None
            \/ agents[cam.agent] \notin {"checking", "connected", "completed"}]_sessionVars

(* The reconnect loop of the provider's main brings it back to the server     *)
(* ("reconnects automatically if the server drops").                          *)
ProviderComesBack == []<>prov.registered

(* The API never frees a session whose reconnection is in progress (the       *)
(* comment in handle_connect_camera).                                         *)
ApiLeavesReconnectAlone ==
    [][thr["api"].at = "recheck" /\ thr'["api"].at = "grab"
         => thr["monitor"].at \in {"sleep", "watch", "retry"}]_sessionVars
=============================================================================
