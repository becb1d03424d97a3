---------------------------- MODULE MqttThread ----------------------------
(***************************************************************************)
(* The MQTT thread of the camera daemon (src/ap2p/mqtt_thread.c), paho's   *)
(* callbacks, and the publishers of LegacyCases that borrow its client.    *)
(*                                                                         *)
(* The environment is two brokers that go down and come back, an operator  *)
(* who replaces the retained configuration message, and paho.  A broker    *)
(* that goes down leaves the TCP connection dead; paho learns of it later, *)
(* by a failed write or its keep-alive, marks the client unconnected and   *)
(* then calls connection_lost on a thread of its own.                      *)
(***************************************************************************)
EXTENDS LegacyCases, Naturals

CONSTANTS
    Main,         \* bootstrap_mqtt_url
    Backup,       \* bootstrap_mqtt_url_bkp, None when not configured
    MaxOutages,   \* bound: how often a broker goes down
    Started       \* bound: the publishers of LegacyCases an instance has

ASSUME BrokersAssumption == Main # None /\ Main # Backup

\* A broker without a retained message has None.
ASSUME RetainedAssumption == None \notin Payloads

ASSUME BoundsAssumption == MaxOutages \in Nat /\ Started \subseteq Publishers

VARIABLES
    mqttPc,       \* where the MQTT thread is
    gClient,      \* g_client
    stateHandle,  \* state->mqtt_client_handle
    signalled,    \* g_disconnect_signalled
    url,          \* the broker connect_once is called with
    second,       \* whether that call is the failover
    lastOk,       \* last_ok_url
    fired,        \* g_startup_fired
    conn,         \* the connection of g_client: dead is lost but not noticed
    callbackDue,  \* connection_lost is about to run
    up,           \* the brokers that accept connections
    outages,      \* how often one went down
    retained,     \* the broker's retained case-90 message
    inbox         \* a copy of it is on its way to the camera

threadVars == <<mqttPc, gClient, stateHandle, url, second, lastOk, fired>>

linkVars == <<signalled, conn, callbackDue, inbox>>

brokerVars == <<up, outages, retained>>

vars == <<stateVars, live, legacyVars, threadVars, linkVars, brokerVars>>

Brokers == {Main, Backup} \ {None}

ThreadTypeOK ==
    /\ mqttPc \in {"top", "create", "connect", "subscribe", "spawn", "reset",
                   "idle", "disconnect", "exit", "done"}
    /\ gClient \in Handles \union {None}
    /\ stateHandle \in Handles \union {None}
    /\ url \in Brokers
    /\ lastOk \in Brokers \union {None}
    /\ conn \in {"off", "up", "dead", "lost"}
    /\ up \in SUBSET Brokers
    /\ outages \in 0..MaxOutages
    /\ retained \in Payloads \union {None}

ThreadFlagsOK ==
    /\ signalled \in BOOLEAN
    /\ second \in BOOLEAN
    /\ fired \in BOOLEAN
    /\ callbackDue \in BOOLEAN
    /\ inbox \in BOOLEAN

\* Every variable has its type.
TypeOK ==
    /\ StateTypeOK
    /\ StateFlagsOK
    /\ LegacyTypeOK
    /\ ThreadTypeOK
    /\ ThreadFlagsOK

Init ==
    /\ StateInit
    /\ LegacyInit
    /\ mqttPc = "top"
    /\ gClient = None
    /\ stateHandle = None
    /\ signalled = FALSE
    /\ url = Main
    /\ second = FALSE
    /\ lastOk = None
    /\ fired = FALSE
    /\ conn = "off"
    /\ callbackDue = FALSE
    /\ up = Brokers
    /\ outages = 0
    /\ retained = None
    /\ inbox = FALSE

-----------------------------------------------------------------------------
(***************************************************************************)
(* mqtt_thread_main and connect_once                                       *)
(***************************************************************************)

\* The head of the outer loop: start with the broker that last worked.
Top ==
    /\ mqttPc = "top"
    /\ IF shutdown
       THEN /\ mqttPc' = "exit"
            /\ UNCHANGED <<url, second>>
       ELSE /\ mqttPc' = "create"
            /\ url' = IF lastOk = None THEN Main ELSE lastOk
            /\ second' = FALSE
    /\ UNCHANGED <<stateVars, live, legacyVars, gClient, stateHandle, lastOk, fired,
                   linkVars, brokerVars>>

\* The other broker, when there is one.
Secondary == IF url = Backup THEN Main ELSE Backup

\* connect_once returned -1: once more with the other broker, else from the top.
ConnectOnceFails ==
    /\ IF ~second /\ Secondary # None
       THEN /\ mqttPc' = "create"
            /\ url' = Secondary
            /\ second' = TRUE
       ELSE /\ mqttPc' = "top"
            /\ UNCHANGED <<url, second>>
    /\ UNCHANGED <<stateHandle, lastOk, fired>>

\* Faulty variant: the old client is not destroyed.
CreateClient_NoDestroy ==
    /\ mqttPc = "create"
    /\ \E h \in Handles \ live :
          /\ live' = live \union {h}
          /\ gClient' = h
    /\ mqttPc' = "connect"
    /\ conn' = "off"
    /\ callbackDue' = FALSE
    /\ UNCHANGED <<stateVars, legacyVars, stateHandle, url, second, lastOk, fired,
                   signalled, inbox, brokerVars>>

\* connect_once destroys the old client and creates one, at any free address.
\* The handles in the shared state and in legacy_cases.c stay as they are.
CreateClient ==
    /\ mqttPc = "create"
    /\ \E h \in Handles \ (live \ {gClient}) :
          /\ live' = (live \ {gClient}) \union {h}
          /\ gClient' = h
    /\ mqttPc' = "connect"
    /\ conn' = "off"
    /\ callbackDue' = FALSE
    /\ UNCHANGED <<stateVars, legacyVars, stateHandle, url, second, lastOk, fired,
                   signalled, inbox, brokerVars>>

CreateFails ==
    /\ mqttPc = "create"
    /\ live' = live \ {gClient}
    /\ gClient' = None
    /\ conn' = "off"
    /\ callbackDue' = FALSE
    /\ ConnectOnceFails
    /\ UNCHANGED <<stateVars, legacyVars, signalled, inbox, brokerVars>>

\* Faulty variant: the new client is not handed to the legacy handlers.
Connects_NoInit ==
    /\ mqttPc = "connect"
    /\ url \in up
    /\ conn' = "up"
    /\ stateHandle' = gClient
    /\ lastOk' = url
    /\ mqttPc' = "subscribe"
    /\ UNCHANGED <<stateVars, live, legacyVars, gClient, url, second, fired,
                   signalled, callbackDue, inbox, brokerVars>>

\* MQTTClient_connect succeeds; the handle is shown to the other threads
\* (ap2p_legacy_init sets `client`).
Connects ==
    /\ mqttPc = "connect"
    /\ url \in up
    /\ conn' = "up"
    /\ stateHandle' = gClient
    /\ client' = gClient
    /\ lastOk' = url
    /\ mqttPc' = "subscribe"
    /\ UNCHANGED <<stateVars, live, response, pubPc, job, plan, handle, gClient, url,
                   second, fired, signalled, callbackDue, inbox, brokerVars>>

\* It fails, after connectTimeout at the latest: the loop sleeps and tries the
\* same broker again, which changes nothing here, until shutdown is requested.
ConnectGivesUp ==
    /\ mqttPc = "connect"
    /\ url \notin up
    /\ shutdown
    /\ ConnectOnceFails
    /\ UNCHANGED <<stateVars, live, legacyVars, gClient, linkVars, brokerVars>>

\* The broker answers a subscription with the retained message.
Subscribes ==
    /\ mqttPc = "subscribe"
    /\ conn = "up"
    /\ inbox' = (retained # None)
    /\ mqttPc' = "spawn"
    /\ UNCHANGED <<stateVars, live, legacyVars, gClient, stateHandle, url, second, lastOk,
                   fired, signalled, conn, callbackDue, brokerVars>>

SubscribeFails ==
    /\ mqttPc = "subscribe"
    /\ conn # "up"
    /\ conn' = "off"
    /\ mqttPc' = "top"
    /\ UNCHANGED <<stateVars, live, legacyVars, gClient, stateHandle, url, second, lastOk,
                   fired, signalled, callbackDue, inbox, brokerVars>>

\* The two detached threads, once per process; either pthread_create may fail.
SpawnPublishers ==
    /\ mqttPc = "spawn"
    /\ mqttPc' = "reset"
    /\ fired' = TRUE
    /\ IF fired
       THEN UNCHANGED pubPc
       ELSE \E T \in SUBSET (Started \intersect {"startup", "keepalive"}) :
               pubPc' = [p \in Publishers |-> IF p \in T THEN "sleep" ELSE pubPc[p]]
    /\ UNCHANGED <<stateVars, live, client, response, job, plan, handle, gClient,
                   stateHandle, url, second, lastOk, linkVars, brokerVars>>

\* The flag is cleared after the subscription: a connection lost since then has
\* already raised it.
ResetFlag ==
    /\ mqttPc = "reset"
    /\ signalled' = FALSE
    /\ mqttPc' = "idle"
    /\ UNCHANGED <<stateVars, live, legacyVars, gClient, stateHandle, url, second, lastOk,
                   fired, conn, callbackDue, inbox, brokerVars>>

\* Faulty variants: only the callback's flag is looked at; shutdown is not.
LeaveIdle_FlagOnly ==
    /\ mqttPc = "idle"
    /\ shutdown \/ signalled
    /\ mqttPc' = "disconnect"
    /\ UNCHANGED <<stateVars, live, legacyVars, gClient, stateHandle, url, second, lastOk,
                   fired, linkVars, brokerVars>>

LeaveIdle_NoShutdown ==
    /\ mqttPc = "idle"
    /\ signalled \/ conn \notin {"up", "dead"}
    /\ mqttPc' = "disconnect"
    /\ UNCHANGED <<stateVars, live, legacyVars, gClient, stateHandle, url, second, lastOk,
                   fired, linkVars, brokerVars>>

\* The idle loop ends on shutdown, on the callback's flag, or when the poll of
\* MQTTClient_isConnected sees what paho has noticed.
LeaveIdle ==
    /\ mqttPc = "idle"
    /\ shutdown \/ signalled \/ conn \notin {"up", "dead"}
    /\ mqttPc' = "disconnect"
    /\ UNCHANGED <<stateVars, live, legacyVars, gClient, stateHandle, url, second, lastOk,
                   fired, linkVars, brokerVars>>

Disconnect ==
    /\ mqttPc = "disconnect"
    /\ conn' = "off"
    /\ inbox' = FALSE
    /\ mqttPc' = "top"
    /\ UNCHANGED <<stateVars, live, legacyVars, gClient, stateHandle, url, second, lastOk,
                   fired, signalled, callbackDue, brokerVars>>

\* The end of mqtt_thread_main.
Exit ==
    /\ mqttPc = "exit"
    /\ live' = live \ {gClient}
    /\ gClient' = None
    /\ conn' = "off"
    /\ callbackDue' = FALSE
    /\ inbox' = FALSE
    /\ mqttPc' = "done"
    /\ UNCHANGED <<stateVars, legacyVars, stateHandle, url, second, lastOk, fired,
                   signalled, brokerVars>>

-----------------------------------------------------------------------------
(***************************************************************************)
(* paho's threads                                                          *)
(***************************************************************************)

LinkNoticed ==
    /\ conn = "dead"
    /\ conn' = "lost"
    /\ callbackDue' = TRUE
    /\ inbox' = FALSE
    /\ UNCHANGED <<stateVars, live, legacyVars, threadVars, signalled, brokerVars>>

connection_lost ==
    /\ callbackDue
    /\ callbackDue' = FALSE
    /\ signalled' = TRUE
    /\ UNCHANGED <<stateVars, live, legacyVars, threadVars, conn, inbox, brokerVars>>

Subscribed == conn = "up" /\ mqttPc \in {"spawn", "reset", "idle", "disconnect"}

\* message_arrived, case 90, on the one receive thread.
DeliverConfig ==
    /\ inbox
    /\ conn = "up"
    /\ pubPc["callback"] = "off"
    /\ apply_ap2p_conf_payload(retained)
    /\ inbox' = FALSE
    /\ UNCHANGED <<live, legacyVars, threadVars, signalled, conn, callbackDue, brokerVars>>

\* message_arrived, any other case.
DeliverCase ==
    /\ Subscribed
    /\ \E c \in CallbackReads : AnswerRead(c, gClient)
    /\ UNCHANGED <<stateVars, live, threadVars, linkVars, brokerVars>>

-----------------------------------------------------------------------------
(***************************************************************************)
(* The rest of the daemon and the world                                    *)
(***************************************************************************)

\* The SRT thread takes the reload, and publishes the boot summary.
SrtConsumesReload ==
    /\ reloadPending
    /\ reloadPending' = FALSE
    /\ UNCHANGED <<conf, stateReady, shutdown, live, legacyVars, threadVars, linkVars,
                   brokerVars>>

SrtPublishesBoot ==
    /\ "boot" \in Started
    /\ bt_publish_summary(stateHandle)
    /\ UNCHANGED <<stateVars, live, threadVars, linkVars, brokerVars>>

BrokerGoesDown ==
    /\ outages < MaxOutages
    /\ \E b \in up :
          /\ up' = up \ {b}
          /\ conn' = IF b = url /\ conn = "up" THEN "dead" ELSE conn
    /\ outages' = outages + 1
    /\ UNCHANGED <<stateVars, live, legacyVars, threadVars, signalled, callbackDue, inbox,
                   retained>>

BrokerComesBack ==
    /\ \E b \in Brokers \ up : up' = up \union {b}
    /\ UNCHANGED <<stateVars, live, legacyVars, threadVars, linkVars, outages, retained>>

OperatorPublishes ==
    /\ \E p \in Payloads \ {retained} : retained' = p
    /\ inbox' = (inbox \/ Subscribed)
    /\ UNCHANGED <<stateVars, live, legacyVars, threadVars, signalled, conn, callbackDue,
                   up, outages>>

Signal ==
    /\ on_signal
    /\ UNCHANGED <<live, legacyVars, threadVars, linkVars, brokerVars>>

-----------------------------------------------------------------------------

mqtt_thread_main ==
    \/ Top
    \/ CreateClient
    \/ CreateFails
    \/ Connects
    \/ ConnectGivesUp
    \/ Subscribes
    \/ SubscribeFails
    \/ SpawnPublishers
    \/ ResetFlag
    \/ LeaveIdle
    \/ Disconnect
    \/ Exit

Paho ==
    \/ LinkNoticed
    \/ connection_lost
    \/ DeliverConfig
    \/ DeliverCase

OfPublishers == UNCHANGED <<stateVars, live, threadVars, linkVars, brokerVars>>

\* The steps of the publishers that end by themselves ...
StartupSteps == (StartupNext \/ StartupEnds) /\ OfPublishers

KeepaliveSteps == (KeepaliveNext \/ KeepaliveEnds) /\ OfPublishers

Publishes(p) == publish_mqtt_message(p) /\ OfPublishers

\* ... and the ones that wait for the camera's own web server.
WebAnswers(p) == Answer(p) /\ OfPublishers

World ==
    \/ SrtConsumesReload
    \/ SrtPublishesBoot
    \/ BrokerGoesDown
    \/ BrokerComesBack
    \/ OperatorPublishes
    \/ Signal

Next ==
    \/ mqtt_thread_main
    \/ Paho
    \/ StartupSteps
    \/ KeepaliveSteps
    \/ \E p \in Publishers : Publishes(p) \/ WebAnswers(p)
    \/ World

Spec == Init /\ [][Next]_vars

-----------------------------------------------------------------------------
(***************************************************************************)
(* Fairness.  The threads run; MQTTClient_create does not fail for ever;   *)
(* paho notices a dead connection by its keep-alive, calls back, and       *)
(* delivers what arrives once its receive thread is free.                  *)
(***************************************************************************)

ThreadFairness ==
    /\ WF_vars(mqtt_thread_main)
    /\ SF_vars(CreateClient)
    /\ WF_vars(StartupSteps)
    /\ WF_vars(KeepaliveSteps)
    /\ \A p \in Publishers : WF_vars(Publishes(p))
    /\ WF_vars(LinkNoticed)
    /\ WF_vars(connection_lost)
    /\ SF_vars(DeliverConfig)

\* What the daemon cannot enforce: the local web server answers, and a broker
\* that went down comes back.
WebFairness == \A p \in Publishers : WF_vars(WebAnswers(p))

ThreadFairSpec == Spec /\ ThreadFairness

WebFairSpec == Spec /\ ThreadFairness /\ WebFairness

FairSpec == Spec /\ ThreadFairness /\ WebFairness /\ WF_vars(BrokerComesBack)

-----------------------------------------------------------------------------
(***************************************************************************)
(* Safety.                                                                 *)
(***************************************************************************)

\* There is one paho client at most, the one g_client names: reconnecting does
\* not leak clients, and none is left when the thread ends.
OneClient ==
    /\ live \subseteq {gClient}
    /\ mqttPc = "done" => live = {}

\* From the connection to the end of the idle loop, the copies of the handle in
\* the shared state and in legacy_cases.c name the live client.
HandlesAgree ==
    mqttPc \in {"subscribe", "spawn", "reset", "idle", "disconnect"} =>
        /\ gClient \in live
        /\ client = gClient
        /\ stateHandle = gClient

\* state.h:19-21: the SRT thread is told to rebuild its session when the
\* operator updated the configuration.
ReloadMeansChange == [][reloadPending' /\ ~reloadPending => conf' # conf]_vars

-----------------------------------------------------------------------------
(***************************************************************************)
(* Liveness.                                                               *)
(***************************************************************************)

\* Whenever the connection is lost it is made again: neither clearing the flag
\* late (mqtt_thread.c:357) nor a callback that comes late loses a disconnect.
Reconnects == []<>(conn = "up" \/ shutdown)

\* An update of the retained message reaches the shared state, outages between.
UpdateIsApplied ==
    \A p \in Payloads :
        retained = p ~> \/ \A f \in DOMAIN p : conf[f] = p[f]
                        \/ retained # p
                        \/ shutdown

\* The shutdown flag ends the thread wherever it is.
MqttShutdown == shutdown ~> mqttPc = "done"

\* legacy_cases.c:509-518: the heartbeat goes out again and again, whatever else
\* fails (a keep-alive thread that could not be created excepted).
HeartbeatRepeats ==
    []<>(\/ pubPc["keepalive"] = "publish" /\ job["keepalive"] = "0"
         \/ pubPc["keepalive"] = "off"
         \/ shutdown)

\* mqtt_thread.c:279-281: when the main broker fails, the backup is tried.
FailsOver ==
    (mqttPc = "connect" /\ url = Main /\ up = {Backup})
        ~> (url = Backup \/ up # {Backup} \/ shutdown)

=============================================================================
