----------------------------- MODULE MqttProofs -----------------------------
(***************************************************************************)
(* Proofs about the MQTT side of the daemon: the thread that owns the paho *)
(* client (MqttThread), then the handler it delivers the cases to          *)
(* (CaseDispatch).                                                         *)
(***************************************************************************)
EXTENDS MqttThread, CaseDispatch, TLAPS

(***************************************************************************)
(* MqttThread, for any client addresses, brokers, payloads and publishers. *)
(*                                                                         *)
(* HandlesAgree is not inductive: Connects copies g_client, so the client  *)
(* must still exist when MQTTClient_connect returns.  ConnectsLiveClient   *)
(* says so.                                                                *)
(***************************************************************************)
\* connect_once dials with a client that exists.
ConnectsLiveClient == mqttPc = "connect" => gClient \in live

ClientInv == OneClient /\ ConnectsLiveClient /\ HandlesAgree

\* At the start there is no client.
LEMMA ClientInitInv == Init => ClientInv
BY DEF Init, LegacyInit, ClientInv, OneClient, ConnectsLiveClient, HandlesAgree

\* The steps of the MQTT thread, the only ones that create, destroy or hand
\* out a client.
LEMMA ThreadStep == ASSUME ClientInv, mqtt_thread_main PROVE ClientInv'
<1> USE DEF ClientInv, OneClient, ConnectsLiveClient, HandlesAgree
<1>1. CASE Top
  BY <1>1 DEF Top, legacyVars
<1>2. CASE CreateClient
  BY <1>2 DEF CreateClient, legacyVars
<1>3. CASE CreateFails
  BY <1>3 DEF CreateFails, ConnectOnceFails, legacyVars
<1>4. CASE Connects
  BY <1>4 DEF Connects
<1>5. CASE ConnectGivesUp
  BY <1>5 DEF ConnectGivesUp, ConnectOnceFails, legacyVars
<1>6. CASE Subscribes
  BY <1>6 DEF Subscribes, legacyVars
<1>7. CASE SubscribeFails
  BY <1>7 DEF SubscribeFails, legacyVars
<1>8. CASE SpawnPublishers
  BY <1>8 DEF SpawnPublishers
<1>9. CASE ResetFlag
  BY <1>9 DEF ResetFlag, legacyVars
<1>10. CASE LeaveIdle
  BY <1>10 DEF LeaveIdle, legacyVars
<1>11. CASE Disconnect
  BY <1>11 DEF Disconnect, legacyVars
<1>12. CASE Exit
  BY <1>12 DEF Exit, legacyVars
<1> QED
  BY <1>1, <1>2, <1>3, <1>4, <1>5, <1>6, <1>7, <1>8, <1>9, <1>10, <1>11, <1>12
     DEF mqtt_thread_main

\* What everybody else leaves alone.
Borrowed == <<live, client, threadVars>>

\* paho, the publishers, the SRT thread and the brokers leave the client and the
\* copies of its handle alone.
LEMMA OthersStep == ASSUME [Next]_vars, ~mqtt_thread_main PROVE UNCHANGED Borrowed
<1> USE DEF Borrowed
<1>1. CASE UNCHANGED vars
  BY <1>1 DEF vars, legacyVars
<1>2. CASE Paho
  BY <1>2 DEF Paho, LinkNoticed, connection_lost, DeliverConfig, DeliverCase,
              AnswerRead, legacyVars
<1>3. CASE StartupSteps \/ KeepaliveSteps
  BY <1>3 DEF StartupSteps, KeepaliveSteps, StartupNext, StartupEnds, KeepaliveNext,
              KeepaliveEnds, OfPublishers
<1>4. CASE \E p \in Publishers : Publishes(p) \/ WebAnswers(p)
  BY <1>4 DEF Publishes, WebAnswers, publish_mqtt_message, Answer, OfPublishers
<1>5. CASE World
  BY <1>5 DEF World, SrtConsumesReload, SrtPublishesBoot, bt_publish_summary,
              BrokerGoesDown, BrokerComesBack, OperatorPublishes, Signal, legacyVars
<1> QED
  BY <1>1, <1>2, <1>3, <1>4, <1>5 DEF Next

\* The invariant holds throughout.
LEMMA ClientInvariance == Spec => []ClientInv
<1>1. ClientInv /\ [Next]_vars => ClientInv'
  <2> SUFFICES ASSUME ClientInv, [Next]_vars PROVE ClientInv'
    OBVIOUS
  <2>1. CASE mqtt_thread_main
    BY <2>1, ThreadStep
  <2>2. CASE ~mqtt_thread_main
    <3>1. UNCHANGED Borrowed
      BY <2>2, OthersStep
    <3> QED
      BY <3>1 DEF Borrowed, threadVars, ClientInv, OneClient, ConnectsLiveClient, HandlesAgree
  <2> QED
    BY <2>1, <2>2
<1> QED
  BY <1>1, ClientInitInv, PTL DEF Spec

\* connect_once and the end of mqtt_thread_main never leak a client: there is one
\* at most, and none when the thread has ended.
THEOREM OneClientCorrect == Spec => []OneClient
<1>1. ClientInv => OneClient
  BY DEF ClientInv
<1> QED
  BY <1>1, ClientInvariance, PTL

\* While the connection is in use the handle in the shared state and the one in
\* legacy_cases.c name the client that exists.
THEOREM HandlesCorrect == Spec => []HandlesAgree
<1>1. ClientInv => HandlesAgree
  BY DEF ClientInv
<1> QED
  BY <1>1, ClientInvariance, PTL

-----------------------------------------------------------------------------
(***************************************************************************)
(* MqttTypes.  The type invariant is not inductive: DeliverConfig writes the   *)
(* retained message over the shared fields, and the broker has none at the *)
(* start.                                                                  *)
(***************************************************************************)

\* A message that is on its way to the camera is one somebody published.
InFlightExists == inbox => retained # None

MqttTypes == TypeOK /\ InFlightExists

\* The startup thread's plan is made of cases.
LEMMA PlanType == StartupPlan \in Seq(Jobs)
<1>1. <<"ini", "name">> \in Seq(Jobs)
  BY DEF Jobs
<1>2. StartupReads \in Seq(Jobs)
  BY ReadsAssumption DEF Jobs
<1> QED
  BY <1>1, <1>2 DEF StartupPlan

\* The initial values have their types.
LEMMA InitMqttTypes == Init => MqttTypes
<1> SUFFICES ASSUME Init PROVE MqttTypes
  OBVIOUS
<1>1. StateTypeOK /\ StateFlagsOK
  BY DEF Init, StateInit, StateTypeOK, StateFlagsOK, FieldValues
<1>2. LegacyTypeOK
  BY PlanType DEF Init, LegacyInit, LegacyTypeOK, PubPcs, Jobs
<1>3. ThreadTypeOK
  BY BrokersAssumption, BoundsAssumption DEF Init, ThreadTypeOK, Brokers
<1>4. ThreadFlagsOK /\ InFlightExists
  BY DEF Init, ThreadFlagsOK, InFlightExists
<1> QED
  BY <1>1, <1>2, <1>3, <1>4 DEF MqttTypes, TypeOK

\* Writing the lines of a payload over the shared fields keeps them fields.
LEMMA OverlayType ==
    ASSUME StateTypeOK, NEW payload \in Payloads
    PROVE  Overlay(payload) \in [Fields -> FieldValues]
<1>1. PICK D \in SUBSET Fields : payload \in [D -> FieldValues]
  BY PayloadsAssumption DEF PayloadSet
<1> QED
  BY <1>1 DEF Overlay, StateTypeOK

\* Only a delivered configuration writes the shared fields.
LEMMA StateKept == ASSUME MqttTypes, [Next]_vars PROVE StateTypeOK'
<1>1. CASE DeliverConfig
  <2>1. retained \in Payloads /\ StateTypeOK
    BY <1>1 DEF DeliverConfig, MqttTypes, TypeOK, ThreadTypeOK, InFlightExists
  <2>2. conf' = Overlay(retained)
    BY <1>1 DEF DeliverConfig, apply_ap2p_conf_payload
  <2> QED
    BY <2>1, <2>2, OverlayType DEF StateTypeOK
<1>2. CASE ~DeliverConfig
  <2>1. UNCHANGED conf
    BY <1>2 DEF Next, mqtt_thread_main, Top, CreateClient, CreateFails, Connects,
                ConnectGivesUp, Subscribes, SubscribeFails, SpawnPublishers, ResetFlag,
                LeaveIdle, Disconnect, Exit, Paho, LinkNoticed, connection_lost,
                DeliverCase, StartupSteps, KeepaliveSteps, Publishes, WebAnswers,
                OfPublishers, World, SrtConsumesReload, SrtPublishesBoot,
                BrokerGoesDown, BrokerComesBack, OperatorPublishes, Signal, on_signal,
                stateVars, vars
  <2> QED
    BY <2>1 DEF MqttTypes, TypeOK, StateTypeOK
<1> QED
  BY <1>1, <1>2

\* The flags of the shared state.
LEMMA StateFlagsKept == ASSUME MqttTypes, [Next]_vars PROVE StateFlagsOK'
<1>1. StateFlagsOK
  BY DEF MqttTypes, TypeOK
<1>2. CASE DeliverConfig
  BY <1>1, <1>2 DEF DeliverConfig, apply_ap2p_conf_payload, StateFlagsOK
<1>3. CASE SrtConsumesReload
  BY <1>1, <1>3 DEF SrtConsumesReload, StateFlagsOK
<1>4. CASE Signal
  BY <1>1, <1>4 DEF Signal, on_signal, StateFlagsOK
<1>5. CASE ~DeliverConfig /\ ~SrtConsumesReload /\ ~Signal
  <2>1. UNCHANGED stateVars
    BY <1>5 DEF Next, mqtt_thread_main, Top, CreateClient, CreateFails, Connects,
                ConnectGivesUp, Subscribes, SubscribeFails, SpawnPublishers, ResetFlag,
                LeaveIdle, Disconnect, Exit, Paho, LinkNoticed, connection_lost,
                DeliverCase, StartupSteps, KeepaliveSteps, Publishes, WebAnswers,
                OfPublishers, World, SrtPublishesBoot,
                BrokerGoesDown, BrokerComesBack, OperatorPublishes, vars
  <2> QED
    BY <1>1, <2>1 DEF stateVars, StateFlagsOK
<1> QED
  BY <1>2, <1>3, <1>4, <1>5

\* The handler a publisher starts keeps the buffer, the places and the jobs.
LEMMA BeginType ==
    ASSUME LegacyTypeOK, NEW p \in Publishers, NEW c \in Jobs, Begin(p, c)
    PROVE  /\ response' \in Jobs \union {Blank}
           /\ pubPc' \in [Publishers -> PubPcs]
           /\ job' \in [Publishers -> Jobs]
BY DEF LegacyTypeOK, Begin, PubPcs

\* Where a publisher rests is a place.
LEMMA RestType == ASSUME NEW p \in Publishers PROVE Rest(p) \in PubPcs
BY DEF Rest, PubPcs, Publishers

\* The publishers and the client handles they use.
LEMMA LegacyKept == ASSUME MqttTypes, [Next]_vars PROVE LegacyTypeOK'
<1>1. LegacyTypeOK /\ gClient \in Handles \union {None}
      /\ stateHandle \in Handles \union {None}
  BY DEF MqttTypes, TypeOK, ThreadTypeOK
<1>2. CASE CreateClient \/ CreateFails \/ Exit
  BY <1>1, <1>2 DEF CreateClient, CreateFails, Exit, LegacyTypeOK, legacyVars
<1>3. CASE Connects
  BY <1>1, <1>3 DEF Connects, LegacyTypeOK
<1>4. CASE SpawnPublishers
  BY <1>1, <1>4 DEF SpawnPublishers, LegacyTypeOK, PubPcs
<1>5. CASE DeliverCase
  <2>1. PICK c \in CallbackReads : AnswerRead(c, gClient)
    BY <1>5 DEF DeliverCase
  <2>2. c \in Jobs
    BY <2>1, ReadsAssumption DEF Jobs
  <2>3. /\ response' \in Jobs \union {Blank}
        /\ pubPc' \in [Publishers -> PubPcs]
        /\ job' \in [Publishers -> Jobs]
    BY <1>1, <2>1, <2>2, BeginType DEF AnswerRead, Publishers
  <2> QED
    BY <1>1, <1>5, <2>1, <2>3 DEF DeliverCase, AnswerRead, LegacyTypeOK
<1>6. CASE SrtPublishesBoot
  <2>1. /\ response' \in Jobs \union {Blank}
        /\ pubPc' \in [Publishers -> PubPcs]
        /\ job' \in [Publishers -> Jobs]
    BY <1>1, <1>6, BeginType
       DEF SrtPublishesBoot, bt_publish_summary, Publishers, Jobs
  <2> QED
    BY <1>1, <1>6, <2>1 DEF SrtPublishesBoot, bt_publish_summary, LegacyTypeOK
<1>7. CASE StartupSteps
  <2>1. CASE StartupNext
    <3>1. plan \in Seq(Jobs) /\ plan # <<>>
      BY <1>1, <2>1 DEF StartupNext, LegacyTypeOK
    <3>2. Head(plan) \in Jobs /\ Tail(plan) \in Seq(Jobs)
      BY <3>1
    <3>3. /\ response' \in Jobs \union {Blank}
          /\ pubPc' \in [Publishers -> PubPcs]
          /\ job' \in [Publishers -> Jobs]
      BY <1>1, <2>1, <3>2, BeginType DEF StartupNext, Publishers
    <3> QED
      BY <1>1, <1>7, <2>1, <3>2, <3>3
         DEF StartupSteps, StartupNext, OfPublishers, LegacyTypeOK
  <2>2. CASE StartupEnds
    BY <1>1, <1>7, <2>2 DEF StartupSteps, StartupEnds, OfPublishers, LegacyTypeOK, PubPcs
  <2> QED
    BY <1>7, <2>1, <2>2 DEF StartupSteps
<1>8. CASE KeepaliveSteps
  <2>1. CASE KeepaliveNext
    <3>1. /\ response' \in Jobs \union {Blank}
          /\ pubPc' \in [Publishers -> PubPcs]
          /\ job' \in [Publishers -> Jobs]
      BY <1>1, <2>1, BeginType DEF KeepaliveNext, Publishers, Jobs
    <3> QED
      BY <1>1, <1>8, <2>1, <3>1
         DEF KeepaliveSteps, KeepaliveNext, OfPublishers, LegacyTypeOK
  <2>2. CASE KeepaliveEnds
    BY <1>1, <1>8, <2>2
       DEF KeepaliveSteps, KeepaliveEnds, OfPublishers, LegacyTypeOK, PubPcs
  <2> QED
    BY <1>8, <2>1, <2>2 DEF KeepaliveSteps
<1>9. CASE \E p \in Publishers : Publishes(p) \/ WebAnswers(p)
  <2> PICK p \in Publishers : Publishes(p) \/ WebAnswers(p)
    BY <1>9
  <2>1. Rest(p) \in PubPcs /\ "publish" \in PubPcs
    BY RestType DEF PubPcs
  <2> QED
    BY <1>1, <2>1 DEF Publishes, WebAnswers, publish_mqtt_message, Answer, OfPublishers,
                      LegacyTypeOK
<1>10. CASE UNCHANGED <<live, legacyVars>>
  BY <1>1, <1>10 DEF legacyVars, LegacyTypeOK
<1>11. \/ CreateClient \/ CreateFails \/ Exit
       \/ Connects \/ SpawnPublishers \/ DeliverCase \/ SrtPublishesBoot
       \/ StartupSteps \/ KeepaliveSteps
       \/ \E p \in Publishers : Publishes(p) \/ WebAnswers(p)
       \/ UNCHANGED <<live, legacyVars>>
  BY DEF Next, mqtt_thread_main, Top, ConnectGivesUp, Subscribes, SubscribeFails,
         ResetFlag, LeaveIdle, Disconnect, Paho, LinkNoticed, connection_lost,
         DeliverConfig, World, SrtConsumesReload, BrokerGoesDown, BrokerComesBack,
         OperatorPublishes, Signal, vars
<1> QED
  BY <1>2, <1>3, <1>4, <1>5, <1>6, <1>7, <1>8, <1>9, <1>10, <1>11

\* The broker connect_once goes on with is one that is configured.
LEMMA NextBroker ==
    ASSUME ThreadTypeOK, ConnectOnceFails
    PROVE  mqttPc' \in {"create", "top"} /\ url' \in Brokers
BY BrokersAssumption DEF ThreadTypeOK, ConnectOnceFails, Secondary, Brokers

\* The thread's own variables, the connection and the brokers.
LEMMA ThreadKept == ASSUME MqttTypes, [Next]_vars PROVE ThreadTypeOK'
<1>1. ThreadTypeOK
  BY DEF MqttTypes, TypeOK
<1>2. CASE mqtt_thread_main
  <2> USE <1>1 DEF brokerVars, linkVars, ThreadTypeOK
  <2>1. CASE Top
    BY <2>1, BrokersAssumption DEF Top, Brokers
  <2>2. CASE CreateClient
    BY <2>2 DEF CreateClient
  <2>3. CASE CreateFails
    BY <2>3, NextBroker DEF CreateFails, ConnectOnceFails
  <2>4. CASE Connects
    BY <2>4 DEF Connects
  <2>5. CASE ConnectGivesUp
    BY <2>5, NextBroker DEF ConnectGivesUp, ConnectOnceFails
  <2>6. CASE Subscribes \/ SubscribeFails \/ SpawnPublishers \/ ResetFlag
    BY <2>6 DEF Subscribes, SubscribeFails, SpawnPublishers, ResetFlag
  <2>7. CASE LeaveIdle \/ Disconnect \/ Exit
    BY <2>7 DEF LeaveIdle, Disconnect, Exit
  <2> QED
    BY <1>2, <2>1, <2>2, <2>3, <2>4, <2>5, <2>6, <2>7 DEF mqtt_thread_main
<1>3. CASE ~mqtt_thread_main
  <2>1. UNCHANGED threadVars
    BY <1>3, OthersStep DEF Borrowed
  <2>2. UNCHANGED <<conn, brokerVars>> => ThreadTypeOK'
    BY <1>1, <2>1 DEF ThreadTypeOK, threadVars, brokerVars
  <2>3. CASE LinkNoticed
    BY <1>1, <2>1, <2>3 DEF LinkNoticed, ThreadTypeOK, threadVars, brokerVars
  <2>4. CASE BrokerGoesDown
    BY <1>1, <2>1, <2>4, BoundsAssumption DEF BrokerGoesDown, ThreadTypeOK, threadVars
  <2>5. CASE BrokerComesBack
    BY <1>1, <2>1, <2>5 DEF BrokerComesBack, ThreadTypeOK, threadVars, linkVars
  <2>6. CASE OperatorPublishes
    BY <1>1, <2>1, <2>6 DEF OperatorPublishes, ThreadTypeOK, threadVars
  <2>7. CASE ~(LinkNoticed \/ BrokerGoesDown \/ BrokerComesBack \/ OperatorPublishes)
    <3>1. UNCHANGED <<conn, brokerVars>>
      BY <1>3, <2>7 DEF Next, Paho, connection_lost, DeliverConfig, DeliverCase,
                        StartupSteps, KeepaliveSteps, Publishes, WebAnswers,
                        OfPublishers, World, SrtConsumesReload, SrtPublishesBoot,
                        Signal, linkVars, vars
    <3> QED
      BY <2>2, <3>1
  <2> QED
    BY <2>3, <2>4, <2>5, <2>6, <2>7
<1> QED
  BY <1>2, <1>3

\* The thread's flags, and the message in flight.
LEMMA ThreadFlagsKept ==
    ASSUME MqttTypes, [Next]_vars PROVE ThreadFlagsOK' /\ InFlightExists'
<1>1. ThreadFlagsOK /\ InFlightExists
  BY DEF MqttTypes, TypeOK
<1> USE <1>1 DEF ThreadFlagsOK, InFlightExists
<1>2. CASE mqtt_thread_main
  <2>1. CASE Top
    BY <2>1 DEF Top, linkVars, brokerVars
  <2>2. CASE CreateClient
    BY <2>2 DEF CreateClient, linkVars, brokerVars
  <2>3. CASE CreateFails
    BY <2>3 DEF CreateFails, ConnectOnceFails, linkVars, brokerVars
  <2>4. CASE Connects
    BY <2>4 DEF Connects, linkVars, brokerVars
  <2>5. CASE ConnectGivesUp
    BY <2>5 DEF ConnectGivesUp, ConnectOnceFails, linkVars, brokerVars
  <2>6. CASE Subscribes
    BY <2>6 DEF Subscribes, linkVars, brokerVars
  <2>7. CASE SubscribeFails
    BY <2>7 DEF SubscribeFails, linkVars, brokerVars
  <2>8. CASE SpawnPublishers
    BY <2>8 DEF SpawnPublishers, linkVars, brokerVars
  <2>9. CASE ResetFlag
    BY <2>9 DEF ResetFlag, linkVars, brokerVars
  <2>10. CASE LeaveIdle
    BY <2>10 DEF LeaveIdle, linkVars, brokerVars
  <2>11. CASE Disconnect
    BY <2>11 DEF Disconnect, linkVars, brokerVars
  <2>12. CASE Exit
    BY <2>12 DEF Exit, linkVars, brokerVars
  <2> QED
    BY <1>2, <2>1, <2>2, <2>3, <2>4, <2>5, <2>6, <2>7, <2>8,
       <2>9, <2>10, <2>11, <2>12 DEF mqtt_thread_main
<1>3. CASE ~mqtt_thread_main
  <2>1. UNCHANGED threadVars
    BY <1>3, OthersStep DEF Borrowed
  <2>2. CASE LinkNoticed
    BY <2>2 DEF LinkNoticed, threadVars, brokerVars
  <2>3. CASE connection_lost
    BY <2>3 DEF connection_lost, threadVars, brokerVars
  <2>4. CASE DeliverConfig
    BY <2>4 DEF DeliverConfig, threadVars, brokerVars
  <2>5. CASE BrokerGoesDown
    BY <2>5 DEF BrokerGoesDown, threadVars
  <2>6. CASE OperatorPublishes
    <3>1. PICK p \in Payloads \ {retained} : retained' = p
      BY <2>6 DEF OperatorPublishes
    <3>2. retained' # None
      BY <3>1, RetainedAssumption
    <3>3. inbox' \in BOOLEAN
      BY <2>6 DEF OperatorPublishes
    <3> QED
      BY <2>6, <3>2, <3>3 DEF OperatorPublishes, threadVars
  <2>7. CASE UNCHANGED <<linkVars, retained>>
    BY <2>1, <2>7 DEF linkVars, threadVars
  <2>8. \/ LinkNoticed \/ connection_lost \/ DeliverConfig \/ BrokerGoesDown
        \/ OperatorPublishes \/ UNCHANGED <<linkVars, retained>>
    BY <1>3 DEF Next, Paho, DeliverCase, StartupSteps, KeepaliveSteps, Publishes,
                WebAnswers, OfPublishers, World, SrtConsumesReload, SrtPublishesBoot,
                BrokerComesBack, Signal, brokerVars, vars
  <2> QED
    BY <2>2, <2>3, <2>4, <2>5, <2>6, <2>7, <2>8
<1> QED
  BY <1>2, <1>3

\* Every variable of the MQTT thread, of the publishers that borrow its client and
\* of the shared state keeps its type.
THEOREM TypeCorrect == Spec => []TypeOK
<1>1. MqttTypes /\ [Next]_vars => MqttTypes'
  BY StateKept, StateFlagsKept, LegacyKept, ThreadKept, ThreadFlagsKept DEF MqttTypes, TypeOK
<1>2. MqttTypes => TypeOK
  BY DEF MqttTypes
<1> QED
  BY <1>1, <1>2, InitMqttTypes, PTL DEF Spec

-----------------------------------------------------------------------------
(***************************************************************************)
(* CaseDispatch, for any accounts, archives, mixes of cases and number of  *)
(* restarts: the five invariants and the action property the run checks.   *)
(*                                                                         *)
(* The inductive invariant has one part per concern.  Types and Places say *)
(* which case and which payload each place of the callback belongs to; the *)
(* other parts rest on them.                                               *)
(***************************************************************************)
OtaPlaces == {"sd", "url", "lib", "fetch", "script", "extract", "stage", "wipe", "move",
              "launcher", "reboot"}
SyncPlaces == {"lock", "user", "pass", "rebuild"}
CallbackPlaces ==
    {"idle", "return", "publish", "request", "perform", "stop", "second", "update", "raw",
     "status", "kill", "start", "audio", "handshake", "sysinfo"}
    \union OtaPlaces \union SyncPlaces

ChangeRequests == [old : Passwords, new : Passwords]
SyncRequests == [user : Users \union {Nothing}, pass : Passwords \union {Nothing}]
Holders == Archives \union {"factory"}
Trees == [holds : SUBSET Holders, whole : Holders \union {Nothing}]
TmpType == [archive : Archives \union {Nothing, "part"}, tree : Trees, staged : Trees]
FlashType == [prog : Trees, launcher : Holders \union {Nothing}]

\* The types of the callback's variables, and of the others.
CallbackTypes ==
    /\ asked \subseteq Nat
    /\ cb = [pc |-> cb.pc, n |-> cb.n, arg |-> cb.arg, copy |-> cb.copy]
    /\ cb.pc \in CallbackPlaces /\ cb.n \in Nat /\ cb.copy \in Accounts
    /\ said \in Nat

AccountTypes ==
    /\ ka \in [pc : {"rest", "user", "pass", "perform"}, copy : Accounts]
    /\ cred \in [user : Users, pass : Passwords, basic : Accounts]
    /\ held \in {Nothing, "callback", "keepalive"}
    /\ web \in [account : Accounts, moving : BOOLEAN]
    /\ drift \in BOOLEAN
    /\ installed \subseteq Accounts

DeviceTypes ==
    /\ p2p = [running |-> p2p.running, spared |-> p2p.spared, last |-> p2p.last,
              handled |-> p2p.handled]
    /\ p2p.running \in Nat /\ p2p.spared \in BOOLEAN /\ p2p.handled \in BOOLEAN
    /\ audio \in [fd : BOOLEAN, open : Nat, peer : BOOLEAN]
    /\ tmp \in TmpType
    /\ flash \in FlashType

Types == CallbackTypes /\ AccountTypes /\ DeviceTypes

\* Each place of the callback belongs to its cases, with their payloads.
Places ==
    /\ cb.pc \in {"request", "perform"} => cb.n \in Plain \union OnSuccess \union {51, 53, 70, 71}
    /\ cb.n = 71 /\ cb.pc \in {"request", "perform", "update"} => cb.arg \in ChangeRequests
    /\ cb.pc = "stop" => cb.n = 51
    /\ cb.pc = "second" => cb.n = 53
    /\ cb.pc = "update" => cb.n = 71
    /\ cb.pc = "raw" => cb.n = 40
    /\ cb.pc = "sysinfo" => cb.n = 37
    /\ cb.pc \in {"status", "kill", "start"} => cb.n = 0
    /\ cb.pc \in {"audio", "handshake"} => cb.n = 56
    /\ cb.pc \in SyncPlaces => cb.n = 80 /\ cb.arg \in SyncRequests
    /\ cb.pc \in OtaPlaces => cb.n = 36 /\ cb.arg \in Archives \union {Nothing}

\* A case that owes one answer has given it when it returns, and not before.
Answered ==
    cb.n \in Plain \union Unsupported \union {40, 51} /\ cb.pc # "idle"
        => said = IF cb.pc = "return" THEN 1 ELSE 0

\* cred_mutex is held by whoever is between its lock and its unlock.
Mutex ==
    /\ held = "callback" <=> cb.pc \in {"user", "pass", "rebuild"}
    /\ held = "keepalive" <=> ka.pc \in {"user", "pass"}

\* The account the daemon has was in force as a whole, except between the two
\* writes of case 80; the keep-alive thread's copy is of that account.
InForce ==
    /\ cb.pc # "pass" => Pair(cred) \in installed
    /\ ka.pc = "pass" => ka.copy.user = cred.user
    /\ CredentialsWhole

\* The daemon follows the camera's password, or is about to.
Follow ==
    /\ CredentialsFollow
    /\ ~drift /\ cb.pc = "update" => cb.arg.new = web.account.pass

\* The header CAM_AUTH_BASIC says what the two fields say, and the account a
\* request was sent with stays until its case has ended.
Header ==
    /\ cb.pc \notin {"pass", "rebuild"} => cred.basic = Pair(cred)
    /\ cb.pc \in {"perform", "stop"} => cb.copy = Pair(cred)

\* One socket, one process; a handshake has a socket, and a start finds only
\* processes the kill before it spared.
Resources ==
    /\ ResourcesSingle
    /\ cb.pc = "handshake" => audio.fd
    /\ cb.pc = "start" /\ p2p.running > 0 => p2p.spared

\* What an update has extracted, staged and moved has all files of the archive
\* asked for, whatever lay in /tmp/AugenTix before.
Update ==
    cb.arg \in Rooted =>
        /\ cb.pc \in {"script", "extract"} => tmp.archive \in {cb.arg, Nothing}
        /\ cb.pc = "stage" => tmp.tree.whole = cb.arg
        /\ cb.pc \in {"wipe", "move"} => tmp.staged.whole = cb.arg
        /\ cb.pc = "launcher" => flash.prog.whole = cb.arg
        /\ cb.pc = "reboot" => flash.prog.whole = cb.arg /\ flash.launcher = cb.arg

DispatchInv == Types /\ Places /\ Answered /\ Mutex /\ InForce /\ Follow /\ Header /\ Resources /\ Update

-----------------------------------------------------------------------------
\* A daemon that has just started satisfies the invariant.
LEMMA DispatchInitInv == DispatchInit => DispatchInv
<1> USE DispatchAssumption
<1> SUFFICES ASSUME DispatchInit PROVE DispatchInv
  OBVIOUS
<1>1. Types
  BY DEF DispatchInit, Types, CallbackTypes, AccountTypes, DeviceTypes, Idle, EmptyTmp,
         CallbackPlaces, OtaPlaces, SyncPlaces, Accounts, NoP2P, TmpType, FlashType, Trees,
         Holders, FactoryFlash, NoTree, Tree
<1>2. Places /\ Answered /\ Mutex
  BY DEF DispatchInit, Places, Answered, Mutex, Idle, OtaPlaces, SyncPlaces
<1>3. InForce /\ Follow /\ Header
  BY DEF DispatchInit, InForce, CredentialsWhole, Follow, CredentialsFollow, Header, Idle,
         Pair, Accounts, At
<1>4. Resources
  <2>1. audio.fd = FALSE /\ audio.open = 0 /\ p2p.running = 0 /\ cb.pc = "idle"
    BY DEF DispatchInit, Idle, NoP2P
  <2> QED
    BY <2>1 DEF Resources, ResourcesSingle
<1>5. Update
  BY DEF DispatchInit, Update, Idle
<1> QED
  BY <1>1, <1>2, <1>3, <1>4, <1>5 DEF DispatchInv

\* A message that arrives goes to a place its case has, with a payload of it.
LEMMA DeliverPlaces ==
    ASSUME CallbackTypes, Places, Deliver
    PROVE  CallbackTypes' /\ Places'
<1> USE DEF CallbackTypes, CallbackPlaces, OtaPlaces, SyncPlaces, At
<1>1. PICK n \in asked : \/ \E payload \in Payload(n) : legacy_message_arrived(n, payload)
                         \/ PayloadRejected(n)
  BY DEF Deliver
<1>2. CASE \E payload \in Payload(n) : legacy_message_arrived(n, payload)
  <2> PICK payload \in Payload(n) : legacy_message_arrived(n, payload)
    BY <1>2
  <2>1. cb' = [pc |-> First(n), n |-> n, arg |-> payload, copy |-> cb.copy]
    BY DEF legacy_message_arrived
  <2>2. First(n) \in CallbackPlaces
    BY DEF First
  <2>3. CallbackTypes'
    BY <2>1, <2>2 DEF legacy_message_arrived
  <2>4. n = 71 => payload \in ChangeRequests
    BY DEF Payload, ChangeRequests
  <2>5. n = 80 => payload \in SyncRequests
    BY DEF Payload, SyncRequests
  <2>6. n = 36 => payload \in Archives
    BY DEF Payload
  <2>7. Places'
    BY <2>1, <2>4, <2>5, <2>6 DEF Places, First
  <2> QED
    BY <2>3, <2>7
<1>3. CASE PayloadRejected(n)
  BY <1>3 DEF PayloadRejected, Places
<1> QED
  BY <1>1, <1>2, <1>3

\* The other steps keep the callback in a place of its case.
LEMMA RequestPlaces ==
    ASSUME CallbackTypes, AccountTypes, Places, Requests
    PROVE  CallbackTypes' /\ Places'
<1> USE DEF CallbackTypes, CallbackPlaces, Places, OtaPlaces, SyncPlaces, At, Goes, Says, ghosts
<1>1. CASE get_cam_credentials
  BY <1>1 DEF get_cam_credentials, AccountTypes, Accounts, Pair
<1>2. CASE Performed
  BY <1>2 DEF Performed, AfterRequest, Accepted
<1>3. CASE PerformFails
  BY <1>3 DEF PerformFails, AfterRequest
<1>8. CASE SecondRequest
  <2>1. /\ cb' = [pc |-> "request", n |-> cb.n, arg |-> "second", copy |-> cb.copy]
        /\ cb.n = 53 /\ said' = said + 1 /\ asked' = asked
    BY <1>8 DEF SecondRequest
  <2> QED
    BY <2>1
<1>4. CASE RawRequest
  BY <1>4 DEF RawRequest
<1>5. CASE Stop
  BY <1>5 DEF Stop
<1>6. CASE StopFails
  BY <1>6 DEF StopFails
<1>7. CASE SystemInfo \/ Publish \/ Return
  BY <1>7, DispatchAssumption DEF SystemInfo, Publish, Return, Idle
<1> QED
  BY <1>1, <1>2, <1>3, <1>4, <1>7, <1>5, <1>6, <1>8 DEF Requests

\* The other steps leave the callback at a place of its case.
LEMMA OtherPlaces ==
    ASSUME CallbackTypes, Places,
           \/ AccountSteps \/ Keepalive \/ Devices \/ Ota \/ AudioPeerEnds \/ Boot
           \/ \E a \in Accounts : OwnerChanges(a)
           \/ UNCHANGED dispatchVars
    PROVE  CallbackTypes' /\ Places'
<1> USE DEF CallbackTypes, CallbackPlaces, Places, OtaPlaces, SyncPlaces, At, Goes, Says, ghosts
<1>1. CASE AccountSteps
  BY <1>1 DEF AccountSteps, update_password, UpdateRefused, SyncLock, SyncUser, SyncPass, rebuild_basic_auth
<1>2. CASE Keepalive
  BY <1>2 DEF Keepalive, KeepaliveLock, KeepaliveUser, KeepalivePass, KeepalivePerforms
<1>3. CASE Devices
  BY <1>3 DEF Devices, Status, P2P_Kill, StartP2P, AudioConnects, AudioConnectFails,
              HandshakeFails, AudioSends
<1>8. CASE Fetch
  <2>1. cb.pc = "fetch" /\ cb.n = 36 /\ cb.arg \in Archives \union {Nothing}
    BY <1>8 DEF Fetch, OtaFails
  <2>2. PICK pc \in {"script", "return"}, arg \in {cb.arg, Nothing} :
            cb' = [pc |-> pc, n |-> 36, arg |-> arg, copy |-> cb.copy]
    BY <1>8, <2>1 DEF Fetch, OtaFails
  <2>3. said' = said + 1 /\ asked' = asked
    BY <1>8 DEF Fetch, OtaFails
  <2> QED
    BY <2>1, <2>2, <2>3
<1>4. CASE Checks \/ Script \/ Extract
  BY <1>4 DEF Checks, Script, Extract, OtaFails
<1>5. CASE Stage \/ Wipe \/ Move \/ Launcher \/ RebootFails
  BY <1>5 DEF Stage, Wipe, Move, Launcher, RebootFails, OtaFails
<1>6. CASE Boot
  BY <1>6, DispatchAssumption DEF Boot, Idle
<1>7. CASE AudioPeerEnds \/ (\E a \in Accounts : OwnerChanges(a)) \/ UNCHANGED dispatchVars
  BY <1>7 DEF AudioPeerEnds, OwnerChanges, dispatchVars, threads
<1> QED
  BY <1>1, <1>2, <1>3, <1>4, <1>5, <1>6, <1>7, <1>8 DEF Ota

\* A case that owes an answer gives it in its last step before the return.
LEMMA AnsweredStep ==
    ASSUME CallbackTypes, Places, Answered, [DispatchNext]_dispatchVars
    PROVE  Answered'
<1> USE DEF CallbackTypes, CallbackPlaces, Answered, At, Goes, Says, ghosts
<1>1. CASE Deliver
  <2>1. PICK n \in asked : \/ \E payload \in Payload(n) : legacy_message_arrived(n, payload)
                           \/ PayloadRejected(n)
    BY <1>1 DEF Deliver
  <2>2. CASE \E payload \in Payload(n) : legacy_message_arrived(n, payload)
    BY <2>2 DEF legacy_message_arrived, First, Plain, StatusReads, SettingWrites, InfoReads,
                AudioAndEvents, AlarmCases, TimeAndDetection, CardReads, SystemCases, QcReads,
                Unsupported, OnSuccess
  <2>3. CASE PayloadRejected(n)
    BY <2>3 DEF PayloadRejected, Parsed, Plain, StatusReads, SettingWrites, InfoReads,
                AudioAndEvents, AlarmCases, TimeAndDetection, CardReads, SystemCases, QcReads,
                Unsupported
  <2> QED
    BY <2>1, <2>2, <2>3
<1> DEFINE Owing == Plain \union Unsupported \union {40, 51}
<1>2. /\ {0, 36, 37, 53, 56, 71, 80} \intersect Owing = {}
      /\ OnSuccess \intersect Owing = {}
  BY DEF Plain, StatusReads, SettingWrites, InfoReads, AudioAndEvents, AlarmCases,
         TimeAndDetection, CardReads, SystemCases, QcReads, Unsupported, OnSuccess
<1>3. CASE Performed \/ PerformFails
  BY <1>3, <1>2 DEF Performed, PerformFails, AfterRequest, Accepted
<1>4. CASE Requests /\ ~Performed /\ ~PerformFails
  <2>1. CASE get_cam_credentials
    BY <2>1 DEF get_cam_credentials
  <2>7. CASE SecondRequest
    BY <2>7, <1>2 DEF SecondRequest, Places
  <2>2. CASE SystemInfo
    BY <2>2, <1>2 DEF SystemInfo, Places
  <2>3. CASE Stop
    BY <2>3 DEF Stop
  <2>4. CASE StopFails
    BY <2>4 DEF StopFails
  <2>5. CASE RawRequest
    BY <2>5 DEF RawRequest
  <2>6. CASE Publish \/ Return
    BY <2>6 DEF Publish, Return, Idle
  <2> QED
    BY <1>4, <2>1, <2>2, <2>3, <2>4, <2>6, <2>5, <2>7 DEF Requests
<1>5. CASE AccountSteps
  BY <1>5, <1>2 DEF AccountSteps, update_password, UpdateRefused, SyncLock, SyncUser, SyncPass,
                    rebuild_basic_auth, Places, SyncPlaces
<1>6. CASE Devices
  BY <1>6, <1>2 DEF Devices, Status, P2P_Kill, StartP2P, AudioConnects, AudioConnectFails,
                    HandshakeFails, AudioSends, Places
<1>7. CASE Ota
  <2>1. cb.pc \in OtaPlaces /\ cb'.n = cb.n
    BY <1>7 DEF Ota, Checks, Fetch, Script, Extract, Stage, Wipe, Move, Launcher, RebootFails,
                OtaFails, OtaPlaces
  <2> QED
    BY <2>1, <1>2 DEF Places
<1>8. CASE Keepalive \/ AudioPeerEnds \/ (\E a \in Accounts : OwnerChanges(a)) \/ UNCHANGED dispatchVars
  BY <1>8 DEF Keepalive, KeepaliveLock, KeepaliveUser, KeepalivePass, KeepalivePerforms,
              AudioPeerEnds, OwnerChanges, dispatchVars, threads
<1>9. CASE Boot
  BY <1>9 DEF Boot, Idle
<1> QED
  BY <1>1, <1>3, <1>4, <1>5, <1>6, <1>7, <1>8, <1>9 DEF DispatchNext

\* The account: its steps keep the types, the lock, and what is in force.
AccountInv == AccountTypes /\ Mutex /\ InForce /\ Follow /\ Header

\* A step of the callback that touches no account, from one place to another
\* outside the critical section, keeps all of it.
LEMMA ElsewhereAccount ==
    ASSUME CallbackTypes, AccountInv,
           UNCHANGED <<ka, cred, held, web, drift, installed>>,
           cb.pc \notin {"user", "pass", "rebuild", "update"},
           cb'.pc \notin {"user", "pass", "rebuild", "update"},
           cb'.pc \in {"perform", "stop"} => cb'.pc = cb.pc /\ cb'.copy = cb.copy
    PROVE  AccountInv'
<1> USE DEF AccountInv
<1>1. AccountTypes'
  BY DEF AccountTypes
<1>2. Mutex'
  BY DEF Mutex
<1>3. InForce'
  BY DEF InForce, CredentialsWhole, At, Pair
<1>4. Follow'
  BY DEF Follow, CredentialsFollow
<1>5. Header'
  BY DEF Header, Pair
<1> QED
  BY <1>1, <1>2, <1>3, <1>4, <1>5

\* The copies: get_cam_credentials and the keep-alive thread read while nobody
\* writes.
LEMMA CopySteps ==
    ASSUME CallbackTypes, AccountInv, get_cam_credentials \/ Keepalive
    PROVE  AccountInv'
<1> USE DispatchAssumption DEF AccountInv, AccountTypes, Mutex, InForce, CredentialsWhole, Follow,
        CredentialsFollow, Header, At, Goes, Pair, CallbackTypes, Accounts, account, ghosts
<1>1. CASE get_cam_credentials
  BY <1>1 DEF get_cam_credentials
<1>2. CASE KeepaliveLock
  BY <1>2 DEF KeepaliveLock
<1>3. CASE KeepaliveUser
  BY <1>3 DEF KeepaliveUser
<1>4. CASE KeepalivePass
  BY <1>4 DEF KeepalivePass
<1>5. CASE KeepalivePerforms
  BY <1>5 DEF KeepalivePerforms
<1> QED
  BY <1>1, <1>2, <1>3, <1>4, <1>5 DEF Keepalive

\* The changes: case 71, case 80, the owner, a restart.
LEMMA ChangeSteps ==
    ASSUME CallbackTypes, Places, AccountInv,
           AccountSteps \/ Boot \/ \E a \in Accounts : OwnerChanges(a)
    PROVE  AccountInv'
<1> USE DispatchAssumption DEF AccountInv, AccountTypes, Mutex, InForce, CredentialsWhole, Follow,
        CredentialsFollow, Header, At, Goes, Pair, CallbackTypes, Accounts, account, ghosts
<1>1. CASE update_password
  <2> DEFINE c == [user |-> cred.user, pass |-> cb.arg.new]
  <2>1. cb.arg.new \in Passwords /\ c \in Accounts /\ held = Nothing /\ cb.pc = "update"
    BY <1>1 DEF update_password, Places, ChangeRequests
  <2>2. /\ cred' = [user |-> cred.user, pass |-> cb.arg.new, basic |-> c]
        /\ installed' = installed \union {c}
    BY <1>1 DEF update_password
  <2>3. cb' = [cb EXCEPT !.pc = "publish"] /\ UNCHANGED <<ka, held, web, drift>>
    BY <1>1 DEF update_password
  <2> QED
    BY <2>1, <2>2, <2>3
<1>8. CASE UpdateRefused
  <2>1. cb.pc = "update" /\ cb.arg.new = EmptyPassword /\ cb' = [cb EXCEPT !.pc = "publish"]
    BY <1>8 DEF UpdateRefused
  <2>2. UNCHANGED <<ka, cred, held, web, installed>> /\ drift' = (drift \/ cred.pass # EmptyPassword)
    BY <1>8 DEF UpdateRefused
  <2> QED
    BY <2>1, <2>2
<1>2. CASE SyncLock
  BY <1>2 DEF SyncLock
<1>3. CASE SyncUser
  BY <1>3 DEF SyncUser, Places, SyncRequests, SyncPlaces, Given
<1>4. CASE SyncPass
  BY <1>4 DEF SyncPass, Places, SyncRequests, SyncPlaces, Given
<1>5. CASE rebuild_basic_auth
  BY <1>5 DEF rebuild_basic_auth
<1>6. CASE Boot
  BY <1>6 DEF Boot, Idle
<1>7. ASSUME NEW a \in Accounts, OwnerChanges(a) PROVE AccountInv'
  BY <1>7 DEF OwnerChanges, threads
<1> QED
  BY <1>1, <1>2, <1>3, <1>4, <1>5, <1>6, <1>7, <1>8 DEF AccountSteps

\* The camera's answers: a password the camera took over is the one case 71
\* is about to write, and an answer that got lost or misled counts as drift.
LEMMA RequestSteps ==
    ASSUME CallbackTypes, Places, AccountInv, Performed \/ PerformFails \/ Stop
    PROVE  AccountInv'
<1> USE DEF AccountInv, CallbackTypes, At, Goes, account, ghosts
<1>1. UNCHANGED <<ka, cred, held, installed>>
  BY DEF Performed, PerformFails, Stop
<1>2. /\ cb.pc \in {"perform", "stop"} /\ cb'.copy = cb.copy /\ cb'.arg = cb.arg
      /\ cb'.pc \in {"update", "publish", "return", "stop", "second"}
  BY DEF Performed, PerformFails, Stop, AfterRequest
<1>3. web' \in [account : Accounts, moving : BOOLEAN] /\ drift' \in BOOLEAN
  <2>1. CASE Performed \/ PerformFails
    <3>1. Effects \subseteq [account : Accounts, moving : BOOLEAN]
      <4>1. web = [account |-> web.account, moving |-> web.moving] /\ web.moving \in BOOLEAN
            /\ web.account \in Accounts
        BY DEF AccountTypes
      <4>2. [web EXCEPT !.moving = TRUE] \in [account : Accounts, moving : BOOLEAN]
        BY <4>1
      <4>3. cb.n = 71 => cb.arg.new \in Passwords
        BY <1>2, <2>1 DEF Places, ChangeRequests, Performed, PerformFails
      <4>4. ASSUME cb.n = 71
            PROVE  [web EXCEPT !.account.pass = cb.arg.new] \in [account : Accounts, moving : BOOLEAN]
        BY <4>1, <4>3, <4>4 DEF Accounts
      <4>5. CASE cb.n = 71
        BY <4>1, <4>4, <4>5 DEF Effects
      <4>6. CASE cb.n # 71
        <5>1. web \in [account : Accounts, moving : BOOLEAN]
          BY DEF AccountTypes
        <5>2. Effects = {web} \/ Effects = {[web EXCEPT !.moving = TRUE]}
          BY <4>6 DEF Effects
        <5> QED
          BY <4>2, <5>1, <5>2, Zenon
      <4> QED
        BY <4>5, <4>6
    <3>2. web' \in [account : Accounts, moving : BOOLEAN]
      BY <2>1, <3>1 DEF Performed, PerformFails, AccountTypes
    <3>3. drift' \in BOOLEAN
      BY <2>1 DEF Performed, PerformFails, Misleads, AccountTypes
    <3> QED
      BY <3>2, <3>3
  <2>2. CASE Stop
    BY <2>2 DEF Stop, AccountTypes
  <2> QED
    BY <2>1, <2>2
<1>4. AccountTypes'
  BY <1>1, <1>3 DEF AccountTypes
<1>5. Mutex'
  BY <1>1, <1>2 DEF Mutex
<1>6. InForce'
  BY <1>1, <1>2 DEF InForce, CredentialsWhole, Pair
<1>7. Header'
  BY <1>1, <1>2 DEF Header, Pair
<1>8. Follow'
  <2> USE DEF Follow, CredentialsFollow, AccountTypes, Accounts
  <2>1. CASE Performed
    <3>1. PICK marked \in BOOLEAN :
              /\ cb'.pc = IF Accepted(marked) THEN "update" ELSE AfterRequest(TRUE)
              /\ drift' = (drift \/ Misleads(marked))
      BY <2>1 DEF Performed
    <3>2. CASE cb.n = 71 /\ marked
      <4>1. cb'.pc = "update" /\ (~drift' => web'.account.pass = cb.arg.new)
        BY <3>1, <3>2 DEF Accepted, Misleads
      <4> QED
        BY <4>1, <1>1, <1>2
    <3>3. CASE ~(cb.n = 71 /\ marked)
      <4>1. ~drift' => ~drift /\ web'.account = web.account
        <5>1. CASE cb.n = 71
          BY <3>1, <3>3, <5>1 DEF Misleads
        <5>2. CASE cb.n # 71
          <6>1. web' \in Effects
            BY <2>1 DEF Performed
          <6>2. web'.account = web.account
            BY <5>2, <6>1 DEF Effects
          <6> QED
            BY <3>1, <6>2
        <5> QED
          BY <5>1, <5>2
      <4>2. cb'.pc # "update"
        BY <3>1, <3>3 DEF Accepted, AfterRequest
      <4> QED
        BY <4>1, <4>2, <1>1, <1>2
    <3> QED
      BY <3>2, <3>3
  <2>2. CASE PerformFails
    <3>1. cb'.pc # "update" /\ (~drift' => web'.account.pass = cred.pass)
      BY <2>2 DEF PerformFails, AfterRequest
    <3> QED
      BY <3>1, <1>1
  <2>3. CASE Stop
    <3>1. web'.account = web.account /\ drift' = drift /\ cb'.pc = "publish"
      BY <2>3 DEF Stop
    <3> QED
      BY <3>1, <1>1, <1>2
  <2> QED
    BY <2>1, <2>2, <2>3
<1> QED
  BY <1>4, <1>5, <1>6, <1>7, <1>8

\* Every other step is elsewhere.
LEMMA AccountStep ==
    ASSUME CallbackTypes, Places, AccountInv, [DispatchNext]_dispatchVars
    PROVE  AccountInv'
<1> USE DEF CallbackTypes, At, Goes, account, ghosts
<1>1. CASE Deliver
  <2>1. PICK n \in asked : \/ \E payload \in Payload(n) : legacy_message_arrived(n, payload)
                           \/ PayloadRejected(n)
    BY <1>1 DEF Deliver
  <2>2. CASE \E payload \in Payload(n) : legacy_message_arrived(n, payload)
    <3>1. First(n) \in {"request", "publish", "status", "return", "sd", "sysinfo", "raw", "audio",
                        "lock"}
      BY DEF First
    <3>2. cb'.pc = First(n) /\ cb.pc = "idle" /\ UNCHANGED <<ka, cred, held, web, drift, installed>>
      BY <2>2 DEF legacy_message_arrived
    <3> QED
      BY <3>1, <3>2, ElsewhereAccount
  <2>3. CASE PayloadRejected(n)
    BY <2>3, ElsewhereAccount DEF PayloadRejected
  <2> QED
    BY <2>1, <2>2, <2>3
<1>2. CASE StopFails
  BY <1>2, ElsewhereAccount DEF StopFails
<1>7. CASE SecondRequest
  BY <1>7, ElsewhereAccount DEF SecondRequest
<1>3. CASE RawRequest \/ SystemInfo \/ Publish \/ Return
  <2>1. /\ UNCHANGED <<ka, cred, held, web, drift, installed>>
        /\ cb.pc \in {"raw", "sysinfo", "publish", "return"}
        /\ cb'.pc \in {"return", "publish", "idle"}
    BY <1>3 DEF RawRequest, SystemInfo, Publish, Return, Idle
  <2> QED
    BY <2>1, ElsewhereAccount
<1>4. CASE Devices
  <2>1. /\ UNCHANGED <<ka, cred, held, web, drift, installed>>
        /\ cb.pc \in {"status", "kill", "start", "audio", "handshake"}
        /\ cb'.pc \in {"kill", "start", "handshake", "return"}
    BY <1>4 DEF Devices, Status, P2P_Kill, StartP2P, AudioConnects, AudioConnectFails,
                HandshakeFails, AudioSends
  <2> QED
    BY <2>1, ElsewhereAccount
<1>5. CASE Ota
  <2>1. /\ UNCHANGED <<ka, cred, held, web, drift, installed>>
        /\ cb.pc \in OtaPlaces
        /\ cb'.pc \in OtaPlaces \union {"return"}
    BY <1>5 DEF Ota, Checks, Fetch, Script, Extract, Stage, Wipe, Move, Launcher, RebootFails,
                OtaFails, OtaPlaces
  <2> QED
    BY <2>1, ElsewhereAccount DEF OtaPlaces
<1>6. CASE AudioPeerEnds \/ UNCHANGED dispatchVars
  <2>1. UNCHANGED <<cb, ka, cred, held, web, drift, installed>>
    BY <1>6 DEF AudioPeerEnds, dispatchVars, threads
  <2> QED
    BY <2>1 DEF AccountInv, AccountTypes, Mutex, InForce, CredentialsWhole, Follow,
                CredentialsFollow, Header, Pair
<1> QED
  BY <1>1, <1>3, <1>4, <1>5, <1>6, <1>7, <1>2, CopySteps, ChangeSteps, RequestSteps DEF DispatchNext,
                                                                                  Requests

\* A kill that spares a process says so.
LEMMA KilledP2P ==
    ASSUME DeviceTypes, Killed
    PROVE  /\ p2p' = [running |-> p2p'.running, spared |-> p2p'.spared, last |-> p2p'.last,
                      handled |-> p2p'.handled]
           /\ p2p'.running \in Nat /\ p2p'.spared \in BOOLEAN /\ p2p'.handled \in BOOLEAN
           /\ p2p'.running > 0 => p2p'.spared
<1>1. PICK left \in 0 .. p2p.running : p2p' = [p2p EXCEPT !.running = left, !.spared = left > 0]
  BY DEF Killed
<1>2. p2p' = [running |-> left, spared |-> left > 0, last |-> p2p.last, handled |-> p2p.handled]
  BY <1>1 DEF DeviceTypes
<1>3. p2p'.running = left /\ p2p'.spared = (left > 0) /\ p2p'.handled = p2p.handled
      /\ p2p'.last = p2p.last
  BY <1>2
<1>4. p2p' = [running |-> p2p'.running, spared |-> p2p'.spared, last |-> p2p'.last,
              handled |-> p2p'.handled]
  BY <1>2
<1>5. (left > 0) \in BOOLEAN /\ left \in Nat /\ p2p.handled \in BOOLEAN
  BY DEF DeviceTypes
<1> QED
  BY <1>3, <1>4, <1>5

\* Sockets and processes: only cases 0, 36 and 56, a dying peer and a restart
\* touch them.
LEMMA ResourceStep ==
    ASSUME CallbackTypes, DeviceTypes, Resources, [DispatchNext]_dispatchVars
    PROVE  Resources' /\ audio' \in [fd : BOOLEAN, open : Nat, peer : BOOLEAN]
           /\ p2p' = [running |-> p2p'.running, spared |-> p2p'.spared, last |-> p2p'.last,
                      handled |-> p2p'.handled]
           /\ p2p'.running \in Nat /\ p2p'.spared \in BOOLEAN /\ p2p'.handled \in BOOLEAN
<1> USE DEF CallbackTypes, DeviceTypes, Resources, ResourcesSingle, At, Goes
<1>1. CASE Deliver
  <2>1. PICK n \in asked : \/ \E payload \in Payload(n) : legacy_message_arrived(n, payload)
                           \/ PayloadRejected(n)
    BY <1>1 DEF Deliver
  <2>2. First(n) \notin {"handshake", "start"}
    BY DEF First
  <2>3. UNCHANGED <<p2p, audio>> /\ cb'.pc \notin {"handshake", "start"}
    BY <2>1, <2>2 DEF legacy_message_arrived, PayloadRejected
  <2> QED
    BY <2>3
<1>2. CASE Requests
  <2>1. UNCHANGED <<p2p, audio>>
    BY <1>2 DEF Requests, get_cam_credentials, Performed, PerformFails, SecondRequest, RawRequest,
                Stop, StopFails, SystemInfo, Publish, Return
  <2>2. cb'.pc \notin {"handshake", "start"}
    <3>1. CASE get_cam_credentials
      BY <3>1 DEF get_cam_credentials
    <3>2. CASE Performed \/ PerformFails
      BY <3>2 DEF Performed, PerformFails, AfterRequest
    <3>3. CASE StopFails
      BY <3>3 DEF StopFails
    <3>4. CASE RawRequest \/ Stop \/ SystemInfo \/ Publish \/ Return
      BY <3>4 DEF RawRequest, Stop, SystemInfo, Publish, Return, Idle
    <3>5. CASE SecondRequest
      BY <3>5 DEF SecondRequest
    <3> QED
      BY <1>2, <3>1, <3>2, <3>3, <3>4, <3>5 DEF Requests
  <2> QED
    BY <2>1, <2>2
<1>3. CASE AccountSteps
  BY <1>3 DEF AccountSteps, update_password, UpdateRefused, SyncLock, SyncUser, SyncPass, rebuild_basic_auth
<1>4. CASE Keepalive \/ (\E a \in Accounts : OwnerChanges(a)) \/ UNCHANGED dispatchVars
  BY <1>4 DEF Keepalive, KeepaliveLock, KeepaliveUser, KeepalivePass, KeepalivePerforms,
              OwnerChanges, dispatchVars, threads
<1>5. CASE Status
  BY <1>5 DEF Status
<1>6. CASE P2P_Kill \/ StartP2P
  <2>1. CASE P2P_Kill
    BY <2>1, KilledP2P DEF P2P_Kill
  <2>2. CASE StartP2P
    <3>1. cb.pc = "start" /\ cb'.pc = "return" /\ audio' = audio
      BY <2>2 DEF StartP2P
    <3>2. CASE p2p' = p2p
      BY <3>1, <3>2
    <3>3. CASE p2p' = [p2p EXCEPT !.running = @ + 1]
      <4>1. p2p'.running = p2p.running + 1 /\ p2p'.spared = p2p.spared
        BY <3>3
      <4>2. p2p'.running > 1 => p2p'.spared
        BY <3>1, <4>1
      <4> QED
        BY <3>1, <3>3, <4>1, <4>2
    <3> QED
      BY <2>2, <3>2, <3>3 DEF StartP2P
  <2> QED
    BY <1>6, <2>1, <2>2
<1>7. CASE AudioConnects \/ AudioConnectFails
  <2>1. CASE AudioConnects
    <3>1. audio.open = 0 /\ audio' = [fd |-> TRUE, open |-> audio.open + 1, peer |-> TRUE]
      BY <2>1 DEF AudioConnects
    <3>2. audio'.fd = TRUE /\ audio'.open = 1 /\ cb'.pc = "handshake" /\ p2p' = p2p
      BY <2>1, <3>1 DEF AudioConnects
    <3> QED
      BY <3>1, <3>2
  <2>2. CASE AudioConnectFails
    BY <2>2 DEF AudioConnectFails
  <2> QED
    BY <1>7, <2>1, <2>2
<1>8. CASE HandshakeFails
  BY <1>8 DEF HandshakeFails
<1>9. CASE AudioSends
  BY <1>9 DEF AudioSends
<1>10. CASE AudioPeerEnds
  BY <1>10 DEF AudioPeerEnds, threads
<1>11. CASE Boot
  <2>1. /\ audio' = [fd |-> FALSE, open |-> 0, peer |-> FALSE]
        /\ p2p' = [running |-> 0, spared |-> FALSE, last |-> "", handled |-> FALSE]
        /\ cb'.pc = "idle"
    BY <1>11 DEF Boot, Idle, NoP2P
  <2>2. /\ audio'.fd = FALSE /\ audio'.open = 0 /\ p2p'.running = 0 /\ p2p'.handled = FALSE
        /\ p2p'.spared = FALSE /\ cb'.pc = "idle"
    BY <2>1
  <2>3. audio'.open = IF audio'.fd THEN 1 ELSE 0
    BY <2>2
  <2>4. Resources'
    BY <2>2, <2>3
  <2>5. audio' \in [fd : BOOLEAN, open : Nat, peer : BOOLEAN]
    BY <2>1
  <2>6. p2p' = [running |-> p2p'.running, spared |-> p2p'.spared, last |-> p2p'.last,
                handled |-> p2p'.handled]
    BY <2>1
  <2> QED
    BY <2>2, <2>4, <2>5, <2>6
<1>12. CASE Ota
  <2>1. CASE Script
    <3>1. audio' = audio /\ cb'.pc \in {"extract", "return"} /\ (Killed \/ p2p' = p2p)
      BY <2>1 DEF Script, OtaFails
    <3> QED
      BY <3>1, KilledP2P
  <2>2. CASE Ota /\ ~Script
    <3>1. UNCHANGED <<p2p, audio>> /\ cb'.pc \notin {"handshake", "start"}
      BY <2>2 DEF Ota, Checks, Fetch, Extract, Stage, Wipe, Move, Launcher, RebootFails, OtaFails
    <3> QED
      BY <3>1
  <2> QED
    BY <1>12, <2>1, <2>2
<1> QED
  BY <1>1, <1>2, <1>3, <1>4, <1>5, <1>6, <1>7, <1>8, <1>9, <1>10, <1>11,
     <1>12 DEF DispatchNext, Devices

\* Case 36: from the download to the reboot, each step works on what the step
\* before it left, and no other step writes to /tmp or to flash.
LEMMA UpdateStep ==
    ASSUME CallbackTypes, Places, DeviceTypes, Update, [DispatchNext]_dispatchVars
    PROVE  Update' /\ tmp' \in TmpType /\ flash' \in FlashType
<1> USE DispatchAssumption DEF CallbackTypes, DeviceTypes, Update, At, Goes, disk
<1> DEFINE Working == {"script", "extract", "stage", "wipe", "move", "launcher", "reboot"}
<1>1. ASSUME UNCHANGED disk, cb'.pc \notin Working \/ UNCHANGED cb
      PROVE  Update' /\ tmp' \in TmpType /\ flash' \in FlashType
  BY <1>1
<1>2. CASE Deliver
  <2>1. PICK n \in asked : \/ \E payload \in Payload(n) : legacy_message_arrived(n, payload)
                           \/ PayloadRejected(n)
    BY <1>2 DEF Deliver
  <2>2. First(n) \notin Working
    BY DEF First
  <2> QED
    BY <1>1, <2>1, <2>2 DEF legacy_message_arrived, PayloadRejected
<1>3. CASE Requests
  <2>1. UNCHANGED disk
    BY <1>3 DEF Requests, get_cam_credentials, Performed, PerformFails, SecondRequest, RawRequest,
                Stop, StopFails, SystemInfo, Publish, Return
  <2>2. cb'.pc \notin Working
    <3>1. CASE get_cam_credentials
      BY <3>1 DEF get_cam_credentials
    <3>2. CASE Performed \/ PerformFails
      BY <3>2 DEF Performed, PerformFails, AfterRequest
    <3>3. CASE StopFails
      BY <3>3 DEF StopFails
    <3>4. CASE RawRequest \/ Stop \/ SystemInfo \/ Publish \/ Return
      BY <3>4 DEF RawRequest, Stop, SystemInfo, Publish, Return, Idle
    <3>5. CASE SecondRequest
      BY <3>5 DEF SecondRequest
    <3> QED
      BY <1>3, <3>1, <3>2, <3>3, <3>4, <3>5 DEF Requests
  <2> QED
    BY <1>1, <2>1, <2>2
<1>4. CASE AccountSteps
  <2>1. UNCHANGED disk /\ cb'.pc \notin Working
    BY <1>4 DEF AccountSteps, update_password, UpdateRefused, SyncLock, SyncUser, SyncPass, rebuild_basic_auth
  <2> QED
    BY <1>1, <2>1
<1>5. CASE Keepalive \/ AudioPeerEnds \/ (\E a \in Accounts : OwnerChanges(a)) \/ UNCHANGED dispatchVars
  <2>1. UNCHANGED <<disk, cb>>
    BY <1>5 DEF Keepalive, KeepaliveLock, KeepaliveUser, KeepalivePass, KeepalivePerforms,
                AudioPeerEnds, OwnerChanges, dispatchVars, threads
  <2> QED
    BY <1>1, <2>1
<1>6. CASE Devices
  <2>1. UNCHANGED disk /\ cb'.pc \notin Working
    BY <1>6 DEF Devices, Status, P2P_Kill, StartP2P, AudioConnects, AudioConnectFails,
                HandshakeFails, AudioSends
  <2> QED
    BY <1>1, <2>1
<1>7. CASE Boot
  <2>1. cb'.pc = "idle" /\ tmp' \in TmpType /\ flash' = flash
    BY <1>7 DEF Boot, Idle, EmptyTmp, TmpType, NoTree, Tree, Trees, Holders
  <2> QED
    BY <2>1
<1>8. CASE Ota
  <2> USE DEF OtaFails
  <2>1. cb.pc \in OtaPlaces => cb.arg \in Archives \union {Nothing}
    BY DEF Places
  <2>2. CASE Checks
    BY <2>2 DEF Checks
  <2>3. CASE Fetch
    BY <2>1, <2>3 DEF Fetch, Saved, TmpType, OtaPlaces
  <2>4. CASE Script
    BY <2>4 DEF Script
  <2>5. CASE Extract
    <3>1. /\ cb.pc = "extract" /\ flash' = flash /\ cb'.arg = cb.arg
          /\ cb'.pc \in {"stage", "return"}
          /\ \E t \in Trees : tmp' = [tmp EXCEPT !.tree = t]
          /\ cb'.pc = "stage" => /\ tmp.archive \in Archives
                                 /\ tmp.archive \in Rooted => tmp'.tree.whole = tmp.archive
      <4>1. \A a \in Archives : Partly(a) \in Trees /\ Unpacked(a) \subseteq Trees
        BY DEF Partly, Unpacked, Tree, Trees, Holders, TmpType
      <4>2. \A a \in Rooted : \A t \in Unpacked(a) : t.whole = a
        BY DEF Unpacked, Tree
      <4>3. tmp = [tmp EXCEPT !.tree = tmp.tree] /\ tmp.tree \in Trees
        BY DEF TmpType
      <4>4. CASE \E t \in Unpacked(tmp.archive) :
                   /\ At("extract") /\ tmp.archive \in Archives
                   /\ tmp' = [tmp EXCEPT !.tree = t]
                   /\ IF t # NoTree THEN Goes("stage") /\ UNCHANGED said ELSE OtaFails("extract")
        BY <2>5, <4>1, <4>2, <4>4 DEF Extract, TmpType
      <4>5. CASE OtaFails("extract") /\ UNCHANGED tmp
        BY <2>5, <4>3, <4>5 DEF Extract
      <4>6. CASE /\ OtaFails("extract") /\ tmp.archive \in Archives
                 /\ tmp' = [tmp EXCEPT !.tree = Partly(tmp.archive)]
        BY <2>5, <4>1, <4>6 DEF Extract
      <4> QED
        BY <2>5, <4>4, <4>5, <4>6 DEF Extract
    <3>2. tmp' \in TmpType /\ flash' \in FlashType
      BY <3>1 DEF TmpType
    <3>3. Update'
      BY <3>1
    <3> QED
      BY <3>2, <3>3
  <2> USE DEF TmpType, FlashType, Trees, Holders, NoTree, Tree
  <2>6. CASE Stage
    <3>1. CASE cb'.pc = "wipe" /\ tmp' = [tmp EXCEPT !.staged = tmp.tree, !.tree = NoTree]
      <4>1. cb.pc = "stage" /\ cb'.arg = cb.arg /\ flash' = flash
        BY <2>6 DEF Stage
      <4>2. tmp'.staged = tmp.tree
        BY <3>1
      <4>3. tmp' \in TmpType
        BY <3>1
      <4> QED
        BY <3>1, <4>1, <4>2, <4>3
    <3>2. CASE OtaFails("stage") /\ UNCHANGED tmp
      BY <2>6, <3>2 DEF Stage
    <3> QED
      BY <2>6, <3>1, <3>2 DEF Stage
  <2>7. CASE Wipe
    BY <2>7 DEF Wipe
  <2>8. CASE Move
    BY <2>8 DEF Move
  <2>9. CASE Launcher
    BY <2>9 DEF Launcher
  <2>10. CASE RebootFails
    BY <2>10 DEF RebootFails
  <2> QED
    BY <1>8, <2>2, <2>3, <2>4, <2>5, <2>6, <2>7, <2>8, <2>9, <2>10 DEF Ota
<1> QED
  BY <1>2, <1>3, <1>4, <1>5, <1>6, <1>7, <1>8 DEF DispatchNext

-----------------------------------------------------------------------------
\* Every step keeps the invariant.
LEMMA DispatchNextInv == DispatchInv /\ [DispatchNext]_dispatchVars => DispatchInv'
<1> SUFFICES ASSUME DispatchInv, [DispatchNext]_dispatchVars PROVE DispatchInv'
  OBVIOUS
<1> USE DEF DispatchInv, Types
<1>1. CallbackTypes' /\ Places'
  BY DeliverPlaces, RequestPlaces, OtherPlaces DEF DispatchNext
<1>2. Answered'
  BY AnsweredStep
<1>3. AccountTypes' /\ Mutex' /\ InForce' /\ Follow' /\ Header'
  BY AccountStep DEF AccountInv
<1>4. DeviceTypes'
  BY ResourceStep, UpdateStep DEF DeviceTypes
<1>5. Resources' /\ Update'
  BY ResourceStep, UpdateStep
<1> QED
  BY <1>1, <1>2, <1>3, <1>4, <1>5

\* The invariant holds throughout.
LEMMA DispatchInvariance == DispatchSpec => []DispatchInv
BY DispatchInitInv, DispatchNextInv, PTL DEF DispatchSpec

\* legacy_message_arrived answers every status and setting request exactly
\* once, whatever the camera's web server does meanwhile.
THEOREM AnswersOnce == DispatchSpec => []AnsweredOnce
<1>1. DispatchInv => AnsweredOnce
  BY DEF DispatchInv, Answered, AnsweredOnce, At
<1> QED
  BY <1>1, DispatchInvariance, PTL

\* No request of the callback or of the keep-alive thread carries the user
\* name of one account with the password of another: what cred_mutex is for.
THEOREM CredentialsAreWhole == DispatchSpec => []CredentialsWhole
<1>1. DispatchInv => CredentialsWhole
  BY DEF DispatchInv, InForce
<1> QED
  BY <1>1, DispatchInvariance, PTL

\* Outside the two writes of an account, the daemon's password is the camera's
\* unless one of the listed causes of drift occurred.
THEOREM PasswordFollows == DispatchSpec => []CredentialsFollow
<1>1. DispatchInv => CredentialsFollow
  BY DEF DispatchInv, Follow
<1> QED
  BY <1>1, DispatchInvariance, PTL

\* Case 56 neither leaks a socket nor forgets one, and case 0 leaves two
\* P2Pambicam processes only if the last kill spared one.
THEOREM ResourcesAreSingle == DispatchSpec => []ResourcesSingle
<1>1. DispatchInv => ResourcesSingle
  BY DEF DispatchInv, Resources
<1> QED
  BY <1>1, DispatchInvariance, PTL

\* Case 36 reaches its reboot only with all files and the launcher of the archive
\* it was asked for in flash, whatever earlier attempts left in /tmp/AugenTix.
THEOREM UpdatesAreWhole == DispatchSpec => []UpdateIsWhole
<1>1. DispatchInv => UpdateIsWhole
  BY DEF DispatchInv, Update, UpdateIsWhole, At
<1> QED
  BY <1>1, DispatchInvariance, PTL

\* The stop of case 51 reaches the motor whenever the move did: it authenticates
\* with CAM_AUTH_BASIC, the move with the two fields, and Header says that they
\* agree.
THEOREM MovesStop == DispatchSpec => MoveStops
<1>1. DispatchInv /\ [DispatchNext]_dispatchVars
        => [At("stop") /\ cb'.pc = "publish" /\ cb'.arg # "lost" /\ cb.copy = web.account
            => ~web'.moving]_dispatchVars
  <2> SUFFICES ASSUME DispatchInv, DispatchNext, At("stop"), cb'.pc = "publish", cb'.arg # "lost",
                      cb.copy = web.account
               PROVE  ~web'.moving
    BY DEF dispatchVars
  <2> USE DEF At, Goes, DispatchInv, Types, CallbackTypes
  <2>1. Stop
    <3>1. Deliver \/ Requests \/ AccountSteps \/ Keepalive \/ Devices \/ Ota \/ AudioPeerEnds
          \/ Boot \/ \E a \in Accounts : OwnerChanges(a)
      BY DEF DispatchNext
    <3>2. ~Deliver
      BY DEF Deliver, legacy_message_arrived, PayloadRejected
    <3>3. ~AccountSteps /\ ~Keepalive
      BY DEF AccountSteps, update_password, UpdateRefused, SyncLock, SyncUser, SyncPass, rebuild_basic_auth,
             Keepalive, KeepaliveLock, KeepaliveUser, KeepalivePass, KeepalivePerforms
    <3>4. ~AudioPeerEnds
      BY DEF AudioPeerEnds, threads
    <3>5. ~Boot
      <4> SUFFICES ASSUME Boot PROVE FALSE
        OBVIOUS
      <4>1. cb' = Idle
        BY DEF Boot
      <4> QED
        BY <4>1 DEF Idle
    <3>6. ~Devices /\ ~Ota
      BY DEF Devices, Status, P2P_Kill, StartP2P, AudioConnects, AudioConnectFails,
             HandshakeFails, AudioSends, Ota, Checks, Fetch, Script, Extract, Stage, Wipe, Move, Launcher,
             RebootFails, OtaFails
    <3>7. ~\E a \in Accounts : OwnerChanges(a)
      BY DEF OwnerChanges, threads
    <3>8. ~StopFails
      BY DEF StopFails
    <3> QED
      BY <3>1, <3>2, <3>3, <3>6, <3>7, <3>8, <3>4, <3>5
         DEF Requests, get_cam_credentials, Performed, PerformFails, SecondRequest, RawRequest,
             SystemInfo, Publish, Return
  <2>2. cred.basic = web.account
    BY DEF Header, Pair
  <2>3. web' = [web EXCEPT !.moving = FALSE] /\ web \in [account : Accounts, moving : BOOLEAN]
    BY <2>1, <2>2 DEF Stop, AccountTypes
  <2>4. web'.moving = FALSE
    BY <2>3
  <2> QED
    BY <2>4
<1> QED
  BY <1>1, DispatchInvariance, PTL DEF DispatchSpec, MoveStops
=============================================================================
