---------------------------- MODULE LegacyCases ----------------------------
(***************************************************************************)
(* The threads of the camera daemon that publish over the MQTT client      *)
(* without owning it (src/ap2p/legacy_cases.c, boot_timing.c):             *)
(*   startup    ap2p_legacy_startup_thread, the boot-time answers, once;   *)
(*   keepalive  ap2p_legacy_keepalive_thread, case 34 and case 0 in turn;  *)
(*   callback   paho's receive thread inside legacy_message_arrived;       *)
(*   boot       the SRT thread inside bt_publish_summary, once.            *)
(* The first three share one answer buffer, `response`, and the first two  *)
(* read the client from the global `client` at the time they publish; the  *)
(* other two carry the handle they were given when they started.           *)
(*                                                                         *)
(* An answer is named by the case that asked for it.  live is the set of   *)
(* paho clients that exist: a handle outside it points to freed memory,    *)
(* and an address that was freed can be handed out again.                  *)
(***************************************************************************)
EXTENDS Ap2pState, Sequences

CONSTANTS
    Handles,        \* addresses of paho clients
    None,           \* NULL
    Reads,          \* cases that send one request and publish its answer
    StartupReads,   \* those of them the startup thread runs, in order
    CallbackReads   \* those of them the broker may ask for

ASSUME HandlesAssumption == None \notin Handles

ASSUME ReadsAssumption ==
    /\ StartupReads \in Seq(Reads)
    /\ CallbackReads \subseteq Reads
    /\ {"ini", "name", "34", "0", "boot"} \intersect Reads = {}

VARIABLES
    live,       \* the paho clients that exist
    client,     \* the legacy global `client`
    response,   \* whose answer is in the shared buffer
    pubPc,      \* where each publisher is
    job,        \* the case it is working on
    plan,       \* what the startup thread has still to do
    handle      \* the handle a publisher was given

legacyVars == <<client, response, pubPc, job, plan, handle>>

Publishers == {"startup", "keepalive", "callback", "boot"}

Blank == "blank"   \* the buffer after memset

Jobs == Reads \union {"ini", "name", "34", "0", "boot"}

\* get_ini_files, cameraname_Change, then the reads.
StartupPlan == <<"ini", "name">> \o StartupReads

PubPcs == {"off", "sleep", "answer", "publish", "done"}

LegacyTypeOK ==
    /\ live \in SUBSET Handles
    /\ client \in Handles \union {None}
    /\ response \in Jobs \union {Blank}
    /\ pubPc \in [Publishers -> PubPcs]
    /\ job \in [Publishers -> Jobs]
    /\ plan \in Seq(Jobs)
    /\ handle \in [Publishers -> Handles \union {None}]

LegacyInit ==
    /\ live = {}
    /\ client = None
    /\ response = Blank
    /\ pubPc = [p \in Publishers |-> "off"]
    /\ job = [p \in Publishers |-> "ini"]
    /\ plan = StartupPlan
    /\ handle = [p \in Publishers |-> None]

-----------------------------------------------------------------------------
(***************************************************************************)
(* One handler: request, answer, publication.                              *)
(***************************************************************************)

\* The first step of case c.  send_https_request clears the buffer before the
\* request goes out; case 0 fills it on the spot; get_ini_files publishes what is
\* there; bt_publish_summary has a buffer of its own.
Begin(p, c) ==
    /\ job' = [job EXCEPT ![p] = c]
    /\ CASE c \in {"ini", "boot"} -> /\ pubPc' = [pubPc EXCEPT ![p] = "publish"]
                                     /\ UNCHANGED response
         [] c = "0" -> /\ pubPc' = [pubPc EXCEPT ![p] = "publish"]
                       /\ response' = c
         [] OTHER -> /\ pubPc' = [pubPc EXCEPT ![p] = "answer"]
                     /\ response' = Blank

\* Where a publisher goes once a case is done.
Rest(p) ==
    CASE p \in {"startup", "keepalive"} -> "sleep"
      [] p = "callback" -> "off"
      [] p = "boot" -> "done"

\* curl_easy_perform ends (no timeout is set on it): on success the answer is in
\* the buffer, on failure the buffer is left alone, and only case 34 looks at the
\* difference.  cameraname_Change publishes nothing.
Answer(p) ==
    /\ pubPc[p] = "answer"
    /\ \/ /\ response' = job[p]
          /\ pubPc' = [pubPc EXCEPT ![p] = IF job[p] = "name" THEN Rest(p) ELSE "publish"]
       \/ /\ pubPc' = [pubPc EXCEPT ![p] =
                          IF job[p] \in {"name", "34"} THEN Rest(p) ELSE "publish"]
          /\ UNCHANGED response
    /\ UNCHANGED <<client, job, plan, handle>>

\* The client a publisher passes to MQTTClient_publishMessage.
HandleOf(p) == IF p \in {"startup", "keepalive"} THEN client ELSE handle[p]

\* publish_mqtt_message, under mqtt_mutex: the buffer goes out on the topic of the
\* case, over HandleOf(p) if that is not NULL.  Nothing the daemon keeps changes.
publish_mqtt_message(p) ==
    /\ pubPc[p] = "publish"
    /\ pubPc' = [pubPc EXCEPT ![p] = Rest(p)]
    /\ UNCHANGED <<client, response, job, plan, handle>>

-----------------------------------------------------------------------------
(***************************************************************************)
(* The threads.                                                            *)
(***************************************************************************)

\* run_startup_cases: the next case of the plan.
StartupNext ==
    /\ pubPc["startup"] = "sleep"
    /\ plan # <<>>
    /\ Begin("startup", Head(plan))
    /\ plan' = Tail(plan)
    /\ UNCHANGED <<client, handle>>

StartupEnds ==
    /\ pubPc["startup"] = "sleep"
    /\ plan = <<>>
    /\ pubPc' = [pubPc EXCEPT !["startup"] = "done"]
    /\ UNCHANGED <<client, response, job, plan, handle>>

\* Faulty variant: case 0 is never its turn.
KeepaliveNext_NoTurn ==
    /\ pubPc["keepalive"] = "sleep"
    /\ ~shutdown
    /\ Begin("keepalive", "34")
    /\ UNCHANGED <<client, plan, handle>>

\* Case 34, a minute, case 0, five seconds, and again.
KeepaliveNext ==
    /\ pubPc["keepalive"] = "sleep"
    /\ ~shutdown
    /\ Begin("keepalive", IF job["keepalive"] = "34" THEN "0" ELSE "34")
    /\ UNCHANGED <<client, plan, handle>>

\* keepalive_sleep_or_exit and the loop condition.
KeepaliveEnds ==
    /\ pubPc["keepalive"] = "sleep"
    /\ shutdown
    /\ pubPc' = [pubPc EXCEPT !["keepalive"] = "done"]
    /\ UNCHANGED <<client, response, job, plan, handle>>

\* legacy_message_arrived for a case that reads and answers.
AnswerRead(c, h) ==
    /\ pubPc["callback"] = "off"
    /\ Begin("callback", c)
    /\ handle' = [handle EXCEPT !["callback"] = h]
    /\ UNCHANGED <<client, plan>>

\* bt_publish_summary, called once by the SRT thread after its first
\* registration with the handle it then finds in the shared state.
bt_publish_summary(h) ==
    /\ pubPc["boot"] = "off"
    /\ stateReady
    /\ Begin("boot", "boot")
    /\ handle' = [handle EXCEPT !["boot"] = h]
    /\ UNCHANGED <<client, plan>>

-----------------------------------------------------------------------------
(***************************************************************************)
(* Properties.  A publisher at "publish" sends, at its next step, the      *)
(* buffer as it then is.                                                   *)
(***************************************************************************)

\* legacy_cases.c:2367-2369: the keep-alive thread does not race the startup
\* pulse.  What goes out on a case's topic is that case's answer, or nothing.
OwnAnswer ==
    \A p \in Publishers :
        pubPc[p] = "publish" /\ job[p] \notin {"ini", "boot"} =>
            response \in {job[p], Blank}

\* legacy_cases.c:2348-2351: while the MQTT thread reconnects, the keep-alive
\* thread keeps looping harmlessly, because the global is NULL when there is no
\* client.
UsesLiveClient ==
    pubPc["keepalive"] = "publish" /\ ~shutdown =>
        HandleOf("keepalive") \in live \union {None}

=============================================================================
