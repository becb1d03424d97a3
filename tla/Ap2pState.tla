---------------------------- MODULE Ap2pState ----------------------------
(***************************************************************************)
(* The state the camera daemon's threads share (ap2p_state_t of            *)
(* src/ap2p/state.h) and the operations on it (state.c, config.c).         *)
(*                                                                         *)
(* state->lock makes every operation here one atomic step.  The seventeen  *)
(* runtime-configuration fields are represented by three, one for each     *)
(* way the code tells fields apart:                                        *)
(*   ctrl_host  the field the sanity check of a payload looks at;          *)
(*   src_host   a field the snapshot replaces by a default when empty;     *)
(*   src_path   a field copied as it is.                                   *)
(***************************************************************************)

CONSTANTS
    Values,     \* non-empty field values
    Empty,      \* the empty string: a field never set, or set to nothing
    Loopback,   \* "127.0.0.1", the default of src_host
    Payloads    \* the case-81/90 payloads the broker may deliver

Fields == {"ctrl_host", "src_host", "src_path"}

FieldValues == Values \union {Empty}

\* A payload is the KEY=value lines that name a known key: the field the last
\* line of each key sets, absent keys being left alone.
PayloadSet == UNION {[D -> FieldValues] : D \in SUBSET Fields}

ASSUME ValuesAssumption == Empty \notin Values /\ Loopback \in Values

ASSUME PayloadsAssumption == Payloads \subseteq PayloadSet

VARIABLES
    conf,           \* the runtime-configuration fields
    stateReady,     \* state_ready
    reloadPending,  \* srt_reload_pending
    shutdown        \* shutdown_flag

stateVars == <<conf, stateReady, reloadPending, shutdown>>

StateTypeOK == conf \in [Fields -> FieldValues]

StateFlagsOK ==
    /\ stateReady \in BOOLEAN
    /\ reloadPending \in BOOLEAN
    /\ shutdown \in BOOLEAN

StateInit ==
    /\ conf = [f \in Fields |-> Empty]
    /\ stateReady = FALSE
    /\ reloadPending = FALSE
    /\ shutdown = FALSE

-----------------------------------------------------------------------------

\* Each line of the payload is written straight into the shared fields.
Overlay(payload) ==
    [f \in Fields |-> IF f \in DOMAIN payload THEN payload[f] ELSE conf[f]]

\* The sanity check comes after the fields were written: a payload that leaves
\* ctrl_host empty is rejected with its other fields, and the empty host,
\* already in place.
Rejected(payload) == Overlay(payload)["ctrl_host"] = Empty

apply_ap2p_conf_payload(payload) ==
    /\ conf' = Overlay(payload)
    /\ IF Rejected(payload)
       THEN UNCHANGED <<stateReady, reloadPending>>
       ELSE /\ stateReady' = TRUE
            /\ reloadPending' = (reloadPending \/ stateReady)
    /\ UNCHANGED shutdown

\* What snapshot_config writes for a field.
Resolve(c) ==
    [f \in Fields |-> IF f = "src_host" /\ c[f] = Empty THEN Loopback ELSE c[f]]

\* on_signal: SIGTERM, SIGINT and SIGHUP only set the flag.
on_signal ==
    /\ ~shutdown
    /\ shutdown' = TRUE
    /\ UNCHANGED <<conf, stateReady, reloadPending>>

\* The negative-timeout wait: it returns 0 once state_ready is set, -2 once
\* shutdown is, and shutdown wins when both are.
WaitReturns == stateReady \/ shutdown

=============================================================================
