--------------------------- MODULE MCMqttThread ---------------------------
(***************************************************************************)
(* Instances of MqttThread for TLC.                                        *)
(***************************************************************************)
EXTENDS MqttThread

CONSTANTS a, b   \* field values of two configurations

TwoConfigs == {[f \in Fields |-> v] : v \in {a, b}}

OneConfig == {[f \in Fields |-> a]}

NoReads == <<>>

OneRead == <<"6">>

=============================================================================
