--------------------------- MODULE MCSrtThread ---------------------------
(***************************************************************************)
(* Instances of SrtThread for TLC.                                         *)
(***************************************************************************)
EXTENDS SrtThread

CONSTANTS a, b   \* field values of two configurations

\* Two complete configurations, and a payload whose CTRL_HOST line is empty.
TwoConfigs == {[f \in Fields |-> v] : v \in {a, b}}

Wipe == [f \in {"ctrl_host"} |-> Empty]

TwoConfigsAndWipe == TwoConfigs \union {Wipe}

OneConfig == {[f \in Fields |-> a]}

\* The source host and the path the worker asked it for belong to one
\* configuration.
PumpUsesOneConfig ==
    pumpPc \in {"headers", "stream", "send"} =>
        \E c \in TwoConfigs : src = [host |-> c["src_host"], path |-> c["src_path"]]

=============================================================================
