--------------------------- MODULE MCSrtRegistry ---------------------------
(***************************************************************************)
(* Instances of SrtRegistry for TLC.                                       *)
(***************************************************************************)
EXTENDS SrtRegistry

=============================================================================
