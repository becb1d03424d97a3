--------------------------- MODULE MCJuiceSession ---------------------------
(* Small instances of JuiceSession. *)
EXTENDS JuiceSession
=============================================================================
