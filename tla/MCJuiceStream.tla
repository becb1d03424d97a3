---------------------------- MODULE MCJuiceStream ----------------------------
(* Small instances of JuiceStream. *)
EXTENDS JuiceStream, TLC
CONSTANTS c1, c2

(* Two frames of the same shape, so that a late chunk of the first fits the *)
(* second; the second player gets one frame.                               *)
TwoPlayers == (c1 :> <<2, 2>>) @@ (c2 :> <<1>>)
(* Two players whose forward threads take numbers from the same counter. *)
Interleaved == (c1 :> <<2>>) @@ (c2 :> <<1>>)
(* One player. *)
OnePlayer == (c1 :> <<1, 1, 1>>)
=============================================================================
