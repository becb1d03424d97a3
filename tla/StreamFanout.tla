---------------------------- MODULE StreamFanout ----------------------------
(***************************************************************************)
(* What a viewer bridge promises, without its ring buffer, its cache or    *)
(* its cursors: a camera sends a stream of bytes, one session after        *)
(* another, and every viewer that is being served has seen the beginning   *)
(* of the current session followed by a gapless run of it.                 *)
(*                                                                         *)
(* With SkipsToLive the run starts where the stream was when the viewer    *)
(* joined (0 for a viewer that was there when the session began), so that  *)
(* a late viewer sees a beginning and then live data.  Without it the run  *)
(* continues the beginning: what a viewer has seen is a prefix of the      *)
(* stream.  FanoutCloud and FanoutPhone implement the two.                 *)
(***************************************************************************)
EXTENDS Naturals, SequencesExt

CONSTANTS
    Viewers,
    SkipsToLive,
    Out           \* the viewer is not being served

VARIABLES
    stream,       \* bytes the camera sent in this session
    from,         \* length of the stream when each viewer joined
    seen          \* bytes each viewer received in this session, or Out

vars == <<stream, from, seen>>

Served == {v \in Viewers : seen[v] # Out}

(* The bytes of stream s from position a (counted from 0) to before b.     *)
Run(s, a, b) == SubSeq(s, a + 1, b)

(* A legal reception: a beginning of the stream, then a run that either    *)
(* starts at the viewer's place or does not exist.                         *)
Legal(s, a, x) ==
    IF SkipsToLive
    THEN \E h \in 0..Len(s), b \in a..Len(s) : x = Run(s, 0, h) \o Run(s, a, b)
    ELSE IsPrefix(x, s)

Init ==
    /\ stream = <<>>
    /\ from = [v \in Viewers |-> 0]
    /\ seen = [v \in Viewers |-> Out]

Join(v) ==
    /\ seen[v] = Out
    /\ seen' = [seen EXCEPT ![v] = <<>>]
    /\ from' = [from EXCEPT ![v] = Len(stream)]
    /\ UNCHANGED stream

(* New bytes arrive: whoever is served from now on was served before, and  *)
(* what it has seen only grows.                                            *)
Feed ==
    /\ IsStrictPrefix(stream, stream')
    /\ UNCHANGED from
    /\ DOMAIN seen' = Viewers
    /\ \A v \in Viewers :
         \/ seen'[v] = Out
         \/ /\ v \in Served
            /\ IsPrefix(seen[v], seen'[v])
            /\ Legal(stream', from[v], seen'[v])

Leave ==
    /\ DOMAIN seen' = Viewers
    /\ \A v \in Viewers : seen'[v] \in {seen[v], Out}
    /\ UNCHANGED <<stream, from>>

NewSession ==
    /\ stream' = <<>>
    /\ from' = [v \in Viewers |-> 0]
    /\ seen' = [v \in Viewers |-> IF v \in Served THEN <<>> ELSE Out]

Next == (\E v \in Viewers : Join(v)) \/ Feed \/ Leave \/ NewSession

Spec == Init /\ [][Next]_vars
=============================================================================
