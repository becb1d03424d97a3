-------------------------- MODULE MCJuiceRegistry --------------------------
EXTENDS JuiceRegistry
CONSTANTS p1, p2, s1, s2, k1, k2
TwoRequests ==
    [subscribers |-> {}, requesters |-> {k1, k2}, closing |-> {}, vanishing |-> {}]
(* A camera that may vanish with a subscriber that may leave, or with a     *)
(* subscriber and a requester; two requesters.                             *)
Leaving ==
    [subscribers |-> {k2}, requesters |-> {}, closing |-> {k2}, vanishing |-> {p1}]
Mixed ==
    [subscribers |-> {k2}, requesters |-> {k1}, closing |-> {}, vanishing |-> {p1}]
Roles == {Leaving, Mixed, TwoRequests}
OneCamera == [d \in {p1} |-> s1]
TwoCameras == [d \in {p1, p2} |-> IF d = p1 THEN s1 ELSE s2]
Reconnects == [d \in {p1, p2} |-> s1]
=============================================================================
