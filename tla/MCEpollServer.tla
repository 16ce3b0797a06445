--------------------------- MODULE MCEpollServer ---------------------------
(* Two clients share a port, the third has one of its own. One sends more  *)
(* than a recv takes, one never sends anything.                            *)
EXTENDS EpollServer, TLC

CONSTANTS c1, c2, c3, p1, p2

TwoShareAPort == (c1 :> p1) @@ (c2 :> p1) @@ (c3 :> p2)
TwoPiecesOneNone == (c1 :> 2) @@ (c2 :> 1) @@ (c3 :> 0)

OnePort == [c \in Clients |-> p1]
OnePiece == [c \in Clients |-> 1]
=============================================================================
