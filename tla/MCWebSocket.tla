---------------------------- MODULE MCWebSocket -----------------------------
(* Values for WebSocket: payloads around the boundaries of the mask and of *)
(* the length, masks with none, some and most of the bits.                 *)
EXTENDS WebSocket, TLC

MCPayloads == {[i \in 1 .. length |-> (7 * i + length) % 256] :
                 length \in {0, 1, 2, 3, 5, 124, 125, 126, 200}}
MCMasks == {<<0, 0, 0, 0>>, <<1, 2, 3, 4>>, <<255, 128, 7, 254>>}

(* Connections differ in nothing when CutKeys and LongLines have none or   *)
(* all of them.                                                            *)
MCSymmetry == Permutations(Conns)
=============================================================================
