------------------------- MODULE MCInboundTransfer --------------------------
(***************************************************************************)
(* Instances of InboundTransfer for TLC: a file of two chunks, so that it  *)
(* can be partial, a file of one, an empty one, and two requests in        *)
(* progress at a time.                                                     *)
(***************************************************************************)
EXTENDS InboundTransfer, TLC

CONSTANTS big, small, empty, r1, r2

MCFiles      == {big, small}
MCRequests   == {r1, r2}
MCSmall      == {small}

\* The same with the small file replaced by an empty one, and with all three.
MCWithEmpty  == {big, empty}
MCAllFiles   == {big, small, empty}
MCNumChunks  == [f \in Files |-> IF f = big THEN 2 ELSE IF f = small THEN 1 ELSE 0]

RequestSymmetry == Permutations(MCRequests)

=============================================================================
