----------------------------- MODULE MCOutbound -----------------------------
(***************************************************************************)
(* Instance of OutboundTransfer for TLC: a file of two chunks, the second  *)
(* one short, and an empty file, sent together or the empty one alone, so  *)
(* that an offer can be accepted.                                          *)
(***************************************************************************)
EXTENDS OutboundTransfer, TLC

CONSTANTS big, empty, r1, r2

MCFiles   == {big, empty}
MCSize    == (big :> 3) @@ (empty :> 0)
MCBatches == {{big, empty}, {empty}}
MCPuts    == {r1, r2}
=============================================================================
