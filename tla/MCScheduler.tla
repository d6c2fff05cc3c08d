---------------------------- MODULE MCScheduler -----------------------------
(***************************************************************************)
(* An instance of Scheduler: two requests for one file, one for each of    *)
(* two others, and budgets in the proportion of the defaults (3 chunks, 2  *)
(* files, 6 requests), scaled down to 1, 2 and 2.                          *)
(***************************************************************************)
EXTENDS Scheduler, TLC

CONSTANTS a1, a2, b1, c1, fa, fb, fc

MCRequests == {a1, a2, b1, c1}
MCFiles    == {fa, fb, fc}
MCFileOf   == (a1 :> fa) @@ (a2 :> fa) @@ (b1 :> fb) @@ (c1 :> fc)

=============================================================================
