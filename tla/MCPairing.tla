----------------------------- MODULE MCPairing -----------------------------
(* Instance of Pairing for TLC. *)
EXTENDS Pairing, TLC

CONSTANTS d1, d2, p1, t1, t2, r1, r2, s1, s2, h1, h2, name

\* The devices share a name: the second one is the first one reinstalled.
MCNameOf == [d \in Dev |-> name]

Interchangeable ==
    Permutations(Tok) \cup Permutations(Req) \cup Permutations(Sess)
        \cup Permutations(Handler)
=============================================================================
