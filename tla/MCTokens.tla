------------------------------ MODULE MCTokens -------------------------------
(* Tokens on two threads, two invites and a few seconds, for TLC. *)
EXTENDS Tokens, TLC

CONSTANTS h1, h2, c1, c2, k1, k2, n1, n2, u1, u2

MCThread == {h1, h2}
MCCode == {c1, c2}
MCToken == {k1, k2}
MCName == {n1, n2}
MCUser == {u1, u2}
MCDefaultUser == [n \in MCName |-> u1]
MCInviteTtl == {1}
MCTokenTtl == {Never, 1}

TokensSymmetry == Permutations(MCThread) \cup Permutations(MCCode) \cup Permutations(MCToken) \cup Permutations(MCName)
=============================================================================
