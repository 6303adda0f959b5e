----------------------------- MODULE MCNasCount -----------------------------
(***************************************************************************)
(* NasCount with three sequence numbers and a 1-bit overflow: six messages *)
(* wrap the whole COUNT, so that both wraps happen within a few messages.  *)
(***************************************************************************)
EXTENDS NasCount, TLC

CONSTANTS h1, h2, e1, e2
MCHandlers == {h1, h2}
MCEncoders == {e1, e2}
Sym == Permutations(MCHandlers) \cup Permutations(MCEncoders)

=============================================================================
