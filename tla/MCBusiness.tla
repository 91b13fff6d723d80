----------------------------- MODULE MCBusiness -----------------------------
(* A canvas of two blocks, two requests or jobs at once.                    *)
EXTENDS Business, TLC

CONSTANTS r1, r2, b1, b2

MCRequests == {r1, r2}
MCBlocks == {b1, b2}
MCSymmetry == Permutations(MCRequests) \cup Permutations(MCBlocks)
=============================================================================
