------------------------- MODULE MCPagedBlockManager -------------------------
(* Instances of PagedBlockManager for TLC. *)
EXTENDS PagedBlockManager

CONSTANTS r1, r2, h1, h2, b1, b2, b3

\* Which block is which makes no difference.
BlockSymmetry == Permutations(Blocks)

\* Two requests with the same tokens: r2's prompt fills two blocks, r1's one,
\* and r1 generates the second.
SharedChain == [r \in {r1, r2} |-> <<h1, h2>>]
Prompts == r1 :> 1 @@ r2 :> 2
=============================================================================
