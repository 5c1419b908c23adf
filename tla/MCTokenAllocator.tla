-------------------------- MODULE MCTokenAllocator --------------------------
(* Instances of TokenAllocator for TLC. *)
EXTENDS TokenAllocator

\* The odd ids of a two-slot block; a class that wraps nothing of 1..4; one
\* that is not a class at all, which set_owner_bias() refuses.
MCBiases == {<<2, 1, 2>>, <<3, 0, 2>>, <<2, 1, 3>>}
=============================================================================
