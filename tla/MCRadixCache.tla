---------------------------- MODULE MCRadixCache ----------------------------
(* Small instances of RadixCache.                                          *)
EXTENDS RadixCache

\* Two prompts that diverge inside their second page, and a third one that
\* shares nothing with them, so that the pool fills up with dead branches.
MCPrompts == {<<1, 2, 1>>, <<1, 2, 1, 2>>, <<2, 1>>}

MCPromptsTwo == {<<1, 2, 1>>, <<1, 2, 1, 2>>}

\* One prompt is the other's prefix: sessions tag a node and a node above it.
MCPromptsNested == {<<1, 2>>, <<1, 2, 1>>}

ReqSymmetry == Permutations(Reqs)

Symmetry == Permutations(Reqs) \cup Permutations(Sessions)
=============================================================================
