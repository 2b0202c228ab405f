---------------------------- MODULE MCJwksCache ----------------------------
(***************************************************************************)
(* Small instances of JwksCache.  Every initial set of published keys and  *)
(* every assignment of tokens to the calls is an initial state.            *)
(***************************************************************************)
EXTENDS JwksCache, TLC

CONSTANTS k1, k2, c1, c2, c3

Symmetry == Permutations(Key) \union Permutations(Call)
=============================================================================
