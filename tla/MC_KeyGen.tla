------------------------------- MODULE MC_KeyGen -------------------------------
(* KeyGen on a small instance: two connections; a master key, an Extend   *)
(* key, an expired Extend key, a plain key and one that does not decrypt; *)
(* types that repeat, reorder and mix unknown characters; ttl zero,        *)
(* positive and negative.                                                 *)
EXTENDS KeyGen, TLC

CONSTANTS c1, c2, pm, pe, px, pp, pu

MCTypes == {<<>>, <<"z">>, <<"r", "w">>, <<"w", "r", "r">>, <<"e", "q", "x">>,
            <<"p", "s", "l", "r", "w", "e", "x">>}

MCTTLs == {0, 3600, -5}

ConnSymmetry == Permutations({c1, c2})
=============================================================================
