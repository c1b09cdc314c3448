---------------------------- MODULE MCTokenCache ----------------------------
EXTENDS TokenCache

CONSTANTS h1, h2

MCHandlers == {h1, h2}

(* Tokens where one is a prefix of the other, as a source id continues it: *)
(* ("a", "bc") and ("ab", "c") share the key "abc".                       *)
MCTokens == {<<"a">>, <<"a", "b">>}
MCSourceIds == {<<"b", "c">>, <<"c">>}

MCSymmetry == Permutations(MCHandlers)
=============================================================================
