---------------------------- MODULE MCSearchCache ----------------------------
(* Constants with which TLC checks SearchCache: one corpus file, and a cache  *)
(* of an earlier corpus, as large as the present one's and larger than the    *)
(* one's after the edit.                                                      *)
EXTENDS SearchCache

CONSTANTS b1, s1, o1

MCFiles == <<"x">>
MCTexts == {<<"b">>}
MCStartCorpus == "x" :> <<"a", "c">>
MCStartCache == {"d", "e"}
MCLegacy == {"c"}
=============================================================================
