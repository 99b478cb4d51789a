----------------------------- MODULE MCStoreTxn -----------------------------
(* Constants with which TLC checks StoreTxn. *)
EXTENDS StoreTxn, TLC

CONSTANTS s1, s2, s3, t1, t2, j1, j2, j3, j4

SessionSymmetry == Permutations(Sessions)
=============================================================================
