-------------------------------- MODULE MCXref --------------------------------
(* Constants with which TLC checks Xref: one HEAD near two memories. *)
EXTENDS Xref, TLC

CONSTANTS c1, w1, w2, h1, m1, m2

MCStartHeads ==
  { h1 :> [body |-> "A", stamp |-> Second, mtime |-> Second],
    h1 :> [body |-> "A", stamp |-> NoStamp, mtime |-> Second + 3] }
MCNear == {<<m1, h1>>, <<m2, h1>>}
MCOldRows == <<m1, h1>> :> [day |-> TRUE, t |-> 0, whole |-> FALSE, ver |-> 0]
=============================================================================
