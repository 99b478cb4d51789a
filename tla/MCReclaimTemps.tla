---------------------------- MODULE MCReclaimTemps ----------------------------
(* Constants with which TLC checks ReclaimTemps: a private cache that is there, *)
(* a private copy onto a name that is not, a name too long for a temporary's, a *)
(* link that leads to itself, and files of the operator that are spelled like   *)
(* temporaries.                                                                 *)
EXTENDS ReclaimTemps, TLC

CONSTANTS w1, w2

Cache == <<"cache">>
Copy == <<"copy">>
Long == <<"long">>
MCPaths == {"cache", "new", "long", "loop"}
MCJobs == {<<w1, "cache">>, <<w1, "new">>, <<w1, "loop">>, <<w2, "cache">>, <<w2, "long">>}
MCTarget == [cache |-> Cache, new |-> Copy, long |-> Long, loop |-> <<>>]
MCCopyMode == [p \in MCPaths |-> IF p = "new" THEN {} ELSE IF p = "cache" THEN Bits ELSE NoMode]

File(mode) == [whole |-> TRUE, durable |-> TRUE, age |-> Grace + 1, mode |-> mode]
\* a backup by date, notes beside the cache, the litter of an old build and of another
\* identity's cache, a file of another tool beside its own, and a directory
Backup == <<"cache", "202608041200">>
Notes == <<"cache", "md">>
OldTemp == <<"cache.tmp">>
Named == <<"cache.6f0e">>
OldNamed == <<"cache.6f0e.tmp">>
Scratch == <<"memo.tmp">>
Folder == <<"copy.tmp">>
MCStartFiles ==
  [n \in {Cache, Backup, Notes, OldTemp, Named, OldNamed, Scratch, <<"memo">>, Folder} |->
     File(IF n = Cache THEN {} ELSE Bits)]
MCLegacy == (OldTemp :> Cache) @@ (OldNamed :> Named) @@ (Scratch :> <<"memo">>) @@ (Folder :> Copy)
MCSettings == {[dir |-> "here", names |-> {Cache}], [dir |-> "linked", names |-> {Copy}],
               [dir |-> "gone", names |-> {Long}]}
MCNoRoom == {Long}
MCFolders == {Folder}
MCOldLitter == {OldTemp, OldNamed}
MCCacheShaped == {Named}
=============================================================================
