----------------------------- MODULE ReclaimTemps -----------------------------
(***************************************************************************)
(* The one-time clean-up of `<target>.tmp` files that builds before          *)
(* atomicio.py left (tools/reclaim_legacy_temps.py), beside writers at work. *)
(* It lists one directory after another without descending, claims the names *)
(* the old builds wrote there, in two groups - with and without a file       *)
(* <target> beside them - and removes what it was asked to of what was past  *)
(* the grace period when it looked.                                          *)
(*                                                                           *)
(* One directory of the disk is modelled: every setting leads to it or to    *)
(* none.                                                                     *)
(***************************************************************************)
EXTENDS AtomicWrite

CONSTANTS
  Legacy,        \* the names here that end in `.tmp`, each with what is before that
  NoNames,       \* stems that name nothing in a directory: "", "." and ".."
  Directories,   \* names here that are directories
  Settings,      \* each [dir, names]: where a setting leads, and what was written there
  AnyName,       \* the names of a directory given with --dir
  Exists,        \* the directories that are on this host: all of them this one
  CacheShaped,   \* names of the form of an identity's cache
  CacheDirs,     \* directories in which such a name is claimed too
  OldLitter      \* what of the start the old builds left

VARIABLE doomed   \* what the clean-up is about to remove
vars == <<avars, doomed>>

ASSUME ReclaimAssumption ==
  /\ DOMAIN Legacy \cap Targets = {} /\ \A s \in Settings : s.names = AnyName \/ s.names \subseteq Targets
  /\ DOMAIN Legacy \subseteq Seq(STRING) \ {<<>>} /\ \A n \in DOMAIN Legacy : n[Len(n)] \notin Tails

-----------------------------------------------------------------------------
(* What is claimed: search_spots and _claimed *)

Searched == {s \in Settings : s.dir \in Exists}

\* isfile: a directory of that name corroborates nothing
HasSibling(n) == Legacy[n] \in DOMAIN files \ Directories

\* mutation: the spelling alone decides
Claimed_Spelling(n) == TRUE
Claimed(n) ==
  /\ Legacy[n] \notin NoNames
  /\ \/ \E s \in Searched : s.names = AnyName \/ Legacy[n] \in s.names
     \/ HasSibling(n) /\ Legacy[n] \in CacheShaped /\ \E s \in Searched : s.dir \in CacheDirs

\* legacy_temps
Listed == {n \in (DOMAIN Legacy \cap DOMAIN files) \ Directories : Claimed(n)}
Aged(n) == files[n].age >= Grace

-----------------------------------------------------------------------------
(* main *)

Doomed(delete, orphans) == {n \in Listed : Aged(n) /\ IF HasSibling(n) THEN delete ELSE orphans}

\* with nothing to remove it ends with the listing
ToolStart(delete, orphans) ==
  /\ doomed = {} /\ Searched # {}
  /\ doomed' = Doomed(delete, orphans) /\ doomed' # {}
  /\ UNCHANGED avars

\* what cannot be removed is counted, and the next one is tried
ToolUnlink(n) ==
  /\ n \in doomed /\ doomed' = doomed \ {n}
  /\ \/ files' = Without(n) /\ UNCHANGED faults
     \/ UNCHANGED files /\ Faulty
  /\ UNCHANGED <<wpc, write, left>>

Init == InitFiles /\ doomed = {}
ToolStep == \E n \in doomed : ToolUnlink(n)
Next ==
  \/ FileStep /\ UNCHANGED doomed
  \/ ToolStep \/ \E delete, orphans \in BOOLEAN : ToolStart(delete, orphans)

ReclaimSpec == Init /\ [][Next]_vars
FairSpec ==
  /\ ReclaimSpec
  /\ WriteFairness
  /\ WF_vars(ToolStep \/ ToolStart(TRUE, FALSE))

-----------------------------------------------------------------------------
(* Properties *)

(* Whoever sweeps, the files of the operator stay: backups with a date for a *)
(* tail, another tool's `.tmp`, a directory, a name that the old builds      *)
(* never wrote here; and the targets themselves.                             *)
OperatorFilesKept == DOMAIN StartFiles \ OldLitter \subseteq DOMAIN files

(* What kills and power losses left is swept in the end, as long as each     *)
(* target is written again - but for tails without a letter - and so is what *)
(* the old builds left, as long as the clean-up is run with --delete.        *)
EventuallyClean ==
  <>[](/\ \A n \in left : n[Len(n)] \in Decimals
       /\ \A n \in Listed : ~HasSibling(n))
=============================================================================
