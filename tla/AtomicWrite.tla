------------------------------ MODULE AtomicWrite ------------------------------
(***************************************************************************)
(* Whole-file writes (atomicio.py): the payload is streamed into a unique    *)
(* temporary file beside the resolved destination and renamed over it, and   *)
(* every write that succeeds sweeps the stale temporaries of its target.     *)
(*                                                                           *)
(* No lock is assumed: several of the callers hold none.  Writers may be     *)
(* killed, stall for any time, be interrupted, meet a full disk, and the     *)
(* machine may lose power; what was not fsynced by then may be torn.  (A     *)
(* rename that power loss undoes leaves the old file, whole: not modelled.)  *)
(*                                                                           *)
(* A name is the sequence of its parts between `.tmp.`: the temporaries of   *)
(* <<"notes">> are <<"notes", tail>>.  Only its age is kept of a file's      *)
(* modification time, up to one more than the grace period.                  *)
(***************************************************************************)
EXTENDS Integers, Sequences

CONSTANTS
  Writers,
  Paths,         \* what is written
  Jobs,          \* the pairs <<writer, path>>: who writes what
  Target,        \* where each path leads, links followed; <<>> for a cycle
  CopyMode,      \* the mode a copy onto the path carries, or NoMode
  NoMode,
  Letters,       \* tails of twelve hexadecimal digits with a letter among them
  Decimals,      \* tails of twelve decimal digits
  NoRoom,        \* targets whose name leaves no room for a temporary's
  Umask,         \* the bits the umask takes away
  StartFiles,    \* the directory at the start: name to file
  Grace,         \* TEMP_GRACE_SECONDS
  MaxFaults

Bits == {"group", "other"}
Front(n) == SubSeq(n, 1, Len(n) - 1)
Tails == Letters \cup Decimals
Targets == {Target[p] : p \in Paths} \ {<<>>}

ASSUME AtomicAssumption ==
  /\ Grace \in Nat /\ MaxFaults \in Nat /\ Umask \subseteq Bits /\ Letters \cap Decimals = {}
  /\ DOMAIN Target = Paths /\ DOMAIN CopyMode = Paths /\ (\A m \in SUBSET Bits : NoMode # m)
  /\ Tails # {} /\ Jobs \subseteq Writers \X Paths

\* files have names of text, and what is written is not itself spelled like a temporary
ASSUME NamesAssumption ==
  /\ Targets \cup DOMAIN StartFiles \subseteq Seq(STRING) \ {<<>>} /\ Tails \subseteq STRING
  /\ \A t \in Targets : t[Len(t)] \notin Tails

FileType == [whole : BOOLEAN, durable : BOOLEAN, mode : SUBSET Bits, age : 0 .. Grace + 1]

ASSUME StartAssumption ==
  /\ StartFiles \in [DOMAIN StartFiles -> FileType]
  /\ CopyMode \in [Paths -> (SUBSET Bits) \cup {NoMode}]
  /\ \A t \in Targets \cap DOMAIN StartFiles : StartFiles[t].whole /\ StartFiles[t].durable

VARIABLES
  files,    \* name to [whole, durable, mode, age]; whole says that the payload is complete
  wpc, write,
  faults,
  left      \* auxiliary: the temporaries whose writer was killed or lost its power

avars == <<files, wpc, write, faults, left>>

NoWrite == [target |-> <<>>, carry |-> NoMode, temp |-> <<>>, slow |-> FALSE,
            found |-> <<>>, unseen |-> {}]

GotoW(w, label) == wpc' = [wpc EXCEPT ![w] = label]
SetWrite(w, j) == write' = [write EXCEPT ![w] = j]
Ended(w) == GotoW(w, "idle") /\ SetWrite(w, NoWrite)
Faulty == faults < MaxFaults /\ faults' = faults + 1
Created(n, mode) ==
  [m \in DOMAIN files \cup {n} |->
     IF m = n THEN [whole |-> FALSE, durable |-> FALSE, mode |-> mode, age |-> 0] ELSE files[m]]
Without(n) == [m \in DOMAIN files \ {n} |-> files[m]]
\* nobody asks for the age of a target
Renamed(n, t) ==
  [m \in (DOMAIN files \ {n}) \cup {t} |-> IF m = t THEN [files[n] EXCEPT !.age = Grace + 1] ELSE files[m]]

-----------------------------------------------------------------------------
(* Names *)

\* is_generated_temp_name: narrower than what is written, so that a dated backup is not taken
IsGenerated(n) == Len(n) > 1 /\ n[Len(n)] \in Letters

\* mutation: a temporary is litter at once
Stale_NoGrace(n) == TRUE
Stale(n) == files[n].age > Grace

\* mutation: the name is compared with the target's own
Litter_WholeName(t, n) == n = t /\ IsGenerated(n)
\* what the sweep after a write to t may take
Litter(t, n) == Len(n) > Len(t) /\ SubSeq(n, 1, Len(t)) = t /\ IsGenerated(n)

-----------------------------------------------------------------------------
(* One write *)

\* an existing destination keeps its mode, and a copy brings one along
Carry(p) == IF Target[p] \in DOMAIN files THEN files[Target[p]].mode ELSE CopyMode[p]

\* a link that leads nowhere but to itself is refused, never replaced
Begin(w, p) ==
  /\ wpc[w] = "idle" /\ <<w, p>> \in Jobs /\ Target[p] # <<>>
  /\ SetWrite(w, [NoWrite EXCEPT !.target = Target[p], !.carry = Carry(p)])
  /\ GotoW(w, "open")
  /\ UNCHANGED <<files, faults, left>>

\* mutation: created as open() would, and narrowed afterwards
CreateMode_Default(carry) == Bits
CreateMode(carry) == IF carry = NoMode THEN Bits ELSE carry

\* O_EXCL takes no name that is there, and 48 random bits none somebody still has in mind;
\* which one of the others it is does not matter, but for the letters in it
Free(n) ==
  n \notin DOMAIN files /\ \A v \in Writers : n # write[v].temp /\ n # write[v].found /\ n \notin write[v].unseen
Drawn(t) ==
  {Append(t, CHOOSE tail \in sort : Free(Append(t, tail))) :
     sort \in {s \in {Letters, Decimals} : \E tail \in s : Free(Append(t, tail))}}

OpenTemp(w) ==
  /\ wpc[w] = "open" /\ write[w].target \notin NoRoom
  /\ \E n \in Drawn(write[w].target) :
       /\ files' = Created(n, CreateMode(write[w].carry) \ Umask)
       /\ SetWrite(w, [write[w] EXCEPT !.temp = n])
  /\ GotoW(w, "chmod")
  /\ UNCHANGED <<faults, left>>

\* NameTooLong, or no free tail: the write is refused before anything is there
Refused(w) ==
  /\ wpc[w] = "open"
  /\ \/ write[w].target \in NoRoom
     \/ Drawn(write[w].target) = {}
  /\ Ended(w)
  /\ UNCHANGED <<files, faults, left>>

Has(w) == write[w].temp \in DOMAIN files
\* a write through the open handle goes to a file that may have been swept
Change(w, f) ==
  files' = IF Has(w) THEN [files EXCEPT ![write[w].temp] = f] ELSE files

\* best effort: a file system may refuse
Chmod(w) ==
  /\ wpc[w] = "chmod"
  /\ \/ Has(w) /\ write[w].carry # NoMode
        /\ files' = [files EXCEPT ![write[w].temp].mode = write[w].carry]
     \/ UNCHANGED files
  /\ GotoW(w, "body") /\ SetWrite(w, [write[w] EXCEPT !.carry = NoMode])
  /\ UNCHANGED <<faults, left>>

\* the caller streams its payload
Stream(w) ==
  /\ wpc[w] = "body"
  /\ IF Has(w) THEN Change(w, [files[write[w].temp] EXCEPT !.whole = TRUE, !.age = 0]) ELSE UNCHANGED files
  /\ GotoW(w, "sync")
  /\ UNCHANGED <<write, faults, left>>

\* mutation: the payload is flushed but not synced
Synced_FlushOnly(f) == f
Synced(f) == [f EXCEPT !.durable = TRUE]
Sync(w) ==
  /\ wpc[w] = "sync"
  /\ IF Has(w) THEN Change(w, Synced(files[write[w].temp])) ELSE UNCHANGED files
  /\ GotoW(w, "replace")
  /\ UNCHANGED <<write, faults, left>>

\* after the rename the write is done, but for the sweep of what the directory holds
Sweep(w, unseen, found) ==
  IF unseen = {} /\ found = <<>> THEN Ended(w)
  ELSE /\ GotoW(w, "sweep")
       /\ SetWrite(w, [NoWrite EXCEPT !.target = write[w].target, !.unseen = unseen, !.found = found])

Replace(w) ==
  /\ wpc[w] = "replace" /\ Has(w)
  /\ files' = Renamed(write[w].temp, write[w].target)
  /\ Sweep(w, {n \in DOMAIN files' : Litter(write[w].target, n)}, <<>>)
  /\ UNCHANGED <<faults, left>>

\* an error or an interrupt anywhere after the temporary was made, a temporary that was
\* swept under a stalled writer among them: everything of the clean-up is tried
Clean(w) == IF Has(w) THEN files' = Without(write[w].temp) ELSE UNCHANGED files
Fail(w) ==
  /\ wpc[w] \in {"chmod", "body", "sync", "replace"}
  /\ IF wpc[w] = "replace" /\ ~Has(w) THEN UNCHANGED faults ELSE Faulty
  /\ Clean(w)
  /\ Ended(w)
  /\ UNCHANGED left

\* _reclaim_stale_temps: each is looked at, then removed; an error there is nobody's
SweepStat(w, n) ==
  /\ wpc[w] = "sweep" /\ write[w].found = <<>> /\ n \in write[w].unseen
  /\ Sweep(w, write[w].unseen \ {n}, IF n \in DOMAIN files /\ Stale(n) THEN n ELSE <<>>)
  /\ UNCHANGED <<files, faults, left>>
SweepUnlink(w) ==
  /\ wpc[w] = "sweep" /\ write[w].found # <<>>
  /\ files' = Without(write[w].found) /\ left' = left \ {write[w].found}
  /\ Sweep(w, write[w].unseen, <<>>)
  /\ UNCHANGED faults

-----------------------------------------------------------------------------
(* The environment *)

\* nobody reads what a dead writer leaves
Abandoned(W) == {write[w].temp : w \in W} \cap DOMAIN files
Unread(n) == [files[n] EXCEPT !.whole = FALSE, !.durable = TRUE]

Kill(w) ==
  /\ wpc[w] # "idle" /\ Faulty
  /\ files' = [n \in DOMAIN files |-> IF n \in Abandoned({w}) THEN Unread(n) ELSE files[n]]
  /\ left' = left \cup Abandoned({w})
  /\ Ended(w)

\* everybody dies, and what had not reached the platter is there in part
PowerLoss ==
  /\ Faulty
  /\ files' = [n \in DOMAIN files |-> IF files[n].durable /\ n \notin Abandoned(Writers) THEN files[n] ELSE Unread(n)]
  /\ left' = left \cup Abandoned(Writers)
  /\ wpc' = [w \in Writers |-> "idle"] /\ write' = [w \in Writers |-> NoWrite]

\* time passes, for the writers that stall too
Older(n) == IF files[n].age > Grace THEN Grace + 1 ELSE files[n].age + 1
Wait ==
  /\ \E n \in DOMAIN files : files[n].age <= Grace
  /\ files' = [n \in DOMAIN files |-> [files[n] EXCEPT !.age = Older(n)]]
  /\ write' = [w \in Writers |->
       [write[w] EXCEPT !.slow = @ \/ (Has(w) /\ Older(write[w].temp) > Grace)]]
  /\ UNCHANGED <<wpc, faults, left>>

InitFiles ==
  /\ files = StartFiles
  /\ wpc = [w \in Writers |-> "idle"] /\ write = [w \in Writers |-> NoWrite]
  /\ faults = 0 /\ left = {}

WriteStep(w) ==
  \/ OpenTemp(w) \/ Refused(w) \/ Chmod(w) \/ Stream(w) \/ Sync(w) \/ Replace(w)
  \/ wpc[w] = "replace" /\ Fail(w)
  \/ (\E n \in write[w].unseen : SweepStat(w, n)) \/ SweepUnlink(w)

FileStep ==
  \/ \E w \in Writers : WriteStep(w) \/ Fail(w) \/ Kill(w) \/ \E p \in Paths : Begin(w, p)
  \/ PowerLoss \/ Wait

\* writers go on, time passes, and every path is written again and again
WriteFairness ==
  /\ \A w \in Writers : WF_avars(WriteStep(w))
  /\ \A p \in {p \in Paths : Target[p] \in Targets \ NoRoom} : SF_avars(\E w \in Writers : Begin(w, p))
  /\ WF_avars(Wait)
Spec == InitFiles /\ [][FileStep]_avars

-----------------------------------------------------------------------------
(* Properties *)

Temps == {write[w].temp : w \in Writers} \ {<<>>}

(* A reader of a target sees a whole file, whoever writes it at once with    *)
(* whom, and also after a kill and after a loss of power.                    *)
NeverTorn == \A t \in Targets \cap DOMAIN files : files[t].whole

(* A file that only its owner may read stays that: neither it nor a          *)
(* temporary of it, not even an empty one, is ever open to others - for a    *)
(* destination that is there, and for a copy of such a file.                 *)
Private == {t \in Targets : /\ t \in DOMAIN StartFiles => StartFiles[t].mode = {}
                            /\ t \notin DOMAIN StartFiles => \A p \in Paths : Target[p] = t => CopyMode[p] = {}}
PrivateStaysPrivate ==
  \A t \in Private : \A n \in DOMAIN files :
    n = t \/ (n \in Temps \cup left /\ Front(n) = t) => files[n].mode = {}

(* Nobody's sweep takes the temporary of a write under way whose writer has  *)
(* not been silent for longer than the grace period.                         *)
LiveTempKept == \A w \in Writers : write[w].temp # <<>> /\ ~write[w].slow => Has(w)

(* A write that fails leaves nothing behind: what lies beside a target is    *)
(* being written, or its writer was killed.                                  *)
FailureLeavesNothing ==
  \A n \in DOMAIN files : n \in DOMAIN StartFiles \cup Targets \cup Temps \cup left
=============================================================================
