--------------------------- MODULE FindingsQueue ---------------------------
(***************************************************************************)
(* The pending-findings queue: one file of sections under the state lock    *)
(* `.state.lock`, and the programs that write it.                           *)
(*                                                                          *)
(*   Checkers   `qq check --write`: TIER1, then XREF (qq, checks.py)        *)
(*   Diverters  write verbs the authoring gate diverts (authgate.py)        *)
(*   Auditors   consistency-audit.sh: PROC by its probe, then AUDIT         *)
(*                                                                          *)
(* A finding is the version of the world it was computed from: what matters *)
(* is which run a section comes from, and that a proposal is a thing of its *)
(* own.  A process can be killed between any two steps, and an audit script *)
(* then dies with its agent.  A person edits the file by hand, without the  *)
(* lock, to adjudicate proposals.                                           *)
(***************************************************************************)
EXTENDS Integers

CONSTANTS
  Checkers, Diverters, Auditors,
  Absent,            \* a file that does not exist
  Nobody,            \* the holder of a free lock
  Thresh,            \* AUDIT_THRESH
  Moves,             \* the parts of the world that may change
  Faults,            \* the failures that may happen
  EditsRaceWriters,  \* may a person save over a file that changed under the editor?
  MaxJobs, MaxMoves, MaxEdits, MaxKills, MaxFaults    \* bounds of the model

Procs == Checkers \cup Diverters \cup Auditors
Parts == {"heads", "memo", "conf", "docs", "proc"}
FaultNames == {"temp_refused", "unreadable", "tmp_full", "copied_mv"}

VARIABLES
  file,      \* pending-findings.md
  lock,      \* holder of .state.lock, or Nobody
  pc, job,   \* where each process is, and its locals
  snap,      \* the reconcile snapshot: the configuration last seen
  baseline,  \* .audit-baseline and .audit-memory-manifest
  tmpf,      \* .audit-findings.tmp, which every audit shares
  world,     \* versions of the HEADs, memory, configuration, documents, services
  draft,     \* what a person's editor holds
  \* auxiliary: bounds, and history for the properties
  used,
  reported,  \* proposals whose verb told its session that they are queued
  cleared,   \* proposals a person has taken out
  overtaken, \* those taken out of a file that a producer was about to replace
  queued     \* AUDIT reports that have been in the file

vars == <<file, lock, pc, job, snap, baseline, tmpf, world, draft, used,
          reported, cleared, overtaken, queued>>
audit == <<baseline, tmpf, queued>>
human == <<draft, cleared, overtaken>>

-----------------------------------------------------------------------------
(* Data *)

PW == "PROPOSED-WRITES"
Seeded == {"TIER1", "XREF", "AUDIT"}      \* SALIENCE, too: it has no producer yet
Tags == Seeded \cup {"PROC", PW}
Finding == [tag : Seeded \cup {"PROC", "CONF", PW}, n : Nat]

\* contents: a partial function from sections to sets of findings
IsContents(c) == \E S \in SUBSET Tags : c \in [S -> SUBSET Finding]
Blank == [t \in {} |-> {}]

ASSUME QueueAssumption ==
  /\ Nobody \notin Procs /\ ~IsContents(Absent)
  /\ Checkers \cap Diverters = {} /\ (Checkers \cup Diverters) \cap Auditors = {}
  /\ Moves \subseteq Parts /\ Faults \subseteq FaultNames
  /\ EditsRaceWriters \in BOOLEAN
  /\ {Thresh, MaxJobs, MaxMoves, MaxEdits, MaxKills, MaxFaults} \subseteq Nat

\* set_section: the named sections replaced, the others as they are
With(c, put) == [t \in DOMAIN c \cup DOMAIN put |-> IF t \in DOMAIN put THEN put[t] ELSE c[t]]
Section(c, t) == IF c # Absent /\ t \in DOMAIN c THEN c[t] ELSE {}
Only(t, S) == [u \in {t} |-> S]

Fresh == [t \in Seeded |-> {}]            \* the scaffold
Parse(c) == IF c = Absent THEN Fresh ELSE With(Fresh, c)

Report(t, n) == {[tag |-> t, n |-> n]}
Corpus(w) == w.heads + w.memo             \* the version of HEADs and memory together
Read(w) == [heads |-> w.heads, memo |-> w.memo]
NoRead == [heads |-> 0, memo |-> 0]

NoJob == [put |-> Blank, copy |-> Absent, line |-> 0, live |-> 0, read |-> NoRead,
          manifest |-> 0, wrote |-> FALSE]

\* steps inside a hold of the state lock
Held == {"read", "replace", "init", "awk", "mv", "copying"}

Goto(p, label) == pc' = [pc EXCEPT ![p] = label]
SetJob(p, j) == job' = [job EXCEPT ![p] = j]
\* where its holder has a copy of the queue made before
HasCopy == {"replace", "mv", "copying"}
Stale == lock # Nobody /\ pc[lock] \in HasCopy

\* leaving the `with` block or the locked subshell drops the flock; of what a
\* person took out meanwhile, what the holder's copy brought back stays in question
Leave(p, label) ==
  /\ Goto(p, label)
  /\ lock' = IF lock = p THEN Nobody ELSE lock
  /\ overtaken' = IF lock = p THEN overtaken \cap Section(file', PW) ELSE overtaken

Count(k) == used' = [used EXCEPT ![k] = @ + 1]
Begin(p) == pc[p] = "idle" /\ used.jobs < MaxJobs /\ Count("jobs")
Fails(f) == f \in Faults /\ used.faults < MaxFaults /\ Count("faults")

-----------------------------------------------------------------------------
(* `qq check --write` *)

\* the Tier-1 findings; Reconcile.run compares the live configuration with its
\* snapshot, and what it found goes into the same section
CheckTier1(p) ==
  LET drift == IF snap = world.conf THEN {} ELSE Report("CONF", world.conf) IN
  /\ p \in Checkers /\ Begin(p)
  /\ SetJob(p, [NoJob EXCEPT !.live = world.conf,
                             !.put = Only("TIER1", Report("TIER1", Corpus(world)) \cup drift)])
  /\ Goto(p, "snapshot")
  /\ UNCHANGED <<file, lock, snap, audit, world, human, reported>>

\* ... and it saves the snapshot before anything is queued
SaveSnapshot(p) ==
  /\ pc[p] = "snapshot"
  /\ snap' = job[p].live
  /\ Goto(p, "xref")
  /\ UNCHANGED <<file, lock, job, audit, world, human, used, reported>>


\* the slow cross-reference; skipped or failed, the section is not mentioned
XrefResult == {Only("XREF", Report("XREF", Corpus(world))), Blank}

CheckXref(p) ==
  /\ pc[p] = "xref"
  /\ \E x \in XrefResult : SetJob(p, [job[p] EXCEPT !.put = With(@, x)])
  /\ Goto(p, "wait")
  /\ UNCHANGED <<file, lock, snap, audit, world, human, used, reported>>

-----------------------------------------------------------------------------
(* A diverted write verb, and the start of an audit: its proc-vs-disk probe *)

StartDivert(p) ==
  /\ p \in Diverters /\ Begin(p)
  /\ SetJob(p, [NoJob EXCEPT !.line = used.jobs + 1])
  /\ Goto(p, "wait")
  /\ UNCHANGED <<file, lock, snap, audit, world, human, reported>>

StartProbe(p) ==
  /\ p \in Auditors /\ Begin(p)
  /\ SetJob(p, [NoJob EXCEPT !.put = Only("PROC", Report("PROC", world.proc))])
  /\ Goto(p, "wait")
  /\ UNCHANGED <<file, lock, snap, audit, world, human, reported>>

-----------------------------------------------------------------------------
(* The python writers: lock, read, replace *)

\* mutation: the writers of one language do not look at the lock of the other
Acquire_Unlocked(p) ==
  /\ pc[p] \in {"wait", "waitsh"} /\ (lock = Nobody \/ pc[p] = "waitsh")
  /\ lock' = p
  /\ Goto(p, IF pc[p] = "wait" THEN "read" ELSE "init")
  /\ UNCHANGED <<file, job, snap, audit, world, human, used, reported>>

\* fcntl.flock and flock(1) on one inode
Acquire(p) ==
  /\ pc[p] \in {"wait", "waitsh"} /\ lock = Nobody
  /\ lock' = p
  /\ Goto(p, IF pc[p] = "wait" THEN "read" ELSE "init")
  /\ UNCHANGED <<file, job, snap, audit, world, human, used, reported>>

\* where a python writer goes on: the probe is fail-soft, the audit follows
After(p) == IF p \in Auditors THEN "gate" ELSE "idle"

\* mutation: flock without -w
LockTimeout_PythonOnly(p) ==
  /\ pc[p] = "wait" /\ lock # Nobody
  /\ Goto(p, After(p)) /\ SetJob(p, NoJob)
  /\ UNCHANGED <<file, lock, snap, audit, world, human, used, reported>>

\* QQ_LOCK_WAIT seconds have passed: the python verb fails, the audit script goes on
LockTimeout(p) ==
  /\ lock # Nobody
  /\ \/ pc[p] = "wait" /\ Goto(p, After(p)) /\ SetJob(p, NoJob)
     \/ pc[p] = "waitsh" /\ Goto(p, "advance") /\ UNCHANGED job
  /\ UNCHANGED <<file, lock, snap, audit, world, human, used, reported>>

\* an open that fails, for whatever reason, reads as a queue with nothing in it
ReadQueue(p) ==
  /\ pc[p] = "read"
  /\ \/ SetJob(p, [job[p] EXCEPT !.copy = Parse(file)]) /\ UNCHANGED used
     \/ SetJob(p, [job[p] EXCEPT !.copy = Fresh]) /\ Fails("unreadable")
  /\ Goto(p, "replace")
  /\ UNCHANGED <<file, lock, snap, audit, world, human, reported>>

\* what a python writer sets: a diverted verb adds its proposal to those it read
Update(p) ==
  IF p \in Diverters
  THEN Only(PW, Section(job[p].copy, PW) \cup Report(PW, job[p].line))
  ELSE job[p].put

\* temporary file and rename; then the verb tells its session
ReplaceQueue(p) ==
  /\ pc[p] = "replace"
  /\ file' = With(job[p].copy, Update(p))
  /\ reported' = IF p \in Diverters THEN reported \cup Report(PW, job[p].line) ELSE reported
  /\ Leave(p, After(p)) /\ SetJob(p, NoJob)
  /\ UNCHANGED <<snap, audit, world, draft, cleared, used>>

\* mutation: the verb reports success whether or not the queue was written
ReplaceRefused_Silent(p) ==
  /\ pc[p] = "replace" /\ Fails("temp_refused")
  /\ reported' = IF p \in Diverters THEN reported \cup Report(PW, job[p].line) ELSE reported
  /\ UNCHANGED <<file, snap, audit, world, draft, cleared>>
  /\ Leave(p, After(p)) /\ SetJob(p, NoJob)

\* no room, no permission: the old file stays and the error ends the writer
ReplaceRefused(p) ==
  /\ pc[p] = "replace" /\ Fails("temp_refused")
  /\ UNCHANGED <<file, snap, audit, world, draft, cleared, reported>>
  /\ Leave(p, After(p)) /\ SetJob(p, NoJob)

-----------------------------------------------------------------------------
(* consistency-audit.sh after its probe *)

Churn == (world.heads - baseline.heads) + (world.memo - baseline.memo)

\* mutation: the findings file of an earlier run stays
AuditGate_KeepsFile(p) ==
  /\ pc[p] = "gate"
  /\ \/ Churn < Thresh /\ Goto(p, "idle") /\ UNCHANGED job
     \/ Goto(p, "agent") /\ SetJob(p, [NoJob EXCEPT !.manifest = world.memo])
  /\ UNCHANGED <<file, lock, snap, audit, world, human, used, reported>>

\* the memory manifest is taken before the gate; --force or a long quiet also
\* opens it; then the findings file of any earlier run is removed
AuditGate(p) ==
  /\ pc[p] = "gate"
  /\ \/ Churn < Thresh /\ Goto(p, "idle") /\ UNCHANGED <<job, tmpf>>
     \/ /\ Goto(p, "agent")
        /\ SetJob(p, [NoJob EXCEPT !.manifest = world.memo])
        /\ tmpf' = Absent
  /\ UNCHANGED <<file, lock, snap, baseline, queued, world, human, used, reported>>

\* the agent reads the corpus ...
AgentReads(p) ==
  /\ pc[p] = "agent"
  /\ SetJob(p, [job[p] EXCEPT !.read = Read(world)])
  /\ Goto(p, "writing")
  /\ UNCHANGED <<file, lock, snap, audit, world, human, used, reported>>

\* ... and writes its findings file, or ends without one
AgentEnds(p) ==
  /\ pc[p] = "writing"
  /\ \/ /\ tmpf' = Report("AUDIT", Corpus(job[p].read))
        /\ SetJob(p, [job[p] EXCEPT !.wrote = TRUE])
     \/ UNCHANGED <<tmpf, job>>
  /\ Goto(p, "collect")
  /\ UNCHANGED <<file, lock, snap, baseline, queued, world, human, used, reported>>

\* no findings file: the audit failed; else its lines go to findings_set_section
Collect(p) ==
  /\ pc[p] = "collect"
  /\ IF tmpf = Absent
     THEN Goto(p, "idle") /\ SetJob(p, NoJob)
     ELSE Goto(p, "waitsh") /\ SetJob(p, [job[p] EXCEPT !.put = Only("AUDIT", tmpf)])
  /\ UNCHANGED <<file, lock, snap, audit, world, human, used, reported>>

\* findings_init, and the markers of a section the file does not have
InitSection(p) ==
  /\ pc[p] = "init"
  /\ file' = IF file = Absent THEN Fresh
             ELSE IF "AUDIT" \in DOMAIN file THEN file ELSE With(file, Only("AUDIT", {}))
  /\ Goto(p, "awk")
  /\ UNCHANGED <<lock, job, snap, audit, world, human, used, reported>>

\* mutation: the awk program copies the scaffold's sections only
AwkKeeps_Seeded == Seeded

\* the sections the awk program copies
AwkKeeps == Tags

\* awk writes the new contents to a file of mktemp; nobody looks at its exit code
Awk(p) ==
  LET put == job[p].put
      out == [t \in DOMAIN file \cap AwkKeeps |-> IF t \in DOMAIN put THEN put[t] ELSE file[t]] IN
  /\ pc[p] = "awk"
  /\ \/ SetJob(p, [job[p] EXCEPT !.copy = out]) /\ UNCHANGED used
     \/ SetJob(p, [job[p] EXCEPT !.copy = Blank]) /\ Fails("tmp_full")
  /\ Goto(p, "mv")
  /\ UNCHANGED <<file, lock, snap, audit, world, human, reported>>

\* mv renames, or, to another file system, removes the old file and copies
Mv(p) ==
  /\ pc[p] = "mv"
  /\ file' = job[p].copy
  /\ queued' = queued \cup Section(job[p].copy, "AUDIT")
  /\ Leave(p, "advance")
  /\ UNCHANGED <<job, snap, baseline, tmpf, world, draft, cleared, used, reported>>

MvUnlinks(p) ==
  /\ pc[p] = "mv" /\ Fails("copied_mv")
  /\ file' = Absent
  /\ Goto(p, "copying")
  /\ UNCHANGED <<lock, job, snap, audit, world, human, reported>>

MvCopies(p) ==
  /\ pc[p] = "copying"
  /\ file' = job[p].copy
  /\ queued' = queued \cup Section(job[p].copy, "AUDIT")
  /\ Leave(p, "advance")
  /\ UNCHANGED <<job, snap, baseline, tmpf, world, draft, cleared, used, reported>>

\* mutation: a threshold's worth of changes stays uncounted
Advance_CarryOver(p) ==
  /\ pc[p] = "advance"
  /\ baseline' = [heads |-> world.heads - Thresh, memo |-> job[p].manifest - Thresh]
  /\ tmpf' = Absent
  /\ Goto(p, "idle") /\ SetJob(p, NoJob)
  /\ UNCHANGED <<file, lock, snap, queued, world, human, used, reported>>

\* the baseline: git HEAD as it is now, memory as it was at the gate
Advance(p) ==
  /\ pc[p] = "advance"
  /\ baseline' = [heads |-> world.heads, memo |-> job[p].manifest]
  /\ tmpf' = Absent
  /\ Goto(p, "idle") /\ SetJob(p, NoJob)
  /\ UNCHANGED <<file, lock, snap, queued, world, human, used, reported>>

-----------------------------------------------------------------------------
(* The environment *)

\* the HEADs, the memory, the configuration, a service changes; documents catch up
Move(c) ==
  /\ c \in Moves /\ used.moves < MaxMoves /\ Count("moves")
  /\ world' = [world EXCEPT ![c] = IF c = "docs" THEN world.conf ELSE @ + 1]
  /\ UNCHANGED <<file, lock, pc, job, snap, audit, human, reported>>

\* the kernel drops the flock of a killed process; what it started dies with it
Kill(p) ==
  /\ pc[p] # "idle" /\ used.kills < MaxKills /\ Count("kills")
  /\ UNCHANGED <<file, snap, audit, world, draft, cleared, reported>>
  /\ Leave(p, "idle") /\ SetJob(p, NoJob)

\* a person opens the queue to adjudicate proposals ...
OpenEditor ==
  /\ draft = Absent /\ Section(file, PW) # {}
  /\ used.edits < MaxEdits /\ Count("edits")
  /\ draft' = file
  /\ UNCHANGED <<file, lock, pc, job, snap, audit, world, reported, cleared, overtaken>>

\* ... and saves without them, whoever holds the lock; an editor warns of a file
\* that changed since, and cannot know of a copy that a producer has made
SaveEditor(S) ==
  /\ draft # Absent /\ S \subseteq Section(draft, PW) /\ S # {}
  /\ EditsRaceWriters \/ file = draft
  /\ file' = With(draft, Only(PW, draft[PW] \ S))
  /\ cleared' = cleared \cup S
  /\ overtaken' = IF Stale THEN overtaken \cup S ELSE overtaken \ S
  /\ draft' = Absent
  /\ UNCHANGED <<lock, pc, job, snap, audit, world, used, reported>>

CloseEditor ==
  /\ draft # Absent
  /\ draft' = Absent
  /\ UNCHANGED <<file, lock, pc, job, snap, audit, world, used, reported, cleared, overtaken>>

-----------------------------------------------------------------------------

Init ==
  /\ file = Absent /\ lock = Nobody
  /\ pc = [p \in Procs |-> "idle"] /\ job = [p \in Procs |-> NoJob]
  /\ world = [heads |-> 1, memo |-> 0, conf |-> 0, docs |-> 0, proc |-> 0]
  /\ snap = 0 /\ baseline = NoRead /\ tmpf = Absent /\ draft = Absent
  /\ used = [jobs |-> 0, moves |-> 0, edits |-> 0, kills |-> 0, faults |-> 0]
  /\ reported = {} /\ cleared = {} /\ overtaken = {} /\ queued = {}

Start(p) == CheckTier1(p) \/ StartDivert(p) \/ StartProbe(p)

Step(p) ==
  \/ SaveSnapshot(p) \/ CheckXref(p)
  \/ Acquire(p) \/ LockTimeout(p) \/ ReadQueue(p) \/ ReplaceQueue(p) \/ ReplaceRefused(p)
  \/ AuditGate(p) \/ AgentReads(p) \/ AgentEnds(p) \/ Collect(p)
  \/ InitSection(p) \/ Awk(p) \/ Mv(p) \/ MvUnlinks(p) \/ MvCopies(p) \/ Advance(p)

Next ==
  \/ \E p \in Procs : Start(p) \/ Step(p) \/ Kill(p)
  \/ \E c \in Parts : Move(c)
  \/ OpenEditor \/ CloseEditor
  \/ \E S \in SUBSET Section(draft, PW) : SaveEditor(S)

Spec == Init /\ [][Next]_vars

\* only the two poll loops keep going: a holder may hang for ever
HungHolderSpec == Spec /\ \A p \in Procs : WF_vars(Acquire(p) \/ LockTimeout(p))
-----------------------------------------------------------------------------
(* Properties *)

Labels == {"idle", "snapshot", "xref", "wait", "gate", "agent", "writing", "collect",
           "waitsh", "advance"} \cup Held
ReadType == [heads : Nat, memo : Nat]
IsJob(j) ==
  /\ j = [put |-> j.put, copy |-> j.copy, line |-> j.line, live |-> j.live,
          read |-> j.read, manifest |-> j.manifest, wrote |-> j.wrote]
  /\ IsContents(j.put) /\ (j.copy = Absent \/ IsContents(j.copy))
  /\ j.line \in Nat /\ j.live \in Nat /\ j.read \in ReadType
  /\ j.manifest \in Nat /\ j.wrote \in BOOLEAN

\* The values each variable ranges over.
TypeOK ==
  /\ file = Absent \/ IsContents(file)
  /\ draft = Absent \/ IsContents(draft)
  /\ lock \in Procs \cup {Nobody}
  /\ pc \in [Procs -> Labels]
  /\ job = [p \in Procs |-> job[p]] /\ \A p \in Procs : IsJob(job[p])
  /\ snap \in Nat /\ baseline \in ReadType
  /\ tmpf = Absent \/ tmpf \subseteq Finding
  /\ world \in [Parts -> Nat]
  /\ used \in [{"jobs", "moves", "edits", "kills", "faults"} -> Nat]
  /\ reported \cup cleared \cup overtaken \cup queued \subseteq Finding

\* Exactly the process inside a `with state_lock` block (store.py:308) or in the
\* locked subshell of findings.sh:58 holds the flock, whatever was killed or timed out.
LockInv == \A p \in Procs : lock = p <=> pc[p] \in Held

\* A proposal whose verb told its session "queued" stays in the queue until a
\* person takes it out (authgate.py:230), across every other producer's write,
\* a kill, a lock timeout and a write that fails.
ProposalsKept == reported \ cleared \subseteq Section(file, PW)

\* What a person has taken out comes back with one producer at most: the one that
\* held the lock with its copy made when the person saved, without the lock, as
\* allowed (authgate.py:62, :241).  A save at any other time is final, since every
\* producer copies and replaces within one hold of one lock.
ClearedStaysCleared == cleared \cap Section(file, PW) \subseteq overtaken

\* A cross-reference that failed or was skipped and an agent that wrote nothing
\* leave their section as it was (checks.py:339, consistency-audit.sh:116);
\* computed results are never empty in the model.

Owned == {{"TIER1"}, {"TIER1", "XREF"}, {"PROC"}, {"AUDIT"}}
AQ == INSTANCE AbstractQueue WITH
  Proposed <- PW, sections <- [t \in Tags |-> Section(file, t)], contested <- overtaken

\* Producers in two languages, in any interleaving and with kills, change the
\* file as if each ran alone: its own sections, from one run of it, at once.
QueueIsAtomic == AQ!AbsSpec

\* Nobody waits for the state lock for ever, even if its holder hangs
\* (QQ_LOCK_WAIT, store.py:297 and findings.sh:62).
WaitEnds == \A p \in Procs : pc[p] \in {"wait", "waitsh"} ~> pc[p] \notin {"wait", "waitsh"}

\* "Writing this file is how the runner knows you finished" (audit-runbook.md:59): of
\* audits that do not overlap, none takes the findings file of an earlier one, which
\* may have been killed before it queued them, for its own agent's completion.
CompletionIsOwn ==
  [][\A p \in Auditors : pc[p] = "collect" /\ pc'[p] = "waitsh" => job[p].wrote]_vars
=============================================================================
