------------------------------ MODULE StoreTxn ------------------------------
(***************************************************************************)
(* The write transaction of the quintessence store (write.py): the sessions *)
(* that run write verbs against one git work tree of topic HEADs, an         *)
(* INDEX.md derived from them and an append-only journal, under the flock    *)
(* `.qq.lock`.                                                               *)
(*                                                                           *)
(* The model keeps every step of a verb that changes shared state or reads   *)
(* state it uses later: the unlocked pre-checks, the lock, the re-checks     *)
(* under it, the absorption of out-of-band edits, the file writes, `git      *)
(* add`, `git commit` and the rollback.  A session can be killed between any *)
(* two steps.  A person can edit HEAD files directly at any time (or, with   *)
(* EditsRaceWriters = FALSE, only while no verb holds the lock).             *)
(*                                                                           *)
(* A HEAD is abstracted to what the properties tell apart: its update-lines  *)
(* (newest first) and one `ess` standing for the essence and the body.       *)
(* Lines are unique tokens that remember who composed them.                  *)
(***************************************************************************)
EXTENDS Integers, Sequences, FiniteSets

CONSTANTS
  Sessions,          \* the processes that run `qq` verbs
  Topics,            \* a topic stands for its HEAD file `<topic>.md`
  Snaps,             \* journal snapshot files `journal/<topic>/<ts>[-n].md`
  IndexMd,           \* INDEX.md
  Absent,            \* the value of a file that does not exist
  Nobody, Editor,    \* no session; the person who edits files out of band
  Born,              \* topics that exist at the start
  Gated, Trusted,    \* QQ_AUTHOR_GATE_SLUGS; sessions with a trusted model
  Verbs,             \* the verbs sessions may run
  KeepN,             \* keep_n of `qq compact`
  EditsRaceWriters,  \* may an out-of-band edit fall inside a lock hold?
  MaxOps, MaxEdits, MaxKills, MaxFaults, MaxDisk    \* bounds of the model

VerbNames == {"update", "new", "rewrite", "essence", "finalize", "delete",
              "compact", "autofix", "reindex"}

VARIABLES
  lock,     \* holder of `.qq.lock`, or Nobody
  pc,       \* where each session's verb is
  job,      \* the locals of each session's verb
  wt,       \* the work tree: what is on disk
  idx,      \* the git index
  tree,     \* the commit at git HEAD
  tip,      \* what the commit at git HEAD says it is: verb and topic
  queue,    \* lines queued as PROPOSED writes by the authoring gate
  \* auxiliary: counters that bound the model, and history for the properties
  used,     \* how many verbs, edits, kills, git faults and disk faults have happened
  absorbed, \* lines that entered history through an absorb commit
  foreign,  \* HEADs left dirty by an edit, a killed writer or a full disk
  owed      \* update-lines that landed and that nobody chose to drop

vars == <<lock, pc, job, wt, idx, tree, tip, queue, used, absorbed, foreign, owed>>
files == <<wt, idx, tree, tip>>
aux == <<absorbed, foreign, owed>>

-----------------------------------------------------------------------------
(* Data *)

Line == [by : Sessions \cup {Editor, Nobody}, n : Nat]
NoLine == [by |-> Nobody, n |-> 0]
SeedLine(k) == [by |-> Nobody, n |-> k]

HeadFile == [upd : Seq(Line), ess : Line]
Torn == [upd |-> <<>>, ess |-> NoLine]     \* a file opened for writing: truncated
Seed == [upd |-> <<SeedLine(2), SeedLine(1)>>, ess |-> SeedLine(3)]

ASSUME ConstantsAssumption ==
  /\ Nobody \notin Sessions /\ Editor \notin Sessions /\ Nobody # Editor
  /\ Nobody \notin Topics \cup Snaps
  /\ Topics \cap Snaps = {} /\ IndexMd \notin Topics \cup Snaps
  /\ Born \subseteq Topics /\ Gated \subseteq Topics /\ Trusted \subseteq Sessions
  /\ Verbs \subseteq VerbNames
  /\ Absent \notin HeadFile
  /\ EditsRaceWriters \in BOOLEAN
  /\ {KeepN, MaxOps, MaxEdits, MaxKills, MaxFaults, MaxDisk} \subseteq Nat

Entry == [top : Line, ess : Line]           \* a topic's line in INDEX.md
NoEntry == [top |-> NoLine, ess |-> NoLine]
Menu == [Topics -> Entry]

Path == Topics \cup Snaps \cup {IndexMd}

LinesOf(c) == IF c = Absent THEN {} ELSE {c.upd[i] : i \in DOMAIN c.upd} \cup {c.ess}
UpdatesOf(c) == IF c = Absent THEN {} ELSE {c.upd[i] : i \in DOMAIN c.upd}

EntryOf(c) ==
  IF c = Absent THEN NoEntry
  ELSE [top |-> IF c.upd = <<>> THEN NoLine ELSE c.upd[1], ess |-> c.ess]

\* mutation: the index lists the journal snapshots too
MenuOf_WithJournal(area) == [t \in Topics \cup Snaps |-> EntryOf(area[t])]

\* compute_index_text: one line per HEAD found in an area (disk or commit)
MenuOf(area) == [t \in Topics |-> EntryOf(area[t])]

Trim(c) == [c EXCEPT !.upd = SubSeq(c.upd, 1, IF Len(c.upd) < KeepN THEN Len(c.upd) ELSE KeepN)]

NoMenu == [t \in Topics |-> NoEntry]
NoJob == [verb |-> "none", topic |-> Nobody, text |-> NoLine, seen |-> Absent,
          base |-> Absent, orig |-> Absent, snap |-> Nobody, todo |-> {},
          cur |-> Nobody, fresh |-> NoMenu]
Job(v, t, l) == [NoJob EXCEPT !.verb = v, !.topic = t, !.text = l]

\* every composed line is a fresh token
Mint(who) == [by |-> who, n |-> used.ops + used.edits + 2]

\* the verbs that run through _execute_write or its essence twin, those that
\* snapshot a HEAD to the journal first, and those that commit INDEX.md
Writers == {"update", "new", "rewrite", "essence", "trim"}
Archivers == {"finalize", "compact", "delete"}

\* mutation: finalize and delete absorb their own HEAD only
Sweepers_AutofixOnly == {"autofix"}
Sweepers == Archivers \cup {"autofix"}

NeedsHead(v) == v \in {"update", "essence", "trim"} \cup Archivers

\* the paths a verb names in its own commit
OwnPaths(j) ==
  CASE j.verb \in Writers -> {j.topic}
    [] j.verb \in {"finalize", "compact"} -> {j.snap, IndexMd}
    [] j.verb = "delete" -> {j.snap, j.topic, IndexMd}
    [] OTHER -> {IndexMd}

\* the text a writer verb computes from the file's live content
NewText(j) ==
  CASE j.verb = "update"  -> [j.orig EXCEPT !.upd = <<j.text>> \o @]
    [] j.verb = "new"     -> [upd |-> <<j.text>>, ess |-> j.text]
    [] j.verb = "rewrite" -> [upd |-> j.seen.upd, ess |-> j.text]
    [] j.verb = "essence" -> [j.orig EXCEPT !.ess = j.text]
    [] OTHER              -> Trim(j.orig)

Dirty(p) == wt[p] # idx[p] \/ idx[p] # tree[p]      \* `git status --porcelain -- p`

\* `git add -- P` and `git commit -- P`: the named paths only, from the work tree
Stage(P) == idx' = [p \in Path |-> IF p \in P THEN wt[p] ELSE idx[p]]

\* mutation: a bare `git commit` after the add takes whatever is staged
Commit_WholeIndex(P) ==
  /\ \E p \in P : wt[p] # tree[p]
  /\ tree' = [p \in Path |-> IF p \in P THEN wt[p] ELSE idx[p]]
  /\ Stage(P)
Commit(P) ==
  /\ \E p \in P : wt[p] # tree[p]         \* else git says there is nothing to commit
  /\ tree' = [p \in Path |-> IF p \in P THEN wt[p] ELSE tree[p]]
  /\ Stage(P)

Put(area, p, c) == [area EXCEPT ![p] = c]
Exists(t) == wt[t] # Absent
Untrusted(s, t) == t \in Gated /\ s \notin Trusted

\* the steps inside the `with qq_lock` block
TxnLabels == {"enter", "sweep", "absorb", "write", "unlink", "menu", "add", "commit", "rollback"}
InTxn(s) == pc[s] \in TxnLabels

Goto(s, label) == pc' = [pc EXCEPT ![s] = label]
SetJob(s, j) == job' = [job EXCEPT ![s] = j]
\* the verb ends; leaving the `with qq_lock` block drops the flock
Return(s) ==
  /\ Goto(s, "idle")
  /\ SetJob(s, NoJob)
  /\ lock' = IF lock = s THEN Nobody ELSE lock

Counters == {"ops", "edits", "kills", "faults", "disk"}
Count(k) == used' = [used EXCEPT ![k] = @ + 1]
\* git can fail at any add or commit: no author identity, a stale index.lock, a hook
Fault == used.faults < MaxFaults /\ Count("faults")

-----------------------------------------------------------------------------
(* Before the lock: each verb's own checks, on an unlocked read of the disk *)

Begin(s, v) ==
  /\ v \in Verbs
  /\ pc[s] = "idle"
  /\ used.ops < MaxOps
  /\ Count("ops")

Divert(l) == queue' = queue \cup {l}
Wait(s, j) == Goto(s, "wait") /\ SetJob(s, j)

\* update: the gate looks at the file first; when it is not there yet the check
\* is repeated under the lock (gate_recheck)
BeginUpdate(s, t) ==
  /\ Begin(s, "update")
  /\ IF Untrusted(s, t) /\ Exists(t)
     THEN Divert(Mint(s)) /\ UNCHANGED <<pc, job>>
     ELSE /\ Goto(s, "gated") /\ SetJob(s, Job("update", t, Mint(s)))
          /\ UNCHANGED queue
  /\ UNCHANGED <<lock, files, aux>>

\* _execute_write looks at the file again and refuses a missing target
PreCheckUpdate(s) ==
  /\ pc[s] = "gated"
  /\ IF Exists(job[s].topic) THEN Goto(s, "wait") /\ UNCHANGED <<job, lock>> ELSE Return(s)
  /\ UNCHANGED <<files, queue, used, aux>>

\* new and essence: one existence check, then the gate
BeginNew(s, t) ==
  /\ Begin(s, "new")
  /\ ~Exists(t)
  /\ IF Untrusted(s, t)
     THEN Divert(Mint(s)) /\ UNCHANGED <<pc, job>>
     ELSE Wait(s, Job("new", t, Mint(s))) /\ UNCHANGED queue
  /\ UNCHANGED <<lock, files, aux>>

BeginEssence(s, t) ==
  /\ Begin(s, "essence")
  /\ Exists(t)
  /\ IF Untrusted(s, t)
     THEN Divert(Mint(s)) /\ UNCHANGED <<pc, job>>
     ELSE Wait(s, Job("essence", t, Mint(s))) /\ UNCHANGED queue
  /\ UNCHANGED <<lock, files, aux>>

\* rewrite: the caller seeds its text from an earlier `qq show` ...
ShowForRewrite(s, t) ==
  /\ Begin(s, "rewrite")
  /\ Exists(t)
  /\ Goto(s, "composing")
  /\ SetJob(s, [Job("rewrite", t, Mint(s)) EXCEPT !.seen = wt[t]])
  /\ UNCHANGED <<lock, files, queue, aux>>

\* ... and the base is the commit at the time the verb starts
BeginRewrite(s) ==
  LET t == job[s].topic IN
  /\ pc[s] = "composing"
  /\ \/ ~Exists(t) /\ Return(s) /\ UNCHANGED queue
     \/ Exists(t) /\ Untrusted(s, t) /\ Divert(job[s].text) /\ Return(s)
     \/ /\ Exists(t) /\ ~Untrusted(s, t)
        /\ Wait(s, [job[s] EXCEPT !.base = tree[t]])
        /\ UNCHANGED <<queue, lock>>
  /\ UNCHANGED <<files, used, aux>>

\* finalize and delete consult no gate
BeginArchive(s, t, v) ==
  /\ v \in {"finalize", "delete"}
  /\ Begin(s, v)
  /\ Exists(t)
  /\ Wait(s, Job(v, t, NoLine))
  /\ UNCHANGED <<lock, files, queue, aux>>

\* compact: nothing to do unless an unlocked count finds more than keep_n
BeginCompact(s, t) ==
  /\ Begin(s, "compact")
  /\ Exists(t) /\ Len(wt[t].upd) > KeepN
  /\ Wait(s, Job("compact", t, NoLine))
  /\ UNCHANGED <<lock, files, queue, aux>>

\* `qq check --write`: the fresh index is computed before the lock is asked for
BeginAutofix(s) ==
  /\ Begin(s, "autofix")
  /\ MenuOf(wt) # wt[IndexMd]
  /\ Wait(s, [Job("autofix", Nobody, NoLine) EXCEPT !.fresh = MenuOf(wt)])
  /\ UNCHANGED <<lock, files, queue, aux>>

\* `qq reindex` takes no lock: it reads the HEADs, then writes INDEX.md
BeginReindex(s) ==
  /\ Begin(s, "reindex")
  /\ Goto(s, "reindex")
  /\ SetJob(s, [Job("reindex", Nobody, NoLine) EXCEPT !.fresh = MenuOf(wt)])
  /\ UNCHANGED <<lock, files, queue, aux>>

WriteReindex(s) ==
  /\ pc[s] = "reindex"
  /\ wt' = Put(wt, IndexMd, job[s].fresh)
  /\ Return(s)
  /\ UNCHANGED <<idx, tree, tip, queue, used, aux>>

-----------------------------------------------------------------------------
(* Taking the lock, and the checks repeated under it *)

AcquireLock(s) ==
  /\ pc[s] = "wait" /\ lock = Nobody
  /\ lock' = s
  /\ Goto(s, "enter")
  /\ UNCHANGED <<job, files, queue, used, aux>>

\* mutation: the poll loop has no deadline
LockTimeout_Never(s) == FALSE

\* acquire_flock gives up after QQ_LOCK_WAIT seconds
LockTimeout(s) ==
  /\ pc[s] = "wait" /\ lock # Nobody
  /\ Return(s)
  /\ UNCHANGED <<files, queue, used, aux>>

\* mutation: the gate is consulted before the lock only
GatedUnderLock_Skipped(s) == FALSE

\* update's gate_recheck
GatedUnderLock(s) ==
  job[s].verb = "update" /\ Untrusted(s, job[s].topic) /\ Exists(job[s].topic)

\* mutation: only a rewrite looks for an out-of-band edit
SweepList_RewriteOnly(j) == IF j.verb = "rewrite" /\ Exists(j.topic) THEN {j.topic} ELSE {}

\* the HEADs to absorb: every one for the verbs that commit INDEX.md, else the target
SweepList(j) ==
  IF j.verb \in Sweepers THEN {t \in Topics : Dirty(t)}
  ELSE IF Exists(j.topic) THEN {j.topic} ELSE {}

\* the gate again, then the target again (deleted during the wait?), then the sweep
Enter(s) ==
  LET j == job[s]  gone == NeedsHead(j.verb) /\ ~Exists(j.topic) IN
  /\ pc[s] = "enter"
  /\ \/ GatedUnderLock(s) /\ Divert(j.text) /\ Return(s)
     \/ ~GatedUnderLock(s) /\ gone /\ Return(s) /\ UNCHANGED queue
     \/ /\ ~GatedUnderLock(s) /\ ~gone
        /\ Goto(s, "sweep") /\ SetJob(s, [j EXCEPT !.todo = SweepList(j)])
        /\ UNCHANGED <<lock, queue>>
  /\ UNCHANGED <<files, used, aux>>

-----------------------------------------------------------------------------
(* Absorbing out-of-band edits: each dirty HEAD in a commit of its own *)

\* `git add` of one dirty HEAD; a HEAD that is clean by now is skipped
AbsorbAdd(s, t) ==
  /\ pc[s] = "sweep" /\ t \in job[s].todo
  /\ IF Dirty(t)
     THEN /\ Stage({t})
          /\ Goto(s, "absorb")
          /\ SetJob(s, [job[s] EXCEPT !.cur = t])
     ELSE /\ SetJob(s, [job[s] EXCEPT !.todo = @ \ {t}])
          /\ UNCHANGED <<idx, pc>>
  /\ UNCHANGED <<lock, wt, tree, tip, queue, used, aux>>

AbsorbCommit(s) ==
  LET t == job[s].cur IN
  /\ pc[s] = "absorb"
  /\ Commit({t})
  /\ tip' = [op |-> "absorb", topic |-> t]
  /\ absorbed' = absorbed \cup LinesOf(wt[t])
  /\ foreign' = foreign \ {t}
  /\ Goto(s, "sweep")
  /\ SetJob(s, [job[s] EXCEPT !.todo = @ \ {t}, !.cur = Nobody])
  /\ UNCHANGED <<lock, wt, queue, used, owed>>

\* git refuses: the verb ends; what was staged stays staged
AbsorbFails(s) ==
  /\ \/ pc[s] = "sweep" /\ (\E t \in job[s].todo : Dirty(t)) /\ Fault
     \/ pc[s] = "absorb" /\ Fault
     \/ pc[s] = "absorb" /\ wt[job[s].cur] = tree[job[s].cur] /\ UNCHANGED used
  /\ Return(s)
  /\ UNCHANGED <<files, queue, aux>>

-----------------------------------------------------------------------------
(* The verb's own change on disk *)

Swept(s) == pc[s] = "sweep" /\ job[s].todo = {}

\* mutation: --base is not checked under the lock
BaseHolds_Unchecked(s) == TRUE

\* _check_base: the target at git HEAD is what it was at the base
BaseHolds(s) == job[s].verb = "rewrite" => tree[job[s].topic] = job[s].base

\* mutation: a moved target is polled under the lock until it is back at the base
RefuseMoved_Polls(s) ==
  /\ Swept(s) /\ ~BaseHolds(s)
  /\ UNCHANGED vars

RefuseMoved(s) ==
  /\ Swept(s) /\ ~BaseHolds(s)
  /\ Return(s)
  /\ UNCHANGED <<files, queue, used, aux>>

\* the file is read, and write_text opens it: for an instant it is empty
OpenHead(s) ==
  LET t == job[s].topic IN
  /\ Swept(s) /\ job[s].verb \in Writers /\ BaseHolds(s)
  /\ NeedsHead(job[s].verb) => Exists(t)
  /\ SetJob(s, [job[s] EXCEPT !.orig = wt[t]])
  /\ wt' = Put(wt, t, Torn)
  /\ Goto(s, "write")
  /\ UNCHANGED <<lock, idx, tree, tip, queue, used, aux>>

WriteHead(s) ==
  /\ pc[s] = "write"
  /\ wt' = Put(wt, job[s].topic, NewText(job[s]))
  /\ Goto(s, "add")
  /\ UNCHANGED <<lock, job, idx, tree, tip, queue, used, aux>>

\* mutation: the snapshot name is the one-second stamp alone, and may be taken
Snapshot_Overwrites(s, j) ==
  LET t == job[s].topic IN
  /\ Swept(s) /\ job[s].verb \in Archivers /\ Exists(t)
  /\ wt' = Put(wt, j, wt[t])
  /\ SetJob(s, [job[s] EXCEPT !.snap = j])
  /\ Goto(s, IF job[s].verb = "delete" THEN "unlink" ELSE "menu")
  /\ UNCHANGED <<lock, idx, tree, tip, queue, used, aux>>

\* the HEAD is copied to a snapshot file that does not exist yet
Snapshot(s, j) ==
  LET t == job[s].topic IN
  /\ Swept(s) /\ job[s].verb \in Archivers
  /\ Exists(t) /\ wt[j] = Absent
  /\ wt' = Put(wt, j, wt[t])
  /\ SetJob(s, [job[s] EXCEPT !.snap = j])
  /\ Goto(s, IF job[s].verb = "delete" THEN "unlink" ELSE "menu")
  /\ UNCHANGED <<lock, idx, tree, tip, queue, used, aux>>

\* an edit inside the lock hold removed the file
HeadGone(s) ==
  /\ Swept(s) /\ NeedsHead(job[s].verb) /\ ~Exists(job[s].topic)
  /\ Return(s)
  /\ UNCHANGED <<files, queue, used, aux>>

UnlinkHead(s) ==
  /\ pc[s] = "unlink"
  /\ wt' = Put(wt, job[s].topic, Absent)
  /\ Goto(s, "menu")
  /\ UNCHANGED <<lock, job, idx, tree, tip, queue, used, aux>>

\* the archivers derive INDEX.md from the disk now, the autofix writes what it
\* computed before it had the lock
AtMenu(s) == pc[s] = "menu" \/ (Swept(s) /\ job[s].verb = "autofix")
WriteMenu(s) ==
  /\ AtMenu(s)
  /\ wt' = Put(wt, IndexMd, IF job[s].verb = "autofix" THEN job[s].fresh ELSE MenuOf(wt))
  /\ Goto(s, "add")
  /\ UNCHANGED <<lock, job, idx, tree, tip, queue, used, aux>>

\* write_text truncates, then writes: the disk after a write that stopped between
HalfWritten(s) ==
  IF AtMenu(s) \/ pc[s] = "reindex" THEN Put(wt, IndexMd, NoMenu)
  ELSE IF pc[s] = "rollback" /\ job[s].verb \in Writers THEN Put(wt, job[s].topic, Torn)
  ELSE wt

Unsettled(area) == {t \in Topics : area[t] # tree[t]}

\* no room, no permission: a snapshot copy or an open that fails has changed nothing,
\* a write may have truncated; the error ends the verb and nothing is put back
DiskFails(s) ==
  /\ Swept(s) \/ pc[s] \in {"write", "unlink", "menu", "reindex", "rollback"}
  /\ used.disk < MaxDisk /\ Count("disk")
  /\ wt' \in {wt, HalfWritten(s)}
  /\ foreign' = IF InTxn(s) THEN foreign \cup Unsettled(wt') ELSE foreign
  /\ Return(s)
  /\ UNCHANGED <<idx, tree, tip, queue, absorbed, owed>>

-----------------------------------------------------------------------------
(* commit_push of the verb's own paths, and the rollback when git refuses *)

GitAdd(s) ==
  /\ pc[s] = "add"
  /\ \E p \in OwnPaths(job[s]) : Dirty(p)
  /\ Stage(OwnPaths(job[s]))
  /\ Goto(s, "commit")
  /\ UNCHANGED <<lock, job, wt, tree, tip, queue, used, aux>>

\* nothing staged or dirty: "no changes to commit", the verb is done
NoChange(s) ==
  /\ pc[s] = "add"
  /\ \A p \in OwnPaths(job[s]) : ~Dirty(p)
  /\ Return(s)
  /\ UNCHANGED <<files, queue, used, aux>>

\* the update-lines a commit of the verb removes on purpose
Dropped(j) ==
  IF j.verb = "rewrite" THEN UpdatesOf(j.seen) \ UpdatesOf(wt[j.topic]) ELSE {}
Landed(j) == IF j.verb = "update" THEN {j.text} ELSE {}

\* the commit lands and the lock is dropped; compact goes on to the trim, which
\* takes the lock again
GitCommit(s) ==
  LET j == job[s] IN
  /\ pc[s] = "commit"
  /\ Commit(OwnPaths(j))
  /\ tip' = [op |-> j.verb, topic |-> j.topic]
  /\ owed' = (owed \cup Landed(j)) \ Dropped(j)
  /\ foreign' = foreign \ OwnPaths(j)
  /\ IF j.verb = "compact"
     THEN /\ Wait(s, Job("trim", j.topic, NoLine))
          /\ lock' = Nobody
     ELSE Return(s)
  /\ UNCHANGED <<wt, queue, used, absorbed>>

GitFails(s) ==
  /\ pc[s] \in {"add", "commit"}
  /\ \/ Fault
     \/ /\ pc[s] = "commit" /\ \A p \in OwnPaths(job[s]) : wt[p] = tree[p]
        /\ UNCHANGED used
  /\ Goto(s, "rollback")
  /\ UNCHANGED <<lock, job, files, queue, aux>>

\* mutation: a failed commit leaves the disk as it is
Restored_Nothing(j) == wt

\* mutation: a failed delete removes its snapshot but does not restore the HEAD
Restored_HeadStaysDeleted(j) ==
  IF j.verb \in Writers THEN Put(wt, j.topic, j.orig)
  ELSE IF j.verb = "autofix" THEN wt ELSE Put(wt, j.snap, Absent)

\* what each verb puts back on disk
Restored(j) ==
  CASE j.verb \in Writers -> Put(wt, j.topic, j.orig)
    [] j.verb \in {"finalize", "compact"} -> Put(wt, j.snap, Absent)
    [] j.verb = "delete" ->
         LET back == Put(Put(wt, j.topic, wt[j.snap]), j.snap, Absent)
         IN  Put(back, IndexMd, MenuOf(back))
    [] OTHER -> wt

\* _unstage is best effort: `git reset` may fail like the command before it
Rollback(s) ==
  LET j == job[s] IN
  /\ pc[s] = "rollback"
  /\ wt' = Restored(j)
  /\ \/ UNCHANGED <<idx, used>> /\ j.verb = "autofix"
     \/ UNCHANGED idx /\ Fault
     \/ /\ j.verb # "autofix"
        /\ idx' = [p \in Path |-> IF p \in OwnPaths(j) THEN tree[p] ELSE idx[p]]
        /\ UNCHANGED used
  /\ Return(s)
  /\ UNCHANGED <<tree, tip, queue, aux>>

-----------------------------------------------------------------------------
(* The environment *)

\* mutation: the lock is a file its owner removes, and a killed owner does not
Kill_StaleLock(s) ==
  /\ pc[s] # "idle"
  /\ used.kills < MaxKills /\ Count("kills")
  /\ wt' \in {wt, HalfWritten(s)}
  /\ foreign' = IF InTxn(s) THEN foreign \cup Unsettled(wt') ELSE foreign
  /\ Goto(s, "idle") /\ SetJob(s, NoJob)
  /\ UNCHANGED <<lock, idx, tree, tip, queue, absorbed, owed>>

\* the process is killed; the kernel drops its flock, the files stay as they are
Kill(s) ==
  /\ pc[s] # "idle"
  /\ used.kills < MaxKills /\ Count("kills")
  /\ wt' \in {wt, HalfWritten(s)}
  /\ foreign' = IF InTxn(s) THEN foreign \cup Unsettled(wt') ELSE foreign
  /\ Return(s)
  /\ UNCHANGED <<idx, tree, tip, queue, absorbed, owed>>

MayEdit == used.edits < MaxEdits /\ (EditsRaceWriters \/ lock = Nobody)

\* a person writes, creates or removes a HEAD file
EditHead(t) ==
  /\ MayEdit /\ Count("edits")
  /\ \/ /\ wt' = Put(wt, t, IF Exists(t) THEN [wt[t] EXCEPT !.ess = Mint(Editor)]
                            ELSE [upd |-> <<>>, ess |-> Mint(Editor)])
        /\ UNCHANGED owed
     \/ /\ Exists(t) /\ wt' = Put(wt, t, Absent)
        /\ owed' = owed \ UpdatesOf(wt[t])
  /\ foreign' = foreign \cup {t}
  /\ UNCHANGED <<lock, pc, job, idx, tree, tip, queue, absorbed>>

\* ... or stages it by hand (`git add`, `git rm`); a raw commit is refused by the hook
StageByHand(t) ==
  /\ MayEdit /\ wt[t] # idx[t] /\ Count("edits")
  /\ Stage({t})
  /\ UNCHANGED <<lock, pc, job, wt, tree, tip, queue, aux>>

-----------------------------------------------------------------------------

Init ==
  /\ lock = Nobody
  /\ pc = [s \in Sessions |-> "idle"]
  /\ job = [s \in Sessions |-> NoJob]
  /\ wt = [p \in Path |->
             IF p \in Topics THEN IF p \in Born THEN Seed ELSE Absent
             ELSE IF p = IndexMd
             THEN [t \in Topics |-> EntryOf(IF t \in Born THEN Seed ELSE Absent)]
             ELSE Absent]
  /\ idx = wt /\ tree = wt
  /\ tip = [op |-> "none", topic |-> Nobody]
  /\ queue = {}
  /\ used = [ops |-> 0, edits |-> 0, kills |-> 0, faults |-> 0, disk |-> 0]
  /\ absorbed = {} /\ foreign = {} /\ owed = {}

\* a session starts a verb
Call(s) ==
  \/ \E t \in Topics :
       \/ BeginUpdate(s, t) \/ BeginNew(s, t) \/ BeginEssence(s, t) \/ ShowForRewrite(s, t)
       \/ BeginArchive(s, t, "finalize") \/ BeginArchive(s, t, "delete") \/ BeginCompact(s, t)
  \/ BeginAutofix(s) \/ BeginReindex(s)

\* a verb under way takes its next step
Step(s) ==
  \/ PreCheckUpdate(s) \/ WriteReindex(s)
  \/ AcquireLock(s) \/ LockTimeout(s) \/ Enter(s)
  \/ (\E t \in Topics : AbsorbAdd(s, t)) \/ AbsorbCommit(s) \/ AbsorbFails(s)
  \/ RefuseMoved(s) \/ HeadGone(s) \/ DiskFails(s)
  \/ OpenHead(s) \/ WriteHead(s)
  \/ (\E j \in Snaps : Snapshot(s, j)) \/ UnlinkHead(s) \/ WriteMenu(s)
  \/ GitAdd(s) \/ NoChange(s) \/ GitCommit(s) \/ GitFails(s) \/ Rollback(s)

Next ==
  \/ \E s \in Sessions : Call(s) \/ BeginRewrite(s) \/ Step(s) \/ Kill(s)
  \/ \E t \in Topics : EditHead(t) \/ StageByHand(t)

Spec == Init /\ [][Next]_vars

\* a running process keeps running; when a caller calls, kills or edits is its own affair
NobodyHangs == \A s \in Sessions : WF_vars(Step(s))

\* only the poll loop keeps running: the holder may hang in git or in a hook
HungHolderSpec == Spec /\ \A s \in Sessions : WF_vars(AcquireLock(s) \/ LockTimeout(s))

-----------------------------------------------------------------------------
(* Properties *)

Labels == {"idle", "gated", "composing", "wait", "reindex"} \cup TxnLabels
JobType ==
  [verb : VerbNames \cup {"trim", "none"}, topic : Topics \cup {Nobody}, text : Line,
   seen : HeadFile \cup {Absent}, base : HeadFile \cup {Absent},
   orig : HeadFile \cup {Absent}, snap : Snaps \cup {Nobody},
   todo : SUBSET Topics, cur : Topics \cup {Nobody}, fresh : Menu]
AreaOK(area) ==
  /\ area = [p \in Path |-> area[p]]
  /\ \A p \in Topics \cup Snaps : area[p] \in HeadFile \cup {Absent}
  /\ area[IndexMd] \in Menu

\* The values each variable ranges over.
TypeOK ==
  /\ lock \in Sessions \cup {Nobody}
  /\ pc \in [Sessions -> Labels]
  /\ job \in [Sessions -> JobType]
  /\ AreaOK(wt) /\ AreaOK(idx) /\ AreaOK(tree)
  /\ tip \in [op : VerbNames \cup {"trim", "none", "absorb"}, topic : Topics \cup {Nobody}]
  /\ queue \subseteq Line /\ absorbed \subseteq Line /\ owed \subseteq Line
  /\ foreign \subseteq Topics
  /\ used \in [Counters -> Nat]

\* A session is inside its transaction exactly while it holds `.qq.lock`: no two
\* sessions write the tree at once, and no verb, refusal, git failure, timeout or
\* kill leaves the lock behind (qq_lock, acquire_flock).
LockInv == \A s \in Sessions : InTxn(s) <=> lock = s

\* With no verb in its transaction, a HEAD on disk differs from the committed one
\* only if a person edited it, a writer was killed or the disk refused a write: a
\* verb that git fails, that is refused or that loses the race for the lock puts the
\* file back (the rollbacks).
FailureLeavesNoTrace ==
  lock = Nobody => \A t \in Topics \ foreign : wt[t] = tree[t]

\* A hand-edited line is in a committed HEAD or a journal snapshot only after an
\* absorb commit recorded it: it never rides a verb's own commit
\* (_absorb_out_of_band, _absorb_all_heads_out_of_band).
HandEditsAttributed ==
  \A p \in Topics \cup Snaps : \A l \in LinesOf(tree[p]) : l.by = Editor => l \in absorbed

\* Every update-line that landed is still in a committed HEAD or in the journal,
\* unless somebody who had read it left it out on purpose: "it can't clobber and
\* can't be clobbered" (RUBRIC.md:88).
NothingLost ==
  owed \subseteq UNION {UpdatesOf(tree[p]) : p \in Topics \cup Snaps}

\* A session without a trusted model never gets text of its own into a gated HEAD,
\* on disk or committed, whatever the file's existence did between the check and
\* the lock (gate_reason, gate_recheck).
GateHolds ==
  \A t \in Gated : \A l \in LinesOf(wt[t]) \cup LinesOf(tree[t]) :
    l.by \in Sessions => l.by \in Trusted

\* The journal only grows, and every snapshot that lands is the HEAD of its topic
\* exactly as it was committed (finalize, delete, _fresh_snapshot_path).
JournalGrowsByCommittedHeads ==
  [][\A j \in Snaps : tree'[j] # tree[j] =>
       tree[j] = Absent /\ tree'[j] = tree[tip'.topic]]_vars

\* Whenever a commit changes INDEX.md it agrees with the HEADs of that commit.
MenuCommittedFresh ==
  [][tree'[IndexMd] # tree[IndexMd] => tree'[IndexMd] = MenuOf(tree')]_vars

\* Seen from the history alone, the store is AbstractStore: every commit is one verb
\* applied to what was committed before it, or one absorbed edit of one HEAD.
History == INSTANCE AbstractStore WITH
  heads <- [t \in Topics |-> tree[t]], journal <- [j \in Snaps |-> tree[j]],
  Authors <- Sessions
HistoryIsSerial == History!AbsSpec

\* `qq new` never replaces a committed HEAD: "new refuses to clobber"
\* (tests/test-lifecycle.sh:23).
NewNeverOverwrites ==
  [][tree' # tree /\ tip'.op = "new" => tree[tip'.topic] = Absent]_vars

\* A rewrite lands only on the HEAD the verb started from (_check_base).
RewriteLandsOnBase ==
  [][\A s \in Sessions :
       pc[s] = "commit" /\ job[s].verb = "rewrite" /\ tree' # tree /\ lock' # lock
         => tree[job[s].topic] = job[s].base]_vars

\* If no process hangs, the lock is never kept: its holder finishes or dies, on every
\* error path, and the kernel drops the flock of a dead process.
LockReleased == NobodyHangs => \A s \in Sessions : lock = s ~> lock # s

\* A session waiting for the lock stops waiting, even if the holder hangs for ever
\* (the deadline of acquire_flock).
WaitEnds == \A s \in Sessions : pc[s] = "wait" ~> pc[s] # "wait"
=============================================================================
