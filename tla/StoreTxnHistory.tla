--------------------------- MODULE StoreTxnHistory ---------------------------
(* What the commits of StoreTxn are made of, proved for every value of the     *)
(* constants: the history of the store is the one AbstractStore allows, hand    *)
(* edits are named, committed lines are kept and the menu is fresh.             *)
EXTENDS StoreTxnProofs

\* nobody edits a HEAD while a verb holds the lock
Quiet == ~EditsRaceWriters

Composers == {"update", "new", "rewrite", "essence"}

\* a snapshot that was committed stays on disk as it was committed
JournalOnDisk == \A k \in Snaps : tree[k] # Absent => wt[k] = tree[k]

\* whatever happens on disk: a composed line names its session, a rewrite that has
\* begun is on its base, and the snapshot in hand is a new one
Kept(s) ==
  LET j == job[s] IN
  /\ j.verb \in Composers => j.text.by = s
  /\ j.verb = "rewrite" /\ pc[s] \in Changing => tree[j.topic] = j.base
  /\ j.verb \in Archivers /\ pc[s] \in Archiving => tree[j.snap] = Absent /\ wt[j.snap] # Absent

\* the HEADs that the sweep of a verb has to settle
Scope(j) == IF j.verb \in Sweepers THEN Topics ELSE {j.topic}

\* nobody else can touch the HEADs: what the sweep has passed is as committed, a writer
\* changes the committed text, an archiver copies it
HoldOf(s) ==
  LET j == job[s]  t == j.topic IN
  /\ pc[s] \in {"sweep", "absorb"} =>
       \A u \in Scope(j) : u \in j.todo \/ wt[u] = tree[u]
                           \/ (j.verb \notin Sweepers /\ wt[u] = Absent)
  /\ j.verb \in Writers /\ pc[s] \in Changing =>
       /\ j.orig = tree[t] \/ (~NeedsHead(j.verb) /\ j.orig = Absent)
       /\ NeedsHead(j.verb) => j.orig \in HeadFile
  /\ j.verb \in Writers /\ pc[s] \in {"add", "commit"} => wt[t] = NewText(j)
  /\ j.verb \in Archivers /\ pc[s] \in Archiving => wt[j.snap] = tree[t]
  /\ j.verb \in Sweepers /\ pc[s] \in Archiving =>
       \A u \in Topics :
         wt[u] = IF j.verb = "delete" /\ u = t /\ pc[s] # "unlink" THEN Absent ELSE tree[u]

Holds(s) == Kept(s) /\ (Quiet => HoldOf(s))
HistInv == JournalOnDisk /\ \A s \in Sessions : Holds(s)

-----------------------------------------------------------------------------
(* Frames for HistInv *)

USE DEF files, aux

LEMMA PutAt ==
  ASSUME NEW area, AreaOK(area), NEW p \in Path, NEW c
  PROVE  \A q \in Path : Put(area, p, c)[q] = IF q = p THEN c ELSE area[q]
BY DEF Put, AreaOK

LEMMA CommitAt ==
  ASSUME NEW P, Commit(P)
  PROVE  \A q \in Path : tree'[q] = IF q \in P THEN wt[q] ELSE tree[q]
BY DEF Commit

LEMMA PathParts ==
  /\ Topics \subseteq Path /\ Snaps \subseteq Path /\ IndexMd \in Path
  /\ \A t \in Topics : t \notin Snaps /\ t # IndexMd
  /\ \A k \in Snaps : k # IndexMd
BY ConstantsAssumption DEF Path

\* who is inside the transaction is alone there
LEMMA Alone ==
  ASSUME Control, NEW s \in Sessions, InTxn(s)
  PROVE  \A u \in Sessions \ {s} : pc[u] \notin TxnLabels
BY DEF Control, LockInv, InTxn

LEMMA HistInside ==
  ASSUME Control, HistInv, NEW s \in Sessions, InTxn(s), NEW l, NEW j,
         pc' = [pc EXCEPT ![s] = l], job' = [job EXCEPT ![s] = j],
         JournalOnDisk', Holds(s)'
  PROVE  HistInv'
<1>1. \A u \in Sessions \ {s} : pc[u] \notin TxnLabels /\ pc'[u] = pc[u] /\ job'[u] = job[u]
  BY Alone DEF Control
<1>2. ASSUME NEW u \in Sessions \ {s} PROVE Holds(u)'
  <2>1. pc'[u] \notin TxnLabels /\ (job'[u].verb \in Composers => job'[u].text.by = u)
    BY <1>1 DEF HistInv, Holds, Kept
  <2> QED BY <2>1 DEF Holds, Kept, HoldOf, Changing, Archiving, TxnLabels
<1> QED BY <1>2 DEF HistInv

LEMMA HistReturn ==
  ASSUME Control, HistInv, NEW s \in Sessions, InTxn(s), Return(s), JournalOnDisk'
  PROVE  HistInv'
<1>1. pc' = [pc EXCEPT ![s] = "idle"] /\ job' = [job EXCEPT ![s] = NoJob]
  BY DEF Return, Goto, SetJob
<1>2. pc'[s] = "idle" /\ job'[s] = NoJob
  BY <1>1 DEF Control
<1>3. Holds(s)'
  BY <1>2 DEF Holds, Kept, HoldOf, Changing, Archiving, NoJob, Composers
<1> QED BY <1>1, <1>3, HistInside

\* a session outside the critical part of the transaction before and after the step
LEMMA HistOutside ==
  ASSUME Control, HistInv, NEW s \in Sessions, NEW l, NEW j,
         pc' = [pc EXCEPT ![s] = l], job' = [job EXCEPT ![s] = j],
         l \notin TxnLabels \ {"enter"},
         j.verb \in Composers => j.text.by = s,
         \A p \in Topics \cup Snaps : wt'[p] = wt[p],
         UNCHANGED tree
  PROVE  HistInv'
<1>1. pc'[s] = l /\ job'[s] = j /\ \A u \in Sessions \ {s} : pc'[u] = pc[u] /\ job'[u] = job[u]
  BY DEF Control
<1>2. JournalOnDisk'
  BY DEF HistInv, JournalOnDisk
<1>3. Holds(s)'
  BY <1>1 DEF Holds, Kept, HoldOf, Changing, Archiving, TxnLabels
<1>4. ASSUME NEW u \in Sessions \ {s} PROVE Holds(u)'
  <2>1. /\ pc'[u] = pc[u] /\ job'[u] = job[u] /\ Holds(u)
        /\ LocalInv(pc[u], job[u])
    BY <1>1 DEF HistInv, Control, JobInv
  <2>2. pc[u] \in TxnLabels /\ job[u].verb # "autofix" => job[u].topic \in Topics
    BY <2>1 DEF LocalInv, Prepared
  <2>3. pc[u] \in Archiving /\ job[u].verb \in Archivers => job[u].snap \in Snaps
    BY <2>1 DEF LocalInv, Archiving
  <2>4. Kept(u)'
    BY <2>1, <2>3 DEF Holds, Kept
  <2>5. Quiet => HoldOf(u)'
    <3>1. pc[u] \in TxnLabels => Scope(job[u]) \subseteq Topics
      BY <2>2 DEF Scope, Sweepers
    <3>2. job[u].verb \in Writers => job[u].verb # "autofix"
      BY DEF Writers
    <3>3. job[u].verb \in Archivers => job[u].verb # "autofix"
      BY DEF Archivers
    <3> QED BY <2>1, <2>2, <2>3, <3>1, <3>2, <3>3 DEF Holds, HoldOf, Changing, Archiving, TxnLabels
  <2> QED BY <2>4, <2>5 DEF Holds
<1> QED BY <1>2, <1>3, <1>4 DEF HistInv

-----------------------------------------------------------------------------
(* Each action preserves HistInv *)

LEMMA HistInit == Init => HistInv
BY DEF Init, HistInv, JournalOnDisk, Holds, Kept, HoldOf, Changing, Archiving, NoJob, Composers

\* outside the transaction only INDEX.md can change
LEMMA OutsideFrame ==
  ASSUME IndInv, NEW s \in Sessions,
         \/ Call(s) \/ PreCheckUpdate(s) \/ BeginRewrite(s) \/ WriteReindex(s)
         \/ AcquireLock(s) \/ LockTimeout(s) \/ Enter(s)
  PROVE  /\ \A p \in Topics \cup Snaps : wt'[p] = wt[p]
         /\ UNCHANGED <<tree, tip, absorbed, owed, foreign>>
         /\ pc[s] \in {"idle", "gated", "composing", "reindex", "wait", "enter"}
<1>1. \A p \in Topics \cup Snaps : wt'[p] = wt[p]
  <2>1. CASE WriteReindex(s)
    BY <2>1, PutAt, PathParts, IndSplit DEF WriteReindex, Data
  <2>2. CASE ~WriteReindex(s)
    BY <2>2 DEF Call, BeginUpdate, BeginNew, BeginEssence, ShowForRewrite, BeginArchive,
       BeginCompact, BeginAutofix, BeginReindex, PreCheckUpdate, BeginRewrite,
       AcquireLock, LockTimeout, Enter
  <2> QED BY <2>1, <2>2
<1>2. /\ pc[s] \in {"idle", "gated", "composing", "reindex", "wait", "enter"}
      /\ UNCHANGED <<tree, tip, absorbed, owed, foreign>>
  BY DEF Call, BeginUpdate, BeginNew, BeginEssence, ShowForRewrite, BeginArchive,
         BeginCompact, BeginAutofix, BeginReindex, Begin, PreCheckUpdate, BeginRewrite,
         WriteReindex, AcquireLock, LockTimeout, Enter
<1> QED BY <1>1, <1>2

LEMMA HistBefore ==
  ASSUME IndInv, HistInv, NEW s \in Sessions, Call(s)
  PROVE  HistInv'
<1>0. Control /\ pc = [pc EXCEPT ![s] = pc[s]] /\ job = [job EXCEPT ![s] = job[s]]
      /\ (job[s].verb \in Composers => job[s].text.by = s)
      /\ (\A p \in Topics \cup Snaps : wt'[p] = wt[p]) /\ UNCHANGED tree
  BY IndSplit, OutsideFrame DEF Control, HistInv, Holds, Kept
<1>1. ASSUME NEW l \in {"gated", "composing", "wait", "reindex"}, NEW j, Goto(s, l), SetJob(s, j),
             j.verb \in Composers => j.text.by = s
      PROVE  HistInv'
  BY <1>0, <1>1, HistOutside DEF Goto, SetJob, TxnLabels
<1>2. CASE UNCHANGED <<pc, job>>
  <2>1. pc[s] = "idle"
    BY <1>0 DEF Call, BeginUpdate, BeginNew, BeginEssence, ShowForRewrite, BeginArchive,
         BeginCompact, BeginAutofix, BeginReindex, Begin
  <2> QED BY <1>0, <1>2, <2>1, HistOutside DEF TxnLabels
<1>3. \A v, t : Job(v, t, Mint(s)).text.by = s
  BY DEF Job, NoJob, Mint
<1>4. ASSUME NEW t \in Topics, BeginUpdate(s, t) PROVE HistInv'
  BY <1>1, <1>2, <1>3, <1>4 DEF BeginUpdate
<1>5. ASSUME NEW v, NEW t, NEW l, v \notin Composers \/ l = Mint(s), Wait(s, Job(v, t, l))
      PROVE  HistInv'
  BY <1>1, <1>3, <1>5, JobFields DEF Wait
<1>6. ASSUME NEW t \in Topics, ShowForRewrite(s, t) PROVE HistInv'
  <2> DEFINE b == Job("rewrite", t, Mint(s))
             j == [b EXCEPT !.seen = wt[t]]
  <2>1. j.text = b.text
    BY DEF Job, NoJob
  <2> QED BY <1>1, <1>3, <1>6, <2>1 DEF ShowForRewrite
<1>7. CASE BeginAutofix(s) \/ BeginReindex(s)
  <2> DEFINE j(v) == [Job(v, Nobody, NoLine) EXCEPT !.fresh = MenuOf(wt)]
  <2>1. \A v : j(v).verb = v
    BY DEF Job, NoJob
  <2> QED BY <1>1, <1>7, <2>1 DEF BeginAutofix, BeginReindex, Wait, Composers
<1>8. ASSUME NEW t \in Topics,
             \/ BeginNew(s, t) \/ BeginEssence(s, t) \/ BeginCompact(s, t)
             \/ BeginArchive(s, t, "finalize") \/ BeginArchive(s, t, "delete")
      PROVE  HistInv'
  BY <1>2, <1>5, <1>8 DEF BeginNew, BeginEssence, BeginArchive, BeginCompact, Composers
<1> QED BY <1>4, <1>6, <1>7, <1>8 DEF Call

LEMMA HistAtTheLock ==
  ASSUME IndInv, HistInv, NEW s \in Sessions,
         \/ PreCheckUpdate(s) \/ BeginRewrite(s) \/ WriteReindex(s)
         \/ AcquireLock(s) \/ LockTimeout(s) \/ Enter(s)
  PROVE  HistInv'
<1>0. /\ Control /\ Data /\ pc = [pc EXCEPT ![s] = pc[s]] /\ job = [job EXCEPT ![s] = job[s]]
      /\ (job[s].verb \in Composers => job[s].text.by = s)
      /\ (\A p \in Topics \cup Snaps : wt'[p] = wt[p]) /\ UNCHANGED tree
      /\ job[s] \in JobType /\ LocalInv(pc[s], job[s])
  BY IndSplit, OutsideFrame DEF Control, HistInv, Holds, Kept, JobInv
<1>1. CASE Return(s)
  BY <1>0, <1>1, HistOutside DEF Return, Goto, SetJob, TxnLabels, NoJob, Composers
<1>2. CASE Goto(s, "wait") /\ UNCHANGED job
  BY <1>0, <1>2, HistOutside DEF Goto, TxnLabels
<1>3. CASE AcquireLock(s)
  BY <1>0, <1>3, HistOutside DEF AcquireLock, Goto, TxnLabels
<1>4. CASE BeginRewrite(s) /\ Wait(s, [job[s] EXCEPT !.base = tree[job[s].topic]])
  <2> DEFINE j == [job[s] EXCEPT !.base = tree[job[s].topic]]
  <2>1. j.verb = job[s].verb /\ j.text = job[s].text
    BY <1>0 DEF JobType
  <2> QED BY <1>0, <1>4, <2>1, HistOutside DEF Wait, Goto, SetJob, TxnLabels
<1>5. CASE Enter(s) /\ Goto(s, "sweep") /\ SetJob(s, [job[s] EXCEPT !.todo = SweepList(job[s])])
  <2> DEFINE j == [job[s] EXCEPT !.todo = SweepList(job[s])]
  <2>1. j.verb = job[s].verb /\ j.text = job[s].text /\ j.topic = job[s].topic
        /\ j.todo = SweepList(job[s])
    BY <1>0 DEF JobType
  <2>2. InTxn(s) /\ UNCHANGED wt
    BY <1>5 DEF Enter, InTxn, TxnLabels
  <2>3. pc'[s] = "sweep" /\ job'[s] = j
    BY <1>0, <1>5 DEF Goto, SetJob, Control
  <2>4. \A u \in Scope(j) : u \in j.todo \/ wt[u] = tree[u]
                           \/ (j.verb \notin Sweepers /\ wt[u] = Absent)
    BY <2>1 DEF Scope, SweepList, Dirty, Exists
  <2>5. Kept(s)'
    BY <1>0, <2>1, <2>3 DEF Kept, Changing, Archiving
  <2>6. HoldOf(s)'
    BY <1>0, <2>2, <2>3, <2>4 DEF HoldOf, Changing, Archiving
  <2>7. JournalOnDisk'
    BY <1>0, <2>2 DEF HistInv, JournalOnDisk
  <2> QED BY <1>0, <1>5, <2>2, <2>5, <2>6, <2>7, HistInside DEF Goto, SetJob, Holds
<1> QED BY <1>1, <1>2, <1>3, <1>4, <1>5
      DEF PreCheckUpdate, BeginRewrite, WriteReindex, LockTimeout, Enter

LEMMA HistAbsorb ==
  ASSUME IndInv, HistInv, NEW s \in Sessions,
         \/ (\E t \in Topics : AbsorbAdd(s, t)) \/ AbsorbCommit(s) \/ AbsorbFails(s)
         \/ RefuseMoved(s) \/ HeadGone(s) \/ NoChange(s)
  PROVE  HistInv'
<1>0. /\ Control /\ Data /\ UNCHANGED wt /\ Holds(s) /\ JournalOnDisk /\ LocalInv(pc[s], job[s])
      /\ pc = [pc EXCEPT ![s] = pc[s]] /\ job = [job EXCEPT ![s] = job[s]] /\ job[s] \in JobType
  BY IndSplit DEF Control, HistInv, JobInv, AbsorbAdd, AbsorbCommit, AbsorbFails, RefuseMoved,
     HeadGone, NoChange
<1>1. InTxn(s)
  BY DEF InTxn, TxnLabels, AbsorbAdd, AbsorbCommit, AbsorbFails, RefuseMoved, HeadGone, Swept,
     NoChange
<1>2. CASE Return(s) /\ UNCHANGED tree
  BY <1>0, <1>1, <1>2, HistReturn DEF JournalOnDisk
<1>3. ASSUME NEW l \in {"sweep", "absorb"}, NEW j, pc' = [pc EXCEPT ![s] = l], SetJob(s, j),
             j.verb = job[s].verb, j.text = job[s].text, j.topic = job[s].topic,
             JournalOnDisk',
             Quiet => \A u \in Scope(j) : u \in j.todo \/ wt[u] = tree'[u]
                                          \/ (j.verb \notin Sweepers /\ wt[u] = Absent)
      PROVE  HistInv'
  <2>1. pc'[s] = l /\ job'[s] = j
    BY <1>0, <1>3 DEF SetJob, Control
  <2>2. Kept(s)'
    BY <1>0, <1>3, <2>1 DEF Holds, Kept, Changing, Archiving
  <2>3. Quiet => HoldOf(s)'
    BY <1>0, <1>3, <2>1 DEF HoldOf, Changing, Archiving
  <2> QED BY <1>0, <1>1, <1>3, <2>2, <2>3, HistInside DEF SetJob, Holds
<1>4. ASSUME NEW t \in Topics, AbsorbAdd(s, t) PROVE HistInv'
  <2> DEFINE j1 == [job[s] EXCEPT !.cur = t]
             j2 == [job[s] EXCEPT !.todo = @ \ {t}]
  <2>1. /\ j1.verb = job[s].verb /\ j1.text = job[s].text /\ j1.topic = job[s].topic
        /\ j1.todo = job[s].todo
    BY <1>0 DEF JobType
  <2>2. /\ j2.verb = job[s].verb /\ j2.text = job[s].text /\ j2.topic = job[s].topic
        /\ j2.todo = job[s].todo \ {t}
    BY <1>0 DEF JobType
  <2>3. UNCHANGED tree /\ pc[s] = "sweep" /\ JournalOnDisk'
    BY <1>0, <1>4 DEF AbsorbAdd, JournalOnDisk
  <2>4. Quiet => \A u \in Scope(job[s]) : u \in job[s].todo \/ wt[u] = tree[u]
                                          \/ (job[s].verb \notin Sweepers /\ wt[u] = Absent)
    BY <1>0, <2>3 DEF Holds, HoldOf
  <2>5. CASE Dirty(t)
    <3>1. Scope(j1) = Scope(job[s])
      BY <2>1 DEF Scope
    <3> HIDE DEF j1
    <3>2. pc' = [pc EXCEPT ![s] = "absorb"] /\ SetJob(s, j1)
      BY <1>4, <2>5 DEF AbsorbAdd, Goto, j1
    <3> QED BY <1>3, <2>1, <2>3, <2>4, <3>1, <3>2
  <2>6. CASE ~Dirty(t)
    <3>1. Scope(j2) = Scope(job[s]) /\ wt[t] = tree[t]
      BY <2>2, <2>6 DEF Scope, Dirty
    <3> HIDE DEF j2
    <3>2. pc' = [pc EXCEPT ![s] = "sweep"] /\ SetJob(s, j2)
      BY <1>0, <1>4, <2>3, <2>6 DEF AbsorbAdd, Goto, j2
    <3> QED BY <1>3, <2>2, <2>3, <2>4, <3>1, <3>2
  <2> QED BY <2>5, <2>6
<1>5. CASE AbsorbCommit(s)
  <2> DEFINE t == job[s].cur
             j == [job[s] EXCEPT !.todo = @ \ {job[s].cur}, !.cur = Nobody]
  <2>1. /\ j.verb = job[s].verb /\ j.text = job[s].text /\ j.topic = job[s].topic
        /\ j.todo = job[s].todo \ {t}
    BY <1>0 DEF JobType
  <2>2. t \in Topics /\ pc[s] = "absorb"
    BY <1>0, <1>5 DEF AbsorbCommit, LocalInv
  <2>3. \A q \in Path : tree'[q] = IF q = t THEN wt[q] ELSE tree[q]
    BY <1>5, CommitAt DEF AbsorbCommit
  <2>4. JournalOnDisk'
    BY <1>0, <2>2, <2>3, PathParts DEF JournalOnDisk
  <2>5. Quiet => \A u \in Scope(job[s]) : u \in job[s].todo \/ wt[u] = tree[u]
                                          \/ (job[s].verb \notin Sweepers /\ wt[u] = Absent)
    BY <1>0, <2>2 DEF Holds, HoldOf
  <2>6. Scope(job[s]) \subseteq Path /\ Scope(j) = Scope(job[s])
    BY <1>0, <2>1, <2>2, PathParts DEF Scope, LocalInv, Prepared, TxnLabels, Sweepers
  <2>7. Quiet => \A u \in Scope(j) : u \in j.todo \/ wt[u] = tree'[u]
                                     \/ (j.verb \notin Sweepers /\ wt[u] = Absent)
    BY <2>1, <2>3, <2>5, <2>6
  <2>8. pc' = [pc EXCEPT ![s] = "sweep"] /\ SetJob(s, j)
    BY <1>5 DEF AbsorbCommit, Goto
  <2> QED
    <3> HIDE DEF j
    <3> QED BY <1>3, <2>1, <2>4, <2>7, <2>8
<1> QED BY <1>2, <1>4, <1>5 DEF AbsorbFails, RefuseMoved, HeadGone, NoChange

LEMMA HistChange ==
  ASSUME IndInv, HistInv, NEW s \in Sessions,
         OpenHead(s) \/ WriteHead(s) \/ UnlinkHead(s) \/ WriteMenu(s)
  PROVE  HistInv'
<1>0. /\ Control /\ Data /\ Holds(s) /\ JournalOnDisk /\ LocalInv(pc[s], job[s])
      /\ job = [job EXCEPT ![s] = job[s]] /\ job[s] \in JobType /\ UNCHANGED tree
  BY IndSplit DEF Control, HistInv, JobInv, OpenHead, WriteHead, UnlinkHead, WriteMenu
<1>1. /\ pc[s] \in {"sweep", "write", "unlink", "menu"} /\ InTxn(s)
      /\ job[s].verb \in Lockers /\ Prepared(job[s])
  BY <1>0 DEF OpenHead, WriteHead, UnlinkHead, WriteMenu, AtMenu, Swept, InTxn, TxnLabels, LocalInv
<1>2. ASSUME NEW t \in Topics \cup {IndexMd}, NEW c, wt' = Put(wt, t, c)
      PROVE  /\ \A q \in Path : wt'[q] = IF q = t THEN c ELSE wt[q]
             /\ JournalOnDisk'
  <2>1. \A q \in Path : wt'[q] = IF q = t THEN c ELSE wt[q]
    BY <1>0, <1>2, PutAt, PathParts DEF Data
  <2> QED BY <1>0, <1>2, <2>1, PathParts DEF JournalOnDisk
<1>3. CASE OpenHead(s)
  <2> DEFINE t == job[s].topic
             j == [job[s] EXCEPT !.orig = wt[job[s].topic]]
  <2>1. /\ j.topic = t /\ j.verb = job[s].verb /\ j.orig = wt[t] /\ j.text = job[s].text
        /\ j.base = job[s].base /\ job[s].verb \in Writers
        /\ pc[s] = "sweep" /\ job[s].todo = {}
    BY <1>0, <1>3 DEF JobType, OpenHead, Swept
  <2>2. t \in Topics /\ wt[t] \in HeadFile \cup {Absent} /\ Absent \notin HeadFile
    BY <1>0, <1>1, <2>1, AreaAt, ConstantsAssumption DEF Prepared, Writers, Data
  <2>3. wt' = Put(wt, t, Torn)
    BY <1>3 DEF OpenHead
  <2>4. JournalOnDisk'
    BY <1>2, <2>2, <2>3
  <2>5. pc' = [pc EXCEPT ![s] = "write"] /\ job' = [job EXCEPT ![s] = j]
    BY <1>3 DEF OpenHead, Goto, SetJob
  <2>6. pc'[s] = "write" /\ job'[s] = j
    BY <1>0, <2>5 DEF Control
  <2>7. Kept(s)'
    BY <1>0, <1>3, <2>1, <2>6 DEF Holds, Kept, OpenHead, BaseHolds, Archivers, Writers
  <2>8. Quiet => HoldOf(s)'
    <3>1. Quiet => wt[t] = tree[t] \/ wt[t] = Absent
      BY <1>0, <2>1 DEF Holds, HoldOf, Scope, Sweepers, Writers, Archivers
    <3>2. NeedsHead(job[s].verb) => wt[t] # Absent
      BY <1>3 DEF OpenHead, Exists
    <3> QED
      <4> HIDE DEF j, t
      <4> QED BY <1>0, <2>1, <2>2, <2>6, <3>1, <3>2
              DEF HoldOf, Changing, Archiving, Archivers, Writers, Sweepers, j, t
  <2> QED BY <1>0, <1>1, <2>4, <2>5, <2>7, <2>8, HistInside DEF Holds
<1>4. CASE WriteHead(s)
  <2> DEFINE t == job[s].topic
  <2>1. job[s].verb \in Writers /\ pc[s] = "write"
    BY <1>0, <1>4 DEF WriteHead, LocalInv
  <2>2. t \in Topics /\ wt' = Put(wt, t, NewText(job[s]))
    BY <1>1, <1>4, <2>1 DEF Prepared, Writers, WriteHead
  <2>3. wt'[t] = NewText(job[s]) /\ JournalOnDisk'
    BY <1>2, <2>2, PathParts
  <2>4. pc' = [pc EXCEPT ![s] = "add"] /\ job' = job
    BY <1>4 DEF WriteHead, Goto
  <2>5. pc'[s] = "add"
    BY <1>0, <2>4 DEF Control
  <2>6. Kept(s)'
    BY <1>0, <2>1, <2>4, <2>5 DEF Holds, Kept, Changing, Archivers, Writers
  <2>7. Quiet => HoldOf(s)'
    BY <1>0, <2>1, <2>3, <2>4, <2>5 DEF Holds, HoldOf, Changing, Archivers, Writers, Sweepers
  <2> QED BY <1>0, <1>1, <2>3, <2>4, <2>6, <2>7, HistInside DEF Holds
<1>5. CASE UnlinkHead(s)
  <2> DEFINE t == job[s].topic
  <2>1. job[s].verb = "delete" /\ pc[s] = "unlink" /\ job[s].snap \in Snaps
    BY <1>0, <1>5 DEF UnlinkHead, LocalInv, Archivers
  <2>2. t \in Topics /\ wt' = Put(wt, t, Absent)
    BY <1>1, <1>5, <2>1 DEF Prepared, UnlinkHead
  <2>3. (\A q \in Path : wt'[q] = IF q = t THEN Absent ELSE wt[q]) /\ JournalOnDisk'
    BY <1>2, <2>2
  <2>4. pc' = [pc EXCEPT ![s] = "menu"] /\ job' = job
    BY <1>5 DEF UnlinkHead, Goto
  <2>5. pc'[s] = "menu"
    BY <1>0, <2>4 DEF Control
  <2>6. Kept(s)'
    BY <1>0, <2>1, <2>2, <2>3, <2>4, <2>5, PathParts DEF Holds, Kept, Archiving, Composers
  <2>7. Quiet => HoldOf(s)'
    BY <1>0, <2>1, <2>2, <2>3, <2>4, <2>5, PathParts
       DEF Holds, HoldOf, Archiving, Archivers, Writers, Sweepers
  <2> QED BY <1>0, <1>1, <2>3, <2>4, <2>6, <2>7, HistInside DEF Holds
<1>6. CASE WriteMenu(s)
  <2>1. \/ job[s].verb = "autofix" /\ pc[s] = "sweep" /\ job[s].todo = {}
        \/ job[s].verb \in Archivers /\ pc[s] = "menu" /\ job[s].snap \in Snaps
    BY <1>0, <1>6 DEF WriteMenu, AtMenu, Swept, LocalInv, Archivers
  <2>2. PICK m : wt' = Put(wt, IndexMd, m)
    BY <1>6 DEF WriteMenu
  <2>3. (\A q \in Path : wt'[q] = IF q = IndexMd THEN m ELSE wt[q]) /\ JournalOnDisk'
    BY <1>2, <2>2
  <2>4. pc' = [pc EXCEPT ![s] = "add"] /\ job' = job
    BY <1>6 DEF WriteMenu, Goto
  <2>5. pc'[s] = "add"
    BY <1>0, <2>4 DEF Control
  <2>6. Kept(s)'
    BY <1>0, <2>1, <2>3, <2>4, <2>5, PathParts DEF Holds, Kept, Archiving, Archivers, Composers
  <2>7. job[s].verb \in Sweepers /\ job[s].verb \notin Writers
    BY <2>1 DEF Sweepers, Archivers, Writers
  <2>8. \A p \in Topics \cup Snaps : wt'[p] = wt[p]
    BY <2>3, PathParts
  <2>9. CASE job[s].verb = "autofix" /\ pc[s] = "sweep" /\ job[s].todo = {}
    <3>1. Quiet => \A u \in Topics : wt[u] = tree[u]
      BY <1>0, <2>7, <2>9 DEF Holds, HoldOf, Scope
    <3>2. Quiet => HoldOf(s)'
      BY <1>0, <2>4, <2>5, <2>7, <2>8, <2>9, <3>1 DEF HoldOf, Archivers
    <3> QED BY <1>0, <1>1, <2>3, <2>4, <2>6, <3>2, HistInside DEF Holds
  <2>10. CASE job[s].verb \in Archivers /\ pc[s] = "menu" /\ job[s].snap \in Snaps
    <3>1. Quiet => HoldOf(s)'
      BY <1>0, <2>4, <2>5, <2>7, <2>8, <2>10 DEF Holds, HoldOf, Archiving
    <3> QED BY <1>0, <1>1, <2>3, <2>4, <2>6, <3>1, HistInside DEF Holds
  <2> QED BY <2>1, <2>9, <2>10
<1> QED BY <1>3, <1>4, <1>5, <1>6

LEMMA HistSnapshot ==
  ASSUME IndInv, HistInv, NEW s \in Sessions, NEW k \in Snaps, Snapshot(s, k)
  PROVE  HistInv'
<1> DEFINE t == job[s].topic
           j == [job[s] EXCEPT !.snap = k]
           l == IF job[s].verb = "delete" THEN "unlink" ELSE "menu"
<1>0. /\ Control /\ Data /\ Holds(s) /\ JournalOnDisk /\ LocalInv(pc[s], job[s])
      /\ job[s] \in JobType /\ UNCHANGED tree
  BY IndSplit DEF Control, HistInv, JobInv, Snapshot
<1>1. /\ pc[s] = "sweep" /\ job[s].todo = {} /\ job[s].verb \in Archivers /\ InTxn(s)
      /\ wt[t] # Absent /\ wt[k] = Absent /\ wt' = Put(wt, k, wt[t])
  BY DEF Snapshot, Swept, InTxn, TxnLabels, Exists
<1>2. t \in Topics
  BY <1>0, <1>1 DEF LocalInv, TxnLabels, Prepared, Archivers
<1>3. \A q \in Path : wt'[q] = IF q = k THEN wt[t] ELSE wt[q]
  BY <1>0, <1>1, PutAt, PathParts DEF Data
<1>4. tree[k] = Absent /\ JournalOnDisk'
  BY <1>0, <1>1, <1>3, PathParts DEF JournalOnDisk
<1>5. /\ j.verb = job[s].verb /\ j.topic = t /\ j.snap = k /\ j.text = job[s].text
      /\ j.verb \notin Composers /\ j.verb \notin Writers /\ j.verb \in Sweepers
  BY <1>0, <1>1 DEF JobType, Archivers, Composers, Writers, Sweepers
<1>6. pc' = [pc EXCEPT ![s] = l] /\ job' = [job EXCEPT ![s] = j]
  BY DEF Snapshot, Goto, SetJob
<1>7. pc'[s] = l /\ job'[s] = j /\ l \in {"unlink", "menu"} /\ (l = "unlink" <=> j.verb = "delete")
  BY <1>0, <1>5, <1>6 DEF Control
<1>8. Kept(s)'
  BY <1>0, <1>1, <1>2, <1>3, <1>4, <1>5, <1>7, PathParts DEF Kept, Composers
<1>9. Quiet => \A u \in Topics : wt[u] = tree[u] /\ wt'[u] = wt[u]
  BY <1>0, <1>1, <1>3, <1>5, PathParts DEF Holds, HoldOf, Scope
<1>10. Quiet => HoldOf(s)'
  BY <1>0, <1>2, <1>3, <1>5, <1>7, <1>9, PathParts DEF HoldOf
<1> QED BY <1>0, <1>1, <1>4, <1>6, <1>8, <1>10, HistInside DEF Holds

LEMMA HistCommit ==
  ASSUME IndInv, HistInv, NEW s \in Sessions, GitAdd(s) \/ GitCommit(s) \/ GitFails(s)
  PROVE  HistInv'
<1>0. /\ Control /\ Data /\ Holds(s) /\ JournalOnDisk /\ LocalInv(pc[s], job[s])
      /\ job = [job EXCEPT ![s] = job[s]] /\ UNCHANGED wt
  BY IndSplit DEF Control, HistInv, JobInv, GitAdd, GitCommit, GitFails
<1>1. pc[s] \in {"add", "commit"} /\ InTxn(s)
  BY DEF GitAdd, GitCommit, GitFails, InTxn, TxnLabels
<1>2. CASE GitAdd(s) \/ GitFails(s)
  <2>2. PICK m \in {"commit", "rollback"} : Goto(s, m) /\ UNCHANGED <<job, tree>>
                                            /\ (m = "commit" => pc[s] = "add")
    BY <1>2 DEF GitAdd, GitFails
  <2>3. pc' = [pc EXCEPT ![s] = m] /\ pc'[s] = m /\ JournalOnDisk'
    BY <1>0, <2>2 DEF Goto, Control, JournalOnDisk
  <2>4. Kept(s)'
    BY <1>0, <1>1, <2>2, <2>3 DEF Holds, Kept, Changing, Archiving
  <2>5. Quiet => HoldOf(s)'
    BY <1>0, <1>1, <2>2, <2>3 DEF Holds, HoldOf, Changing, Archiving
  <2> QED BY <1>0, <1>1, <2>2, <2>3, <2>4, <2>5, HistInside DEF Holds
<1>3. CASE GitCommit(s)
  <2>1. \A q \in Path : tree'[q] = wt[q] \/ tree'[q] = tree[q]
    BY <1>3, CommitAt DEF GitCommit
  <2>2. JournalOnDisk'
    BY <1>0, <2>1, PathParts DEF JournalOnDisk
  <2>3. CASE Return(s)
    BY <1>0, <1>1, <2>2, <2>3, HistReturn
  <2>4. CASE Wait(s, Job("trim", job[s].topic, NoLine))
    <3> DEFINE j == Job("trim", job[s].topic, NoLine)
    <3>1. pc' = [pc EXCEPT ![s] = "wait"] /\ job' = [job EXCEPT ![s] = j]
      BY <2>4 DEF Wait, Goto, SetJob
    <3>2. pc'[s] = "wait" /\ job'[s].verb = "trim"
      BY <1>0, <3>1, JobFields DEF Control
    <3>3. Holds(s)'
      BY <3>2 DEF Holds, Kept, HoldOf, Changing, Archiving, Composers
    <3> QED BY <1>0, <1>1, <2>2, <3>1, <3>3, HistInside
  <2> QED BY <1>3, <2>3, <2>4 DEF GitCommit
<1> QED BY <1>2, <1>3

\* what a rollback leaves on disk: the HEAD in hand as it was, the new snapshot gone
LEMMA RestoredAt ==
  ASSUME IndInv, NEW s \in Sessions, Rollback(s)
  PROVE  LET j == job[s]  t == j.topic IN
         /\ j.verb \in Writers => /\ t \in Topics
                                  /\ \A q \in Path : wt'[q] = IF q = t THEN j.orig ELSE wt[q]
         /\ j.verb \in {"finalize", "compact"} =>
              /\ j.snap \in Snaps
              /\ \A q \in Path : wt'[q] = IF q = j.snap THEN Absent ELSE wt[q]
         /\ j.verb = "delete" =>
              /\ t \in Topics /\ j.snap \in Snaps
              /\ \A q \in Path \ {IndexMd} :
                   wt'[q] = IF q = j.snap THEN Absent
                            ELSE IF q = t THEN wt[j.snap] ELSE wt[q]
         /\ j.verb = "autofix" => wt' = wt
         /\ j.verb \in Writers \cup {"finalize", "compact", "delete", "autofix"}
<1> DEFINE j == job[s]
           t == j.topic
<1>0. /\ Data /\ AreaOK(wt) /\ LocalInv("rollback", job[s]) /\ wt' = Restored(j)
      /\ j.verb \in Lockers /\ Prepared(j)
  BY IndSplit DEF Control, JobInv, Data, Rollback, LocalInv, TxnLabels
<1>1. CASE j.verb \in Writers
  <2>1. wt' = Put(wt, t, j.orig) /\ t \in Topics
    BY <1>0, <1>1 DEF Restored, Prepared, Writers
  <2> QED BY <1>0, <1>1, <2>1, PutAt, PathParts DEF Writers
<1>2. CASE j.verb \in {"finalize", "compact"}
  <2>1. wt' = Put(wt, j.snap, Absent) /\ j.snap \in Snaps
    BY <1>0, <1>2 DEF Restored, LocalInv, Archivers, Writers
  <2> QED BY <1>0, <1>2, <2>1, PutAt, PathParts DEF Writers
<1>3. CASE j.verb = "delete"
  <2> DEFINE one == Put(wt, t, wt[j.snap])
             two == Put(one, j.snap, Absent)
  <2>1. wt' = Put(two, IndexMd, MenuOf(two)) /\ t \in Topics /\ j.snap \in Snaps
    BY <1>0, <1>3 DEF Restored, LocalInv, Archivers, Writers, Prepared
  <2>2. wt[j.snap] \in HeadFile \cup {Absent}
    BY <1>0, <2>1, AreaAt
  <2>3. AreaOK(one) /\ AreaOK(two)
    BY <1>0, <2>1, <2>2, PutHead
  <2>4. \A q \in Path : one[q] = IF q = t THEN wt[j.snap] ELSE wt[q]
    BY <1>0, <2>1, PutAt, PathParts
  <2>5. \A q \in Path : two[q] = IF q = j.snap THEN Absent ELSE one[q]
    BY <2>1, <2>3, PutAt, PathParts
  <2>6. \A q \in Path \ {IndexMd} : wt'[q] = two[q]
    BY <2>1, <2>3, PutAt, PathParts
  <2> QED BY <1>3, <2>1, <2>4, <2>5, <2>6, PathParts DEF Writers
<1>4. CASE j.verb = "autofix"
  BY <1>0, <1>4 DEF Restored, Writers
<1> QED BY <1>0, <1>1, <1>2, <1>3, <1>4 DEF Lockers, Sweepers, Archivers

LEMMA HistRollback ==
  ASSUME IndInv, HistInv, NEW s \in Sessions, Rollback(s)
  PROVE  HistInv'
<1>0. /\ Control /\ Holds(s) /\ JournalOnDisk /\ pc[s] = "rollback" /\ Return(s)
      /\ UNCHANGED tree
  BY IndSplit DEF HistInv, Rollback
<1>1. \A k \in Snaps : wt'[k] = wt[k] \/ (job[s].verb \in Archivers /\ k = job[s].snap)
  BY RestoredAt, PathParts DEF Archivers
<1>2. job[s].verb \in Archivers => tree[job[s].snap] = Absent
  BY <1>0 DEF Holds, Kept, Archiving
<1>3. JournalOnDisk'
  BY <1>0, <1>1, <1>2 DEF JournalOnDisk
<1> QED BY <1>0, <1>3, HistReturn DEF InTxn, TxnLabels

\* a verb that is killed or meets a full disk stops between two writes
LEMMA BrokenAt ==
  ASSUME IndInv, NEW s \in Sessions, Kill(s) \/ DiskFails(s)
  PROVE  /\ Return(s) /\ UNCHANGED <<tree, tip, absorbed, owed>>
         /\ \A k \in Snaps : wt'[k] = wt[k]
         /\ \A t \in Topics : \/ wt'[t] = wt[t]
                              \/ pc[s] = "rollback" /\ job[s].verb \in Writers
                                 /\ t = job[s].topic /\ wt'[t] = Torn
<1>0. Data /\ LocalInv(pc[s], job[s]) /\ Return(s) /\ wt' \in {wt, HalfWritten(s)}
      /\ UNCHANGED <<tree, tip, absorbed, owed>>
  BY IndSplit DEF Control, JobInv, Kill, DiskFails
<1>1. CASE wt' = wt
  BY <1>0, <1>1
<1>2. CASE wt' = Put(wt, IndexMd, NoMenu)
  BY <1>0, <1>2, PutAt, PathParts DEF Data
<1>3. CASE /\ pc[s] = "rollback" /\ job[s].verb \in Writers
           /\ wt' = Put(wt, job[s].topic, Torn)
  <2>1. job[s].topic \in Topics
    BY <1>0, <1>3 DEF LocalInv, TxnLabels, Prepared, Writers
  <2> QED BY <1>0, <1>3, <2>1, PutAt, PathParts DEF Data
<1> QED BY <1>0, <1>1, <1>2, <1>3 DEF HalfWritten

LEMMA HistBroken ==
  ASSUME IndInv, HistInv, NEW s \in Sessions, Kill(s) \/ DiskFails(s)
  PROVE  HistInv'
<1>0. Control /\ Return(s) /\ UNCHANGED tree /\ (\A k \in Snaps : wt'[k] = wt[k])
  BY IndSplit, BrokenAt
<1>1. JournalOnDisk'
  BY <1>0 DEF HistInv, JournalOnDisk
<1>2. CASE InTxn(s)
  BY <1>0, <1>1, <1>2, HistReturn
<1>3. CASE ~InTxn(s)
  <2>1. \A t \in Topics : wt'[t] = wt[t]
    BY <1>3, BrokenAt DEF InTxn, TxnLabels
  <2> QED BY <1>0, <2>1, HistOutside DEF Return, Goto, SetJob, NoJob, Composers, TxnLabels
<1> QED BY <1>2, <1>3

LEMMA HistEdits ==
  ASSUME IndInv, HistInv, NEW t \in Topics, EditHead(t) \/ StageByHand(t)
  PROVE  HistInv'
<1>0. Control /\ Data /\ UNCHANGED <<pc, job, tree>> /\ (Quiet => lock = Nobody)
  BY IndSplit DEF EditHead, StageByHand, MayEdit, Quiet
<1>1. \A k \in Snaps : wt'[k] = wt[k]
  <2>1. CASE StageByHand(t)
    BY <2>1 DEF StageByHand
  <2>2. CASE EditHead(t)
    <3>1. PICK c : wt' = Put(wt, t, c)
      BY <2>2 DEF EditHead
    <3> QED BY <1>0, <3>1, PutAt, PathParts DEF Data
  <2> QED BY <2>1, <2>2
<1>2. JournalOnDisk'
  BY <1>0, <1>1 DEF HistInv, JournalOnDisk
<1>3. ASSUME NEW s \in Sessions PROVE Holds(s)'
  <2>1. Holds(s) /\ (pc[s] \in Archiving /\ job[s].verb \in Archivers => job[s].snap \in Snaps)
    BY <1>0 DEF HistInv, Control, JobInv, LocalInv, Archiving
  <2>2. Kept(s)'
    BY <1>0, <1>1, <2>1 DEF Holds, Kept
  <2>3. Quiet => pc[s] \notin TxnLabels
    BY <1>0, ConstantsAssumption DEF Control, LockInv, InTxn
  <2>4. Quiet => HoldOf(s)'
    BY <1>0, <2>3 DEF HoldOf, Changing, Archiving, TxnLabels
  <2> QED BY <2>2, <2>4 DEF Holds
<1> QED BY <1>2, <1>3 DEF HistInv

LEMMA HistStep == IndInv /\ HistInv /\ [Next]_vars => HistInv'
<1> SUFFICES ASSUME IndInv, HistInv, [Next]_vars PROVE HistInv'
  OBVIOUS
<1>1. ASSUME NEW s \in Sessions, Call(s) PROVE HistInv'
  BY <1>1, HistBefore
<1>2. ASSUME NEW s \in Sessions, BeginRewrite(s) PROVE HistInv'
  BY <1>2, HistAtTheLock
<1>3. ASSUME NEW s \in Sessions, Step(s) PROVE HistInv'
  <2>1. CASE \/ PreCheckUpdate(s) \/ WriteReindex(s)
             \/ AcquireLock(s) \/ LockTimeout(s) \/ Enter(s)
    BY <2>1, HistAtTheLock
  <2>2. CASE \/ (\E t \in Topics : AbsorbAdd(s, t)) \/ AbsorbCommit(s) \/ AbsorbFails(s)
             \/ RefuseMoved(s) \/ HeadGone(s) \/ NoChange(s)
    BY <2>2, HistAbsorb
  <2>3. CASE OpenHead(s) \/ WriteHead(s) \/ UnlinkHead(s) \/ WriteMenu(s)
    BY <2>3, HistChange
  <2>4. CASE \E k \in Snaps : Snapshot(s, k)
    BY <2>4, HistSnapshot
  <2>5. CASE GitAdd(s) \/ GitCommit(s) \/ GitFails(s)
    BY <2>5, HistCommit
  <2>6. CASE Rollback(s)
    BY <2>6, HistRollback
  <2>7. CASE DiskFails(s)
    BY <2>7, HistBroken
  <2> QED BY <1>3, <2>1, <2>2, <2>3, <2>4, <2>5, <2>6, <2>7 DEF Step
<1>4. ASSUME NEW s \in Sessions, Kill(s) PROVE HistInv'
  BY <1>4, HistBroken
<1>5. ASSUME NEW t \in Topics, EditHead(t) \/ StageByHand(t) PROVE HistInv'
  BY <1>5, HistEdits
<1>6. CASE UNCHANGED vars
  BY <1>6 DEF vars, HistInv, JournalOnDisk, Holds, Kept, HoldOf
<1> QED BY <1>1, <1>2, <1>3, <1>4, <1>5, <1>6 DEF Next

LEMMA HistAlways == Spec => [](IndInv /\ HistInv)
BY HistInit, HistStep, IndAlways, PTL DEF Spec

-----------------------------------------------------------------------------
(* What a step can do to the committed files *)

LEMMA OnlyCommits ==
  ASSUME [Next]_vars
  PROVE  UNCHANGED <<tree, tip, absorbed>> \/ \E s \in Sessions : AbsorbCommit(s) \/ GitCommit(s)
<1>1. ASSUME NEW s \in Sessions, Call(s) PROVE UNCHANGED <<tree, tip, absorbed>>
  BY <1>1 DEF Call, BeginUpdate, BeginNew, BeginEssence, ShowForRewrite, BeginArchive,
       BeginCompact, BeginAutofix, BeginReindex
<1>2. ASSUME NEW s \in Sessions, Step(s), ~AbsorbCommit(s), ~GitCommit(s)
      PROVE  UNCHANGED <<tree, tip, absorbed>>
  BY <1>2 DEF Step, PreCheckUpdate, WriteReindex, AcquireLock, LockTimeout, Enter, AbsorbAdd,
       AbsorbFails, RefuseMoved, HeadGone, DiskFails, OpenHead, WriteHead, Snapshot, UnlinkHead,
       WriteMenu, GitAdd, NoChange, GitFails, Rollback
<1>3. ASSUME NEW s \in Sessions, BeginRewrite(s) \/ Kill(s) PROVE UNCHANGED <<tree, tip, absorbed>>
  BY <1>3 DEF BeginRewrite, Kill
<1>4. ASSUME NEW t \in Topics, EditHead(t) \/ StageByHand(t) PROVE UNCHANGED <<tree, tip, absorbed>>
  BY <1>4 DEF EditHead, StageByHand
<1> QED BY <1>1, <1>2, <1>3, <1>4 DEF Next, vars

LEMMA AbsorbedAt ==
  ASSUME IndInv, NEW s \in Sessions, AbsorbCommit(s)
  PROVE  LET t == job[s].cur IN
         /\ t \in Topics /\ tip' = [op |-> "absorb", topic |-> t]
         /\ \A q \in Path : tree'[q] = IF q = t THEN wt[t] ELSE tree[q]
         /\ wt[t] # tree[t]
<1>1. job[s].cur \in Topics
  BY IndSplit DEF Control, JobInv, LocalInv, AbsorbCommit
<1>2. \A q \in Path : tree'[q] = IF q \in {job[s].cur} THEN wt[q] ELSE tree[q]
  BY CommitAt DEF AbsorbCommit
<1>3. wt[job[s].cur] # tree[job[s].cur]
  BY DEF AbsorbCommit, Commit
<1> QED BY <1>1, <1>2, <1>3 DEF AbsorbCommit

LEMMA CommittedAt ==
  ASSUME IndInv, NEW s \in Sessions, GitCommit(s)
  PROVE  LET j == job[s]  t == j.topic IN
         /\ tip' = [op |-> j.verb, topic |-> t] /\ pc[s] = "commit" /\ lock = s
         /\ \/ /\ j.verb \in Writers /\ t \in Topics
               /\ \A q \in Path : tree'[q] = IF q = t THEN wt[t] ELSE tree[q]
            \/ /\ j.verb \in {"finalize", "compact"} /\ t \in Topics /\ j.snap \in Snaps
               /\ \A q \in Path : tree'[q] = IF q = j.snap \/ q = IndexMd THEN wt[q] ELSE tree[q]
            \/ /\ j.verb = "delete" /\ t \in Topics /\ j.snap \in Snaps
               /\ \A q \in Path :
                    tree'[q] = IF q \in {j.snap, t, IndexMd} THEN wt[q] ELSE tree[q]
            \/ /\ j.verb = "autofix"
               /\ \A q \in Path : tree'[q] = IF q = IndexMd THEN wt[q] ELSE tree[q]
<1> DEFINE j == job[s]
           t == j.topic
<1>0. /\ pc[s] = "commit" /\ lock = s /\ LocalInv(pc[s], j) /\ Prepared(j) /\ j.verb \in Lockers
      /\ tip' = [op |-> j.verb, topic |-> t]
  BY IndSplit DEF Control, JobInv, LocalInv, GitCommit, LockInv, InTxn, TxnLabels
<1>1. \A q \in Path : tree'[q] = IF q \in OwnPaths(j) THEN wt[q] ELSE tree[q]
  BY CommitAt DEF GitCommit
<1>2. CASE j.verb \in Writers
  <2>1. OwnPaths(j) = {t} /\ t \in Topics
    BY <1>0, <1>2 DEF OwnPaths, Prepared, Writers
  <2> QED BY <1>0, <1>1, <1>2, <2>1
<1>3. CASE j.verb \in {"finalize", "compact"}
  <2>1. OwnPaths(j) = {j.snap, IndexMd} /\ j.snap \in Snaps /\ t \in Topics
    BY <1>0, <1>3 DEF OwnPaths, Prepared, Writers, LocalInv, Archivers
  <2> QED BY <1>0, <1>1, <1>3, <2>1
<1>4. CASE j.verb = "delete"
  <2>1. OwnPaths(j) = {j.snap, t, IndexMd} /\ j.snap \in Snaps /\ t \in Topics
    BY <1>0, <1>4 DEF OwnPaths, Prepared, Writers, LocalInv, Archivers
  <2> QED BY <1>0, <1>1, <1>4, <2>1
<1>5. CASE j.verb = "autofix"
  <2>1. OwnPaths(j) = {IndexMd}
    BY <1>5 DEF OwnPaths, Writers
  <2> QED BY <1>0, <1>1, <1>5, <2>1
<1> QED BY <1>0, <1>2, <1>3, <1>4, <1>5 DEF Lockers, Sweepers, Archivers

\* A rewrite lands only on the HEAD the verb started from, whatever other sessions, hand
\* edits and crashes do between its start and its commit (_check_base).
THEOREM RewriteOnBase == Spec => RewriteLandsOnBase
<1> DEFINE OnBase == \A s \in Sessions :
             pc[s] = "commit" /\ job[s].verb = "rewrite" => tree[job[s].topic] = job[s].base
<1>1. HistInv => OnBase
  BY DEF HistInv, Holds, Kept, Changing
<1>2. OnBase /\ [Next]_vars =>
        [\A s \in Sessions :
           pc[s] = "commit" /\ job[s].verb = "rewrite" /\ tree' # tree /\ lock' # lock
             => tree[job[s].topic] = job[s].base]_vars
  OBVIOUS
<1> QED BY <1>1, <1>2, HistAlways, PTL DEF Spec, RewriteLandsOnBase

\* A snapshot in the journal is never committed a second time with another content, even
\* when people edit HEADs while a verb holds the lock (_fresh_snapshot_path).
THEOREM JournalKept ==
  Spec => [][\A k \in Snaps : tree[k] # Absent => tree'[k] = tree[k]]_vars
<1>1. IndInv /\ HistInv /\ [Next]_vars => \A k \in Snaps : tree[k] # Absent => tree'[k] = tree[k]
  <2> SUFFICES ASSUME IndInv, HistInv, [Next]_vars, NEW k \in Snaps, tree[k] # Absent
               PROVE  tree'[k] = tree[k]
    OBVIOUS
  <2>1. wt[k] = tree[k]
    BY DEF HistInv, JournalOnDisk
  <2>2. ASSUME NEW s \in Sessions, AbsorbCommit(s) PROVE tree'[k] = tree[k]
    BY <2>2, AbsorbedAt, PathParts
  <2>3. ASSUME NEW s \in Sessions, GitCommit(s) PROVE tree'[k] = tree[k]
    BY <2>1, <2>3, CommittedAt, PathParts
  <2> QED BY <2>2, <2>3, OnlyCommits
<1> QED BY <1>1, HistAlways, PTL DEF Spec

LEMMA QuietAlways == Quiet /\ Spec => [](Quiet /\ IndInv /\ HistInv)
<1>1. Quiet /\ [Next]_vars => Quiet'
  BY DEF Quiet
<1> QED BY <1>1, HistAlways, PTL DEF Spec

\* When nobody edits a HEAD inside a lock hold, a snapshot that lands is new and is the
\* HEAD of its topic exactly as it was committed (finalize, compact, delete).
THEOREM JournalSafety == Quiet /\ Spec => JournalGrowsByCommittedHeads
<1>1. ASSUME Quiet, IndInv, HistInv, [Next]_vars, NEW k \in Snaps, tree'[k] # tree[k]
      PROVE  tree[k] = Absent /\ tree'[k] = tree[tip'.topic]
  <2>1. ASSUME NEW s \in Sessions, AbsorbCommit(s) PROVE FALSE
    BY <1>1, <2>1, AbsorbedAt, PathParts
  <2>2. PICK s \in Sessions : GitCommit(s)
    BY <1>1, <2>1, OnlyCommits
  <2>3. /\ job[s].verb \in Archivers /\ job[s].snap = k /\ tree'[k] = wt[k]
        /\ tip'.topic = job[s].topic /\ pc[s] = "commit"
    BY <1>1, <2>2, CommittedAt, PathParts DEF Archivers
  <2> QED BY <1>1, <2>3 DEF HistInv, Holds, Kept, HoldOf, Archiving
<1>2. Quiet /\ IndInv /\ HistInv /\ [Next]_vars =>
        [\A j \in Snaps : tree'[j] # tree[j] =>
           tree[j] = Absent /\ tree'[j] = tree[tip'.topic]]_vars
  BY <1>1
<1>3. Quiet /\ Spec => [][\A j \in Snaps : tree'[j] # tree[j] =>
           tree[j] = Absent /\ tree'[j] = tree[tip'.topic]]_vars
  BY <1>2, QuietAlways, PTL DEF Spec
<1> QED BY <1>3 DEF JournalGrowsByCommittedHeads

-----------------------------------------------------------------------------
(* The history implements AbstractStore: absorb commits are Absorb, a verb's own *)
(* commit is that verb, every other step stutters.                               *)

heads == [t \in Topics |-> tree[t]]
journal == [j \in Snaps |-> tree[j]]

LEMMA SerialInit == Init => History!AbsInit
BY PathParts DEF Init, History!AbsInit

\* one HEAD of the history changes
LEMMA OneHead ==
  ASSUME NEW t \in Topics, \A q \in Path \ {t} : q \notin {IndexMd} => tree'[q] = tree[q]
  PROVE  /\ History!Others(t) /\ journal' = journal
         /\ heads[t] = tree[t] /\ heads'[t] = tree'[t]
<1>1. \A u \in Topics : heads[u] = tree[u] /\ heads'[u] = tree'[u]
  BY DEF heads
<1>2. \A k \in Snaps : tree'[k] = tree[k]
  BY PathParts
<1>3. \A u \in Topics \ {t} : tree'[u] = tree[u]
  BY PathParts
<1>4. journal' = journal
  BY <1>2 DEF journal
<1> QED BY <1>1, <1>3, <1>4 DEF History!Others, heads

LEMMA SerialAbsorb ==
  ASSUME IndInv, NEW s \in Sessions, AbsorbCommit(s)
  PROVE  History!AbsNext
<1>1. PICK t \in Topics :
        /\ tip' = [op |-> "absorb", topic |-> t] /\ wt[t] # tree[t]
        /\ \A q \in Path : tree'[q] = IF q = t THEN wt[t] ELSE tree[q]
  BY AbsorbedAt
<1>2. t \in Path /\ tree'[t] = wt[t] /\ \A q \in Path \ {t} : tree'[q] = tree[q]
  BY <1>1, PathParts
<1>3. History!Others(t) /\ journal' = journal /\ heads[t] = tree[t] /\ heads'[t] = wt[t]
  BY <1>1, <1>2, OneHead
<1>4. History!Absorb(t)
  BY <1>1, <1>3 DEF History!Absorb, History!Says, heads, journal
<1> QED BY <1>1, <1>4 DEF History!AbsNext

\* a writer's commit replaces one HEAD by the text it computed from the committed one
LEMMA SerialWriter ==
  ASSUME Quiet, IndInv, HistInv, NEW s \in Sessions, GitCommit(s), job[s].verb \in Writers
  PROVE  History!AbsNext
<1>0. PICK t \in Topics, j \in JobType :
        /\ t = job[s].topic /\ j = job[s] /\ tip' = [op |-> j.verb, topic |-> t]
        /\ \A q \in Path : tree'[q] = IF q = t THEN wt[t] ELSE tree[q]
  BY CommittedAt, IndSplit DEF Control, Writers
<1>1. /\ wt[t] = NewText(j) /\ (j.orig = tree[t] \/ ~NeedsHead(j.verb))
      /\ (NeedsHead(j.verb) => j.orig \in HeadFile)
      /\ (j.verb \in Composers => j.text.by = s) /\ (j.verb = "rewrite" => j.seen \in HeadFile)
  <2>1. pc[s] = "commit" /\ LocalInv(pc[s], job[s]) /\ Kept(s) /\ HoldOf(s)
    BY CommittedAt, IndSplit DEF Control, JobInv, HistInv, Holds
  <2> QED BY <1>0, <2>1 DEF Kept, HoldOf, Changing, LocalInv, TxnLabels, Prepared
<1>2. NewText(j) \in HeadFile /\ Absent \notin HeadFile /\ j.verb \in Writers
  BY <1>0, <1>1, NewTextType, ConstantsAssumption
<1>3. tree'[t] = NewText(j) /\ \A q \in Path \ {t} : tree'[q] = tree[q]
  BY <1>0, <1>1, PathParts
<1>4. History!Others(t) /\ journal' = journal /\ heads[t] = tree[t] /\ heads'[t] = NewText(j)
  BY <1>3, OneHead
<1>5. CASE j.verb \in {"new", "rewrite"}
  <2>1. NewText(j).ess = j.text
    BY <1>5 DEF NewText
  <2>2. History!Compose(t)
    BY <1>0, <1>1, <1>2, <1>4, <1>5, <2>1
       DEF History!Compose, History!Says, heads, journal, Composers
  <2> QED BY <2>2 DEF History!AbsNext
<1>6. CASE j.verb = "update"
  <2>1. j.orig = heads[t] /\ heads[t] \in HeadFile
    BY <1>1, <1>4, <1>6 DEF NeedsHead
  <2>2. heads'[t] = [heads[t] EXCEPT !.upd = <<j.text>> \o @]
    BY <1>4, <1>6, <2>1 DEF NewText
  <2>3. heads'[t].upd = <<j.text>> \o heads[t].upd /\ heads[t].upd \in Seq(Line) /\ j.text \in Line
    BY <1>0, <2>1, <2>2 DEF HeadFile, JobType
  <2>4. heads'[t].upd # <<>> /\ heads'[t].upd[1] = j.text
    BY <2>3
  <2>5. History!Prepend(t)
    BY <1>0, <1>1, <1>2, <1>4, <1>6, <2>1, <2>2, <2>4
       DEF History!Prepend, History!Says, History!Live, heads, journal, Composers
  <2> QED BY <2>5 DEF History!AbsNext
<1>7. CASE j.verb = "essence"
  <2>1. j.orig = heads[t] /\ heads[t] \in HeadFile
    BY <1>1, <1>4, <1>7 DEF NeedsHead
  <2>2. heads'[t] = [heads[t] EXCEPT !.ess = j.text] /\ heads'[t].ess = j.text
    BY <1>4, <1>7, <2>1 DEF NewText, HeadFile
  <2>3. History!SetEssence(t)
    BY <1>0, <1>1, <1>2, <1>4, <1>7, <2>1, <2>2
       DEF History!SetEssence, History!Says, History!Live, heads, journal, Composers
  <2> QED BY <2>3 DEF History!AbsNext
<1>8. CASE j.verb = "trim"
  <2> DEFINE u == heads[t].upd
             n == IF Len(u) < KeepN THEN Len(u) ELSE KeepN
  <2>1. j.orig = heads[t] /\ heads[t] \in HeadFile
    BY <1>1, <1>4, <1>8 DEF NeedsHead
  <2>2. u \in Seq(Line) /\ n \in Nat /\ n <= Len(u) /\ n <= KeepN /\ KeepN \in Nat
        /\ DOMAIN u = 1..Len(u) /\ (\A i \in 1..KeepN : i <= Len(u) => i <= n)
    BY <2>1, LenProperties, ConstantsAssumption DEF HeadFile
  <2>3. heads'[t].upd = SubSeq(u, 1, n) /\ heads'[t].ess = heads[t].ess
    BY <1>4, <1>8, <2>1 DEF NewText, Trim, HeadFile
  <2>4. Len(SubSeq(u, 1, n)) = n /\ \A i \in 1..n : SubSeq(u, 1, n)[i] = u[i]
    <3> HIDE DEF u, n
    <3> QED BY <2>2, SubSeqProperties
  <2>5. \A i \in 1..KeepN : i \in DOMAIN heads[t].upd => heads'[t].upd[i] = heads[t].upd[i]
    <3> HIDE DEF n
    <3> QED BY <2>2, <2>3, <2>4
  <2>6. Len(heads'[t].upd) <= KeepN
    <3> HIDE DEF n
    <3> QED BY <2>2, <2>3, <2>4
  <2>7. History!TrimTo(t)
    <3> HIDE DEF u, n
    <3> QED BY <1>0, <1>2, <1>4, <1>8, <2>1, <2>3, <2>5, <2>6
            DEF History!TrimTo, History!Says, History!Live, heads, journal
  <2> QED BY <2>7 DEF History!AbsNext
<1> QED BY <1>2, <1>5, <1>6, <1>7, <1>8 DEF Writers

\* an archiver's commit adds one snapshot, of the committed HEAD
LEMMA SerialArchiver ==
  ASSUME Quiet, IndInv, HistInv, NEW s \in Sessions, GitCommit(s), job[s].verb \in Archivers
  PROVE  History!AbsNext
<1>0. PICK t \in Topics, k \in Snaps, v \in Archivers :
        /\ t = job[s].topic /\ k = job[s].snap /\ v = job[s].verb
        /\ tip' = [op |-> v, topic |-> t]
        /\ \A q \in Path \ {IndexMd} :
             tree'[q] = IF q = k \/ (v = "delete" /\ q = t) THEN wt[q] ELSE tree[q]
  BY CommittedAt DEF Archivers, Writers
<1>1. /\ wt[k] = tree[t] /\ tree[k] = Absent /\ tree[t] # Absent
      /\ v = "delete" => wt[t] = Absent
  <2>1. pc[s] = "commit" /\ Kept(s) /\ HoldOf(s)
    BY CommittedAt DEF HistInv, Holds
  <2> QED BY <1>0, <2>1 DEF Kept, HoldOf, Archiving, Sweepers
<1>2. \A u \in Topics : tree'[u] = IF v = "delete" /\ u = t THEN Absent ELSE tree[u]
  BY <1>0, <1>1, PathParts
<1>3. \A i \in Snaps : tree'[i] = IF i = k THEN tree[t] ELSE tree[i]
  BY <1>0, <1>1, PathParts
<1>4. journal' = [journal EXCEPT ![k] = heads[t]] /\ journal[k] = Absent /\ heads[t] # Absent
  BY <1>1, <1>3 DEF journal, heads
<1>5. History!Archive(t)
  BY <1>4 DEF History!Archive, History!Live, heads, journal
<1>6. CASE v = "delete"
  <2>1. heads' = [heads EXCEPT ![t] = Absent]
    BY <1>2, <1>6 DEF heads
  <2>2. History!Delete(t)
    BY <1>0, <1>5, <1>6, <2>1 DEF History!Delete, History!Says, heads
  <2> QED BY <2>2 DEF History!AbsNext
<1>7. CASE v # "delete"
  <2>1. heads' = heads
    BY <1>2, <1>7 DEF heads
  <2>2. History!Finalize(t)
    BY <1>0, <1>5, <1>7, <2>1 DEF History!Finalize, History!Says, heads, Archivers
  <2> QED BY <2>2 DEF History!AbsNext
<1> QED BY <1>6, <1>7

\* the autofix commits INDEX.md alone
LEMMA SerialAutofix ==
  ASSUME IndInv, NEW s \in Sessions, GitCommit(s), job[s].verb = "autofix"
  PROVE  History!AbsNext
<1>1. /\ tip'.op = "autofix"
      /\ \A q \in Path \ {IndexMd} : tree'[q] = tree[q]
  BY CommittedAt DEF Writers
<1>2. heads' = heads /\ journal' = journal
  BY <1>1, PathParts DEF heads, journal
<1> QED BY <1>1, <1>2 DEF History!AbsNext, History!RefreshMenu, heads, journal

\* If nobody edits a HEAD inside a lock hold, the committed store is AbstractStore: every
\* commit is one verb applied to what was committed before it, or one absorbed edit of
\* one HEAD, for any number of sessions and through every crash, git failure and rollback
\* (_execute_write, finalize, compact, delete, _absorb_out_of_band).
THEOREM HistorySerial == Quiet /\ Spec => HistoryIsSerial
<1>1. ASSUME Quiet, IndInv, HistInv, [Next]_vars PROVE [History!AbsNext]_(History!history)
  <2>1. CASE UNCHANGED <<tree, tip>>
    BY <2>1 DEF History!history
  <2>2. ASSUME NEW s \in Sessions, AbsorbCommit(s) PROVE History!AbsNext
    BY <1>1, <2>2, SerialAbsorb
  <2>3. ASSUME NEW s \in Sessions, GitCommit(s) PROVE History!AbsNext
    <3>1. job[s].verb \in Writers \cup Archivers \cup {"autofix"}
      BY <1>1, <2>3, CommittedAt DEF Archivers
    <3> QED BY <1>1, <2>3, <3>1, SerialWriter, SerialArchiver, SerialAutofix
  <2> QED BY <1>1, <2>1, <2>2, <2>3, OnlyCommits
<1>2. Quiet /\ IndInv /\ HistInv /\ [Next]_vars => [History!AbsNext]_(History!history)
  BY <1>1
<1>3. Quiet /\ Spec => History!AbsInit /\ [][History!AbsNext]_(History!history)
  BY <1>2, SerialInit, QuietAlways, PTL DEF Spec
<1> QED BY <1>3 DEF HistoryIsSerial, History!AbsSpec

-----------------------------------------------------------------------------
(* What a step can do to the locals of the sessions and to the files on disk *)

\* the part of the locals that is chosen when the verb starts
Begun(u) == job'[u].verb = job[u].verb /\ job'[u].seen = job[u].seen /\ job'[u].text = job[u].text

JobStep(u) ==
  \/ job'[u] = NoJob
  \/ Begun(u)
  \/ job[u].verb = "compact" /\ job'[u].verb = "trim" /\ job'[u].seen = Absent
  \/ /\ job'[u].verb \in Verbs
     /\ job'[u].seen = Absent \/ \E t \in Topics : job'[u].seen = wt[t]

LEMMA JobCall ==
  ASSUME IndInv, NEW s \in Sessions, Call(s)
  PROVE  \A u \in Sessions : JobStep(u)
<1>0. Control
  BY IndSplit
<1>1. ASSUME NEW j, SetJob(s, j), j.verb \in Verbs,
             j.seen = Absent \/ \E t \in Topics : j.seen = wt[t]
      PROVE  \A u \in Sessions : JobStep(u)
  BY <1>0, <1>1 DEF SetJob, Control, JobStep, Begun
<1>2. CASE UNCHANGED job
  BY <1>2 DEF JobStep, Begun
<1>3. \A v, t, l : Job(v, t, l).seen = Absent /\ Job(v, t, l).verb = v
  BY DEF Job, NoJob
<1>4. ASSUME NEW v \in Verbs, NEW t, NEW l, SetJob(s, Job(v, t, l))
      PROVE  \A u \in Sessions : JobStep(u)
  BY <1>1, <1>3, <1>4
<1>5. ASSUME NEW t \in Topics, BeginUpdate(s, t) PROVE \A u \in Sessions : JobStep(u)
  BY <1>2, <1>4, <1>5 DEF BeginUpdate, Begin
<1>6. ASSUME NEW t \in Topics,
             \/ BeginNew(s, t) \/ BeginEssence(s, t) \/ BeginCompact(s, t)
             \/ BeginArchive(s, t, "finalize") \/ BeginArchive(s, t, "delete")
      PROVE  \A u \in Sessions : JobStep(u)
  BY <1>2, <1>4, <1>6 DEF BeginNew, BeginEssence, BeginArchive, BeginCompact, Begin, Wait
<1>7. ASSUME NEW t \in Topics, ShowForRewrite(s, t) PROVE \A u \in Sessions : JobStep(u)
  <2> DEFINE j == [Job("rewrite", t, Mint(s)) EXCEPT !.seen = wt[t]]
  <2>1. j.seen = wt[t] /\ j.verb = "rewrite" /\ "rewrite" \in Verbs /\ SetJob(s, j)
    BY <1>7 DEF Job, NoJob, ShowForRewrite, Begin
  <2> HIDE DEF j
  <2> QED BY <1>1, <2>1
<1>8. ASSUME NEW v \in Verbs, SetJob(s, [Job(v, Nobody, NoLine) EXCEPT !.fresh = MenuOf(wt)])
      PROVE  \A u \in Sessions : JobStep(u)
  <2> DEFINE j == [Job(v, Nobody, NoLine) EXCEPT !.fresh = MenuOf(wt)]
  <2>1. j.seen = Absent /\ j.verb = v /\ SetJob(s, j)
    BY <1>8 DEF Job, NoJob
  <2> HIDE DEF j
  <2> QED BY <1>1, <1>8, <2>1
<1> QED BY <1>5, <1>6, <1>7, <1>8 DEF Call, BeginAutofix, BeginReindex, Begin, Wait

LEMMA JobAt ==
  ASSUME IndInv, [Next]_vars
  PROVE  \A u \in Sessions : JobStep(u)
<1>0. Control
  BY IndSplit
<1>1. CASE UNCHANGED job
  BY <1>1 DEF JobStep, Begun
<1>2. ASSUME NEW s \in Sessions, Return(s) PROVE \A u \in Sessions : JobStep(u)
  BY <1>0, <1>2 DEF Return, SetJob, Control, JobStep, Begun
<1>3. ASSUME NEW s \in Sessions, NEW j, SetJob(s, j), j.verb = job[s].verb,
             j.seen = job[s].seen, j.text = job[s].text
      PROVE  \A u \in Sessions : JobStep(u)
  BY <1>0, <1>3 DEF SetJob, Control, JobStep, Begun
<1>4. \A s \in Sessions : job[s] \in JobType
  BY <1>0 DEF Control
<1>5. ASSUME NEW s \in Sessions, BeginRewrite(s) PROVE \A u \in Sessions : JobStep(u)
  <2> DEFINE j == [job[s] EXCEPT !.base = tree[job[s].topic]]
  <2>1. j.verb = job[s].verb /\ j.seen = job[s].seen /\ j.text = job[s].text
    BY <1>4 DEF JobType
  <2>2. SetJob(s, j) \/ Return(s)
    BY <1>5 DEF BeginRewrite, Wait
  <2> HIDE DEF j
  <2> QED BY <1>2, <1>3, <2>1, <2>2
<1>6. ASSUME NEW s \in Sessions, Enter(s) PROVE \A u \in Sessions : JobStep(u)
  <2> DEFINE j == [job[s] EXCEPT !.todo = SweepList(job[s])]
  <2>1. j.verb = job[s].verb /\ j.seen = job[s].seen /\ j.text = job[s].text
    BY <1>4 DEF JobType
  <2>2. SetJob(s, j) \/ Return(s)
    BY <1>6 DEF Enter
  <2> HIDE DEF j
  <2> QED BY <1>2, <1>3, <2>1, <2>2
<1>7. ASSUME NEW s \in Sessions, NEW t \in Topics, AbsorbAdd(s, t)
      PROVE  \A u \in Sessions : JobStep(u)
  <2> DEFINE j == [job[s] EXCEPT !.cur = t]
             k == [job[s] EXCEPT !.todo = @ \ {t}]
  <2>1. j.verb = job[s].verb /\ j.seen = job[s].seen /\ j.text = job[s].text
    BY <1>4 DEF JobType
  <2>2. k.verb = job[s].verb /\ k.seen = job[s].seen /\ k.text = job[s].text
    BY <1>4 DEF JobType
  <2>3. SetJob(s, j) \/ SetJob(s, k)
    BY <1>7 DEF AbsorbAdd
  <2> HIDE DEF j, k
  <2> QED BY <1>3, <2>1, <2>2, <2>3
<1>8. ASSUME NEW s \in Sessions, AbsorbCommit(s) PROVE \A u \in Sessions : JobStep(u)
  <2> DEFINE j == [job[s] EXCEPT !.todo = @ \ {job[s].cur}, !.cur = Nobody]
  <2>1. j.verb = job[s].verb /\ j.seen = job[s].seen /\ j.text = job[s].text /\ SetJob(s, j)
    BY <1>4, <1>8 DEF JobType, AbsorbCommit
  <2> HIDE DEF j
  <2> QED BY <1>3, <2>1
<1>9. ASSUME NEW s \in Sessions, OpenHead(s) PROVE \A u \in Sessions : JobStep(u)
  <2> DEFINE j == [job[s] EXCEPT !.orig = wt[job[s].topic]]
  <2>1. j.verb = job[s].verb /\ j.seen = job[s].seen /\ j.text = job[s].text /\ SetJob(s, j)
    BY <1>4, <1>9 DEF JobType, OpenHead
  <2> HIDE DEF j
  <2> QED BY <1>3, <2>1
<1>10. ASSUME NEW s \in Sessions, NEW k \in Snaps, Snapshot(s, k)
       PROVE  \A u \in Sessions : JobStep(u)
  <2> DEFINE j == [job[s] EXCEPT !.snap = k]
  <2>1. j.verb = job[s].verb /\ j.seen = job[s].seen /\ j.text = job[s].text /\ SetJob(s, j)
    BY <1>4, <1>10 DEF JobType, Snapshot
  <2> HIDE DEF j
  <2> QED BY <1>3, <2>1
<1>11. ASSUME NEW s \in Sessions, GitCommit(s) PROVE \A u \in Sessions : JobStep(u)
  <2>1. CASE job[s].verb = "compact" /\ SetJob(s, Job("trim", job[s].topic, NoLine))
    <3>1. Job("trim", job[s].topic, NoLine).verb = "trim"
          /\ Job("trim", job[s].topic, NoLine).seen = Absent
      BY DEF Job, NoJob
    <3> QED BY <1>0, <2>1, <3>1 DEF SetJob, Control, JobStep, Begun
  <2> QED BY <1>2, <1>11, <2>1 DEF GitCommit, Wait
<1>12. ASSUME NEW s \in Sessions,
              \/ PreCheckUpdate(s) \/ WriteReindex(s) \/ AcquireLock(s) \/ LockTimeout(s)
              \/ AbsorbFails(s) \/ RefuseMoved(s) \/ HeadGone(s) \/ DiskFails(s) \/ WriteHead(s)
              \/ UnlinkHead(s) \/ WriteMenu(s) \/ GitAdd(s) \/ NoChange(s) \/ GitFails(s)
              \/ Rollback(s) \/ Kill(s)
       PROVE  \A u \in Sessions : JobStep(u)
  <2>1. UNCHANGED job \/ Return(s)
    BY <1>12 DEF PreCheckUpdate, WriteReindex, AcquireLock, LockTimeout, AbsorbFails, RefuseMoved,
       HeadGone, DiskFails, WriteHead, UnlinkHead, WriteMenu, GitAdd, NoChange, GitFails, Rollback,
       Kill
  <2> QED BY <1>1, <1>2, <2>1
<1>13. ASSUME NEW t \in Topics, EditHead(t) \/ StageByHand(t) PROVE UNCHANGED job
  BY <1>13 DEF EditHead, StageByHand
<1>14. ASSUME NEW s \in Sessions, Step(s) PROVE \A u \in Sessions : JobStep(u)
  BY <1>6, <1>7, <1>8, <1>9, <1>10, <1>11, <1>12, <1>14 DEF Step
<1> QED BY <1>1, <1>5, <1>12, <1>13, <1>14, JobCall DEF Next, vars

\* what can be in a HEAD or a snapshot after a step
DiskStep(p) ==
  \/ wt'[p] \in {Absent, Torn}
  \/ \E q \in Topics \cup Snaps : wt'[p] = wt[q]
  \/ \E s \in Sessions : /\ job[s].verb \in Writers /\ p = job[s].topic
                         /\ \/ pc[s] = "write" /\ wt'[p] = NewText(job[s])
                            \/ pc[s] = "rollback" /\ wt'[p] = job[s].orig
  \/ \E t \in Topics : EditHead(t) /\ t = p /\ UpdatesOf(wt'[p]) \subseteq UpdatesOf(wt[p])

LEMMA DiskAt ==
  ASSUME IndInv, [Next]_vars, NEW p \in Topics \cup Snaps
  PROVE  DiskStep(p)
<1>0. Data /\ Control /\ p \in Path /\ p # IndexMd
  BY IndSplit, PathParts
<1>1. ASSUME NEW c, NEW q \in Path, wt' = Put(wt, q, c), q = p => DiskStep(p) PROVE DiskStep(p)
  BY <1>0, <1>1, PutAt DEF Data, DiskStep
<1>2. CASE wt'[p] = wt[p]
  BY <1>2 DEF DiskStep
<1>3. ASSUME NEW s \in Sessions, Call(s) \/ BeginRewrite(s) PROVE wt'[p] = wt[p]
  BY <1>3, OutsideFrame
<1>4. ASSUME NEW s \in Sessions, OpenHead(s) \/ UnlinkHead(s) PROVE DiskStep(p)
  <2>1. job[s].topic \in Topics
    BY <1>0, <1>4 DEF Control, JobInv, LocalInv, Prepared, TxnLabels, OpenHead, UnlinkHead, Swept,
       Writers
  <2> QED BY <1>0, <1>4, <2>1, PutAt, PathParts DEF OpenHead, UnlinkHead, Data, DiskStep
<1>5. ASSUME NEW s \in Sessions, WriteHead(s) PROVE DiskStep(p)
  <2>1. job[s].verb \in Writers /\ job[s].topic \in Topics /\ pc[s] = "write"
    BY <1>0, <1>5 DEF Control, JobInv, LocalInv, Prepared, TxnLabels, WriteHead, Writers
  <2>2. \A q \in Path : wt'[q] = IF q = job[s].topic THEN NewText(job[s]) ELSE wt[q]
    BY <1>0, <1>5, <2>1, PutAt, PathParts DEF WriteHead, Data
  <2> QED BY <1>0, <2>1, <2>2, PathParts DEF DiskStep
<1>6. ASSUME NEW s \in Sessions, NEW k \in Snaps, Snapshot(s, k) PROVE DiskStep(p)
  <2>1. job[s].topic \in Topics
    BY <1>0, <1>6 DEF Control, JobInv, LocalInv, Prepared, TxnLabels, Snapshot, Swept, Archivers
  <2>2. \A q \in Path : wt'[q] = IF q = k THEN wt[job[s].topic] ELSE wt[q]
    BY <1>0, <1>6, PutAt, PathParts DEF Snapshot, Data
  <2> QED BY <1>0, <2>1, <2>2 DEF DiskStep
<1>7. ASSUME NEW s \in Sessions, WriteMenu(s) PROVE wt'[p] = wt[p]
  BY <1>0, <1>7, PutAt, PathParts DEF WriteMenu, Data
<1>8. ASSUME NEW s \in Sessions, Rollback(s) PROVE DiskStep(p)
  <2>1. pc[s] = "rollback"
    BY <1>8 DEF Rollback
  <2> QED BY <1>0, <1>8, <2>1, RestoredAt DEF DiskStep
<1>9. ASSUME NEW s \in Sessions, Kill(s) \/ DiskFails(s) PROVE DiskStep(p)
  BY <1>9, BrokenAt DEF DiskStep
<1>10. ASSUME NEW t \in Topics, EditHead(t) PROVE DiskStep(p)
  <2> DEFINE edited == [wt[t] EXCEPT !.ess = Mint(Editor)]
             fresh == [upd |-> <<>>, ess |-> Mint(Editor)]
  <2>1. wt[t] \in HeadFile \cup {Absent}
    BY <1>0, AreaAt DEF Data
  <2>2. Exists(t) => edited.upd = wt[t].upd
    BY <2>1 DEF HeadFile, Exists
  <2>3. Exists(t) => UpdatesOf(edited) \subseteq UpdatesOf(wt[t])
    BY <2>2 DEF UpdatesOf, Exists
  <2>4. UpdatesOf(fresh) = {} /\ UpdatesOf(Absent) = {}
    BY DEF UpdatesOf
  <2>5. \/ wt' = Put(wt, t, fresh) \/ wt' = Put(wt, t, Absent)
        \/ Exists(t) /\ wt' = Put(wt, t, edited)
    BY <1>10 DEF EditHead
  <2> HIDE DEF edited, fresh
  <2>6. (\A q \in Path \ {t} : wt'[q] = wt[q]) /\ UpdatesOf(wt'[t]) \subseteq UpdatesOf(wt[t])
    BY <1>0, <2>3, <2>4, <2>5, PutAt, PathParts DEF Data
  <2> QED BY <1>0, <1>10, <2>6 DEF DiskStep
<1>11. ASSUME NEW s \in Sessions,
              \/ PreCheckUpdate(s) \/ WriteReindex(s) \/ AcquireLock(s) \/ LockTimeout(s) \/ Enter(s)
       PROVE  wt'[p] = wt[p]
  BY <1>11, OutsideFrame
<1>12. ASSUME NEW s \in Sessions,
              \/ (\E t \in Topics : AbsorbAdd(s, t)) \/ AbsorbCommit(s) \/ AbsorbFails(s)
              \/ RefuseMoved(s) \/ HeadGone(s) \/ GitAdd(s) \/ NoChange(s) \/ GitCommit(s) \/ GitFails(s)
       PROVE  wt'[p] = wt[p]
  BY <1>12 DEF AbsorbAdd, AbsorbCommit, AbsorbFails, RefuseMoved, HeadGone, GitAdd, NoChange,
     GitCommit, GitFails
<1>13. CASE (\E t \in Topics : StageByHand(t)) \/ UNCHANGED vars
  BY <1>2, <1>13 DEF StageByHand, vars
<1>14. ASSUME NEW s \in Sessions, Step(s) PROVE DiskStep(p)
  BY <1>2, <1>4, <1>5, <1>6, <1>7, <1>8, <1>9, <1>11, <1>12, <1>14 DEF Step
<1> QED BY <1>2, <1>3, <1>9, <1>10, <1>13, <1>14 DEF Next

-----------------------------------------------------------------------------
(* Hand edits.  A person changes the essence and the body of a HEAD, so a line of *)
(* theirs is never an update-line, and reaches a commit by an absorb alone.        *)

ByNoHand(S) == \A l \in S : l.by # Editor

AttrInv ==
  /\ HandEditsAttributed
  /\ \A p \in Topics \cup Snaps : ByNoHand(UpdatesOf(wt[p])) /\ ByNoHand(UpdatesOf(tree[p]))
  /\ \A s \in Sessions : ByNoHand(UpdatesOf(job[s].seen))

\* where the lines of a composed text come from
LEMMA NewTextLines ==
  ASSUME NEW j \in JobType, j.verb \in Writers,
         j.verb = "rewrite" => j.seen \in HeadFile,
         NeedsHead(j.verb) => j.orig \in HeadFile
  PROVE  /\ \A l \in LinesOf(NewText(j)) :
              \/ l = j.text /\ j.verb \in Composers
              \/ l \in LinesOf(j.orig) /\ NeedsHead(j.verb)
              \/ l \in UpdatesOf(j.seen) /\ j.verb = "rewrite"
         /\ \A l \in UpdatesOf(NewText(j)) :
              \/ l = j.text /\ j.verb \in Composers
              \/ l \in UpdatesOf(j.orig) /\ NeedsHead(j.verb)
              \/ l \in UpdatesOf(j.seen) /\ j.verb = "rewrite"
         /\ j.verb \in {"update", "essence"} => UpdatesOf(j.orig) \subseteq UpdatesOf(NewText(j))
         /\ j.verb = "update" => j.text \in UpdatesOf(NewText(j))
<1>0. NewText(j) \in HeadFile /\ Absent \notin HeadFile /\ NewText(j) # Absent
  BY NewTextType, ConstantsAssumption
<1>1. CASE j.verb = "update"
  <2> DEFINE u == j.orig.upd
  <2>1. j.orig \in HeadFile /\ j.orig # Absent /\ NeedsHead(j.verb) /\ j.verb \in Composers
    BY <1>0, <1>1 DEF NeedsHead, Composers
  <2>2. u \in Seq(Line) /\ <<j.text>> \in Seq(Line) /\ j.text \in Line /\ Len(u) \in Nat
        /\ DOMAIN u = 1..Len(u)
    BY <2>1 DEF HeadFile, JobType
  <2>3. NewText(j).upd = <<j.text>> \o u /\ NewText(j).ess = j.orig.ess
    BY <1>1, <2>1 DEF NewText, HeadFile
  <2>4. /\ DOMAIN (<<j.text>> \o u) = 1..(Len(u) + 1)
        /\ (<<j.text>> \o u)[1] = j.text
        /\ \A i \in DOMAIN u : i + 1 \in DOMAIN (<<j.text>> \o u) /\ (<<j.text>> \o u)[i + 1] = u[i]
        /\ \A i \in DOMAIN (<<j.text>> \o u) : i = 1 \/ i - 1 \in DOMAIN u
    BY <2>2
  <2> HIDE DEF u
  <2>5. UpdatesOf(NewText(j)) = {j.text} \cup {u[i] : i \in DOMAIN u}
    <3> DEFINE w == <<j.text>> \o u
    <3>1. UpdatesOf(NewText(j)) = {w[i] : i \in DOMAIN w}
      BY <1>0, <2>3 DEF UpdatesOf
    <3>2. 1 \in DOMAIN w /\ w[1] = j.text /\ \A i \in DOMAIN w : i # 1 => w[i] = u[i - 1]
      BY <2>2, <2>4
    <3> HIDE DEF w
    <3>3. \A i \in DOMAIN u : i + 1 \in DOMAIN w /\ w[i + 1] = u[i]
      BY <2>4 DEF w
    <3>4. \A i \in DOMAIN w : i = 1 \/ i - 1 \in DOMAIN u
      BY <2>4 DEF w
    <3> QED BY <3>1, <3>2, <3>3, <3>4
  <2>6. UpdatesOf(j.orig) = {u[i] : i \in DOMAIN u}
    BY <2>1 DEF UpdatesOf, u
  <2>7. LinesOf(NewText(j)) = UpdatesOf(NewText(j)) \cup {j.orig.ess}
    BY <1>0, <2>3 DEF LinesOf, UpdatesOf
  <2>8. LinesOf(j.orig) = UpdatesOf(j.orig) \cup {j.orig.ess}
    BY <2>1 DEF LinesOf, UpdatesOf
  <2> QED BY <1>1, <2>1, <2>5, <2>6, <2>7, <2>8
<1>2. CASE j.verb = "new"
  <2>1. UpdatesOf(NewText(j)) = {j.text} /\ LinesOf(NewText(j)) = {j.text}
    BY <1>0, <1>2 DEF NewText, UpdatesOf, LinesOf
  <2> QED BY <1>2, <2>1 DEF Composers
<1>3. CASE j.verb = "rewrite"
  <2>1. j.seen \in HeadFile /\ j.seen # Absent
    BY <1>0, <1>3
  <2>2. UpdatesOf(NewText(j)) = UpdatesOf(j.seen)
    BY <1>0, <1>3, <2>1 DEF NewText, UpdatesOf
  <2>3. LinesOf(NewText(j)) = UpdatesOf(j.seen) \cup {j.text}
    BY <1>0, <1>3, <2>1 DEF NewText, LinesOf, UpdatesOf
  <2> QED BY <1>3, <2>2, <2>3 DEF Composers
<1>4. CASE j.verb = "essence"
  <2>1. j.orig \in HeadFile /\ j.orig # Absent /\ NeedsHead(j.verb)
    BY <1>0, <1>4 DEF NeedsHead
  <2>2. NewText(j).upd = j.orig.upd /\ NewText(j).ess = j.text
    BY <1>4, <2>1 DEF NewText, HeadFile
  <2>3. UpdatesOf(NewText(j)) = UpdatesOf(j.orig)
    BY <1>0, <2>1, <2>2 DEF UpdatesOf
  <2>4. LinesOf(NewText(j)) = UpdatesOf(j.orig) \cup {j.text} /\ UpdatesOf(j.orig) \subseteq LinesOf(j.orig)
    BY <1>0, <2>1, <2>2 DEF UpdatesOf, LinesOf
  <2> QED BY <1>4, <2>1, <2>3, <2>4 DEF Composers
<1>5. CASE j.verb = "trim"
  <2> DEFINE u == j.orig.upd
             n == IF Len(u) < KeepN THEN Len(u) ELSE KeepN
  <2>1. j.orig \in HeadFile /\ j.orig # Absent /\ NeedsHead(j.verb)
    BY <1>0, <1>5 DEF NeedsHead
  <2>2. u \in Seq(Line) /\ n \in Nat /\ n <= Len(u)
    BY <2>1, LenProperties, ConstantsAssumption DEF HeadFile
  <2>3. NewText(j).upd = SubSeq(u, 1, n) /\ NewText(j).ess = j.orig.ess
    BY <1>5, <2>1 DEF NewText, Trim, HeadFile
  <2>4. \A i \in DOMAIN SubSeq(u, 1, n) : i \in DOMAIN u /\ SubSeq(u, 1, n)[i] = u[i]
    <3> HIDE DEF u, n
    <3> QED BY <2>2, SubSeqProperties
  <2>5. UpdatesOf(NewText(j)) \subseteq UpdatesOf(j.orig) /\ LinesOf(NewText(j)) \subseteq LinesOf(j.orig)
    <3> HIDE DEF n
    <3> QED BY <1>0, <2>1, <2>3, <2>4 DEF LinesOf, UpdatesOf
  <2> QED BY <1>5, <2>1, <2>5
<1> QED BY <1>1, <1>2, <1>3, <1>4, <1>5 DEF Writers

LEMMA EmptyLines == LinesOf(Absent) = {} /\ UpdatesOf(Absent) = {} /\ UpdatesOf(Torn) = {}
BY DEF LinesOf, UpdatesOf, Torn

LEMMA AttrInit == Init => AttrInv
<1> SUFFICES ASSUME Init PROVE AttrInv
  OBVIOUS
<1>1. \A l \in LinesOf(Seed) : l.by = Nobody
  <2>1. DOMAIN Seed.upd = 1..2 /\ Seed.upd[1] = SeedLine(2) /\ Seed.upd[2] = SeedLine(1)
        /\ Seed.ess = SeedLine(3)
    BY DEF Seed
  <2> QED BY <2>1, ConstantHeads, ConstantsAssumption DEF LinesOf, SeedLine
<1>2. UpdatesOf(Seed) \subseteq LinesOf(Seed)
  BY DEF LinesOf, UpdatesOf
<1>3. \A p \in Topics \cup Snaps : wt[p] \in {Seed, Absent} /\ tree[p] = wt[p]
  BY PathParts DEF Init
<1>4. \A s \in Sessions : job[s].seen = Absent
  BY DEF Init, NoJob
<1> QED BY <1>1, <1>2, <1>3, <1>4, EmptyLines, ConstantsAssumption
       DEF AttrInv, HandEditsAttributed, ByNoHand

\* the text that a writer leaves on disk is the committed one, a session's line and what
\* the session had read
LEMMA WriterText ==
  ASSUME Quiet, IndInv, HistInv, NEW s \in Sessions,
         job[s].verb \in Writers, pc[s] \in Changing
  PROVE  LET j == job[s] IN
         /\ j.topic \in Topics
         /\ j.orig = tree[j.topic] \/ j.orig = Absent
         /\ pc[s] \in {"add", "commit"} => wt[j.topic] = NewText(j)
         /\ pc[s] \in {"write", "add", "commit"} =>
              /\ \A l \in LinesOf(NewText(j)) :
                   l.by = s \/ l \in LinesOf(tree[j.topic]) \/ l \in UpdatesOf(j.seen)
              /\ \A l \in UpdatesOf(NewText(j)) :
                   l.by = s \/ l \in UpdatesOf(tree[j.topic]) \/ l \in UpdatesOf(j.seen)
<1> DEFINE j == job[s]
<1>1. /\ j \in JobType /\ LocalInv(pc[s], j) /\ Kept(s) /\ HoldOf(s) /\ pc[s] \in TxnLabels
  BY IndSplit DEF Control, JobInv, HistInv, Holds, Changing, TxnLabels
<1>2. /\ j.topic \in Topics /\ (j.verb = "rewrite" => j.seen \in HeadFile)
      /\ NeedsHead(j.verb) => j.orig \in HeadFile /\ j.orig = tree[j.topic]
      /\ j.orig = tree[j.topic] \/ j.orig = Absent
      /\ j.verb \in Composers => j.text.by = s
      /\ pc[s] \in {"add", "commit"} => wt[j.topic] = NewText(j)
  BY <1>1 DEF LocalInv, Prepared, Writers, Kept, HoldOf
<1> QED BY <1>1, <1>2, NewTextLines

LEMMA AttrTree ==
  ASSUME Quiet, IndInv, HistInv, AttrInv, [Next]_vars, NEW p \in Topics \cup Snaps
  PROVE  /\ \A l \in LinesOf(tree'[p]) : l.by = Editor => l \in absorbed'
         /\ ByNoHand(UpdatesOf(tree'[p]))
<1> DEFINE Named == /\ \A l \in LinesOf(tree'[p]) : l.by = Editor => l \in absorbed'
                    /\ ByNoHand(UpdatesOf(tree'[p]))
<1>0. p \in Path /\ p # IndexMd /\ Editor \notin Sessions
  BY PathParts, ConstantsAssumption
<1>1. CASE tree'[p] = tree[p] /\ absorbed \subseteq absorbed'
  BY <1>1 DEF AttrInv, HandEditsAttributed
<1>2. CASE UNCHANGED <<tree, absorbed>>
  BY <1>1, <1>2
<1>3. ASSUME NEW s \in Sessions, AbsorbCommit(s) PROVE Named
  <2>1. absorbed' = absorbed \cup LinesOf(wt[job[s].cur])
    BY <1>3 DEF AbsorbCommit
  <2>2. tree'[p] = IF p = job[s].cur THEN wt[p] ELSE tree[p]
    BY <1>0, <1>3, AbsorbedAt
  <2>3. CASE p = job[s].cur
    BY <2>1, <2>2, <2>3 DEF AttrInv
  <2> QED BY <1>1, <2>1, <2>2, <2>3
<1>4. ASSUME NEW s \in Sessions, GitCommit(s) PROVE Named
  <2>0. pc[s] = "commit" /\ absorbed' = absorbed /\ Kept(s) /\ HoldOf(s)
    BY <1>4 DEF GitCommit, HistInv, Holds
  <2>1. CASE job[s].verb \in Writers
    <3> DEFINE t == job[s].topic
    <3>1. tree'[p] = IF p = t THEN wt[p] ELSE tree[p]
      BY <1>0, <1>4, <2>1, CommittedAt DEF Writers
    <3>2. CASE p = t
      <4>1. /\ tree'[p] = NewText(job[s])
            /\ \A l \in LinesOf(NewText(job[s])) :
                 l.by = s \/ l \in LinesOf(tree[t]) \/ l \in UpdatesOf(job[s].seen)
            /\ \A l \in UpdatesOf(NewText(job[s])) :
                 l.by = s \/ l \in UpdatesOf(tree[t]) \/ l \in UpdatesOf(job[s].seen)
        BY <2>0, <2>1, <3>1, <3>2, WriterText DEF Changing
      <4> QED BY <1>0, <2>0, <3>2, <4>1 DEF AttrInv, HandEditsAttributed, ByNoHand
    <3> QED BY <1>1, <2>0, <3>1, <3>2
  <2>2. CASE job[s].verb \in Archivers
    <3>1. /\ job[s].topic \in Topics
          /\ \/ tree'[p] = tree[p]
             \/ p = job[s].snap /\ tree'[p] = wt[p]
             \/ job[s].verb = "delete" /\ p = job[s].topic /\ tree'[p] = wt[p]
      BY <1>0, <1>4, <2>2, CommittedAt DEF Archivers, Writers
    <3>2. wt[job[s].snap] = tree[job[s].topic]
      BY <2>0, <2>2 DEF HoldOf, Archiving
    <3>3. job[s].verb = "delete" => wt[job[s].topic] = Absent
      BY <2>0, <2>2, <3>1 DEF HoldOf, Sweepers, Archiving
    <3>4. tree'[p] = tree[p] \/ tree'[p] = tree[job[s].topic] \/ tree'[p] = Absent
      BY <3>1, <3>2, <3>3
    <3> QED BY <2>0, <3>1, <3>4, EmptyLines DEF AttrInv, HandEditsAttributed, ByNoHand
  <2>3. CASE job[s].verb = "autofix"
    <3>1. tree'[p] = tree[p]
      BY <1>0, <1>4, <2>3, CommittedAt DEF Writers
    <3> QED BY <1>1, <2>0, <3>1
  <2> QED BY <1>4, <2>1, <2>2, <2>3, CommittedAt DEF Archivers
<1> QED BY <1>2, <1>3, <1>4, OnlyCommits

LEMMA AttrDisk ==
  ASSUME Quiet, IndInv, HistInv, AttrInv, [Next]_vars, NEW p \in Topics \cup Snaps
  PROVE  ByNoHand(UpdatesOf(wt'[p]))
<1>1. CASE wt'[p] \in {Absent, Torn}
  BY <1>1, EmptyLines DEF ByNoHand
<1>2. CASE \E q \in Topics \cup Snaps : wt'[p] = wt[q]
  BY <1>2 DEF AttrInv
<1>3. ASSUME NEW s \in Sessions, job[s].verb \in Writers, pc[s] \in {"write", "rollback"},
             wt'[p] = IF pc[s] = "write" THEN NewText(job[s]) ELSE job[s].orig
      PROVE  ByNoHand(UpdatesOf(wt'[p]))
  <2>1. job[s].topic \in Topics /\ (job[s].orig = tree[job[s].topic] \/ job[s].orig = Absent)
    BY <1>3, WriterText DEF Changing
  <2>2. pc[s] = "write" => \A l \in UpdatesOf(NewText(job[s])) :
          l.by = s \/ l \in UpdatesOf(tree[job[s].topic]) \/ l \in UpdatesOf(job[s].seen)
    BY <1>3, WriterText DEF Changing
  <2> QED BY <1>3, <2>1, <2>2, EmptyLines, ConstantsAssumption DEF AttrInv, ByNoHand
<1>4. CASE UpdatesOf(wt'[p]) \subseteq UpdatesOf(wt[p])
  BY <1>4 DEF AttrInv, ByNoHand
<1> QED BY <1>1, <1>2, <1>3, <1>4, DiskAt DEF DiskStep

LEMMA AttrStep ==
  ASSUME Quiet, IndInv, HistInv, AttrInv, [Next]_vars
  PROVE  AttrInv'
<1>1. \A p \in Topics \cup Snaps : ByNoHand(UpdatesOf(wt'[p])) /\ ByNoHand(UpdatesOf(tree'[p]))
  BY AttrTree, AttrDisk
<1>2. HandEditsAttributed'
  BY AttrTree DEF HandEditsAttributed
<1>3. ASSUME NEW s \in Sessions PROVE ByNoHand(UpdatesOf(job'[s].seen))
  <2>1. job'[s].seen = job[s].seen \/ job'[s].seen = Absent \/ \E t \in Topics : job'[s].seen = wt[t]
    BY JobAt DEF JobStep, Begun, NoJob
  <2> QED BY <2>1, EmptyLines DEF AttrInv, ByNoHand
<1> QED BY <1>1, <1>2, <1>3 DEF AttrInv

\* If nobody edits a HEAD inside a lock hold, a hand-edited line is in a committed HEAD or
\* a snapshot only after an absorb commit named it: no verb's own commit carries one, after
\* any crash, git failure or rollback (_absorb_out_of_band, _absorb_all_heads_out_of_band).
THEOREM HandEditsNamed == Quiet /\ Spec => []HandEditsAttributed
<1>1. Quiet /\ IndInv /\ HistInv /\ AttrInv /\ [Next]_vars => AttrInv'
  BY AttrStep
<1>2. AttrInv => HandEditsAttributed
  BY DEF AttrInv
<1> QED BY <1>1, <1>2, AttrInit, QuietAlways, PTL DEF Spec

-----------------------------------------------------------------------------
(* Nothing is lost.  Without crashes, races by hand, and the verbs that drop lines by *)
(* design, a line that landed is in a snapshot, or in a committed HEAD that is on disk *)
(* too or that the one session inside the transaction is working on.                  *)

Gentle ==
  /\ Quiet /\ MaxKills = 0 /\ MaxDisk = 0
  /\ Verbs \cap {"new", "rewrite", "compact"} = {}

WorkOf(s) == {t \in Topics : Working(s, t)}
WorkedOn == UNION {WorkOf(s) : s \in Sessions}

Safe(l, T) ==
  \/ \E k \in Snaps : l \in UpdatesOf(tree[k])
  \/ \E t \in Topics : l \in UpdatesOf(tree[t]) /\ (l \in UpdatesOf(wt[t]) \/ t \in T)

LostInv ==
  /\ \A s \in Sessions : job[s].verb \in Verbs \cup {"none"}
  /\ \A l \in owed : Safe(l, WorkedOn)

LEMMA LostInit == Init => LostInv
BY DEF Init, LostInv, NoJob

\* only the session inside the transaction works on a HEAD
LEMMA WorkInside ==
  ASSUME Control, NEW s \in Sessions, InTxn(s)
  PROVE  WorkedOn = WorkOf(s)
<1>1. \A u \in Sessions \ {s} : WorkOf(u) = {}
  BY Alone DEF WorkOf, Working, Changing, TxnLabels
<1> QED BY <1>1 DEF WorkedOn

LEMMA WorkOutside ==
  ASSUME Control, lock = Nobody
  PROVE  WorkedOn = {}
<1>1. \A u \in Sessions : WorkOf(u) = {}
  BY ConstantsAssumption DEF Control, LockInv, InTxn, WorkOf, Working, Changing, TxnLabels
<1> QED BY <1>1 DEF WorkedOn

\* a committed snapshot keeps its lines
LEMMA SnapsKeep ==
  ASSUME IndInv, HistInv, [Next]_vars, NEW k \in Snaps
  PROVE  UpdatesOf(tree[k]) \subseteq UpdatesOf(tree'[k])
<1>1. CASE tree[k] = Absent
  BY <1>1, EmptyLines
<1>2. CASE tree[k] # Absent
  <2>1. wt[k] = tree[k]
    BY <1>2 DEF HistInv, JournalOnDisk
  <2>2. ASSUME NEW s \in Sessions, AbsorbCommit(s) PROVE tree'[k] = tree[k]
    BY <2>2, AbsorbedAt, PathParts
  <2>3. ASSUME NEW s \in Sessions, GitCommit(s) PROVE tree'[k] = tree[k]
    BY <2>1, <2>3, CommittedAt, PathParts
  <2> QED BY <2>2, <2>3, OnlyCommits
<1> QED BY <1>1, <1>2

\* a step that commits nothing keeps a line safe if its HEAD stays on disk or is worked on
LEMMA SafeKept ==
  ASSUME IndInv, HistInv, [Next]_vars, LostInv, NEW l \in owed, NEW T, NEW U,
         WorkedOn \subseteq T, UNCHANGED tree,
         \A t \in Topics : l \in UpdatesOf(tree[t]) /\ (l \in UpdatesOf(wt[t]) \/ t \in T)
                             => l \in UpdatesOf(wt'[t]) \/ t \in U
  PROVE  Safe(l, U)'
BY DEF LostInv, Safe

LEMMA LostBefore ==
  ASSUME Gentle, IndInv, HistInv, LostInv, [Next]_vars, NEW s \in Sessions,
         \/ Call(s) \/ PreCheckUpdate(s) \/ BeginRewrite(s) \/ WriteReindex(s)
         \/ AcquireLock(s) \/ LockTimeout(s) \/ Enter(s)
  PROVE  \A l \in owed' : Safe(l, WorkedOn)'
<1>1. /\ \A t \in Topics \cup Snaps : wt'[t] = wt[t]
      /\ UNCHANGED <<tree, owed>>
      /\ pc[s] \in {"idle", "gated", "composing", "reindex", "wait", "enter"}
  BY OutsideFrame
<1>2. \A u \in Sessions \ {s} : pc'[u] = pc[u] /\ job'[u] = job[u]
  <2>0. Control
    BY IndSplit
  <2>1. CASE Call(s)
    BY <2>0, <2>1 DEF Control, Call, BeginUpdate, BeginNew, BeginEssence, ShowForRewrite,
       BeginArchive, BeginCompact, BeginAutofix, BeginReindex, Wait, Goto, SetJob
  <2>2. CASE PreCheckUpdate(s) \/ BeginRewrite(s) \/ WriteReindex(s)
    BY <2>0, <2>2 DEF Control, PreCheckUpdate, BeginRewrite, WriteReindex, Return, Wait, Goto, SetJob
  <2>3. CASE AcquireLock(s) \/ LockTimeout(s) \/ Enter(s)
    BY <2>0, <2>3 DEF Control, AcquireLock, LockTimeout, Enter, Return, Goto, SetJob
  <2> QED BY <2>1, <2>2, <2>3
<1>3. WorkedOn \subseteq WorkedOn'
  <2>1. WorkOf(s) = {}
    BY <1>1 DEF WorkOf, Working, Changing
  <2>2. \A u \in Sessions \ {s} : WorkOf(u) \subseteq WorkOf(u)'
    BY <1>2 DEF WorkOf, Working
  <2> QED BY <2>1, <2>2 DEF WorkedOn
<1> QED BY <1>1, <1>3 DEF LostInv, Safe

LEMMA LostEdits ==
  ASSUME Gentle, IndInv, HistInv, LostInv, NEW t \in Topics, EditHead(t) \/ StageByHand(t)
  PROVE  \A l \in owed' : Safe(l, WorkedOn)'
<1>0. Control /\ Data /\ lock = Nobody /\ UNCHANGED <<lock, pc, job, tree>>
  BY IndSplit DEF EditHead, StageByHand, MayEdit, Gentle, Quiet
<1>1. WorkedOn = {}
  BY <1>0, WorkOutside
<1>2. CASE StageByHand(t)
  BY <1>0, <1>1, <1>2 DEF StageByHand, LostInv, Safe
<1>3. CASE EditHead(t)
  <2> DEFINE edited == [wt[t] EXCEPT !.ess = Mint(Editor)]
             fresh == [upd |-> <<>>, ess |-> Mint(Editor)]
  <2>1. wt[t] \in HeadFile \cup {Absent}
    BY <1>0, AreaAt DEF Data
  <2>2. Exists(t) => edited.upd = wt[t].upd /\ edited # Absent
    <3>1. Mint(Editor) \in Line
      BY <1>0, MintType DEF Data
    <3> QED BY <2>1, <3>1, ConstantsAssumption DEF HeadFile, Exists
  <2>3. Exists(t) => UpdatesOf(edited) = UpdatesOf(wt[t])
    BY <2>2 DEF UpdatesOf, Exists
  <2>4. \/ Exists(t) /\ wt' = Put(wt, t, edited) /\ UNCHANGED owed
        \/ ~Exists(t) /\ wt' = Put(wt, t, fresh) /\ UNCHANGED owed
        \/ wt' = Put(wt, t, Absent) /\ owed' = owed \ UpdatesOf(wt[t])
    BY <1>3 DEF EditHead
  <2> HIDE DEF edited, fresh
  <2>5. ~Exists(t) => UpdatesOf(wt[t]) = {}
    BY EmptyLines DEF Exists
  <2>6. \A u \in Topics \ {t} : wt'[u] = wt[u]
    BY <1>0, <2>4, PutAt, PathParts DEF Data
  <2>7. owed' \subseteq owed /\ \A l \in owed' : l \in UpdatesOf(wt[t]) => l \in UpdatesOf(wt'[t])
    BY <1>0, <2>3, <2>4, <2>5, PutAt, PathParts DEF Data
  <2> QED BY <1>0, <1>1, <2>6, <2>7 DEF LostInv, Safe
<1> QED BY <1>2, <1>3

\* a line that is owed when s is inside its transaction
LEMMA LostInside ==
  ASSUME IndInv, LostInv, NEW s \in Sessions, InTxn(s), NEW l \in owed
  PROVE  Safe(l, WorkOf(s))
BY WorkInside, IndSplit DEF LostInv

LEMMA LostSweep ==
  ASSUME Gentle, IndInv, HistInv, LostInv, [Next]_vars, NEW s \in Sessions,
         \/ (\E t \in Topics : AbsorbAdd(s, t)) \/ AbsorbCommit(s) \/ AbsorbFails(s)
         \/ RefuseMoved(s) \/ HeadGone(s) \/ NoChange(s) \/ OpenHead(s) \/ UnlinkHead(s)
         \/ (\E k \in Snaps : Snapshot(s, k))
  PROVE  \A l \in owed' : Safe(l, WorkedOn)'
<1>0. Control /\ Data /\ owed' = owed /\ LocalInv(pc[s], job[s]) /\ job[s] \in JobType
  BY IndSplit DEF Control, JobInv, AbsorbAdd, AbsorbCommit, AbsorbFails,
     RefuseMoved, HeadGone, NoChange, OpenHead, UnlinkHead, Snapshot
<1>1. InTxn(s)
  BY DEF InTxn, TxnLabels, AbsorbAdd, AbsorbCommit, AbsorbFails, RefuseMoved, HeadGone, Swept,
     NoChange, OpenHead, UnlinkHead, Snapshot
<1>2. \A l \in owed : Safe(l, WorkOf(s))
  BY <1>1, LostInside
<1>3. CASE pc[s] \in {"sweep", "absorb"} /\ UNCHANGED wt
  <2>1. WorkOf(s) = {}
    BY <1>3 DEF WorkOf, Working, Changing
  <2>2. CASE UNCHANGED tree
    BY <1>0, <1>2, <1>3, <2>1, <2>2 DEF Safe
  <2>3. CASE AbsorbCommit(s)
    <3>1. job[s].cur \in Topics /\ \A q \in Path : tree'[q] = IF q = job[s].cur THEN wt[q] ELSE tree[q]
      BY <2>3, AbsorbedAt
    <3>2. \A k \in Snaps : tree'[k] = tree[k]
      BY <3>1, PathParts
    <3>3. \A t \in Topics : tree'[t] = tree[t] \/ tree'[t] = wt[t]
      BY <3>1, PathParts
    <3> QED BY <1>0, <1>2, <1>3, <2>1, <3>2, <3>3 DEF Safe
  <2> QED BY <1>3, <2>2, <2>3 DEF AbsorbAdd, AbsorbFails, RefuseMoved, HeadGone, NoChange, OpenHead,
             UnlinkHead, Snapshot
<1>4. CASE NoChange(s)
  <2>1. \A t \in WorkOf(s) : wt[t] = tree[t]
    BY <1>4 DEF WorkOf, Working, NoChange, OwnPaths, Writers, Dirty
  <2>2. UNCHANGED <<wt, tree>>
    BY <1>4 DEF NoChange
  <2> QED BY <1>0, <1>2, <2>1, <2>2 DEF Safe
<1>5. CASE OpenHead(s) \/ UnlinkHead(s)
  <2>1. /\ job[s].topic \in Topics /\ UNCHANGED tree
        /\ pc[s] \in {"sweep", "unlink"}
        /\ job[s].verb \in Writers \/ pc[s] = "unlink"
    BY <1>0, <1>5 DEF LocalInv, Prepared, TxnLabels, OpenHead, UnlinkHead, Swept, Writers
  <2>2. PICK c : wt' = Put(wt, job[s].topic, c)
    BY <1>5 DEF OpenHead, UnlinkHead
  <2>3. \A t \in Topics : t # job[s].topic => wt'[t] = wt[t]
    BY <1>0, <2>1, <2>2, PutAt, PathParts DEF Data
  <2>4. WorkOf(s) = {}
    BY <1>0, <2>1 DEF WorkOf, Working, Changing, LocalInv, Writers
  <2>5. job[s].topic \in WorkOf(s)' /\ InTxn(s)'
    <3>1. CASE OpenHead(s)
      <4> DEFINE j == [job[s] EXCEPT !.orig = wt[job[s].topic]]
      <4>1. j.topic = job[s].topic /\ j.verb = job[s].verb
        BY <1>0 DEF JobType
      <4>2. pc'[s] = "write" /\ job'[s] = j
        BY <1>0, <3>1 DEF OpenHead, Goto, SetJob, Control
      <4> QED BY <2>1, <3>1, <4>1, <4>2 DEF OpenHead, WorkOf, Working, Changing, InTxn, TxnLabels
    <3>2. CASE UnlinkHead(s)
      <4>1. pc'[s] = "menu" /\ job' = job /\ pc[s] = "unlink" /\ job[s].verb = "delete"
        BY <1>0, <3>2 DEF UnlinkHead, Goto, Control, LocalInv
      <4> QED BY <2>1, <4>1 DEF WorkOf, Working, InTxn, TxnLabels
    <3> QED BY <1>5, <3>1, <3>2
  <2>6. job[s].topic \in WorkedOn'
    BY <2>5 DEF WorkedOn
  <2> QED BY <1>0, <1>2, <2>1, <2>3, <2>4, <2>6 DEF Safe
<1>6. ASSUME NEW k \in Snaps, Snapshot(s, k) PROVE \A l \in owed' : Safe(l, WorkedOn)'
  <2>1. pc[s] = "sweep" /\ UNCHANGED tree /\ wt' = Put(wt, k, wt[job[s].topic])
    BY <1>6 DEF Snapshot, Swept
  <2>2. \A t \in Topics : wt'[t] = wt[t]
    BY <1>0, <2>1, PutAt, PathParts DEF Data
  <2>3. WorkOf(s) = {}
    BY <2>1 DEF WorkOf, Working, Changing
  <2> QED BY <1>0, <1>2, <2>1, <2>2, <2>3 DEF Safe
<1> QED BY <1>3, <1>4, <1>5, <1>6 DEF AbsorbAdd, AbsorbCommit, AbsorbFails, RefuseMoved, HeadGone,
           Swept

LEMMA LostWork ==
  ASSUME Gentle, IndInv, HistInv, LostInv, [Next]_vars, NEW s \in Sessions,
         WriteHead(s) \/ WriteMenu(s) \/ GitAdd(s) \/ GitFails(s)
  PROVE  \A l \in owed' : Safe(l, WorkedOn)'
<1>0. /\ Control /\ Data /\ UNCHANGED <<tree, owed, job>> /\ LocalInv(pc[s], job[s]) /\ InTxn(s)
      /\ pc[s] \in {"sweep", "write", "menu", "add", "commit"}
  BY IndSplit DEF Control, JobInv, WriteHead, WriteMenu, AtMenu, Swept, GitAdd, GitFails, InTxn,
     TxnLabels
<1>1. \A l \in owed : Safe(l, WorkOf(s))
  BY <1>0, LostInside
<1>2. PICK m \in {"add", "commit", "rollback"} : pc' = [pc EXCEPT ![s] = m]
  BY DEF WriteHead, WriteMenu, GitAdd, GitFails, Goto
<1>3. pc'[s] \in {"add", "commit", "rollback"}
  BY <1>0, <1>2 DEF Control
<1>4. WorkOf(s) \subseteq WorkOf(s)'
  BY <1>0, <1>3 DEF WorkOf, Working, Changing
<1>5. \A t \in Topics : wt'[t] = wt[t] \/ t \in WorkOf(s)'
  <2>1. CASE WriteHead(s)
    <3>1. job[s].verb \in Writers /\ job[s].topic \in Topics
      BY <1>0, <2>1 DEF LocalInv, Prepared, TxnLabels, WriteHead, Writers
    <3>2. \A t \in Topics : t # job[s].topic => wt'[t] = wt[t]
      BY <1>0, <2>1, <3>1, PutAt, PathParts DEF Data, WriteHead
    <3> QED BY <1>0, <1>3, <3>1, <3>2 DEF WorkOf, Working, Changing
  <2>2. CASE WriteMenu(s)
    BY <1>0, <2>2, PutAt, PathParts DEF Data, WriteMenu
  <2>3. CASE GitAdd(s) \/ GitFails(s)
    BY <2>3 DEF GitAdd, GitFails
  <2> QED BY <2>1, <2>2, <2>3
<1>6. WorkOf(s)' \subseteq WorkedOn'
  BY DEF WorkedOn
<1> QED BY <1>0, <1>1, <1>4, <1>5, <1>6 DEF Safe

LEMMA LostRollback ==
  ASSUME Gentle, IndInv, HistInv, LostInv, [Next]_vars, NEW s \in Sessions, Rollback(s)
  PROVE  \A l \in owed' : Safe(l, WorkedOn)'
<1>0. UNCHANGED <<tree, owed>> /\ InTxn(s) /\ pc[s] = "rollback" /\ HoldOf(s)
      /\ job[s].verb \in Verbs \cup {"none"}
  BY DEF Rollback, InTxn, TxnLabels, HistInv, Holds, Gentle, LostInv
<1>1. \A l \in owed : Safe(l, WorkOf(s))
  BY <1>0, LostInside
<1>2. \A t \in Topics : \/ wt'[t] = wt[t] /\ t \notin WorkOf(s)
                        \/ wt'[t] = tree[t]
  <2>1. CASE job[s].verb \in Writers
    <3>1. NeedsHead(job[s].verb)
      BY <1>0, <2>1, ConstantsAssumption DEF Gentle, Writers, NeedsHead, VerbNames
    <3>2. job[s].orig = tree[job[s].topic]
      BY <1>0, <2>1, <3>1 DEF HoldOf, Changing
    <3> QED BY <2>1, <3>2, RestoredAt, PathParts DEF WorkOf, Working
  <2>2. CASE job[s].verb = "delete"
    <3>1. wt[job[s].snap] = tree[job[s].topic]
      BY <1>0, <2>2 DEF HoldOf, Archivers, Archiving
    <3> QED BY <2>2, <3>1, RestoredAt, PathParts DEF WorkOf, Working
  <2>3. CASE job[s].verb \in {"finalize", "compact", "autofix"}
    BY <2>3, RestoredAt, PathParts DEF WorkOf, Working, Writers
  <2> QED BY <2>1, <2>2, <2>3, RestoredAt
<1> QED BY <1>0, <1>1, <1>2 DEF Safe

LEMMA LostCommit ==
  ASSUME Gentle, IndInv, HistInv, LostInv, [Next]_vars, NEW s \in Sessions, GitCommit(s)
  PROVE  \A l \in owed' : Safe(l, WorkedOn)'
<1>0. /\ InTxn(s) /\ pc[s] = "commit" /\ Kept(s) /\ HoldOf(s) /\ wt' = wt
      /\ job[s].verb \in Verbs /\ job[s].verb \notin {"new", "rewrite", "compact", "trim"}
      /\ owed' \subseteq owed \cup Landed(job[s])
      /\ job[s] \in JobType /\ LocalInv(pc[s], job[s])
  <2>1. job[s].verb \in Verbs /\ job[s].verb \notin {"new", "rewrite", "compact", "trim"}
    BY CommittedAt, ConstantsAssumption DEF LostInv, Gentle, Writers, VerbNames
  <2> QED BY <2>1, IndSplit DEF GitCommit, InTxn, TxnLabels, HistInv, Holds, Gentle, Control, JobInv
<1>1. \A l \in owed : Safe(l, WorkOf(s))
  BY <1>0, LostInside
<1>2. \A k \in Snaps : UpdatesOf(tree[k]) \subseteq UpdatesOf(tree'[k])
  BY SnapsKeep
<1>3. CASE job[s].verb \in {"update", "essence"}
  <2> DEFINE j == job[s]
             x == job[s].topic
  <2>1. /\ x \in Topics /\ \A q \in Path : tree'[q] = IF q = x THEN wt[x] ELSE tree[q]
    BY <1>3, CommittedAt DEF Writers
  <2>2. /\ wt[x] = NewText(j) /\ j.orig = tree[x] /\ j.orig \in HeadFile
        /\ j.verb \in Writers /\ j.verb # "rewrite"
    BY <1>0, <1>3 DEF HoldOf, Changing, Writers, NeedsHead
  <2>3. UpdatesOf(tree[x]) \subseteq UpdatesOf(wt[x]) /\ Landed(j) \subseteq UpdatesOf(wt[x])
    BY <1>0, <1>3, <2>2, NewTextLines DEF Landed
  <2>4. \A t \in Topics : UpdatesOf(tree[t]) \subseteq UpdatesOf(tree'[t])
    BY <2>1, <2>3, PathParts
  <2>5. tree'[x] = wt[x] /\ wt'[x] = wt[x] /\ \A t \in WorkOf(s) : t = x
    BY <1>0, <2>1, PathParts DEF WorkOf, Working
  <2>6. ASSUME NEW l \in owed PROVE Safe(l, WorkedOn)'
    <3>1. CASE l \in UpdatesOf(tree[x])
      BY <2>1, <2>3, <2>5, <3>1 DEF Safe
    <3>2. CASE l \notin UpdatesOf(tree[x])
      <4>1. Safe(l, WorkOf(s))
        BY <1>1
      <4> QED BY <1>0, <1>2, <2>4, <2>5, <3>2, <4>1 DEF Safe
    <3> QED BY <3>1, <3>2
  <2>7. \A l \in Landed(j) : Safe(l, WorkedOn)'
    BY <2>1, <2>3, <2>5 DEF Safe
  <2> QED BY <1>0, <2>6, <2>7
<1>4. CASE job[s].verb \in {"finalize", "delete", "autofix"}
  <2>1. owed' \subseteq owed
    BY <1>0, <1>4 DEF Landed
  <2>2. CASE job[s].verb = "delete"
    <3> DEFINE x == job[s].topic
    <3>1. x \in Topics /\ job[s].snap \in Snaps
          /\ \A q \in Path : tree'[q] = IF q \in {job[s].snap, x, IndexMd} THEN wt[q] ELSE tree[q]
      BY <2>2, CommittedAt DEF Writers
    <3>2. tree'[job[s].snap] = tree[x]
      BY <1>0, <2>2, <3>1, PathParts DEF HoldOf, Archivers, Archiving
    <3>3. \A t \in Topics : t # x => tree'[t] = tree[t] /\ t \notin WorkOf(s)
      BY <3>1, PathParts DEF WorkOf, Working
    <3> QED BY <1>0, <1>1, <1>2, <2>1, <3>1, <3>2, <3>3 DEF Safe
  <2>3. CASE job[s].verb # "delete"
    <3>1. \A t \in Topics : tree'[t] = tree[t] /\ t \notin WorkOf(s)
      BY <1>4, <2>3, CommittedAt, PathParts DEF Writers, WorkOf, Working
    <3> QED BY <1>0, <1>1, <1>2, <2>1, <3>1 DEF Safe
  <2> QED BY <2>2, <2>3
<1> QED BY <1>0, <1>3, <1>4, CommittedAt DEF Writers

LEMMA LostStep ==
  ASSUME Gentle, IndInv, HistInv, LostInv, [Next]_vars
  PROVE  LostInv'
<1> DEFINE AllSafe == \A l \in owed' : Safe(l, WorkedOn)'
<1> HIDE DEF AllSafe
<1>1. \A s \in Sessions : job'[s].verb \in Verbs \cup {"none"}
  BY JobAt DEF JobStep, Begun, NoJob, LostInv, Gentle
<1>2. ASSUME NEW s \in Sessions, Call(s) \/ BeginRewrite(s)
      PROVE  AllSafe
  BY <1>2, LostBefore DEF AllSafe
<1>3. ASSUME NEW s \in Sessions PROVE ~Kill(s) /\ ~DiskFails(s)
  <2>1. used.kills \in Nat /\ used.disk \in Nat
    BY IndSplit DEF Data, Counters
  <2> QED BY <2>1 DEF Gentle, Kill, DiskFails
<1>4. ASSUME NEW s \in Sessions, Step(s) PROVE AllSafe
  <2>1. CASE \/ PreCheckUpdate(s) \/ WriteReindex(s)
             \/ AcquireLock(s) \/ LockTimeout(s) \/ Enter(s)
    BY <2>1, LostBefore DEF AllSafe
  <2>2. CASE \/ (\E t \in Topics : AbsorbAdd(s, t)) \/ AbsorbCommit(s) \/ AbsorbFails(s)
             \/ RefuseMoved(s) \/ HeadGone(s) \/ NoChange(s) \/ OpenHead(s) \/ UnlinkHead(s)
             \/ (\E k \in Snaps : Snapshot(s, k))
    BY <2>2, LostSweep DEF AllSafe
  <2>3. CASE WriteHead(s) \/ WriteMenu(s) \/ GitAdd(s) \/ GitFails(s)
    BY <2>3, LostWork DEF AllSafe
  <2>4. CASE Rollback(s)
    BY <2>4, LostRollback DEF AllSafe
  <2>5. CASE GitCommit(s)
    BY <2>5, LostCommit DEF AllSafe
  <2> QED BY <1>3, <1>4, <2>1, <2>2, <2>3, <2>4, <2>5 DEF Step
<1>5. ASSUME NEW t \in Topics, EditHead(t) \/ StageByHand(t)
      PROVE  AllSafe
  BY <1>5, LostEdits DEF AllSafe
<1>6. ASSUME vars' = vars PROVE AllSafe
  <2>1. WorkedOn' = WorkedOn
    BY <1>6 DEF vars, WorkedOn, WorkOf, Working
  <2> QED BY <1>6, <2>1 DEF vars, LostInv, Safe, AllSafe
<1>7. AllSafe
  <2>1. \/ \E s \in Sessions : Call(s) \/ BeginRewrite(s) \/ Step(s)
        \/ \E t \in Topics : EditHead(t) \/ StageByHand(t)
        \/ vars' = vars
    BY <1>3 DEF Next
  <2>2. ASSUME NEW s \in Sessions, Call(s) \/ BeginRewrite(s) \/ Step(s)
        PROVE  AllSafe
    <3>1. CASE Call(s) \/ BeginRewrite(s)
      BY <3>1, <1>2
    <3>2. CASE Step(s)
      BY <3>2, <1>4
    <3> QED BY <2>2, <3>1, <3>2
  <2>3. CASE \E s \in Sessions : Call(s) \/ BeginRewrite(s) \/ Step(s)
    <3>1. PICK s \in Sessions : Call(s) \/ BeginRewrite(s) \/ Step(s)
      BY <2>3
    <3> QED BY <3>1, <2>2
  <2>4. CASE \E t \in Topics : EditHead(t) \/ StageByHand(t)
    <3>1. PICK t \in Topics : EditHead(t) \/ StageByHand(t)
      BY <2>4
    <3> QED BY <3>1, <1>5
  <2>5. CASE vars' = vars
    BY <2>5, <1>6
  <2> QED BY <2>1, <2>3, <2>4, <2>5
<1> QED BY <1>1, <1>7 DEF LostInv, AllSafe

\* If nobody edits a HEAD inside a lock hold, no verb is killed and no disk write fails, then
\* with update, essence, finalize, delete, autofix and reindex, and any git failure, lock
\* timeout and rollback, a landed update-line is never lost (_execute_write, delete,
\* _rollback).
THEOREM LandedLinesStay == Gentle /\ Spec => []NothingLost
<1>1. Gentle /\ [Next]_vars => Gentle'
  BY DEF Gentle, Quiet
<1>2. Gentle /\ IndInv /\ HistInv /\ LostInv /\ [Next]_vars => LostInv'
  BY LostStep
<1>3. LostInv => NothingLost
  BY DEF LostInv, Safe, NothingLost
<1> QED BY <1>1, <1>2, <1>3, LostInit, HistAlways, PTL DEF Spec

-----------------------------------------------------------------------------
(* The committed menu.  INDEX.md is on disk as the archiver derived it from the HEADs  *)
(* until it is committed; the two verbs that write an INDEX.md computed earlier are left *)
(* out: `qq reindex` takes no lock, the autofix computes before it has it.              *)

Derived == Quiet /\ Verbs \cap {"autofix", "reindex"} = {}

MenuInv ==
  /\ \A s \in Sessions : job[s].verb \in Verbs \cup {"trim", "none"}
  /\ \A s \in Sessions : pc[s] \in {"add", "commit"} /\ job[s].verb \in Archivers
                           => wt[IndexMd] = MenuOf(wt)

LEMMA MenuInit == Init => MenuInv
BY DEF Init, MenuInv, NoJob

\* a session outside the transaction leaves the one inside and the disk alone
LEMMA MenuOther ==
  ASSUME IndInv, NEW s \in Sessions, InTxn(s), NEW u \in Sessions \ {s}, job[u].verb # "reindex",
         Call(u) \/ BeginRewrite(u) \/ Step(u) \/ Kill(u)
  PROVE  pc'[s] = pc[s] /\ job'[s] = job[s] /\ wt' = wt
<1>0. Control /\ pc[u] \notin TxnLabels /\ pc[u] # "reindex"
  BY IndSplit, Alone DEF Control, JobInv, LocalInv
<1>1. CASE Call(u)
  BY <1>0, <1>1 DEF Control, Call, BeginUpdate, BeginNew, BeginEssence, ShowForRewrite,
     BeginArchive, BeginCompact, BeginAutofix, BeginReindex, Wait, Goto, SetJob
<1>2. CASE PreCheckUpdate(u) \/ BeginRewrite(u)
  BY <1>0, <1>2 DEF Control, PreCheckUpdate, BeginRewrite, Return, Wait, Goto, SetJob
<1>3. CASE AcquireLock(u) \/ LockTimeout(u)
  BY <1>0, <1>3 DEF Control, AcquireLock, LockTimeout, Return, Goto, SetJob
<1>4. CASE Kill(u)
  BY <1>0, <1>4 DEF Control, Kill, HalfWritten, AtMenu, Swept, TxnLabels, Return, Goto, SetJob
<1>5. CASE \/ Enter(u) \/ (\E t \in Topics : AbsorbAdd(u, t)) \/ AbsorbCommit(u) \/ AbsorbFails(u)
           \/ RefuseMoved(u) \/ HeadGone(u) \/ DiskFails(u) \/ WriteReindex(u)
  BY <1>0, <1>5 DEF Enter, AbsorbAdd, AbsorbCommit, AbsorbFails, RefuseMoved, HeadGone, DiskFails,
     WriteReindex, Swept, TxnLabels
<1>6. CASE \/ OpenHead(u) \/ WriteHead(u) \/ (\E k \in Snaps : Snapshot(u, k)) \/ UnlinkHead(u)
           \/ WriteMenu(u) \/ GitAdd(u) \/ NoChange(u) \/ GitCommit(u) \/ GitFails(u) \/ Rollback(u)
  BY <1>0, <1>6 DEF OpenHead, WriteHead, Snapshot, UnlinkHead, WriteMenu, AtMenu, GitAdd, NoChange,
     GitCommit, GitFails, Rollback, Swept, TxnLabels
<1> QED BY <1>1, <1>2, <1>3, <1>4, <1>5, <1>6 DEF Step

\* a step of one session leaves the label of the others alone
LEMMA OtherLabel ==
  ASSUME Control, NEW s \in Sessions, NEW u \in Sessions \ {s},
         Call(u) \/ BeginRewrite(u) \/ Step(u) \/ Kill(u)
  PROVE  pc'[s] = pc[s]
<1>1. CASE Call(u)
  BY <1>1 DEF Control, Call, BeginUpdate, BeginNew, BeginEssence, ShowForRewrite,
     BeginArchive, BeginCompact, BeginAutofix, BeginReindex, Wait, Goto, SetJob
<1>2. CASE BeginRewrite(u) \/ Kill(u)
  BY <1>2 DEF Control, BeginRewrite, Kill, Return, Wait, Goto, SetJob
<1>3. CASE Step(u)
  BY <1>3 DEF Control, Step, PreCheckUpdate, WriteReindex, AcquireLock, LockTimeout, Enter,
     AbsorbAdd, AbsorbCommit, AbsorbFails, RefuseMoved, HeadGone, DiskFails, OpenHead, WriteHead,
     Snapshot, UnlinkHead, WriteMenu, GitAdd, NoChange, GitCommit, GitFails, Rollback,
     Return, Wait, Goto, SetJob
<1> QED BY <1>1, <1>2, <1>3

\* an archiver reaches its commit through the write of INDEX.md
LEMMA MenuOwn ==
  ASSUME IndInv, NEW s \in Sessions, Call(s) \/ BeginRewrite(s) \/ Step(s) \/ Kill(s),
         pc'[s] \in {"add", "commit"}, job'[s].verb \in Archivers
  PROVE  WriteMenu(s) \/ GitAdd(s)
<1>0. Control
  BY IndSplit
<1>1. CASE Call(s)
  BY <1>0, <1>1 DEF Control, Call, BeginUpdate, BeginNew, BeginEssence, ShowForRewrite,
     BeginArchive, BeginCompact, BeginAutofix, BeginReindex, Begin, Wait, Goto, SetJob
<1>2. CASE PreCheckUpdate(s) \/ BeginRewrite(s) \/ WriteReindex(s)
  BY <1>0, <1>2 DEF Control, PreCheckUpdate, BeginRewrite, WriteReindex, Return, Wait, Goto, SetJob
<1>3. CASE AcquireLock(s) \/ LockTimeout(s) \/ Enter(s) \/ Kill(s) \/ DiskFails(s)
  BY <1>0, <1>3 DEF Control, AcquireLock, LockTimeout, Enter, Kill, DiskFails, Return, Goto, SetJob
<1>4. CASE \/ (\E t \in Topics : AbsorbAdd(s, t)) \/ AbsorbCommit(s) \/ AbsorbFails(s)
           \/ RefuseMoved(s) \/ HeadGone(s)
  BY <1>0, <1>4 DEF Control, AbsorbAdd, AbsorbCommit, AbsorbFails, RefuseMoved, HeadGone, Return,
     Goto, SetJob
<1>5. CASE OpenHead(s) \/ (\E k \in Snaps : Snapshot(s, k)) \/ UnlinkHead(s)
  BY <1>0, <1>5 DEF Control, OpenHead, Snapshot, UnlinkHead, Goto, SetJob
<1>6. CASE NoChange(s) \/ GitCommit(s) \/ GitFails(s) \/ Rollback(s)
  BY <1>0, <1>6 DEF Control, NoChange, GitCommit, GitFails, Rollback, Return, Wait, Goto, SetJob
<1>7. CASE WriteHead(s)
  <2>1. job'[s].verb \in Writers
    BY <1>0, <1>7 DEF Control, JobInv, LocalInv, WriteHead
  <2> QED BY <2>1 DEF Writers, Archivers
<1> QED BY <1>1, <1>2, <1>3, <1>4, <1>5, <1>6, <1>7 DEF Step

LEMMA MenuStep == Derived /\ IndInv /\ MenuInv /\ [Next]_vars => MenuInv'
<1> SUFFICES ASSUME Derived, IndInv, MenuInv, [Next]_vars PROVE MenuInv'
  OBVIOUS
<1>0. Control /\ Data
  BY IndSplit
<1>1. \A s \in Sessions : job'[s].verb \in Verbs \cup {"trim", "none"}
  BY JobAt DEF JobStep, Begun, NoJob, MenuInv
<1>2. \A u \in Sessions : job[u].verb # "reindex"
  BY DEF MenuInv, Derived
<1>3. ASSUME NEW s \in Sessions, pc'[s] \in {"add", "commit"}, job'[s].verb \in Archivers
      PROVE  wt'[IndexMd] = MenuOf(wt')
  <2> DEFINE Same == pc[s] \in {"add", "commit"} /\ job[s].verb \in Archivers /\ wt' = wt
  <2>1. Same => wt'[IndexMd] = MenuOf(wt')
    BY DEF MenuInv
  <2>2. CASE WriteMenu(s)
    <3>1. \A q \in Path : wt'[q] = IF q = IndexMd THEN MenuOf(wt) ELSE wt[q]
      BY <1>0, <1>3, <2>2, PutAt, PathParts DEF WriteMenu, Data, Archivers
    <3>2. MenuOf(wt') = MenuOf(wt)
      BY <3>1, PathParts DEF MenuOf
    <3> QED BY <3>1, <3>2, PathParts
  <2>3. CASE GitAdd(s)
    <3>1. Same
      BY <1>3, <2>3 DEF GitAdd
    <3> QED BY <2>1, <3>1
  <2>4. CASE Call(s) \/ BeginRewrite(s) \/ Step(s) \/ Kill(s)
    BY <1>3, <2>2, <2>3, <2>4, MenuOwn
  <2>5. ASSUME NEW u \in Sessions \ {s}, Call(u) \/ BeginRewrite(u) \/ Step(u) \/ Kill(u)
        PROVE  wt'[IndexMd] = MenuOf(wt')
    <3>1. CASE InTxn(s)
      <4>1. Same
        BY <1>2, <1>3, <2>5, <3>1, MenuOther
      <4> QED BY <2>1, <4>1
    <3>2. CASE ~InTxn(s)
      <4>1. pc'[s] = pc[s]
        BY <1>0, <2>5, OtherLabel
      <4> QED BY <1>3, <3>2, <4>1 DEF InTxn, TxnLabels
    <3> QED BY <3>1, <3>2
  <2>6. CASE \E t \in Topics : EditHead(t) \/ StageByHand(t)
    <3>1. lock = Nobody /\ pc' = pc
      BY <2>6 DEF EditHead, StageByHand, MayEdit, Derived, Quiet
    <3> QED BY <1>0, <1>3, <3>1, ConstantsAssumption DEF Control, LockInv, InTxn, TxnLabels
  <2>7. CASE vars' = vars
    <3>1. Same
      BY <1>3, <2>7 DEF vars
    <3> QED BY <2>1, <3>1
  <2> HIDE DEF Same
  <2>8. CASE \E u \in Sessions : Call(u) \/ BeginRewrite(u) \/ Step(u) \/ Kill(u)
    BY <2>4, <2>5, <2>8
  <2> QED BY <2>6, <2>7, <2>8 DEF Next
<1> QED BY <1>1, <1>3 DEF MenuInv

\* Whenever finalize, compact or delete commits INDEX.md, it is the index of the HEADs of
\* that very commit, whatever other sessions, refusals, git failures and crashes do, as
\* long as nobody edits inside a lock hold and neither autofix nor reindex runs.
THEOREM MenuIsFresh == Derived /\ Spec => MenuCommittedFresh
<1>1. Derived /\ [Next]_vars => Derived'
  BY DEF Derived, Quiet
<1>2. ASSUME Derived, IndInv, HistInv, MenuInv, [Next]_vars, tree'[IndexMd] # tree[IndexMd]
      PROVE  tree'[IndexMd] = MenuOf(tree')
  <2>1. ASSUME NEW s \in Sessions, AbsorbCommit(s) PROVE FALSE
    BY <1>2, <2>1, AbsorbedAt, PathParts
  <2>2. PICK s \in Sessions : GitCommit(s)
    BY <1>2, <2>1, OnlyCommits
  <2>3. job[s].verb # "autofix" /\ pc[s] = "commit" /\ HoldOf(s)
    BY <1>2, <2>2 DEF Derived, MenuInv, HistInv, Holds, GitCommit
  <2>4. job[s].verb \in Archivers
    BY <1>2, <2>2, <2>3, CommittedAt, PathParts DEF Archivers
  <2>5. tree'[IndexMd] = wt[IndexMd] /\ wt[IndexMd] = MenuOf(wt)
    BY <1>2, <2>2, <2>3, <2>4, CommittedAt, PathParts DEF MenuInv, Writers, Archivers
  <2>6. \A t \in Topics : tree'[t] = wt[t]
    <3>1. \A t \in Topics : wt[t] = IF job[s].verb = "delete" /\ t = job[s].topic
                                    THEN Absent ELSE tree[t]
      BY <2>3, <2>4 DEF HoldOf, Archiving, Sweepers
    <3> QED BY <1>2, <2>2, <2>4, <3>1, CommittedAt, PathParts DEF Writers, Archivers
  <2>7. MenuOf(tree') = MenuOf(wt)
    BY <2>6 DEF MenuOf
  <2> QED BY <2>5, <2>7
<1>3. Derived /\ IndInv /\ HistInv /\ MenuInv /\ [Next]_vars =>
        [tree'[IndexMd] # tree[IndexMd] => tree'[IndexMd] = MenuOf(tree')]_vars
  BY <1>2
<1>4. Derived /\ Spec => [][tree'[IndexMd] # tree[IndexMd] => tree'[IndexMd] = MenuOf(tree')]_vars
  BY <1>1, <1>3, MenuInit, MenuStep, HistAlways, PTL DEF Spec
<1> QED BY <1>4 DEF MenuCommittedFresh
=============================================================================
