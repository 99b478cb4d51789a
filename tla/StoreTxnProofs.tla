---------------------------- MODULE StoreTxnProofs ----------------------------
(* Proofs about StoreTxn, for every value of its constants: types and the lock, *)
(* then the authoring gate and the rollbacks.                                  *)
EXTENDS StoreTxn, SequenceTheorems, TLAPS

(* Data *)

LEMMA ConstantHeads == Torn \in HeadFile /\ Seed \in HeadFile /\ NoLine \in Line
BY DEF Torn, Seed, HeadFile, Line, NoLine, SeedLine

LEMMA TrimType == ASSUME NEW c \in HeadFile PROVE Trim(c) \in HeadFile
<1> DEFINE n == IF Len(c.upd) < KeepN THEN Len(c.upd) ELSE KeepN
<1>1. c.upd \in Seq(Line) /\ c.ess \in Line
  BY DEF HeadFile
<1>2. n \in Nat /\ n <= Len(c.upd)
  BY <1>1, LenProperties, ConstantsAssumption
<1>3. SubSeq(c.upd, 1, n) \in Seq(Line)
  <2> HIDE DEF n
  <2> QED BY <1>1, <1>2, SubSeqProperties
<1> QED BY <1>1, <1>3 DEF Trim, HeadFile

LEMMA PrependType ==
  ASSUME NEW c \in HeadFile, NEW l \in Line
  PROVE  [c EXCEPT !.upd = <<l>> \o @] \in HeadFile
<1>1. c.upd \in Seq(Line) /\ c.ess \in Line
  BY DEF HeadFile
<1>2. <<l>> \o c.upd \in Seq(Line)
  BY <1>1, ConcatProperties
<1> QED BY <1>1, <1>2 DEF HeadFile

LEMMA EntryType == ASSUME NEW c \in HeadFile \cup {Absent} PROVE EntryOf(c) \in Entry
<1>1. CASE c = Absent
  BY <1>1, ConstantHeads DEF EntryOf, NoEntry, Entry
<1>2. CASE c # Absent
  <2>1. c.upd \in Seq(Line) /\ c.ess \in Line
    BY <1>2 DEF HeadFile
  <2>2. c.upd # <<>> => c.upd[1] \in Line
    BY <2>1
  <2> QED BY <1>2, <2>1, <2>2, ConstantHeads DEF EntryOf, Entry
<1> QED BY <1>1, <1>2

LEMMA MenuType == ASSUME NEW area, AreaOK(area) PROVE MenuOf(area) \in Menu
BY EntryType DEF MenuOf, Menu, AreaOK

LEMMA NewTextType ==
  ASSUME NEW j \in JobType, j.verb \in Writers,
         j.verb = "rewrite" => j.seen \in HeadFile,
         NeedsHead(j.verb) => j.orig \in HeadFile
  PROVE  NewText(j) \in HeadFile
<1>1. CASE j.verb = "update"
  BY <1>1, PrependType DEF NewText, NeedsHead, JobType
<1>2. CASE j.verb = "new"
  BY <1>2 DEF NewText, JobType, HeadFile
<1>3. CASE j.verb = "rewrite"
  BY <1>3 DEF NewText, JobType, HeadFile
<1>4. CASE j.verb = "essence"
  BY <1>4 DEF NewText, NeedsHead, JobType, HeadFile
<1>5. CASE j.verb = "trim"
  BY <1>5, TrimType DEF NewText, NeedsHead
<1> QED BY <1>1, <1>2, <1>3, <1>4, <1>5 DEF Writers

-----------------------------------------------------------------------------
(* The inductive invariant: which verb can be at which step, with which locals *)

Lockers == Writers \cup Sweepers        \* the verbs that take the lock
Prepared(j) ==
  /\ j.verb # "autofix" => j.topic \in Topics
  /\ j.verb = "rewrite" => j.seen \in HeadFile

LocalInv(l, j) ==
  /\ l = "gated" => j.verb = "update" /\ Prepared(j)
  /\ l = "composing" => j.verb = "rewrite" /\ Prepared(j)
  /\ l = "reindex" => j.verb = "reindex"
  /\ l = "wait" \/ l \in TxnLabels => j.verb \in Lockers /\ Prepared(j)
  /\ l = "absorb" => j.cur \in Topics
  /\ l = "write" => /\ j.verb \in Writers
                    /\ NeedsHead(j.verb) => j.orig \in HeadFile
  /\ l = "unlink" => j.verb = "delete"
  /\ l = "menu" => j.verb \in Archivers
  /\ l \in {"unlink", "menu", "add", "commit", "rollback"} /\ j.verb \in Archivers
       => j.snap \in Snaps

JobInv == \A s \in Sessions : LocalInv(pc[s], job[s])

IndInv == TypeOK /\ JobInv /\ LockInv

LEMMA InitInd == Init => IndInv
<1> SUFFICES ASSUME Init PROVE IndInv
  OBVIOUS
<1>1. TypeOK
  <2>1. NoJob \in JobType
    BY ConstantHeads DEF NoJob, JobType, NoMenu, Menu, NoEntry, Entry
  <2>2. AreaOK(wt)
    <3>1. [t \in Topics |-> EntryOf(IF t \in Born THEN Seed ELSE Absent)] \in Menu
      BY EntryType, ConstantHeads DEF Menu
    <3> QED BY <3>1, ConstantHeads, ConstantsAssumption DEF Init, AreaOK, Path
  <2> QED BY <2>1, <2>2 DEF Init, TypeOK, Labels, Line, Counters
<1>2. JobInv /\ LockInv
  BY ConstantsAssumption DEF Init, JobInv, LocalInv, LockInv, InTxn, TxnLabels
<1> QED BY <1>1, <1>2 DEF IndInv

-----------------------------------------------------------------------------
(* Frames: what is left to show of an action once its effect on the session is known *)

Control == /\ lock \in Sessions \cup {Nobody} /\ pc \in [Sessions -> Labels]
           /\ job \in [Sessions -> JobType] /\ JobInv /\ LockInv

\* a session moves to label l with locals j, and holds the lock exactly inside its
\* transaction; nobody else's lock changes
LEMMA MoveControl ==
  ASSUME Control, NEW s \in Sessions, NEW l \in Labels, NEW j \in JobType,
         pc' = [pc EXCEPT ![s] = l], job' = [job EXCEPT ![s] = j], LocalInv(l, j),
         lock' \in {lock, s, Nobody},
         lock' = s <=> l \in TxnLabels,
         lock' # lock => lock \in {s, Nobody}
  PROVE  Control'
BY ConstantsAssumption DEF Control, JobInv, LockInv, InTxn

\* the verb returns
LEMMA ReturnControl ==
  ASSUME Control, NEW s \in Sessions, Return(s)
  PROVE  Control'
<1>1. NoJob \in JobType
  BY ConstantHeads DEF NoJob, JobType, NoMenu, Menu, NoEntry, Entry
<1>2. LocalInv("idle", NoJob)
  BY DEF LocalInv, TxnLabels
<1>3. lock' \in {lock, s, Nobody} /\ lock' # s /\ (lock' # lock => lock \in {s, Nobody})
  BY ConstantsAssumption DEF Return
<1> QED
  BY <1>1, <1>2, <1>3, MoveControl DEF Return, Goto, SetJob, Labels, TxnLabels

LEMMA PutHead ==
  ASSUME NEW area, AreaOK(area), NEW p \in Topics \cup Snaps, NEW c \in HeadFile \cup {Absent}
  PROVE  AreaOK(Put(area, p, c))
BY ConstantsAssumption DEF AreaOK, Put, Path

LEMMA PutMenu ==
  ASSUME NEW area, AreaOK(area), NEW m \in Menu
  PROVE  AreaOK(Put(area, IndexMd, m))
BY ConstantsAssumption DEF AreaOK, Put, Path

LEMMA StageType ==
  ASSUME AreaOK(wt), AreaOK(idx), NEW P, Stage(P)
  PROVE  AreaOK(idx')
BY DEF AreaOK, Stage, Path

LEMMA CommitType ==
  ASSUME AreaOK(wt), AreaOK(idx), AreaOK(tree), NEW P, Commit(P)
  PROVE  AreaOK(idx') /\ AreaOK(tree')
<1>1. AreaOK(idx')
  BY StageType DEF Commit
<1>2. AreaOK(tree')
  BY DEF AreaOK, Commit, Path
<1> QED BY <1>1, <1>2

LEMMA CountType ==
  ASSUME used \in [Counters -> Nat],
         NEW k \in Counters, Count(k)
  PROVE  used' \in [Counters -> Nat]
BY DEF Count

-----------------------------------------------------------------------------
(* The data half of the invariant, and typing facts of what the actions write *)

Data == /\ AreaOK(wt) /\ AreaOK(idx) /\ AreaOK(tree)
        /\ tip \in [op : VerbNames \cup {"trim", "none", "absorb"}, topic : Topics \cup {Nobody}]
        /\ queue \subseteq Line /\ absorbed \subseteq Line /\ owed \subseteq Line
        /\ foreign \subseteq Topics
        /\ used \in [Counters -> Nat]

LEMMA IndSplit == IndInv <=> Control /\ Data
BY DEF IndInv, TypeOK, Control, Data

LEMMA IndJoin == Control' /\ Data' => IndInv'
BY DEF IndInv, TypeOK, Control, Data

LEMMA MintType ==
  ASSUME used \in [Counters -> Nat], NEW w \in Sessions \cup {Editor}
  PROVE  Mint(w) \in Line
BY DEF Mint, Line, Counters

LEMMA LinesType ==
  ASSUME NEW c \in HeadFile \cup {Absent}
  PROVE  LinesOf(c) \subseteq Line /\ UpdatesOf(c) \subseteq Line
<1>1. CASE c = Absent
  BY <1>1 DEF LinesOf, UpdatesOf
<1>2. CASE c # Absent
  <2>1. c.upd \in Seq(Line) /\ c.ess \in Line
    BY <1>2 DEF HeadFile
  <2>2. \A i \in DOMAIN c.upd : c.upd[i] \in Line
    BY <2>1
  <2> QED BY <1>2, <2>1, <2>2 DEF LinesOf, UpdatesOf
<1> QED BY <1>1, <1>2

LEMMA JobIsTyped ==
  ASSUME NEW v \in VerbNames \cup {"trim"}, NEW t \in Topics \cup {Nobody}, NEW l \in Line
  PROVE  Job(v, t, l) \in JobType
<1>1. NoJob \in JobType
  BY ConstantHeads DEF NoJob, JobType, NoMenu, Menu, NoEntry, Entry
<1>2. Job(v, t, l).verb = v /\ Job(v, t, l).topic = t /\ Job(v, t, l) = [NoJob EXCEPT !.verb = v, !.topic = t, !.text = l]
  BY DEF Job, NoJob
<1> QED BY <1>1, <1>2 DEF JobType

LEMMA AreaAt ==
  ASSUME NEW area, AreaOK(area)
  PROVE  /\ \A p \in Topics \cup Snaps : area[p] \in HeadFile \cup {Absent}
         /\ area[IndexMd] \in Menu
BY DEF AreaOK

\* a session moves between two steps outside the transaction, or two inside it
LEMMA MoveWithin ==
  ASSUME Control, NEW s \in Sessions, NEW l \in Labels, NEW j \in JobType,
         Goto(s, l), SetJob(s, j), UNCHANGED lock, LocalInv(l, j),
         pc[s] \in TxnLabels <=> l \in TxnLabels
  PROVE  Control'
<1>1. lock = s <=> l \in TxnLabels
  BY DEF Control, LockInv, InTxn
<1> QED BY <1>1, MoveControl DEF Goto, SetJob

LEMMA GotoWithin ==
  ASSUME Control, NEW s \in Sessions, NEW l \in Labels,
         Goto(s, l), UNCHANGED <<job, lock>>, LocalInv(l, job[s]),
         pc[s] \in TxnLabels <=> l \in TxnLabels
  PROVE  Control'
<1>1. SetJob(s, job[s]) /\ job[s] \in JobType
  BY DEF SetJob, Control
<1> QED BY <1>1, MoveWithin

LEMMA SetJobWithin ==
  ASSUME Control, NEW s \in Sessions, NEW j \in JobType,
         SetJob(s, j), UNCHANGED <<pc, lock>>, LocalInv(pc[s], j)
  PROVE  Control'
<1>1. Goto(s, pc[s]) /\ pc[s] \in Labels
  BY DEF Goto, Control
<1> QED BY <1>1, MoveWithin

LEMMA NobodyMoves ==
  ASSUME Control, UNCHANGED <<lock, pc, job>>
  PROVE  Control'
BY DEF Control, JobInv, LockInv, InTxn

LEMMA JobFields ==
  ASSUME NEW v, NEW t, NEW l
  PROVE  Job(v, t, l).verb = v /\ Job(v, t, l).topic = t
BY DEF Job, NoJob

-----------------------------------------------------------------------------
(* Each action preserves IndInv *)

USE DEF files, aux

LEMMA BeforeTheLock ==
  ASSUME IndInv, NEW s \in Sessions, NEW t \in Topics,
         \/ BeginUpdate(s, t) \/ BeginNew(s, t) \/ BeginEssence(s, t)
         \/ BeginArchive(s, t, "finalize") \/ BeginArchive(s, t, "delete")
         \/ BeginCompact(s, t)
  PROVE  IndInv'
<1>0. Control /\ Data
  BY IndSplit
<1>1. PICK v \in {"update", "new", "essence", "finalize", "delete", "compact"} : Begin(s, v)
  BY DEF BeginUpdate, BeginNew, BeginEssence, BeginArchive, BeginCompact
<1>2. Mint(s) \in Line /\ NoLine \in Line
  BY <1>0, MintType, ConstantHeads DEF Data
<1>3. Data'
  <2>1. used' \in [Counters -> Nat]
    BY <1>0, <1>1, CountType DEF Data, Begin, Counters
  <2>2. queue' \subseteq Line
    BY <1>0, <1>2 DEF Data, Divert, BeginUpdate, BeginNew, BeginEssence, BeginArchive, BeginCompact
  <2>3. UNCHANGED <<wt, idx, tree, tip, absorbed, foreign, owed>>
    BY DEF BeginUpdate, BeginNew, BeginEssence, BeginArchive, BeginCompact
  <2> QED BY <1>0, <2>1, <2>2, <2>3 DEF Data
<1>4. Control'
  <2>1. pc[s] = "idle" /\ UNCHANGED lock
    BY <1>1 DEF Begin, BeginUpdate, BeginNew, BeginEssence, BeginArchive, BeginCompact
  <2>2. CASE UNCHANGED <<pc, job>>
    BY <1>0, <2>1, <2>2, NobodyMoves
  <2>3. CASE Goto(s, "gated") /\ SetJob(s, Job("update", t, Mint(s)))
    <3> DEFINE j == Job("update", t, Mint(s))
    <3>1. j \in JobType /\ j.verb = "update" /\ j.topic = t
      BY <1>2, JobIsTyped, JobFields DEF VerbNames
    <3>2. LocalInv("gated", j)
      BY <3>1 DEF LocalInv, Prepared, TxnLabels
    <3> QED BY <1>0, <2>1, <2>3, <3>1, <3>2, MoveWithin DEF Labels, TxnLabels
  <2>4. CASE \E w \in {"new", "essence", "finalize", "delete", "compact"}, l \in Line :
               Wait(s, Job(w, t, l))
    <3>1. PICK w \in {"new", "essence", "finalize", "delete", "compact"}, l \in Line :
            Wait(s, Job(w, t, l))
      BY <2>4
    <3> DEFINE j == Job(w, t, l)
    <3>2. j \in JobType /\ j.verb = w /\ j.topic = t
      BY JobIsTyped, JobFields DEF VerbNames
    <3>3. LocalInv("wait", j)
      BY <3>2 DEF LocalInv, Prepared, TxnLabels, Lockers, Writers, Sweepers, Archivers
    <3> QED BY <1>0, <2>1, <3>1, <3>2, <3>3, MoveWithin DEF Wait, Labels, TxnLabels
  <2> QED BY <1>2, <2>2, <2>3, <2>4
        DEF BeginUpdate, BeginNew, BeginEssence, BeginArchive, BeginCompact
<1> QED BY <1>3, <1>4, IndJoin

LEMMA MoreBeforeTheLock ==
  ASSUME IndInv, NEW s \in Sessions,
         \/ BeginAutofix(s) \/ BeginReindex(s)
         \/ \E t \in Topics : ShowForRewrite(s, t)
  PROVE  IndInv'
<1>0. Control /\ Data /\ NoLine \in Line /\ Mint(s) \in Line
  BY IndSplit, MintType, ConstantHeads DEF Data
<1>1. PICK v \in {"autofix", "reindex", "rewrite"} : Begin(s, v)
  BY DEF BeginAutofix, BeginReindex, ShowForRewrite
<1>2. Data'
  <2>1. used' \in [Counters -> Nat]
    BY <1>0, <1>1, CountType DEF Data, Begin, Counters
  <2>2. UNCHANGED <<wt, idx, tree, tip, queue, absorbed, foreign, owed>>
    BY DEF BeginAutofix, BeginReindex, ShowForRewrite
  <2> QED BY <1>0, <2>1, <2>2 DEF Data
<1>3. Control'
  <2>1. pc[s] = "idle" /\ UNCHANGED lock
    BY <1>1 DEF Begin, BeginAutofix, BeginReindex, ShowForRewrite
  <2>2. CASE BeginAutofix(s)
    <3> DEFINE j == [Job("autofix", Nobody, NoLine) EXCEPT !.fresh = MenuOf(wt)]
    <3>1. Job("autofix", Nobody, NoLine) \in JobType /\ MenuOf(wt) \in Menu
      BY <1>0, JobIsTyped, MenuType DEF VerbNames, Data
    <3>2. j \in JobType /\ j.verb = "autofix"
      BY <3>1, JobFields DEF JobType
    <3>3. LocalInv("wait", j)
      BY <3>2 DEF LocalInv, Prepared, TxnLabels, Lockers, Sweepers
    <3> QED BY <1>0, <2>1, <2>2, <3>2, <3>3, MoveWithin DEF BeginAutofix, Wait, Labels, TxnLabels
  <2>3. CASE BeginReindex(s)
    <3> DEFINE j == [Job("reindex", Nobody, NoLine) EXCEPT !.fresh = MenuOf(wt)]
    <3>1. Job("reindex", Nobody, NoLine) \in JobType /\ MenuOf(wt) \in Menu
      BY <1>0, JobIsTyped, MenuType DEF VerbNames, Data
    <3>2. j \in JobType /\ j.verb = "reindex"
      BY <3>1, JobFields DEF JobType
    <3>3. LocalInv("reindex", j)
      BY <3>2 DEF LocalInv, TxnLabels
    <3> QED BY <1>0, <2>1, <2>3, <3>2, <3>3, MoveWithin DEF BeginReindex, Labels, TxnLabels
  <2>4. ASSUME NEW t \in Topics, ShowForRewrite(s, t) PROVE Control'
    <3> DEFINE j == [Job("rewrite", t, Mint(s)) EXCEPT !.seen = wt[t]]
    <3>1. Job("rewrite", t, Mint(s)) \in JobType /\ wt[t] \in HeadFile
      BY <1>0, <2>4, JobIsTyped, AreaAt DEF VerbNames, Data, ShowForRewrite, Exists
    <3>2. j \in JobType /\ j.verb = "rewrite" /\ j.topic = t /\ j.seen \in HeadFile
      BY <3>1, JobFields DEF JobType
    <3>3. LocalInv("composing", j)
      BY <3>2 DEF LocalInv, Prepared, TxnLabels
    <3> QED BY <1>0, <2>1, <2>4, <3>2, <3>3, MoveWithin DEF ShowForRewrite, Labels, TxnLabels
  <2> QED BY <2>2, <2>3, <2>4
<1> QED BY <1>2, <1>3, IndJoin

LEMMA PreChecks ==
  ASSUME IndInv, NEW s \in Sessions,
         PreCheckUpdate(s) \/ BeginRewrite(s) \/ WriteReindex(s)
  PROVE  IndInv'
<1>0. Control /\ Data /\ job[s] \in JobType /\ LocalInv(pc[s], job[s])
  BY IndSplit DEF Control, JobInv
<1>1. CASE PreCheckUpdate(s)
  <2>1. Data'
    BY <1>0, <1>1 DEF PreCheckUpdate, Data
  <2>2. LocalInv("wait", job[s])
    BY <1>0, <1>1 DEF PreCheckUpdate, LocalInv, Prepared, TxnLabels, Lockers, Writers
  <2>3. Control'
    <3>1. CASE Return(s)
      BY <1>0, <3>1, ReturnControl
    <3>2. CASE Goto(s, "wait") /\ UNCHANGED <<job, lock>>
      BY <1>0, <1>1, <2>2, <3>2, GotoWithin DEF PreCheckUpdate, Labels, TxnLabels
    <3> QED BY <1>1, <3>1, <3>2 DEF PreCheckUpdate
  <2> QED BY <2>1, <2>3, IndJoin
<1>2. CASE BeginRewrite(s)
  <2>1. job[s].topic \in Topics /\ job[s].verb = "rewrite" /\ job[s].seen \in HeadFile
    BY <1>0, <1>2 DEF BeginRewrite, LocalInv, Prepared
  <2>2. Data'
    BY <1>0, <1>2 DEF BeginRewrite, Data, Divert, JobType
  <2>3. Control'
    <3>1. CASE Return(s)
      BY <1>0, <3>1, ReturnControl
    <3>2. CASE Wait(s, [job[s] EXCEPT !.base = tree[job[s].topic]]) /\ UNCHANGED <<queue, lock>>
      <4> DEFINE j == [job[s] EXCEPT !.base = tree[job[s].topic]]
      <4>1. tree[job[s].topic] \in HeadFile \cup {Absent}
        BY <1>0, <2>1, AreaAt DEF Data
      <4>2. j \in JobType /\ j.verb = "rewrite" /\ j.topic \in Topics /\ j.seen \in HeadFile
        BY <1>0, <2>1, <4>1 DEF JobType
      <4>3. LocalInv("wait", j)
        BY <4>2 DEF LocalInv, Prepared, TxnLabels, Lockers, Writers
      <4> QED BY <1>0, <1>2, <3>2, <4>2, <4>3, MoveWithin DEF Wait, BeginRewrite, Labels, TxnLabels
    <3> QED BY <1>2, <3>1, <3>2 DEF BeginRewrite
  <2> QED BY <2>2, <2>3, IndJoin
<1>3. CASE WriteReindex(s)
  <2>1. AreaOK(wt')
    BY <1>0, <1>3, PutMenu DEF WriteReindex, Data, JobType
  <2>2. Data'
    BY <1>0, <1>3, <2>1 DEF WriteReindex, Data
  <2> QED BY <1>0, <1>3, <2>2, ReturnControl, IndJoin DEF WriteReindex
<1> QED BY <1>1, <1>2, <1>3

LEMMA AtTheLock ==
  ASSUME IndInv, NEW s \in Sessions,
         AcquireLock(s) \/ LockTimeout(s) \/ Enter(s)
  PROVE  IndInv'
<1>0. Control /\ Data /\ job[s] \in JobType /\ LocalInv(pc[s], job[s])
  BY IndSplit DEF Control, JobInv
<1>1. Data'
  <2>1. queue' \subseteq Line
    BY <1>0 DEF AcquireLock, LockTimeout, Enter, Divert, Data, JobType
  <2> QED BY <1>0, <2>1 DEF AcquireLock, LockTimeout, Enter, Data
<1>2. CASE AcquireLock(s)
  <2>1. LocalInv("enter", job[s])
    BY <1>0, <1>2 DEF AcquireLock, LocalInv, TxnLabels
  <2>2. job' = [job EXCEPT ![s] = job[s]]
    BY <1>0, <1>2 DEF AcquireLock, Control
  <2>3. Control'
    BY <1>0, <1>2, <2>1, <2>2, MoveControl DEF AcquireLock, Goto, Labels, TxnLabels
  <2> QED BY <1>1, <2>3, IndJoin
<1>3. CASE Return(s)
  BY <1>0, <1>1, <1>3, ReturnControl, IndJoin
<1>4. CASE Enter(s) /\ Goto(s, "sweep") /\ SetJob(s, [job[s] EXCEPT !.todo = SweepList(job[s])])
            /\ UNCHANGED lock
  <2> DEFINE j == [job[s] EXCEPT !.todo = SweepList(job[s])]
  <2>1. job[s].verb \in Lockers /\ Prepared(job[s])
    BY <1>0, <1>4 DEF Enter, LocalInv, TxnLabels
  <2>2. SweepList(job[s]) \subseteq Topics
    BY <2>1 DEF SweepList, Prepared, Sweepers
  <2>3. j \in JobType /\ j.verb = job[s].verb /\ Prepared(j)
    BY <1>0, <2>1, <2>2 DEF JobType, Prepared
  <2>4. LocalInv("sweep", j)
    BY <2>1, <2>3 DEF LocalInv, TxnLabels
  <2>5. Control'
    BY <1>0, <1>4, <2>3, <2>4, MoveWithin DEF Enter, Labels, TxnLabels
  <2> QED BY <1>1, <2>5, IndJoin
<1> QED BY <1>2, <1>3, <1>4 DEF LockTimeout, Enter

LEMMA AbsorbSteps ==
  ASSUME IndInv, NEW s \in Sessions,
         (\E t \in Topics : AbsorbAdd(s, t)) \/ AbsorbCommit(s) \/ AbsorbFails(s)
  PROVE  IndInv'
<1>0. Control /\ Data /\ job[s] \in JobType /\ LocalInv(pc[s], job[s])
  BY IndSplit DEF Control, JobInv
<1>1. ASSUME NEW t \in Topics, AbsorbAdd(s, t) PROVE IndInv'
  <2>0. job[s].verb \in Lockers /\ Prepared(job[s]) /\ pc[s] = "sweep" /\ UNCHANGED lock
    BY <1>0, <1>1 DEF AbsorbAdd, LocalInv, TxnLabels
  <2>1. AreaOK(idx')
    BY <1>0, <1>1, StageType DEF AbsorbAdd, Data
  <2>2. Data'
    BY <1>0, <1>1, <2>1 DEF AbsorbAdd, Data
  <2>3. CASE Dirty(t)
    <3> DEFINE j == [job[s] EXCEPT !.cur = t]
    <3>1. j \in JobType /\ j.verb = job[s].verb /\ Prepared(j) /\ j.cur = t
      BY <1>0, <2>0 DEF JobType, Prepared
    <3>2. LocalInv("absorb", j)
      BY <2>0, <3>1 DEF LocalInv, TxnLabels
    <3>3. Control'
      BY <1>0, <1>1, <2>0, <2>3, <3>1, <3>2, MoveWithin DEF AbsorbAdd, Labels, TxnLabels
    <3> QED BY <2>2, <3>3, IndJoin
  <2>4. CASE ~Dirty(t)
    <3> DEFINE j == [job[s] EXCEPT !.todo = @ \ {t}]
    <3>1. j \in JobType /\ j.verb = job[s].verb /\ Prepared(j)
      BY <1>0, <2>0 DEF JobType, Prepared
    <3>2. LocalInv("sweep", j)
      BY <2>0, <3>1 DEF LocalInv, TxnLabels
    <3>3. Control'
      BY <1>0, <1>1, <2>0, <2>4, <3>1, <3>2, SetJobWithin DEF AbsorbAdd
    <3> QED BY <2>2, <3>3, IndJoin
  <2> QED BY <2>3, <2>4
<1>2. CASE AbsorbCommit(s)
  <2> DEFINE t == job[s].cur
             j == [job[s] EXCEPT !.todo = @ \ {t}, !.cur = Nobody]
  <2>0. job[s].verb \in Lockers /\ Prepared(job[s]) /\ t \in Topics
    BY <1>0, <1>2 DEF AbsorbCommit, LocalInv, TxnLabels
  <2>1. AreaOK(idx') /\ AreaOK(tree')
    BY <1>0, <1>2, CommitType DEF AbsorbCommit, Data
  <2>2. absorbed' \subseteq Line
    BY <1>0, <1>2, <2>0, LinesType, AreaAt DEF AbsorbCommit, Data
  <2>3. Data'
    BY <1>0, <1>2, <2>0, <2>1, <2>2 DEF AbsorbCommit, Data
  <2>4. j \in JobType /\ j.verb = job[s].verb /\ Prepared(j)
    BY <1>0, <2>0 DEF JobType, Prepared
  <2>5. LocalInv("sweep", j)
    BY <2>0, <2>4 DEF LocalInv, TxnLabels
  <2>6. Control'
    BY <1>0, <1>2, <2>4, <2>5, MoveWithin DEF AbsorbCommit, Labels, TxnLabels
  <2> QED BY <2>3, <2>6, IndJoin
<1>3. CASE AbsorbFails(s)
  <2>1. Data'
    BY <1>0, <1>3, CountType DEF AbsorbFails, Fault, Data, Counters
  <2> QED BY <1>0, <1>3, <2>1, ReturnControl, IndJoin DEF AbsorbFails
<1> QED BY <1>1, <1>2, <1>3

LEMMA ChangeSteps ==
  ASSUME IndInv, NEW s \in Sessions,
         \/ RefuseMoved(s) \/ HeadGone(s)
         \/ OpenHead(s) \/ WriteHead(s) \/ UnlinkHead(s) \/ WriteMenu(s)
         \/ \E k \in Snaps : Snapshot(s, k)
  PROVE  IndInv'
<1>0. Control /\ Data /\ job[s] \in JobType /\ LocalInv(pc[s], job[s])
  BY IndSplit DEF Control, JobInv
<1>1. CASE RefuseMoved(s) \/ HeadGone(s)
  <2>1. Data'
    BY <1>0, <1>1 DEF RefuseMoved, HeadGone, Data
  <2> QED BY <1>0, <1>1, <2>1, ReturnControl, IndJoin DEF RefuseMoved, HeadGone
<1>2. CASE OpenHead(s)
  <2> DEFINE j == [job[s] EXCEPT !.orig = wt[job[s].topic]]
  <2>1. pc[s] = "sweep" /\ job[s].verb \in Writers /\ Prepared(job[s])
    BY <1>0, <1>2 DEF OpenHead, Swept, LocalInv, TxnLabels
  <2>2. job[s].topic \in Topics
    BY <2>1 DEF Prepared, Writers
  <2>3. AreaOK(wt')
    BY <1>0, <1>2, <2>2, PutHead, ConstantHeads DEF OpenHead, Data
  <2>4. Data'
    BY <1>0, <1>2, <2>3 DEF OpenHead, Data
  <2>5. wt[job[s].topic] \in HeadFile \cup {Absent}
        /\ (NeedsHead(job[s].verb) => wt[job[s].topic] \in HeadFile)
    BY <1>0, <1>2, <2>2, AreaAt DEF OpenHead, Exists, Data
  <2>6. j \in JobType /\ j.verb = job[s].verb /\ Prepared(j) /\ j.orig = wt[job[s].topic]
    BY <1>0, <2>1, <2>5 DEF JobType, Prepared
  <2>7. LocalInv("write", j)
    BY <2>1, <2>5, <2>6 DEF LocalInv, TxnLabels, Lockers
  <2>8. Control'
    BY <1>0, <1>2, <2>1, <2>6, <2>7, MoveWithin DEF OpenHead, Labels, TxnLabels
  <2> QED BY <2>4, <2>8, IndJoin
<1>3. CASE WriteHead(s)
  <2>1. job[s].verb \in Writers /\ Prepared(job[s])
        /\ (NeedsHead(job[s].verb) => job[s].orig \in HeadFile)
    BY <1>0, <1>3 DEF WriteHead, LocalInv, TxnLabels
  <2>2. job[s].topic \in Topics /\ NewText(job[s]) \in HeadFile
    BY <1>0, <2>1, NewTextType DEF Prepared, Writers
  <2>3. AreaOK(wt')
    BY <1>0, <1>3, <2>2, PutHead DEF WriteHead, Data
  <2>4. Data'
    BY <1>0, <1>3, <2>3 DEF WriteHead, Data
  <2>5. LocalInv("add", job[s])
    BY <2>1 DEF LocalInv, TxnLabels, Lockers, Writers, Archivers
  <2>6. Control'
    BY <1>0, <1>3, <2>5, GotoWithin DEF WriteHead, Labels, TxnLabels
  <2> QED BY <2>4, <2>6, IndJoin
<1>4. CASE UnlinkHead(s)
  <2>1. job[s].verb = "delete" /\ Prepared(job[s]) /\ job[s].snap \in Snaps
    BY <1>0, <1>4 DEF UnlinkHead, LocalInv, TxnLabels, Archivers
  <2>2. AreaOK(wt')
    BY <1>0, <1>4, <2>1, PutHead DEF UnlinkHead, Data, Prepared
  <2>3. Data'
    BY <1>0, <1>4, <2>2 DEF UnlinkHead, Data
  <2>4. LocalInv("menu", job[s])
    BY <2>1 DEF LocalInv, TxnLabels, Lockers, Sweepers, Archivers
  <2>5. Control'
    BY <1>0, <1>4, <2>4, GotoWithin DEF UnlinkHead, Labels, TxnLabels
  <2> QED BY <2>3, <2>5, IndJoin
<1>5. CASE WriteMenu(s)
  <2>1. pc[s] \in {"menu", "sweep"} /\ Prepared(job[s])
        /\ (job[s].verb = "autofix" \/ (job[s].verb \in Archivers /\ job[s].snap \in Snaps))
    BY <1>0, <1>5 DEF WriteMenu, AtMenu, Swept, LocalInv, TxnLabels
  <2>2. AreaOK(wt')
    <3>1. job[s].fresh \in Menu /\ MenuOf(wt) \in Menu
      BY <1>0, MenuType DEF JobType, Data
    <3> QED BY <1>0, <1>5, <3>1, PutMenu DEF WriteMenu, Data
  <2>3. Data'
    BY <1>0, <1>5, <2>2 DEF WriteMenu, Data
  <2>4. LocalInv("add", job[s])
    BY <2>1 DEF LocalInv, TxnLabels, Lockers, Sweepers, Archivers
  <2>5. Control'
    BY <1>0, <1>5, <2>1, <2>4, GotoWithin DEF WriteMenu, Labels, TxnLabels
  <2> QED BY <2>3, <2>5, IndJoin
<1>6. ASSUME NEW k \in Snaps, Snapshot(s, k) PROVE IndInv'
  <2> DEFINE j == [job[s] EXCEPT !.snap = k]
             l == IF job[s].verb = "delete" THEN "unlink" ELSE "menu"
  <2>1. pc[s] = "sweep" /\ job[s].verb \in Archivers /\ Prepared(job[s])
    BY <1>0, <1>6 DEF Snapshot, Swept, LocalInv, TxnLabels
  <2>2. wt[job[s].topic] \in HeadFile \cup {Absent}
    BY <1>0, <2>1, AreaAt DEF Data, Prepared, Archivers
  <2>3. AreaOK(wt')
    BY <1>0, <1>6, <2>2, PutHead DEF Snapshot, Data
  <2>4. Data'
    BY <1>0, <1>6, <2>3 DEF Snapshot, Data
  <2>5. j \in JobType /\ j.verb = job[s].verb /\ Prepared(j) /\ j.snap \in Snaps
    BY <1>0, <1>6, <2>1 DEF JobType, Prepared
  <2>6. LocalInv(l, j)
    BY <2>1, <2>5 DEF LocalInv, TxnLabels, Lockers, Sweepers
  <2>7. Control'
    BY <1>0, <1>6, <2>1, <2>5, <2>6, MoveWithin DEF Snapshot, Labels, TxnLabels
  <2> QED BY <2>4, <2>7, IndJoin
<1> QED BY <1>1, <1>2, <1>3, <1>4, <1>5, <1>6

LEMMA CommitSteps ==
  ASSUME IndInv, NEW s \in Sessions,
         GitAdd(s) \/ NoChange(s) \/ GitCommit(s) \/ GitFails(s)
  PROVE  IndInv'
<1>0. Control /\ Data /\ job[s] \in JobType /\ LocalInv(pc[s], job[s])
  BY IndSplit DEF Control, JobInv
<1>1. CASE GitAdd(s)
  <2>1. AreaOK(idx')
    BY <1>0, <1>1, StageType DEF GitAdd, Data
  <2>2. Data'
    BY <1>0, <1>1, <2>1 DEF GitAdd, Data
  <2>3. LocalInv("commit", job[s])
    BY <1>0, <1>1 DEF GitAdd, LocalInv, TxnLabels
  <2>4. Control'
    BY <1>0, <1>1, <2>3, GotoWithin DEF GitAdd, Labels, TxnLabels
  <2> QED BY <2>2, <2>4, IndJoin
<1>2. CASE NoChange(s)
  BY <1>0, <1>2, ReturnControl, IndJoin DEF NoChange, Data
<1>3. CASE GitCommit(s)
  <2>1. pc[s] = "commit" /\ job[s].verb \in Lockers /\ Prepared(job[s])
    BY <1>0, <1>3 DEF GitCommit, LocalInv, TxnLabels
  <2>2. AreaOK(idx') /\ AreaOK(tree')
    BY <1>0, <1>3, CommitType DEF GitCommit, Data
  <2>3. owed' \subseteq Line
    BY <1>0, <1>3 DEF GitCommit, Landed, Data, JobType
  <2>4. tip' \in [op : VerbNames \cup {"trim", "none", "absorb"}, topic : Topics \cup {Nobody}]
    BY <1>0, <1>3 DEF GitCommit, JobType
  <2>5. Data'
    BY <1>0, <1>3, <2>2, <2>3, <2>4 DEF GitCommit, Data
  <2>6. CASE job[s].verb = "compact"
    <3> DEFINE j == Job("trim", job[s].topic, NoLine)
    <3>1. j \in JobType /\ j.verb = "trim" /\ j.topic \in Topics
      BY <2>1, <2>6, JobIsTyped, JobFields, ConstantHeads DEF Prepared
    <3>2. LocalInv("wait", j)
      BY <3>1 DEF LocalInv, Prepared, TxnLabels, Lockers, Writers
    <3>3. lock = s
      BY <1>0, <2>1 DEF Control, LockInv, InTxn, TxnLabels
    <3>4. Control'
      BY <1>0, <1>3, <2>6, <3>1, <3>2, <3>3, MoveControl, ConstantsAssumption
         DEF GitCommit, Wait, Goto, SetJob, Labels, TxnLabels
    <3> QED BY <2>5, <3>4, IndJoin
  <2>7. CASE job[s].verb # "compact"
    BY <1>0, <1>3, <2>5, <2>7, ReturnControl, IndJoin DEF GitCommit
  <2> QED BY <2>6, <2>7
<1>4. CASE GitFails(s)
  <2>1. Data'
    BY <1>0, <1>4, CountType DEF GitFails, Fault, Data, Counters
  <2>2. LocalInv("rollback", job[s])
    BY <1>0, <1>4 DEF GitFails, LocalInv, TxnLabels
  <2>3. Control'
    BY <1>0, <1>4, <2>2, GotoWithin DEF GitFails, Labels, TxnLabels
  <2> QED BY <2>1, <2>3, IndJoin
<1> QED BY <1>1, <1>2, <1>3, <1>4

LEMMA RollbackStep ==
  ASSUME IndInv, NEW s \in Sessions, Rollback(s)
  PROVE  IndInv'
<1>0. Control /\ Data /\ job[s] \in JobType /\ LocalInv(pc[s], job[s])
  BY IndSplit DEF Control, JobInv
<1>1. /\ job[s].verb \in Lockers /\ Prepared(job[s])
      /\ job[s].verb \in Archivers => job[s].snap \in Snaps
  BY <1>0 DEF Rollback, LocalInv, TxnLabels
<1>2. AreaOK(Restored(job[s]))
  <2>1. CASE job[s].verb \in Writers
    <3>1. job[s].topic \in Topics /\ job[s].orig \in HeadFile \cup {Absent}
      BY <1>0, <1>1, <2>1 DEF Prepared, Writers, JobType
    <3>2. Restored(job[s]) = Put(wt, job[s].topic, job[s].orig)
      BY <2>1 DEF Restored, Writers
    <3> QED BY <1>0, <3>1, <3>2, PutHead DEF Data
  <2>2. CASE job[s].verb \in {"finalize", "compact"}
    <3>1. job[s].snap \in Snaps /\ job[s].verb \notin Writers
      BY <1>1, <2>2 DEF Archivers, Writers
    <3>2. AreaOK(Put(wt, job[s].snap, Absent))
      BY <1>0, <3>1, PutHead DEF Data
    <3>3. Restored(job[s]) = Put(wt, job[s].snap, Absent)
      BY <2>2, <3>1 DEF Restored
    <3> QED BY <3>2, <3>3
  <2>3. CASE job[s].verb = "delete"
    <3> DEFINE put == Put(wt, job[s].topic, wt[job[s].snap])
               back == Put(put, job[s].snap, Absent)
    <3>1. job[s].topic \in Topics /\ job[s].snap \in Snaps
      BY <1>1, <2>3 DEF Prepared, Archivers
    <3>2. AreaOK(put)
      BY <1>0, <3>1, PutHead, AreaAt DEF Data
    <3>3. AreaOK(back)
      <4> HIDE DEF put
      <4> QED BY <3>1, <3>2, PutHead
    <3>4. AreaOK(Put(back, IndexMd, MenuOf(back)))
      <4> HIDE DEF back
      <4> QED BY <3>3, PutMenu, MenuType
    <3> QED BY <2>3, <3>4 DEF Restored, Writers
  <2>4. CASE job[s].verb = "autofix"
    BY <1>0, <2>4 DEF Restored, Writers, Data
  <2> QED BY <1>1, <2>1, <2>2, <2>3, <2>4 DEF Lockers, Sweepers, Archivers
<1>3. AreaOK(idx')
  BY <1>0 DEF Rollback, Data, AreaOK, Path
<1>4. Data'
  BY <1>0, <1>2, <1>3, CountType DEF Rollback, Fault, Data, Counters
<1> QED BY <1>0, <1>4, ReturnControl, IndJoin DEF Rollback

LEMMA HalfWrittenType ==
  ASSUME IndInv, NEW s \in Sessions
  PROVE  AreaOK(HalfWritten(s))
<1>0. Control /\ Data /\ job[s] \in JobType /\ LocalInv(pc[s], job[s])
  BY IndSplit DEF Control, JobInv
<1>1. NoMenu \in Menu
  BY ConstantHeads DEF NoMenu, Menu, NoEntry, Entry
<1>2. AreaOK(Put(wt, IndexMd, NoMenu))
  BY <1>0, <1>1, PutMenu DEF Data
<1>3. pc[s] = "rollback" /\ job[s].verb \in Writers => AreaOK(Put(wt, job[s].topic, Torn))
  <2>1. pc[s] = "rollback" /\ job[s].verb \in Writers => job[s].topic \in Topics
    BY <1>0 DEF LocalInv, Prepared, TxnLabels, Writers
  <2> QED BY <1>0, <2>1, PutHead, ConstantHeads DEF Data
<1> QED BY <1>0, <1>2, <1>3 DEF HalfWritten, Data

LEMMA BrokenOff ==
  ASSUME IndInv, NEW s \in Sessions, Kill(s) \/ DiskFails(s)
  PROVE  IndInv'
<1>0. Control /\ Data
  BY IndSplit
<1>1. used' \in [Counters -> Nat]
  BY <1>0, CountType DEF Data, Kill, DiskFails, Counters
<1>2. AreaOK(wt')
  BY <1>0, HalfWrittenType DEF Kill, DiskFails, Data
<1>3. Data'
  BY <1>0, <1>1, <1>2 DEF Kill, DiskFails, Data, Unsettled
<1> QED BY <1>0, <1>3, ReturnControl, IndJoin DEF Kill, DiskFails

LEMMA EditSteps ==
  ASSUME IndInv, NEW t \in Topics, EditHead(t) \/ StageByHand(t)
  PROVE  IndInv'
<1>0. Control /\ Data /\ Mint(Editor) \in Line /\ wt[t] \in HeadFile \cup {Absent}
  BY IndSplit, MintType, AreaAt DEF Data
<1>1. used' \in [Counters -> Nat]
  BY <1>0, CountType DEF Data, EditHead, StageByHand, Counters
<1>2. CASE EditHead(t)
  <2> DEFINE c == IF Exists(t) THEN [wt[t] EXCEPT !.ess = Mint(Editor)]
                  ELSE [upd |-> <<>>, ess |-> Mint(Editor)]
  <2>1. c \in HeadFile
    BY <1>0 DEF HeadFile, Exists
  <2>2. AreaOK(wt')
    <3> HIDE DEF c
    <3>1. wt' = Put(wt, t, c) \/ wt' = Put(wt, t, Absent)
      BY <1>2 DEF EditHead, c
    <3> QED BY <1>0, <2>1, <3>1, PutHead DEF Data
  <2>3. Data'
    BY <1>0, <1>1, <1>2, <2>2 DEF EditHead, Data
  <2> QED BY <1>0, <1>2, <2>3, NobodyMoves, IndJoin DEF EditHead
<1>3. CASE StageByHand(t)
  <2>1. AreaOK(idx')
    BY <1>0, <1>3, StageType DEF StageByHand, Data
  <2>2. Data'
    BY <1>0, <1>1, <1>3, <2>1 DEF StageByHand, Data
  <2> QED BY <1>0, <1>3, <2>2, NobodyMoves, IndJoin DEF StageByHand
<1> QED BY <1>2, <1>3

-----------------------------------------------------------------------------
(* The theorems *)

LEMMA StepInd == IndInv /\ [Next]_vars => IndInv'
<1> SUFFICES ASSUME IndInv, [Next]_vars PROVE IndInv'
  OBVIOUS
<1>1. ASSUME NEW s \in Sessions, Call(s) PROVE IndInv'
  BY <1>1, BeforeTheLock, MoreBeforeTheLock DEF Call
<1>2. ASSUME NEW s \in Sessions, BeginRewrite(s) PROVE IndInv'
  BY <1>2, PreChecks
<1>3. ASSUME NEW s \in Sessions, Step(s) PROVE IndInv'
  <2>1. CASE PreCheckUpdate(s) \/ WriteReindex(s)
    BY <2>1, PreChecks
  <2>2. CASE AcquireLock(s) \/ LockTimeout(s) \/ Enter(s)
    BY <2>2, AtTheLock
  <2>3. CASE (\E t \in Topics : AbsorbAdd(s, t)) \/ AbsorbCommit(s) \/ AbsorbFails(s)
    BY <2>3, AbsorbSteps
  <2>4. CASE \/ RefuseMoved(s) \/ HeadGone(s)
             \/ OpenHead(s) \/ WriteHead(s) \/ UnlinkHead(s) \/ WriteMenu(s)
             \/ \E k \in Snaps : Snapshot(s, k)
    BY <2>4, ChangeSteps
  <2>5. CASE GitAdd(s) \/ NoChange(s) \/ GitCommit(s) \/ GitFails(s)
    BY <2>5, CommitSteps
  <2>6. CASE Rollback(s)
    BY <2>6, RollbackStep
  <2>7. CASE DiskFails(s)
    BY <2>7, BrokenOff
  <2> QED BY <1>3, <2>1, <2>2, <2>3, <2>4, <2>5, <2>6, <2>7 DEF Step
<1>4. ASSUME NEW s \in Sessions, Kill(s) PROVE IndInv'
  BY <1>4, BrokenOff
<1>5. ASSUME NEW t \in Topics, EditHead(t) \/ StageByHand(t) PROVE IndInv'
  BY <1>5, EditSteps
<1>6. CASE UNCHANGED vars
  BY <1>6 DEF vars, IndInv, TypeOK, AreaOK, JobInv, LockInv, InTxn
<1> QED BY <1>1, <1>2, <1>3, <1>4, <1>5, <1>6 DEF Next

LEMMA IndAlways == Spec => []IndInv
BY InitInd, StepInd, PTL DEF Spec

\* Every variable keeps its type, whatever the number of sessions, topics, edits,
\* kills and git failures.
THEOREM TypeCorrect == Spec => []TypeOK
<1>1. IndInv => TypeOK
  BY DEF IndInv
<1> QED BY <1>1, IndAlways, PTL

\* Any number of sessions: one is inside its transaction exactly while it holds
\* `.qq.lock`, on every path out of a verb (qq_lock, acquire_flock).
THEOREM LockSafety == Spec => []LockInv
<1>1. IndInv => LockInv
  BY DEF IndInv
<1> QED BY <1>1, IndAlways, PTL


-----------------------------------------------------------------------------
(* The gate.  Text is clean when no untrusted session composed a line of it.    *)
(* Whoever can write text of its own into a gated HEAD passed the gate: before  *)
(* the lock for new, essence and rewrite, under it for update.                  *)

Clean(c) == \A l \in LinesOf(c) : l.by \in Sessions => l.by \in Trusted
Archiving == {"unlink", "menu", "add", "commit", "rollback"}

GateLocal(s, l, j) ==
  /\ j.text.by \in {s, Nobody}
  /\ j.topic \in Gated =>
       /\ Clean(j.seen) /\ Clean(j.orig)
       /\ j.verb \in {"new", "essence", "rewrite"} /\ (l = "wait" \/ l \in TxnLabels)
            => s \in Trusted
       /\ j.verb = "update" /\ l \in TxnLabels \ {"enter"} => s \in Trusted

\* the snapshot from which a failed delete restores the HEAD
SnapClean(s) ==
  job[s].verb = "delete" /\ job[s].topic \in Gated /\ pc[s] \in Archiving
    => Clean(wt[job[s].snap])

GateInv ==
  /\ \A t \in Gated : Clean(wt[t]) /\ Clean(tree[t])
  /\ \A s \in Sessions : GateLocal(s, pc[s], job[s]) /\ SnapClean(s)

LEMMA NewTextClean ==
  ASSUME NEW s \in Sessions, NEW j \in JobType, GateLocal(s, "write", j),
         j.topic \in Gated, LocalInv("write", j)
  PROVE  Clean(NewText(j))
<1>0. /\ j.verb \in Writers /\ Clean(j.seen) /\ Clean(j.orig)
      /\ j.text.by \in {s, Nobody} /\ Nobody \notin Sessions
      /\ j.verb # "trim" => s \in Trusted
  BY ConstantsAssumption DEF GateLocal, LocalInv, TxnLabels, Writers
<1>1. j.text.by \in Sessions /\ j.verb # "trim" => j.text.by \in Trusted
  BY <1>0
<1>2. NewText(j) # Absent
  BY <1>0, NewTextType, ConstantsAssumption DEF LocalInv, Prepared, TxnLabels
<1>3. CASE j.verb = "update"
  <2>1. j.orig \in HeadFile /\ j.orig # Absent
    BY <1>3, ConstantsAssumption DEF LocalInv, NeedsHead
  <2> DEFINE u == j.orig.upd
  <2>2. u \in Seq(Line) /\ <<j.text>> \in Seq(Line) /\ j.text \in Line
    BY <2>1 DEF HeadFile, JobType
  <2>3. NewText(j).upd = <<j.text>> \o u /\ NewText(j).ess = j.orig.ess
    BY <1>3, <2>1 DEF NewText, HeadFile
  <2>4. \A i \in DOMAIN (<<j.text>> \o u) :
          (<<j.text>> \o u)[i] = j.text \/ \E k \in DOMAIN u : (<<j.text>> \o u)[i] = u[k]
    BY <2>2, ConcatProperties
  <2>5. LinesOf(NewText(j)) \subseteq {j.text} \cup LinesOf(j.orig)
    BY <1>2, <2>1, <2>3, <2>4 DEF LinesOf
  <2> QED BY <1>0, <1>1, <1>3, <2>5 DEF Clean
<1>4. CASE j.verb = "new"
  <2>1. LinesOf(NewText(j)) \subseteq {j.text}
    BY <1>2, <1>4 DEF NewText, LinesOf
  <2> QED BY <1>1, <1>4, <2>1 DEF Clean
<1>5. CASE j.verb = "rewrite"
  <2>1. j.seen \in HeadFile /\ j.seen # Absent
    BY <1>5, ConstantsAssumption DEF LocalInv, Prepared, TxnLabels
  <2>2. LinesOf(NewText(j)) \subseteq {j.text} \cup LinesOf(j.seen)
    BY <1>2, <1>5, <2>1 DEF NewText, LinesOf
  <2> QED BY <1>0, <1>1, <1>5, <2>2 DEF Clean
<1>6. CASE j.verb = "essence"
  <2>1. j.orig \in HeadFile /\ j.orig # Absent
    BY <1>6, ConstantsAssumption DEF LocalInv, NeedsHead
  <2>2. NewText(j).upd = j.orig.upd /\ NewText(j).ess = j.text
    BY <1>6, <2>1 DEF NewText, HeadFile
  <2>3. LinesOf(NewText(j)) \subseteq {j.text} \cup LinesOf(j.orig)
    BY <1>2, <2>1, <2>2 DEF LinesOf
  <2> QED BY <1>0, <1>1, <1>6, <2>3 DEF Clean
<1>7. CASE j.verb = "trim"
  <2>1. j.orig \in HeadFile /\ j.orig # Absent
    BY <1>7, ConstantsAssumption DEF LocalInv, NeedsHead
  <2> DEFINE u == j.orig.upd
             n == IF Len(u) < KeepN THEN Len(u) ELSE KeepN
  <2>2. u \in Seq(Line) /\ n \in Nat /\ n <= Len(u)
    BY <2>1, LenProperties, ConstantsAssumption DEF HeadFile
  <2>3. NewText(j).upd = SubSeq(u, 1, n) /\ NewText(j).ess = j.orig.ess
    BY <1>7, <2>1 DEF NewText, Trim, HeadFile
  <2>4. \A i \in DOMAIN SubSeq(u, 1, n) : i \in DOMAIN u /\ SubSeq(u, 1, n)[i] = u[i]
    <3> HIDE DEF u, n
    <3> QED BY <2>2, SubSeqProperties
  <2>5. LinesOf(NewText(j)) \subseteq LinesOf(j.orig)
    <3> HIDE DEF n
    <3> QED BY <1>2, <2>1, <2>3, <2>4 DEF LinesOf
  <2> QED BY <1>0, <2>5 DEF Clean
<1> QED BY <1>0, <1>3, <1>4, <1>5, <1>6, <1>7 DEF Writers

-----------------------------------------------------------------------------
(* Frames for GateInv *)

HeadsClean == \A t \in Gated : Clean(wt[t]) /\ Clean(tree[t])
LocalsClean == \A s \in Sessions : GateLocal(s, pc[s], job[s])
SnapsClean == \A s \in Sessions : SnapClean(s)

LEMMA GateJoin == (HeadsClean' /\ LocalsClean' /\ SnapsClean' => GateInv')
                  /\ (GateInv <=> HeadsClean /\ LocalsClean /\ SnapsClean)
BY DEF GateInv, HeadsClean, LocalsClean, SnapsClean, SnapClean

LEMMA LocalsMove ==
  ASSUME Control, LocalsClean, NEW s \in Sessions, NEW l, NEW j,
         Goto(s, l), SetJob(s, j), GateLocal(s, l, j)
  PROVE  LocalsClean'
BY DEF Control, LocalsClean, Goto, SetJob

LEMMA LocalsGoto ==
  ASSUME Control, LocalsClean, NEW s \in Sessions, NEW l,
         Goto(s, l), UNCHANGED job, GateLocal(s, l, job[s])
  PROVE  LocalsClean'
BY DEF Control, LocalsClean, Goto

LEMMA LocalsReturn ==
  ASSUME Control, LocalsClean, NEW s \in Sessions, Return(s)
  PROVE  LocalsClean'
<1>1. GateLocal(s, "idle", NoJob)
  BY ConstantsAssumption DEF GateLocal, NoJob, NoLine
<1> QED BY <1>1, LocalsMove DEF Return

\* a step of the session inside the transaction: nobody else has a snapshot in hand
LEMMA SnapsInside ==
  ASSUME Control, Control', NEW s \in Sessions, InTxn(s), NEW l, NEW j,
         pc' = [pc EXCEPT ![s] = l], job' = [job EXCEPT ![s] = j],
         j.verb = "delete" /\ j.topic \in Gated /\ l \in Archiving => Clean(wt'[j.snap])
  PROVE  SnapsClean'
<1>1. \A u \in Sessions \ {s} : pc[u] \notin TxnLabels /\ pc'[u] = pc[u]
  BY DEF Control, LockInv, InTxn
<1>2. pc'[s] = l /\ job'[s] = j
  BY DEF Control
<1> QED BY <1>1, <1>2 DEF SnapsClean, SnapClean, Archiving, TxnLabels

\* a step that leaves the snapshots on disk alone, and enters no archiving label
LEMMA SnapsUntouched ==
  ASSUME Control, SnapsClean, NEW s \in Sessions, NEW l, NEW j,
         pc' = [pc EXCEPT ![s] = l], job' = [job EXCEPT ![s] = j], l \notin Archiving,
         \A k \in Snaps : wt'[k] = wt[k]
  PROVE  SnapsClean'
<1> SUFFICES ASSUME NEW u \in Sessions PROVE SnapClean(u)'
  BY DEF SnapsClean
<1>1. CASE u = s
  BY <1>1 DEF SnapClean, Control
<1>2. CASE u # s
  <2>1. pc'[u] = pc[u] /\ job'[u] = job[u] /\ SnapClean(u) /\ LocalInv(pc[u], job[u])
    BY <1>2 DEF Control, SnapsClean, JobInv
  <2>2. job[u].verb = "delete" /\ pc[u] \in Archiving => job[u].snap \in Snaps
    BY <2>1 DEF LocalInv, Archiving, Archivers
  <2> QED BY <2>1, <2>2 DEF SnapClean
<1> QED BY <1>1, <1>2

LEMMA SnapsReturn ==
  ASSUME Control, SnapsClean, NEW s \in Sessions, Return(s),
         (\A k \in Snaps : wt'[k] = wt[k]) \/ (InTxn(s) /\ Control')
  PROVE  SnapsClean'
<1>1. pc' = [pc EXCEPT ![s] = "idle"] /\ job' = [job EXCEPT ![s] = NoJob]
  BY DEF Return, Goto, SetJob
<1>2. "idle" \notin Archiving
  BY DEF Archiving
<1> QED BY <1>1, <1>2, SnapsUntouched, SnapsInside

\* a commit publishes what is on disk
LEMMA CommitClean ==
  ASSUME HeadsClean, NEW P, Commit(P), UNCHANGED wt
  PROVE  HeadsClean'
BY ConstantsAssumption DEF HeadsClean, Commit, Path

\* a write to one HEAD, clean if the HEAD is gated
LEMMA PutClean ==
  ASSUME Data, HeadsClean, NEW p \in Path, NEW c, wt' = Put(wt, p, c), UNCHANGED tree,
         p \in Gated => Clean(c)
  PROVE  HeadsClean'
BY ConstantsAssumption DEF HeadsClean, Data, AreaOK, Put, Path

-----------------------------------------------------------------------------
(* Each action preserves GateInv *)

USE DEF files, aux

LEMMA GateInit == Init => GateInv
<1> SUFFICES ASSUME Init PROVE GateInv
  OBVIOUS
<1>1. Clean(Absent) /\ Clean(Seed)
  <2>1. DOMAIN Seed.upd = 1..2 /\ Seed.upd[1] = SeedLine(2) /\ Seed.upd[2] = SeedLine(1)
        /\ Seed.ess = SeedLine(3)
    BY DEF Seed
  <2>2. \A l \in LinesOf(Seed) : l.by = Nobody
    BY <2>1, ConstantHeads, ConstantsAssumption DEF LinesOf, SeedLine
  <2> QED BY <2>2, ConstantsAssumption DEF Clean, LinesOf
<1>2. \A t \in Gated : Clean(wt[t]) /\ Clean(tree[t])
  BY <1>1, ConstantsAssumption DEF Init, Path
<1>3. \A s \in Sessions : GateLocal(s, "idle", NoJob)
  BY ConstantsAssumption DEF GateLocal, NoJob, NoLine
<1> QED BY <1>2, <1>3 DEF Init, GateInv, SnapClean, NoJob

LEMMA JobClean ==
  ASSUME NEW s \in Sessions, NEW v, NEW t, NEW l, l = NoLine \/ l = Mint(s)
  PROVE  /\ Job(v, t, l).text.by \in {s, Nobody}
         /\ Clean(Job(v, t, l).seen) /\ Clean(Job(v, t, l).orig)
<1>1. Job(v, t, l).text = l /\ Job(v, t, l).seen = Absent /\ Job(v, t, l).orig = Absent
  BY DEF Job, NoJob
<1> QED BY <1>1 DEF NoLine, Mint, Clean, LinesOf

LEMMA GateBefore ==
  ASSUME IndInv, GateInv, NEW s \in Sessions, Call(s)
  PROVE  GateInv'
<1>0. Control /\ HeadsClean /\ LocalsClean /\ SnapsClean
  BY IndSplit, GateJoin
<1>1. UNCHANGED <<wt, tree>>
  BY DEF Call, BeginUpdate, BeginNew, BeginEssence, ShowForRewrite, BeginArchive,
         BeginCompact, BeginAutofix, BeginReindex
<1>2. CASE UNCHANGED <<pc, job>>
  BY <1>0, <1>1, <1>2, GateJoin DEF HeadsClean, LocalsClean, SnapsClean, SnapClean
<1>3. ASSUME NEW l \in {"gated", "composing", "wait", "reindex"}, NEW j,
             Goto(s, l), SetJob(s, j), GateLocal(s, l, j)
      PROVE  GateInv'
  <2>1. HeadsClean' /\ LocalsClean'
    BY <1>0, <1>1, <1>3, LocalsMove DEF HeadsClean
  <2>2. SnapsClean'
    BY <1>0, <1>1, <1>3, SnapsUntouched DEF Goto, SetJob, Archiving
  <2> QED BY <2>1, <2>2, GateJoin
<1>4. ASSUME NEW t \in Topics, BeginUpdate(s, t) PROVE GateInv'
  <2>1. GateLocal(s, "gated", Job("update", t, Mint(s)))
    BY JobClean, JobFields DEF GateLocal, TxnLabels
  <2> QED BY <1>2, <1>3, <1>4, <2>1 DEF BeginUpdate
<1>5. ASSUME NEW t \in Topics, NEW v \in {"new", "essence"},
             Wait(s, Job(v, t, Mint(s))), ~Untrusted(s, t)
      PROVE  GateInv'
  <2>1. GateLocal(s, "wait", Job(v, t, Mint(s)))
    BY <1>5, JobClean, JobFields DEF GateLocal, Untrusted
  <2> QED BY <1>3, <1>5, <2>1 DEF Wait
<1>6. ASSUME NEW t \in Topics \cup {Nobody}, NEW v \in {"finalize", "delete", "compact"},
             Wait(s, Job(v, t, NoLine))
      PROVE  GateInv'
  <2>1. GateLocal(s, "wait", Job(v, t, NoLine))
    BY JobClean, JobFields DEF GateLocal
  <2> QED BY <1>3, <1>6, <2>1 DEF Wait
<1>7. ASSUME NEW t \in Topics, ShowForRewrite(s, t) PROVE GateInv'
  <2> DEFINE b == Job("rewrite", t, Mint(s))
             j == [b EXCEPT !.seen = wt[t]]
  <2>1. j.text = b.text /\ j.orig = b.orig /\ j.verb = "rewrite" /\ j.topic = t /\ j.seen = wt[t]
    BY JobFields DEF Job, NoJob
  <2>2. GateLocal(s, "composing", j)
    BY <1>0, <2>1, JobClean DEF GateLocal, TxnLabels, HeadsClean
  <2> QED BY <1>3, <1>7, <2>2 DEF ShowForRewrite
<1>8. CASE BeginAutofix(s) \/ BeginReindex(s)
  <2> DEFINE j(v) == [Job(v, Nobody, NoLine) EXCEPT !.fresh = MenuOf(wt)]
  <2>1. \A v : j(v).topic = Nobody /\ j(v).text = NoLine
    BY DEF Job, NoJob
  <2>2. \A l, v : GateLocal(s, l, j(v))
    BY <2>1, ConstantsAssumption DEF GateLocal, NoLine
  <2> QED BY <1>3, <1>8, <2>2 DEF BeginAutofix, BeginReindex, Wait
<1> QED BY <1>2, <1>4, <1>5, <1>6, <1>7, <1>8
      DEF Call, BeginNew, BeginEssence, BeginArchive, BeginCompact

LEMMA GateAtTheLock ==
  ASSUME IndInv, GateInv, NEW s \in Sessions,
         \/ PreCheckUpdate(s) \/ BeginRewrite(s) \/ WriteReindex(s)
         \/ AcquireLock(s) \/ LockTimeout(s) \/ Enter(s)
  PROVE  GateInv'
<1>0. /\ Control /\ Data /\ HeadsClean /\ LocalsClean /\ SnapsClean
      /\ GateLocal(s, pc[s], job[s]) /\ LocalInv(pc[s], job[s])
  BY IndSplit, GateJoin DEF LocalsClean, Control, JobInv
<1>1. HeadsClean' /\ \A k \in Snaps : wt'[k] = wt[k]
  <2>1. CASE WriteReindex(s)
    BY <1>0, <2>1, PutClean, ConstantsAssumption DEF WriteReindex, Put, Path, Data, AreaOK
  <2>2. CASE ~WriteReindex(s)
    BY <1>0, <2>2 DEF PreCheckUpdate, BeginRewrite, AcquireLock, LockTimeout, Enter, HeadsClean
  <2> QED BY <2>1, <2>2
<1>2. CASE Return(s)
  BY <1>0, <1>1, <1>2, LocalsReturn, SnapsReturn, GateJoin
<1>3. ASSUME NEW l \in {"wait", "enter", "sweep"}, NEW j,
             pc' = [pc EXCEPT ![s] = l], job' = [job EXCEPT ![s] = j], GateLocal(s, l, j)
      PROVE  GateInv'
  <2>1. LocalsClean'
    BY <1>0, <1>3, LocalsMove DEF Goto, SetJob
  <2>2. SnapsClean'
    BY <1>0, <1>1, <1>3, SnapsUntouched DEF Archiving
  <2> QED BY <1>1, <2>1, <2>2, GateJoin
<1>4. job = [job EXCEPT ![s] = job[s]]
  BY <1>0 DEF Control
<1>5. CASE PreCheckUpdate(s) /\ Goto(s, "wait") /\ UNCHANGED job
  <2>1. GateLocal(s, "wait", job[s])
    BY <1>0, <1>5 DEF PreCheckUpdate, GateLocal, LocalInv, TxnLabels
  <2> QED BY <1>3, <1>4, <1>5, <2>1 DEF Goto
<1>6. CASE BeginRewrite(s) /\ ~Untrusted(s, job[s].topic)
           /\ Wait(s, [job[s] EXCEPT !.base = tree[job[s].topic]])
  <2> DEFINE j == [job[s] EXCEPT !.base = tree[job[s].topic]]
  <2>1. j.text = job[s].text /\ j.seen = job[s].seen /\ j.orig = job[s].orig
        /\ j.topic = job[s].topic /\ j.verb = "rewrite"
    BY <1>0, <1>6 DEF BeginRewrite, LocalInv, Control, JobType
  <2>2. GateLocal(s, "wait", j)
    BY <1>0, <1>6, <2>1 DEF GateLocal, Untrusted
  <2> QED BY <1>3, <1>6, <2>2 DEF Wait, Goto, SetJob
<1>7. CASE AcquireLock(s)
  <2>1. GateLocal(s, "enter", job[s])
    BY <1>0, <1>7 DEF AcquireLock, GateLocal, TxnLabels
  <2> QED BY <1>3, <1>4, <1>7, <2>1 DEF AcquireLock, Goto
<1>8. CASE Enter(s) /\ Goto(s, "sweep") /\ SetJob(s, [job[s] EXCEPT !.todo = SweepList(job[s])])
           /\ ~GatedUnderLock(s) /\ ~(NeedsHead(job[s].verb) /\ ~Exists(job[s].topic))
  <2> DEFINE j == [job[s] EXCEPT !.todo = SweepList(job[s])]
  <2>1. j.text = job[s].text /\ j.seen = job[s].seen /\ j.orig = job[s].orig
        /\ j.topic = job[s].topic /\ j.verb = job[s].verb
    BY <1>0 DEF Control, JobType
  <2>2. job[s].verb = "update" /\ job[s].topic \in Gated => s \in Trusted
    BY <1>8 DEF GatedUnderLock, NeedsHead, Untrusted
  <2>3. GateLocal(s, "sweep", j)
    BY <1>0, <1>8, <2>1, <2>2 DEF Enter, GateLocal, TxnLabels
  <2> QED BY <1>3, <1>8, <2>3 DEF Goto, SetJob
<1> QED BY <1>2, <1>5, <1>6, <1>7, <1>8
      DEF PreCheckUpdate, BeginRewrite, WriteReindex, LockTimeout, Enter

LEMMA GateInTxn ==
  ASSUME IndInv, IndInv', GateInv, NEW s \in Sessions,
         \/ (\E t \in Topics : AbsorbAdd(s, t)) \/ AbsorbCommit(s) \/ AbsorbFails(s)
         \/ RefuseMoved(s) \/ HeadGone(s) \/ NoChange(s)
         \/ GitAdd(s) \/ GitCommit(s) \/ GitFails(s)
  PROVE  GateInv'
<1>0. /\ Control /\ Data /\ HeadsClean /\ LocalsClean /\ SnapsClean /\ job[s] \in JobType
      /\ GateLocal(s, pc[s], job[s]) /\ SnapClean(s) /\ LocalInv(pc[s], job[s])
  BY IndSplit, GateJoin DEF LocalsClean, SnapsClean, Control, JobInv
<1>1. Control' /\ UNCHANGED wt
  BY DEF IndInv, TypeOK, Control, AbsorbAdd, AbsorbCommit, AbsorbFails, RefuseMoved, HeadGone,
         NoChange, GitAdd, GitCommit, GitFails
<1>2. pc[s] \in {"sweep", "absorb", "add", "commit"}
  BY DEF AbsorbAdd, AbsorbCommit, AbsorbFails, RefuseMoved, HeadGone, Swept, NoChange, GitAdd,
         GitCommit, GitFails
<1>3. InTxn(s)
  BY <1>2 DEF InTxn, TxnLabels
<1>4. HeadsClean'
  <2>1. CASE AbsorbCommit(s)
    BY <1>0, <1>1, <2>1, CommitClean DEF AbsorbCommit
  <2>2. CASE GitCommit(s)
    BY <1>0, <1>1, <2>2, CommitClean DEF GitCommit
  <2>3. CASE ~AbsorbCommit(s) /\ ~GitCommit(s)
    BY <1>0, <1>1, <2>3 DEF HeadsClean, AbsorbAdd, AbsorbFails, RefuseMoved, HeadGone, NoChange,
       GitAdd, GitFails
  <2> QED BY <2>1, <2>2, <2>3
<1>5. CASE Return(s)
  BY <1>0, <1>1, <1>3, <1>4, <1>5, LocalsReturn, SnapsReturn, GateJoin
<1>6. ASSUME NEW l, NEW j, pc' = [pc EXCEPT ![s] = l], job' = [job EXCEPT ![s] = j],
             GateLocal(s, l, j),
             j.verb = "delete" /\ l \in Archiving => pc[s] \in Archiving /\ j = job[s]
      PROVE  GateInv'
  <2>1. LocalsClean'
    BY <1>0, <1>6, LocalsMove DEF Goto, SetJob
  <2>2. SnapsClean'
    BY <1>0, <1>1, <1>3, <1>6, SnapsInside DEF SnapClean
  <2> QED BY <1>4, <2>1, <2>2, GateJoin
<1>7. job = [job EXCEPT ![s] = job[s]] /\ pc = [pc EXCEPT ![s] = pc[s]]
  BY <1>0 DEF Control
<1>8. ASSUME NEW l \in {"commit", "rollback"}, Goto(s, l), UNCHANGED job, pc[s] \in {"add", "commit"}
      PROVE  GateInv'
  <2>1. GateLocal(s, l, job[s])
    BY <1>0, <1>8 DEF GateLocal, TxnLabels
  <2> QED BY <1>6, <1>7, <1>8, <2>1 DEF Goto, Archiving
<1>9. ASSUME NEW l \in {"sweep", "absorb"}, NEW j, pc' = [pc EXCEPT ![s] = l], SetJob(s, j),
             pc[s] \in {"sweep", "absorb"}, j.text = job[s].text, j.seen = job[s].seen,
             j.orig = job[s].orig, j.topic = job[s].topic, j.verb = job[s].verb
      PROVE  GateInv'
  <2>1. GateLocal(s, l, j)
    BY <1>0, <1>9 DEF GateLocal, TxnLabels
  <2> QED BY <1>6, <1>9, <2>1 DEF SetJob, Archiving
<1>10. ASSUME NEW t \in Topics, AbsorbAdd(s, t) PROVE GateInv'
  <2> DEFINE j1 == [job[s] EXCEPT !.cur = t]
             j2 == [job[s] EXCEPT !.todo = @ \ {t}]
  <2>1. /\ j1.text = job[s].text /\ j1.seen = job[s].seen /\ j1.orig = job[s].orig
        /\ j1.topic = job[s].topic /\ j1.verb = job[s].verb
    BY <1>0 DEF JobType
  <2>2. /\ j2.text = job[s].text /\ j2.seen = job[s].seen /\ j2.orig = job[s].orig
        /\ j2.topic = job[s].topic /\ j2.verb = job[s].verb
    BY <1>0 DEF JobType
  <2>3. CASE Dirty(t)
    BY <1>9, <1>10, <2>1, <2>3 DEF AbsorbAdd, Goto
  <2>4. CASE ~Dirty(t)
    BY <1>7, <1>9, <1>10, <2>2, <2>4 DEF AbsorbAdd
  <2> QED BY <2>3, <2>4
<1>11. CASE AbsorbCommit(s)
  <2> DEFINE j == [job[s] EXCEPT !.todo = @ \ {job[s].cur}, !.cur = Nobody]
  <2>1. /\ j.text = job[s].text /\ j.seen = job[s].seen /\ j.orig = job[s].orig
        /\ j.topic = job[s].topic /\ j.verb = job[s].verb
    BY <1>0 DEF JobType
  <2> QED BY <1>9, <1>11, <2>1 DEF AbsorbCommit, Goto
<1>12. CASE GitCommit(s) /\ Wait(s, Job("trim", job[s].topic, NoLine))
  <2> DEFINE j == Job("trim", job[s].topic, NoLine)
  <2>1. GateLocal(s, "wait", j) /\ j.verb = "trim"
    BY JobClean, JobFields DEF GateLocal
  <2> QED BY <1>6, <1>12, <2>1 DEF Wait, Goto, SetJob
<1> QED BY <1>5, <1>8, <1>10, <1>11, <1>12
      DEF AbsorbFails, RefuseMoved, HeadGone, NoChange, GitAdd, GitCommit, GitFails

LEMMA GateChange ==
  ASSUME IndInv, IndInv', GateInv, NEW s \in Sessions,
         \/ OpenHead(s) \/ WriteHead(s) \/ UnlinkHead(s) \/ WriteMenu(s)
         \/ \E k \in Snaps : Snapshot(s, k)
  PROVE  GateInv'
<1>0. /\ Control /\ Data /\ HeadsClean /\ LocalsClean /\ SnapsClean /\ job[s] \in JobType
      /\ GateLocal(s, pc[s], job[s]) /\ SnapClean(s) /\ LocalInv(pc[s], job[s])
  BY IndSplit, GateJoin DEF LocalsClean, SnapsClean, Control, JobInv
<1>1. Control'
  BY DEF IndInv, TypeOK, Control
<1>2. pc[s] \in {"sweep", "write", "unlink", "menu"} /\ InTxn(s) /\ Prepared(job[s])
      /\ UNCHANGED tree
  BY <1>0 DEF OpenHead, WriteHead, UnlinkHead, WriteMenu, AtMenu, Snapshot, Swept, InTxn, TxnLabels,
         LocalInv
<1>3. job = [job EXCEPT ![s] = job[s]]
  BY <1>0 DEF Control
<1>4. CASE OpenHead(s)
  <2> DEFINE j == [job[s] EXCEPT !.orig = wt[job[s].topic]]
  <2>1. job[s].topic \in Topics
    BY <1>2, <1>4 DEF OpenHead, Prepared, Writers
  <2>2. Clean(Torn)
    BY ConstantHeads, ConstantsAssumption DEF Clean, LinesOf, Torn, NoLine
  <2>3. HeadsClean'
    BY <1>0, <1>2, <1>4, <2>1, <2>2, PutClean DEF OpenHead, Path
  <2>4. /\ j.text = job[s].text /\ j.seen = job[s].seen /\ j.orig = wt[job[s].topic]
        /\ j.topic = job[s].topic /\ j.verb = job[s].verb
    BY <1>0 DEF JobType
  <2>5. GateLocal(s, "write", j)
    BY <1>0, <1>4, <2>4 DEF OpenHead, Swept, GateLocal, TxnLabels, HeadsClean
  <2>6. LocalsClean'
    BY <1>0, <1>4, <2>5, LocalsMove DEF OpenHead
  <2>7. SnapsClean'
    BY <1>0, <1>1, <1>2, <1>4, SnapsInside DEF OpenHead, Goto, SetJob, Archiving
  <2> QED BY <2>3, <2>6, <2>7, GateJoin
<1>5. CASE WriteHead(s)
  <2>1. job[s].topic \in Topics /\ job[s].verb \in Writers /\ LocalInv("write", job[s])
    BY <1>0, <1>2, <1>5 DEF WriteHead, Prepared, Writers, LocalInv, TxnLabels
  <2>2. job[s].topic \in Gated => Clean(NewText(job[s]))
    BY <1>0, <1>5, <2>1, NewTextClean DEF WriteHead
  <2>3. HeadsClean'
    BY <1>0, <1>2, <1>5, <2>1, <2>2, PutClean DEF WriteHead, Path
  <2>4. GateLocal(s, "add", job[s])
    BY <1>0, <1>5 DEF WriteHead, GateLocal, TxnLabels
  <2>5. LocalsClean'
    BY <1>0, <1>5, <2>4, LocalsGoto DEF WriteHead
  <2>6. SnapsClean'
    BY <1>0, <1>1, <1>2, <1>3, <1>5, <2>1, SnapsInside DEF WriteHead, Goto, Writers
  <2> QED BY <2>3, <2>5, <2>6, GateJoin
<1>6. CASE UnlinkHead(s)
  <2>1. job[s].topic \in Topics /\ job[s].verb = "delete" /\ job[s].snap \in Snaps
    BY <1>0, <1>2, <1>6 DEF UnlinkHead, Prepared, LocalInv, Archivers
  <2>2. HeadsClean'
    BY <1>0, <1>2, <1>6, <2>1, PutClean DEF UnlinkHead, Path, Clean, LinesOf
  <2>3. GateLocal(s, "menu", job[s])
    BY <1>0, <1>6, <2>1 DEF GateLocal
  <2>4. LocalsClean'
    BY <1>0, <1>6, <2>3, LocalsGoto DEF UnlinkHead
  <2>5. wt'[job[s].snap] = wt[job[s].snap]
    BY <1>0, <1>6, <2>1, ConstantsAssumption DEF UnlinkHead, Put, Data, AreaOK, Path
  <2>6. SnapsClean'
    BY <1>0, <1>1, <1>2, <1>3, <1>6, <2>5, SnapsInside DEF UnlinkHead, Goto, SnapClean, Archiving
  <2> QED BY <2>2, <2>4, <2>6, GateJoin
<1>7. CASE WriteMenu(s)
  <2>1. job[s].verb \in Archivers \/ job[s].verb = "autofix"
    BY <1>0, <1>7 DEF WriteMenu, AtMenu, LocalInv
  <2>2. HeadsClean'
    BY <1>0, <1>2, <1>7, PutClean, ConstantsAssumption DEF WriteMenu, Path
  <2>3. GateLocal(s, "add", job[s])
    BY <1>0, <1>7, <2>1 DEF GateLocal, Archivers
  <2>4. LocalsClean'
    BY <1>0, <1>7, <2>3, LocalsGoto DEF WriteMenu
  <2>5. job[s].verb = "delete" => pc[s] = "menu" /\ wt'[job[s].snap] = wt[job[s].snap]
    BY <1>0, <1>7, ConstantsAssumption DEF WriteMenu, AtMenu, Put, Data, AreaOK, Path, LocalInv, Archivers
  <2>6. SnapsClean'
    BY <1>0, <1>1, <1>2, <1>3, <1>7, <2>5, SnapsInside DEF WriteMenu, Goto, SnapClean, Archiving
  <2> QED BY <2>2, <2>4, <2>6, GateJoin
<1>8. ASSUME NEW k \in Snaps, Snapshot(s, k) PROVE GateInv'
  <2> DEFINE j == [job[s] EXCEPT !.snap = k]
             l == IF job[s].verb = "delete" THEN "unlink" ELSE "menu"
  <2>1. HeadsClean'
    BY <1>0, <1>2, <1>8, PutClean, ConstantsAssumption DEF Snapshot, Path
  <2>2. /\ j.text = job[s].text /\ j.seen = job[s].seen /\ j.orig = job[s].orig
        /\ j.topic = job[s].topic /\ j.verb = job[s].verb /\ j.snap = k
        /\ job[s].verb \in Archivers
    BY <1>0, <1>8 DEF JobType, Snapshot
  <2>3. GateLocal(s, l, j)
    BY <1>0, <2>2 DEF GateLocal, Archivers
  <2>4. LocalsClean'
    BY <1>0, <1>8, <2>3, LocalsMove DEF Snapshot
  <2>5. wt'[k] = wt[job[s].topic]
    BY <1>0, <1>8 DEF Snapshot, Put, Data, AreaOK, Path
  <2>6. j.topic \in Gated => Clean(wt'[j.snap])
    BY <1>0, <2>2, <2>5 DEF HeadsClean
  <2>7. pc' = [pc EXCEPT ![s] = l] /\ job' = [job EXCEPT ![s] = j]
    BY <1>8 DEF Snapshot, Goto, SetJob
  <2>8. SnapsClean'
    <3> HIDE DEF j, l
    <3> QED BY <1>0, <1>1, <1>2, <2>6, <2>7, SnapsInside
  <2> QED BY <2>1, <2>4, <2>8, GateJoin
<1> QED BY <1>4, <1>5, <1>6, <1>7, <1>8

LEMMA GateRollback ==
  ASSUME IndInv, IndInv', GateInv, NEW s \in Sessions, Rollback(s)
  PROVE  GateInv'
<1>0. /\ Control /\ Data /\ HeadsClean /\ LocalsClean /\ SnapsClean
      /\ GateLocal(s, pc[s], job[s]) /\ SnapClean(s) /\ LocalInv(pc[s], job[s])
  BY IndSplit, GateJoin DEF LocalsClean, SnapsClean, Control, JobInv
<1>1. Control' /\ InTxn(s) /\ pc[s] = "rollback" /\ Return(s) /\ wt' = Restored(job[s])
      /\ UNCHANGED tree /\ Prepared(job[s]) /\ job[s].verb \in Lockers
  BY <1>0 DEF IndInv, TypeOK, Control, Rollback, InTxn, TxnLabels, LocalInv
<1>2. LocalsClean' /\ SnapsClean'
  BY <1>0, <1>1, LocalsReturn, SnapsReturn
<1>3. CASE job[s].verb \in Writers
  <2>1. wt' = Put(wt, job[s].topic, job[s].orig) /\ job[s].topic \in Topics
    BY <1>1, <1>3 DEF Restored, Prepared, Writers
  <2>2. job[s].topic \in Gated => Clean(job[s].orig)
    BY <1>0 DEF GateLocal
  <2> QED BY <1>0, <1>1, <1>2, <2>1, <2>2, PutClean, GateJoin DEF Path
<1>4. CASE job[s].verb \in {"finalize", "compact"}
  <2>1. wt' = Put(wt, job[s].snap, Absent) /\ job[s].snap \in Snaps
    BY <1>0, <1>1, <1>4 DEF Restored, LocalInv, Archivers, Writers
  <2> QED BY <1>0, <1>1, <1>2, <2>1, PutClean, ConstantsAssumption, GateJoin DEF Path
<1>5. CASE job[s].verb = "delete"
  <2> DEFINE mid == Put(Put(wt, job[s].topic, wt[job[s].snap]), job[s].snap, Absent)
  <2>1. /\ wt' = Put(mid, IndexMd, MenuOf(mid))
        /\ job[s].topic \in Topics /\ job[s].snap \in Snaps
    BY <1>0, <1>1, <1>5 DEF Restored, LocalInv, Archivers, Writers, Prepared
  <2>2. job[s].topic \in Gated => Clean(wt[job[s].snap])
    BY <1>0, <1>1, <1>5 DEF SnapClean, Archiving
  <2>3. \A t \in Topics : wt'[t] = IF t = job[s].topic THEN wt[job[s].snap] ELSE wt[t]
    BY <1>0, <2>1, ConstantsAssumption DEF Put, Data, AreaOK, Path
  <2>4. HeadsClean'
    BY <1>0, <1>1, <2>2, <2>3, ConstantsAssumption DEF HeadsClean
  <2> QED BY <1>2, <2>4, GateJoin
<1>6. CASE job[s].verb = "autofix"
  BY <1>0, <1>1, <1>2, <1>6, GateJoin DEF Restored, Writers, HeadsClean
<1> QED BY <1>1, <1>3, <1>4, <1>5, <1>6 DEF Lockers, Sweepers, Archivers

LEMMA GateBrokenOff ==
  ASSUME IndInv, IndInv', GateInv, NEW s \in Sessions, Kill(s) \/ DiskFails(s)
  PROVE  GateInv'
<1>0. /\ Control /\ Data /\ HeadsClean /\ LocalsClean /\ SnapsClean /\ LocalInv(pc[s], job[s])
  BY IndSplit, GateJoin DEF Control, JobInv
<1>1. Control' /\ Return(s) /\ wt' \in {wt, HalfWritten(s)} /\ UNCHANGED tree
  BY DEF IndInv, TypeOK, Control, Kill, DiskFails
<1>2. Clean(Torn)
  BY ConstantHeads, ConstantsAssumption DEF Clean, LinesOf, Torn, NoLine
<1>3. \/ wt' = wt \/ wt' = Put(wt, IndexMd, NoMenu)
      \/ wt' = Put(wt, job[s].topic, Torn) /\ job[s].topic \in Topics
  BY <1>0, <1>1 DEF HalfWritten, LocalInv, Prepared, TxnLabels, Writers
<1>4. HeadsClean'
  BY <1>0, <1>1, <1>2, <1>3, PutClean, ConstantsAssumption DEF Path, HeadsClean
<1>5. \A k \in Snaps : wt'[k] = wt[k]
  BY <1>0, <1>3, ConstantsAssumption DEF Put, Data, AreaOK, Path
<1> QED BY <1>0, <1>1, <1>4, <1>5, LocalsReturn, SnapsReturn, GateJoin

LEMMA GateEdits ==
  ASSUME IndInv, GateInv, NEW t \in Topics, EditHead(t) \/ StageByHand(t)
  PROVE  GateInv'
<1>0. Control /\ Data /\ HeadsClean /\ LocalsClean /\ SnapsClean /\ wt[t] \in HeadFile \cup {Absent}
  BY IndSplit, GateJoin, AreaAt DEF Data
<1>1. UNCHANGED <<pc, job, tree>>
  BY DEF EditHead, StageByHand
<1>2. LocalsClean'
  BY <1>0, <1>1 DEF LocalsClean
<1>3. CASE StageByHand(t)
  BY <1>0, <1>1, <1>2, <1>3, GateJoin DEF StageByHand, HeadsClean, SnapsClean, SnapClean
<1>4. CASE EditHead(t)
  <2> DEFINE edited == [wt[t] EXCEPT !.ess = Mint(Editor)]
             fresh == [upd |-> <<>>, ess |-> Mint(Editor)]
  <2>1. Mint(Editor).by \notin Sessions /\ Clean(fresh) /\ Clean(Absent)
    BY ConstantsAssumption DEF Mint, Clean, LinesOf
  <2>2. Exists(t) => edited.upd = wt[t].upd /\ edited.ess = Mint(Editor)
    BY <1>0 DEF HeadFile, Exists
  <2>3. Exists(t) => LinesOf(edited) \subseteq LinesOf(wt[t]) \cup {Mint(Editor)}
    BY <2>2 DEF LinesOf, Exists
  <2>4. t \in Gated /\ Exists(t) => Clean(edited)
    BY <1>0, <2>1, <2>3 DEF HeadsClean, Clean
  <2>5. \/ wt' = Put(wt, t, fresh) \/ wt' = Put(wt, t, Absent)
        \/ Exists(t) /\ wt' = Put(wt, t, edited)
    BY <1>4 DEF EditHead
  <2>6. HeadsClean' /\ \A k \in Snaps : wt'[k] = wt[k]
    <3> HIDE DEF edited, fresh
    <3>1. HeadsClean'
      BY <1>0, <1>1, <2>1, <2>4, <2>5, PutClean DEF Path
    <3>2. \A k \in Snaps : wt'[k] = wt[k]
      BY <1>0, <2>5, ConstantsAssumption DEF Put, Data, AreaOK, Path
    <3> QED BY <3>1, <3>2
  <2>7. SnapsClean'
    <3> SUFFICES ASSUME NEW u \in Sessions PROVE SnapClean(u)'
      BY DEF SnapsClean
    <3>1. job[u].verb = "delete" /\ pc[u] \in Archiving => job[u].snap \in Snaps
      BY <1>0 DEF Control, JobInv, LocalInv, Archiving, Archivers
    <3> QED BY <1>0, <1>1, <2>6, <3>1 DEF SnapsClean, SnapClean
  <2> QED BY <1>2, <2>6, <2>7, GateJoin
<1> QED BY <1>3, <1>4

LEMMA GateStep == IndInv /\ IndInv' /\ GateInv /\ [Next]_vars => GateInv'
<1> SUFFICES ASSUME IndInv, IndInv', GateInv, [Next]_vars PROVE GateInv'
  OBVIOUS
<1>1. ASSUME NEW s \in Sessions, Call(s) PROVE GateInv'
  BY <1>1, GateBefore
<1>2. ASSUME NEW s \in Sessions, BeginRewrite(s) PROVE GateInv'
  BY <1>2, GateAtTheLock
<1>3. ASSUME NEW s \in Sessions, Step(s) PROVE GateInv'
  <2>1. CASE \/ PreCheckUpdate(s) \/ WriteReindex(s)
             \/ AcquireLock(s) \/ LockTimeout(s) \/ Enter(s)
    BY <2>1, GateAtTheLock
  <2>2. CASE \/ (\E t \in Topics : AbsorbAdd(s, t)) \/ AbsorbCommit(s) \/ AbsorbFails(s)
             \/ RefuseMoved(s) \/ HeadGone(s) \/ NoChange(s)
             \/ GitAdd(s) \/ GitCommit(s) \/ GitFails(s)
    BY <2>2, GateInTxn
  <2>3. CASE \/ OpenHead(s) \/ WriteHead(s) \/ UnlinkHead(s) \/ WriteMenu(s)
             \/ \E k \in Snaps : Snapshot(s, k)
    BY <2>3, GateChange
  <2>4. CASE Rollback(s)
    BY <2>4, GateRollback
  <2>5. CASE DiskFails(s)
    BY <2>5, GateBrokenOff
  <2> QED BY <1>3, <2>1, <2>2, <2>3, <2>4, <2>5 DEF Step
<1>4. ASSUME NEW s \in Sessions, Kill(s) PROVE GateInv'
  BY <1>4, GateBrokenOff
<1>5. ASSUME NEW t \in Topics, EditHead(t) \/ StageByHand(t) PROVE GateInv'
  BY <1>5, GateEdits
<1>6. CASE UNCHANGED vars
  BY <1>6, GateJoin DEF vars, GateInv, SnapClean
<1> QED BY <1>1, <1>2, <1>3, <1>4, <1>5, <1>6 DEF Next

LEMMA GateAlways == Spec => []GateInv
BY GateInit, GateStep, IndAlways, PTL DEF Spec

\* Any number of sessions and topics: no untrusted session's text is ever in a gated
\* HEAD, on disk or committed, through any interleaving, rollback or crash
\* (gate_reason, gate_recheck).
THEOREM GateSafety == Spec => []GateHolds
<1>1. GateInv => GateHolds
  BY DEF GateInv, GateHolds, Clean
<1> QED BY <1>1, GateAlways, PTL

-----------------------------------------------------------------------------
(* Failures leave no trace.  A HEAD differs from the committed one only under a  *)
(* session that is changing it, and that session still holds the committed text: *)
(* a writer in its locals, a delete in its snapshot.                             *)

Changing == {"write", "add", "commit", "rollback"}

Working(s, t) ==
  /\ job[s].topic = t
  /\ \/ job[s].verb \in Writers /\ pc[s] \in Changing
     \/ job[s].verb = "delete" /\ pc[s] \in {"menu", "add", "commit", "rollback"}

Remembers(s) ==
  LET t == job[s].topic IN
  /\ job[s].verb \in Writers /\ pc[s] \in Changing
       => t \in foreign \/ job[s].orig = tree[t]
  /\ job[s].verb = "delete" /\ pc[s] \in Archiving
       => t \in foreign \/ wt[job[s].snap] = tree[t]

TraceInv ==
  /\ \A t \in Topics \ foreign : wt[t] = tree[t] \/ \E s \in Sessions : Working(s, t)
  /\ \A s \in Sessions : Remembers(s)

\* the same, when s is the one session inside its transaction
TraceOf(s) ==
  /\ \A t \in Topics \ foreign : wt[t] = tree[t] \/ Working(s, t)
  /\ Remembers(s)

LEMMA TraceInit == Init => TraceInv
BY DEF Init, TraceInv, Working, Remembers, Changing, Archiving, Path

LEMMA TraceInside ==
  ASSUME Control, TraceInv, NEW s \in Sessions, InTxn(s)
  PROVE  TraceOf(s)
<1>1. \A u \in Sessions \ {s} : pc[u] \notin TxnLabels
  BY DEF Control, LockInv, InTxn
<1>2. \A t : \A u \in Sessions \ {s} : ~Working(u, t)
  BY <1>1 DEF Working, Changing, TxnLabels
<1> QED BY <1>2 DEF TraceInv, TraceOf

LEMMA TraceJoin ==
  ASSUME Control, NEW s \in Sessions, InTxn(s), NEW l, NEW j,
         pc' = [pc EXCEPT ![s] = l], job' = [job EXCEPT ![s] = j], TraceOf(s)'
  PROVE  TraceInv'
<1>1. \A u \in Sessions \ {s} : pc'[u] \notin TxnLabels
  BY DEF Control, LockInv, InTxn
<1>2. \A u \in Sessions \ {s} : Remembers(u)'
  BY <1>1 DEF Remembers, Changing, Archiving, TxnLabels
<1> QED BY <1>2 DEF TraceInv, TraceOf

\* a session that changes no HEAD before or after the step
LEMMA TraceOutside ==
  ASSUME Control, TraceInv, NEW s \in Sessions, NEW l, NEW j,
         pc' = [pc EXCEPT ![s] = l], job' = [job EXCEPT ![s] = j],
         pc[s] \notin Archiving \cup Changing, l \notin Archiving \cup Changing,
         \A p \in Topics \cup Snaps : wt'[p] = wt[p],
         UNCHANGED <<tree, foreign>>
  PROVE  TraceInv'
<1>1. pc'[s] = l /\ \A u \in Sessions \ {s} : pc'[u] = pc[u] /\ job'[u] = job[u]
  BY DEF Control
<1>2. \A t : ~Working(s, t) /\ \A u \in Sessions \ {s} : Working(u, t) => Working(u, t)'
  BY <1>1 DEF Working, Changing, Archiving
<1>3. ASSUME NEW u \in Sessions PROVE Remembers(u)'
  <2>1. CASE u = s
    BY <1>1, <2>1 DEF Remembers
  <2>2. CASE u # s
    <3>1. Remembers(u) /\ LocalInv(pc[u], job[u]) /\ pc'[u] = pc[u] /\ job'[u] = job[u]
      BY <1>1, <2>2 DEF TraceInv, Control, JobInv
    <3>2. job[u].verb = "delete" /\ pc[u] \in Archiving => job[u].snap \in Snaps
      BY <3>1 DEF LocalInv, Archiving, Archivers
    <3> QED BY <3>1, <3>2 DEF Remembers
  <2> QED BY <2>1, <2>2
<1> QED BY <1>1, <1>2, <1>3 DEF TraceInv

LEMMA TraceBefore ==
  ASSUME IndInv, TraceInv, NEW s \in Sessions,
         \/ Call(s) \/ PreCheckUpdate(s) \/ BeginRewrite(s) \/ WriteReindex(s)
         \/ AcquireLock(s) \/ LockTimeout(s) \/ Enter(s)
  PROVE  TraceInv'
<1>0. Control /\ Data /\ pc = [pc EXCEPT ![s] = pc[s]] /\ job = [job EXCEPT ![s] = job[s]]
  BY IndSplit DEF Control
<1>1. /\ pc[s] \in {"idle", "gated", "composing", "reindex", "wait", "enter"}
      /\ UNCHANGED <<tree, foreign>>
  BY DEF Call, BeginUpdate, BeginNew, BeginEssence, ShowForRewrite, BeginArchive,
         BeginCompact, BeginAutofix, BeginReindex, Begin, PreCheckUpdate, BeginRewrite,
         WriteReindex, AcquireLock, LockTimeout, Enter
<1>2. \A p \in Topics \cup Snaps : wt'[p] = wt[p]
  <2>1. CASE WriteReindex(s)
    BY <1>0, <2>1, ConstantsAssumption DEF WriteReindex, Put, Path, Data, AreaOK
  <2>2. CASE ~WriteReindex(s)
    BY <2>2 DEF Call, BeginUpdate, BeginNew, BeginEssence, ShowForRewrite, BeginArchive,
       BeginCompact, BeginAutofix, BeginReindex, PreCheckUpdate, BeginRewrite,
       AcquireLock, LockTimeout, Enter
  <2> QED BY <2>1, <2>2
<1>3. \E l \in Labels : \E j : /\ pc' = [pc EXCEPT ![s] = l] /\ job' = [job EXCEPT ![s] = j]
                           /\ l \notin Archiving \cup Changing
  <2>1. CASE Call(s)
    BY <1>0, <1>1, <2>1 DEF Call, BeginUpdate, BeginNew, BeginEssence, ShowForRewrite,
       BeginArchive, BeginCompact, BeginAutofix, BeginReindex, Wait, Goto, SetJob, Archiving,
       Changing, Labels, TxnLabels
  <2>2. CASE PreCheckUpdate(s) \/ BeginRewrite(s) \/ WriteReindex(s)
    BY <1>0, <2>2 DEF PreCheckUpdate, BeginRewrite, WriteReindex, Return, Wait, Goto, SetJob,
       Archiving, Changing, Labels, TxnLabels
  <2>3. CASE AcquireLock(s) \/ LockTimeout(s) \/ Enter(s)
    BY <1>0, <2>3 DEF AcquireLock, LockTimeout, Enter, Return, Goto, SetJob, Archiving, Changing,
       Labels, TxnLabels
  <2> QED BY <2>1, <2>2, <2>3
<1>4. pc[s] \notin Archiving \cup Changing
  BY <1>1 DEF Archiving, Changing
<1> QED BY <1>0, <1>1, <1>2, <1>3, <1>4, TraceOutside

\* the one session inside its transaction returns, and every HEAD is as committed
LEMMA TraceReturn ==
  ASSUME Control, NEW s \in Sessions, InTxn(s), Return(s),
         \A t \in Topics \ foreign' : wt'[t] = tree'[t]
  PROVE  TraceInv'
<1>1. pc' = [pc EXCEPT ![s] = "idle"] /\ job' = [job EXCEPT ![s] = NoJob]
  BY DEF Return, Goto, SetJob
<1>2. TraceOf(s)'
  BY <1>1 DEF TraceOf, Remembers, Control, Changing, Archiving
<1> QED BY <1>1, <1>2, TraceJoin

LEMMA TraceAbsorb ==
  ASSUME IndInv, TraceInv, NEW s \in Sessions,
         \/ (\E t \in Topics : AbsorbAdd(s, t)) \/ AbsorbCommit(s) \/ AbsorbFails(s)
         \/ RefuseMoved(s) \/ HeadGone(s)
  PROVE  TraceInv'
<1>0. /\ Control /\ pc[s] \in {"sweep", "absorb"} /\ UNCHANGED wt
      /\ pc = [pc EXCEPT ![s] = pc[s]] /\ job = [job EXCEPT ![s] = job[s]]
  BY IndSplit DEF Control, AbsorbAdd, AbsorbCommit, AbsorbFails, RefuseMoved, HeadGone, Swept
<1>1. InTxn(s) /\ TraceOf(s)
  BY <1>0, TraceInside DEF InTxn, TxnLabels
<1>2. \A t \in Topics \ foreign : wt[t] = tree[t]
  BY <1>0, <1>1 DEF TraceOf, Working, Changing
<1>3. CASE Return(s) /\ UNCHANGED <<tree, foreign>>
  BY <1>0, <1>1, <1>2, <1>3, TraceReturn
<1>4. ASSUME NEW l \in {"sweep", "absorb"}, NEW j, pc' = [pc EXCEPT ![s] = l], SetJob(s, j),
             \A t \in Topics \ foreign' : wt'[t] = tree'[t]
      PROVE  TraceInv'
  <2>1. TraceOf(s)'
    BY <1>0, <1>4 DEF TraceOf, Remembers, Control, Changing, Archiving
  <2> QED BY <1>0, <1>1, <1>4, <2>1, TraceJoin DEF SetJob
<1>5. ASSUME NEW t \in Topics, AbsorbAdd(s, t) PROVE TraceInv'
  BY <1>0, <1>2, <1>4, <1>5 DEF AbsorbAdd, Goto
<1>6. CASE AbsorbCommit(s)
  <2>1. \A t \in Topics \ foreign' : wt'[t] = tree'[t]
    BY <1>0, <1>2, <1>6 DEF AbsorbCommit, Commit, Path
  <2> QED BY <1>4, <1>6, <2>1 DEF AbsorbCommit, Goto
<1> QED BY <1>3, <1>5, <1>6 DEF AbsorbFails, RefuseMoved, HeadGone

LEMMA TraceChange ==
  ASSUME IndInv, TraceInv, NEW s \in Sessions,
         \/ OpenHead(s) \/ WriteHead(s) \/ UnlinkHead(s) \/ WriteMenu(s)
         \/ \E k \in Snaps : Snapshot(s, k)
  PROVE  TraceInv'
<1>0. /\ Control /\ Data /\ job[s] \in JobType /\ LocalInv(pc[s], job[s])
      /\ job = [job EXCEPT ![s] = job[s]]
  BY IndSplit DEF Control, JobInv
<1>1. /\ pc[s] \in {"sweep", "write", "unlink", "menu"} /\ InTxn(s) /\ Prepared(job[s])
      /\ UNCHANGED <<tree, foreign>>
  BY <1>0 DEF OpenHead, WriteHead, UnlinkHead, WriteMenu, AtMenu, Snapshot, Swept, InTxn, TxnLabels,
         LocalInv
<1>2. TraceOf(s)
  BY <1>0, <1>1, TraceInside
<1>3. CASE OpenHead(s)
  <2> DEFINE j == [job[s] EXCEPT !.orig = wt[job[s].topic]]
  <2>1. /\ j.topic = job[s].topic /\ j.verb = job[s].verb /\ j.orig = wt[job[s].topic]
        /\ job[s].topic \in Topics /\ job[s].verb \in Writers /\ job[s].verb # "delete"
    BY <1>0, <1>1, <1>3 DEF JobType, OpenHead, Prepared, Writers
  <2>2. pc' = [pc EXCEPT ![s] = "write"] /\ job' = [job EXCEPT ![s] = j]
    BY <1>3 DEF OpenHead, Goto, SetJob
  <2>3. \A t \in Topics \ foreign : wt[t] = tree[t]
    BY <1>2, <1>3 DEF TraceOf, Working, OpenHead, Swept, Changing
  <2>4. \A t \in Topics : t # job[s].topic => wt'[t] = wt[t]
    BY <1>0, <1>3, <2>1 DEF OpenHead, Put, Data, AreaOK, Path
  <2>5. TraceOf(s)'
    <3> HIDE DEF j
    <3> QED BY <1>0, <1>1, <2>1, <2>2, <2>3, <2>4
          DEF TraceOf, Working, Remembers, Control, Changing, Archiving
  <2> QED BY <1>0, <1>1, <2>2, <2>5, TraceJoin
<1>4. CASE WriteHead(s)
  <2>1. /\ job[s].topic \in Topics /\ job[s].verb \in Writers /\ job[s].verb # "delete"
        /\ pc' = [pc EXCEPT ![s] = "add"] /\ UNCHANGED job
    BY <1>0, <1>1, <1>4 DEF WriteHead, LocalInv, Prepared, Writers, Goto
  <2>2. \A t \in Topics : t # job[s].topic => wt'[t] = wt[t]
    BY <1>0, <1>4, <2>1 DEF WriteHead, Put, Data, AreaOK, Path
  <2>3. TraceOf(s)'
    BY <1>0, <1>1, <1>2, <1>4, <2>1, <2>2
       DEF TraceOf, Working, Remembers, Control, Changing, Archiving, WriteHead
  <2> QED BY <1>0, <1>1, <2>1, <2>3, TraceJoin
<1>5. CASE UnlinkHead(s)
  <2>1. /\ job[s].topic \in Topics /\ job[s].verb = "delete" /\ job[s].snap \in Snaps
        /\ pc' = [pc EXCEPT ![s] = "menu"] /\ UNCHANGED job /\ pc[s] = "unlink"
    BY <1>0, <1>1, <1>5 DEF UnlinkHead, LocalInv, Prepared, Archivers, Goto
  <2>2. \A p \in Topics \cup Snaps : p # job[s].topic => wt'[p] = wt[p]
    BY <1>0, <1>5, <2>1 DEF UnlinkHead, Put, Data, AreaOK, Path
  <2>3. TraceOf(s)'
    BY <1>0, <1>1, <1>2, <2>1, <2>2, ConstantsAssumption
       DEF TraceOf, Working, Remembers, Control, Changing, Archiving, Writers
  <2> QED BY <1>0, <1>1, <2>1, <2>3, TraceJoin
<1>6. CASE WriteMenu(s)
  <2>1. /\ job[s].verb \in Archivers \cup {"autofix"} /\ job[s].verb \notin Writers
        /\ pc' = [pc EXCEPT ![s] = "add"] /\ UNCHANGED job
        /\ job[s].verb = "delete" => pc[s] = "menu" /\ job[s].snap \in Snaps
    BY <1>0, <1>1, <1>6 DEF WriteMenu, AtMenu, LocalInv, Archivers, Writers, Goto
  <2>2. \A p \in Topics \cup Snaps : wt'[p] = wt[p]
    BY <1>0, <1>6, ConstantsAssumption DEF WriteMenu, Put, Data, AreaOK, Path
  <2>3. TraceOf(s)'
    BY <1>0, <1>1, <1>2, <2>1, <2>2
       DEF TraceOf, Working, Remembers, Control, Changing, Archiving
  <2> QED BY <1>0, <1>1, <2>1, <2>3, TraceJoin
<1>7. ASSUME NEW k \in Snaps, Snapshot(s, k) PROVE TraceInv'
  <2> DEFINE j == [job[s] EXCEPT !.snap = k]
             l == IF job[s].verb = "delete" THEN "unlink" ELSE "menu"
  <2>1. /\ j.topic = job[s].topic /\ j.verb = job[s].verb /\ j.snap = k
        /\ job[s].topic \in Topics /\ job[s].verb \notin Writers
    BY <1>0, <1>1, <1>7 DEF JobType, Snapshot, Prepared, Writers, Archivers
  <2>2. pc' = [pc EXCEPT ![s] = l] /\ job' = [job EXCEPT ![s] = j]
    BY <1>7 DEF Snapshot, Goto, SetJob
  <2>3. /\ \A t \in Topics : wt'[t] = wt[t]
        /\ wt'[k] = wt[job[s].topic]
    BY <1>0, <1>7, ConstantsAssumption DEF Snapshot, Put, Data, AreaOK, Path
  <2>4. \A t \in Topics \ foreign : wt[t] = tree[t]
    BY <1>2, <1>7 DEF TraceOf, Working, Snapshot, Swept, Changing
  <2>5. TraceOf(s)'
    <3> HIDE DEF j, l
    <3> QED BY <1>0, <1>1, <2>1, <2>2, <2>3, <2>4
          DEF TraceOf, Working, Remembers, Control, Changing, Archiving
  <2> QED BY <1>0, <1>1, <2>2, <2>5, TraceJoin
<1> QED BY <1>3, <1>4, <1>5, <1>6, <1>7

LEMMA TraceCommit ==
  ASSUME IndInv, TraceInv, NEW s \in Sessions,
         GitAdd(s) \/ NoChange(s) \/ GitCommit(s) \/ GitFails(s)
  PROVE  TraceInv'
<1>0. /\ Control /\ LocalInv(pc[s], job[s]) /\ pc[s] \in {"add", "commit"} /\ UNCHANGED wt
      /\ job = [job EXCEPT ![s] = job[s]]
  BY IndSplit DEF Control, JobInv, GitAdd, NoChange, GitCommit, GitFails
<1>1. InTxn(s) /\ TraceOf(s) /\ job[s].verb \in Lockers
  BY <1>0, TraceInside DEF InTxn, TxnLabels, LocalInv
<1>2. \A t \in Topics : Working(s, t) => t \in OwnPaths(job[s])
  BY <1>0 DEF Working, OwnPaths, Writers
<1>3. CASE NoChange(s)
  <2>1. \A t \in Topics \ foreign : wt[t] = tree[t]
    BY <1>1, <1>2, <1>3 DEF NoChange, TraceOf, Dirty
  <2> QED BY <1>0, <1>1, <1>3, <2>1, TraceReturn DEF NoChange
<1>4. ASSUME NEW l \in {"commit", "rollback"}, Goto(s, l), UNCHANGED <<job, tree, foreign>>
      PROVE  TraceInv'
  <2>1. TraceOf(s)'
    BY <1>0, <1>1, <1>4 DEF TraceOf, Working, Remembers, Control, Changing, Archiving, Goto
  <2> QED BY <1>0, <1>1, <1>4, <2>1, TraceJoin DEF Goto
<1>5. CASE GitCommit(s)
  <2>1. \A t \in Topics \ foreign' : wt'[t] = tree'[t]
    BY <1>0, <1>1, <1>2, <1>5 DEF GitCommit, Commit, TraceOf, Path
  <2>2. CASE Return(s)
    BY <1>0, <1>1, <2>1, <2>2, TraceReturn
  <2>3. CASE Wait(s, Job("trim", job[s].topic, NoLine))
    <3> DEFINE j == Job("trim", job[s].topic, NoLine)
    <3>1. pc' = [pc EXCEPT ![s] = "wait"] /\ job' = [job EXCEPT ![s] = j]
      BY <2>3 DEF Wait, Goto, SetJob
    <3>2. TraceOf(s)'
      BY <1>0, <2>1, <3>1 DEF TraceOf, Remembers, Control, Changing, Archiving
    <3> QED BY <1>0, <1>1, <3>1, <3>2, TraceJoin
  <2> QED BY <1>5, <2>2, <2>3 DEF GitCommit
<1> QED BY <1>3, <1>4, <1>5 DEF GitAdd, GitFails

LEMMA TraceRollback ==
  ASSUME IndInv, TraceInv, NEW s \in Sessions, Rollback(s)
  PROVE  TraceInv'
<1>0. Control /\ Data /\ LocalInv(pc[s], job[s])
  BY IndSplit DEF Control, JobInv
<1>1. /\ pc[s] = "rollback" /\ InTxn(s) /\ Return(s) /\ wt' = Restored(job[s])
      /\ UNCHANGED <<tree, foreign>> /\ Prepared(job[s]) /\ job[s].verb \in Lockers
  BY <1>0 DEF Rollback, InTxn, TxnLabels, LocalInv
<1>2. TraceOf(s)
  BY <1>0, <1>1, TraceInside
<1> DEFINE t0 == job[s].topic
<1>3. \A t \in Topics \ foreign : t # t0 => wt[t] = tree[t]
  BY <1>2 DEF TraceOf, Working
<1>4. CASE job[s].verb \in Writers
  <2>1. wt' = Put(wt, t0, job[s].orig) /\ t0 \in Topics
    BY <1>1, <1>4 DEF Restored, Prepared, Writers
  <2>2. t0 \in foreign \/ job[s].orig = tree[t0]
    BY <1>1, <1>2, <1>4 DEF TraceOf, Remembers, Changing
  <2>3. \A t \in Topics : wt'[t] = IF t = t0 THEN job[s].orig ELSE wt[t]
    BY <1>0, <2>1 DEF Put, Data, AreaOK, Path
  <2> QED BY <1>0, <1>1, <1>3, <2>2, <2>3, TraceReturn
<1>5. CASE job[s].verb = "delete"
  <2> DEFINE k == job[s].snap
             mid == Put(Put(wt, t0, wt[k]), k, Absent)
  <2>1. wt' = Put(mid, IndexMd, MenuOf(mid)) /\ t0 \in Topics /\ k \in Snaps
    BY <1>0, <1>1, <1>5 DEF Restored, LocalInv, Archivers, Writers, Prepared
  <2>2. t0 \in foreign \/ wt[k] = tree[t0]
    BY <1>1, <1>2, <1>5 DEF TraceOf, Remembers, Archiving
  <2>3. \A t \in Topics : wt'[t] = IF t = t0 THEN wt[k] ELSE wt[t]
    BY <1>0, <2>1, ConstantsAssumption DEF Put, Data, AreaOK, Path
  <2> QED BY <1>0, <1>1, <1>3, <2>2, <2>3, TraceReturn
<1>6. CASE job[s].verb \in {"finalize", "compact", "autofix"}
  <2>1. wt' = wt \/ (job[s].snap \in Snaps /\ wt' = Put(wt, job[s].snap, Absent))
    BY <1>0, <1>1, <1>6 DEF Restored, LocalInv, Archivers, Writers
  <2>2. \A t \in Topics : wt'[t] = wt[t]
    BY <1>0, <2>1, ConstantsAssumption DEF Put, Data, AreaOK, Path
  <2>3. \A t \in Topics \ foreign : wt[t] = tree[t]
    BY <1>2, <1>6 DEF TraceOf, Working, Writers
  <2> QED BY <1>0, <1>1, <2>2, <2>3, TraceReturn
<1> QED BY <1>1, <1>4, <1>5, <1>6 DEF Lockers, Sweepers, Archivers

LEMMA TraceBrokenOff ==
  ASSUME IndInv, TraceInv, NEW s \in Sessions, Kill(s) \/ DiskFails(s)
  PROVE  TraceInv'
<1>0. /\ Control /\ Data /\ LocalInv(pc[s], job[s]) /\ Return(s) /\ UNCHANGED tree
      /\ wt' \in {wt, HalfWritten(s)}
      /\ foreign' = IF InTxn(s) THEN foreign \cup Unsettled(wt') ELSE foreign
  BY IndSplit DEF Control, JobInv, Kill, DiskFails
<1>1. CASE InTxn(s)
  <2>1. \A t \in Topics \ foreign' : wt'[t] = tree'[t]
    BY <1>0, <1>1 DEF Unsettled
  <2> QED BY <1>0, <1>1, <2>1, TraceReturn
<1>2. CASE ~InTxn(s)
  <2>1. pc[s] \notin Archiving \cup Changing /\ UNCHANGED foreign
    BY <1>0, <1>2 DEF InTxn, TxnLabels, Archiving, Changing
  <2>2. wt' = wt \/ wt' = Put(wt, IndexMd, NoMenu)
    BY <1>0, <1>2 DEF HalfWritten, InTxn, TxnLabels
  <2>3. \A p \in Topics \cup Snaps : wt'[p] = wt[p]
    BY <1>0, <2>2, ConstantsAssumption DEF Put, Data, AreaOK, Path
  <2>4. "idle" \notin Archiving \cup Changing
    BY DEF Archiving, Changing
  <2> QED BY <1>0, <2>1, <2>3, <2>4, TraceOutside DEF Return, Goto, SetJob
<1> QED BY <1>1, <1>2

LEMMA TraceEdits ==
  ASSUME IndInv, TraceInv, NEW t \in Topics, EditHead(t) \/ StageByHand(t)
  PROVE  TraceInv'
<1>0. Control /\ Data /\ UNCHANGED <<pc, job, tree>>
  BY IndSplit DEF EditHead, StageByHand
<1>1. CASE StageByHand(t)
  BY <1>0, <1>1 DEF StageByHand, TraceInv, Working, Remembers
<1>2. CASE EditHead(t)
  <2>1. \A p \in Topics \cup Snaps : p # t => wt'[p] = wt[p]
    BY <1>0, <1>2 DEF EditHead, Put, Data, AreaOK, Path
  <2>2. foreign' = foreign \cup {t}
    BY <1>2 DEF EditHead
  <2>3. \A u, x : Working(u, x) <=> Working(u, x)'
    BY <1>0 DEF Working
  <2>4. ASSUME NEW u \in Sessions PROVE Remembers(u)'
    <3>1. job[u].verb = "delete" /\ pc[u] \in Archiving => job[u].snap \in Snaps
      BY <1>0 DEF Control, JobInv, LocalInv, Archiving, Archivers
    <3> QED BY <1>0, <2>1, <2>2, <3>1, ConstantsAssumption DEF TraceInv, Remembers
  <2> QED BY <1>0, <2>1, <2>2, <2>3, <2>4 DEF TraceInv
<1> QED BY <1>1, <1>2

LEMMA TraceStep == IndInv /\ TraceInv /\ [Next]_vars => TraceInv'
<1> SUFFICES ASSUME IndInv, TraceInv, [Next]_vars PROVE TraceInv'
  OBVIOUS
<1>1. ASSUME NEW s \in Sessions, Call(s) \/ BeginRewrite(s) \/ Step(s) \/ Kill(s)
      PROVE  TraceInv'
  <2>1. CASE \/ Call(s) \/ PreCheckUpdate(s) \/ BeginRewrite(s) \/ WriteReindex(s)
             \/ AcquireLock(s) \/ LockTimeout(s) \/ Enter(s)
    BY <2>1, TraceBefore
  <2>2. CASE \/ (\E t \in Topics : AbsorbAdd(s, t)) \/ AbsorbCommit(s) \/ AbsorbFails(s)
             \/ RefuseMoved(s) \/ HeadGone(s)
    BY <2>2, TraceAbsorb
  <2>3. CASE \/ OpenHead(s) \/ WriteHead(s) \/ UnlinkHead(s) \/ WriteMenu(s)
             \/ \E k \in Snaps : Snapshot(s, k)
    BY <2>3, TraceChange
  <2>4. CASE GitAdd(s) \/ NoChange(s) \/ GitCommit(s) \/ GitFails(s)
    BY <2>4, TraceCommit
  <2>5. CASE Rollback(s)
    BY <2>5, TraceRollback
  <2>6. CASE Kill(s) \/ DiskFails(s)
    BY <2>6, TraceBrokenOff
  <2> QED BY <1>1, <2>1, <2>2, <2>3, <2>4, <2>5, <2>6 DEF Step
<1>2. ASSUME NEW t \in Topics, EditHead(t) \/ StageByHand(t) PROVE TraceInv'
  BY <1>2, TraceEdits
<1>3. CASE UNCHANGED vars
  BY <1>3 DEF vars, TraceInv, Working, Remembers
<1> QED BY <1>1, <1>2, <1>3 DEF Next

LEMMA TraceAlways == Spec => []TraceInv
BY TraceInit, TraceStep, IndAlways, PTL DEF Spec

\* Any number of sessions: when no verb is in its transaction, every HEAD that nobody
\* edited and no crash broke off is on disk as it is committed: every rollback puts
\* back the committed text (the rollbacks of write.py, lifecycle.py).
THEOREM FailureIsUndone == Spec => []FailureLeavesNoTrace
<1>1. IndInv /\ TraceInv => FailureLeavesNoTrace
  <2> SUFFICES ASSUME IndInv, TraceInv, lock = Nobody PROVE \A t \in Topics \ foreign : wt[t] = tree[t]
    BY DEF FailureLeavesNoTrace
  <2>1. \A s \in Sessions : pc[s] \notin TxnLabels
    BY ConstantsAssumption DEF IndInv, LockInv, InTxn
  <2>2. \A s \in Sessions, t \in Topics : ~Working(s, t)
    BY <2>1 DEF Working, Changing, TxnLabels
  <2> QED BY <2>2 DEF TraceInv
<1> QED BY <1>1, IndAlways, TraceAlways, PTL
=============================================================================
