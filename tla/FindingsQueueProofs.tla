------------------------- MODULE FindingsQueueProofs --------------------------
(* Proofs about FindingsQueue, for every value of its constants: types and the  *)
(* lock, then what the queue keeps for the person who adjudicates proposals.    *)
EXTENDS FindingsQueue, TLAPS

(* Data *)

LEMMA ContentsType ==
  ASSUME NEW c PROVE IsContents(c) <=> /\ DOMAIN c \subseteq Tags
                                       /\ c = [t \in DOMAIN c |-> c[t]]
                                       /\ \A t \in DOMAIN c : c[t] \subseteq Finding
<1>1. ASSUME NEW S \in SUBSET Tags, c \in [S -> SUBSET Finding]
      PROVE  /\ DOMAIN c \subseteq Tags /\ c = [t \in DOMAIN c |-> c[t]]
             /\ \A t \in DOMAIN c : c[t] \subseteq Finding
  BY <1>1
<1>2. ASSUME DOMAIN c \subseteq Tags, c = [t \in DOMAIN c |-> c[t]],
             \A t \in DOMAIN c : c[t] \subseteq Finding
      PROVE  c \in [DOMAIN c -> SUBSET Finding]
  BY <1>2
<1> QED BY <1>1, <1>2 DEF IsContents

LEMMA WithType ==
  ASSUME NEW c, NEW put, IsContents(c), IsContents(put)
  PROVE  IsContents(With(c, put))
<1>1. DOMAIN c \cup DOMAIN put \in SUBSET Tags
  BY ContentsType
<1>2. \A t \in DOMAIN c \cup DOMAIN put :
        (IF t \in DOMAIN put THEN put[t] ELSE c[t]) \subseteq Finding
  BY ContentsType
<1> QED BY <1>1, <1>2 DEF With, IsContents

LEMMA OnlyType ==
  ASSUME NEW t \in Tags, NEW S \in SUBSET Finding
  PROVE  IsContents(Only(t, S)) /\ DOMAIN Only(t, S) = {t} /\ Only(t, S)[t] = S
<1>1. {t} \in SUBSET Tags
  OBVIOUS
<1>2. Only(t, S) \in [{t} -> SUBSET Finding]
  BY DEF Only
<1> QED BY <1>1, <1>2 DEF IsContents, Only

LEMMA ScaffoldType == IsContents(Fresh) /\ IsContents(Blank) /\ DOMAIN Fresh = Seeded /\ DOMAIN Blank = {}
<1>1. Seeded \in SUBSET Tags /\ {} \in SUBSET Tags
  BY DEF Tags
<1>2. Fresh \in [Seeded -> SUBSET Finding] /\ Blank \in [{} -> SUBSET Finding]
  BY DEF Fresh, Blank
<1> QED BY <1>1, <1>2 DEF IsContents, Fresh, Blank

LEMMA ReportType ==
  ASSUME NEW t \in Seeded \cup {"PROC", "CONF", PW}, NEW n \in Nat
  PROVE  Report(t, n) \in SUBSET Finding
BY DEF Report, Finding

\* what a section of a combination of contents is
LEMMA WithSection ==
  ASSUME NEW c, NEW put, IsContents(c), IsContents(put), NEW t
  PROVE  Section(With(c, put), t) = IF t \in DOMAIN put THEN put[t] ELSE Section(c, t)
<1>1. With(c, put) # Absent /\ c # Absent
  BY WithType, QueueAssumption
<1> QED BY <1>1 DEF Section, With

LEMMA ParseType ==
  ASSUME NEW c, c = Absent \/ IsContents(c)
  PROVE  IsContents(Parse(c)) /\ Parse(c) # Absent /\ Section(Parse(c), PW) = Section(c, PW)
<1>1. IsContents(Parse(c))
  BY ScaffoldType, WithType DEF Parse
<1>2. Parse(c) # Absent
  BY <1>1, QueueAssumption
<1>3. PW \notin Seeded
  BY DEF PW, Seeded
<1>4. CASE c = Absent
  BY <1>2, <1>3, <1>4, ScaffoldType DEF Parse, Section
<1>5. CASE c # Absent
  <2>1. Section(Parse(c), PW) = IF PW \in DOMAIN c THEN c[PW] ELSE Section(Fresh, PW)
    BY <1>5, ScaffoldType, WithSection DEF Parse
  <2>2. Section(Fresh, PW) = {}
    BY <1>3, ScaffoldType DEF Section
  <2> QED BY <1>1, <1>2, <1>5, <2>1, <2>2 DEF Section
<1> QED BY <1>1, <1>2, <1>4, <1>5
\* the locals of a process, field by field
Contents == UNION {[S -> SUBSET Finding] : S \in SUBSET Tags}
JobSet == [put : Contents, copy : Contents \cup {Absent}, line : Nat, live : Nat,
           read : ReadType, manifest : Nat, wrote : BOOLEAN]

LEMMA InContents == ASSUME NEW c PROVE c \in Contents <=> IsContents(c)
BY DEF Contents, IsContents

LEMMA JobFields ==
  ASSUME NEW j
  PROVE  IsJob(j) <=> j \in JobSet
<1>1. ASSUME IsJob(j) PROVE j \in JobSet
  BY <1>1, InContents DEF IsJob, JobSet
<1>2. ASSUME j \in JobSet PROVE IsJob(j)
  BY <1>2, InContents DEF IsJob, JobSet
<1> QED BY <1>1, <1>2

LEMMA IdleJob == IsJob(NoJob) /\ NoJob.copy = Absent /\ NoJob.put = Blank
BY ScaffoldType DEF IsJob, NoJob, ReadType, NoRead

LEMMA SetPut ==
  ASSUME NEW j, IsJob(j), NEW c, IsContents(c)
  PROVE  IsJob([j EXCEPT !.put = c])
BY JobFields, InContents DEF JobSet

LEMMA SetCopy ==
  ASSUME NEW j, IsJob(j), NEW c, IsContents(c)
  PROVE  IsJob([j EXCEPT !.copy = c]) /\ [j EXCEPT !.copy = c].copy = c /\ c # Absent
BY JobFields, InContents, QueueAssumption DEF JobSet

LEMMA SetOthers ==
  ASSUME NEW j, IsJob(j), NEW n \in Nat, NEW r \in ReadType
  PROVE  /\ IsJob([j EXCEPT !.line = n]) /\ IsJob([j EXCEPT !.live = n])
         /\ IsJob([j EXCEPT !.manifest = n]) /\ IsJob([j EXCEPT !.read = r])
         /\ IsJob([j EXCEPT !.wrote = TRUE])
BY JobFields DEF JobSet

-----------------------------------------------------------------------------
(* Types, the lock, and what a process holds at the steps that write the file *)

CopyInv ==
  \A p \in Procs :
    /\ pc[p] \in {"replace", "mv", "copying"} => job[p].copy # Absent
    /\ pc[p] = "awk" => file # Absent

IndInv == TypeOK /\ LockInv /\ CopyInv

\* the part of IndInv that a move of one process can disturb
Control ==
  /\ lock \in Procs \cup {Nobody}
  /\ pc \in [Procs -> Labels]
  /\ job = [p \in Procs |-> job[p]] /\ \A p \in Procs : IsJob(job[p])
  /\ LockInv /\ CopyInv

\* process p moves to label l with locals j and holds the lock exactly inside a hold
LEMMA MoveControl ==
  ASSUME Control, NEW p \in Procs, NEW l \in Labels, NEW j, IsJob(j),
         pc' = [pc EXCEPT ![p] = l], job' = [job EXCEPT ![p] = j],
         lock' \in {lock, p, Nobody},
         lock' = p <=> l \in Held,
         lock' # lock => lock \in {p, Nobody},
         l \in {"replace", "mv", "copying"} => j.copy # Absent,
         l = "awk" => file' # Absent,
         file' = file \/ lock = p
  PROVE  Control'
<1>1. lock' \in Procs \cup {Nobody} /\ pc' \in [Procs -> Labels]
  BY DEF Control
<1>2. job' = [q \in Procs |-> job'[q]] /\ \A q \in Procs : job'[q] = IF q = p THEN j ELSE job[q]
  BY DEF Control
<1>3. \A q \in Procs : pc'[q] = IF q = p THEN l ELSE pc[q]
  BY DEF Control
<1>4. LockInv'
  BY <1>3, QueueAssumption DEF Control, LockInv
<1>5. CopyInv'
  <2> SUFFICES ASSUME NEW q \in Procs
               PROVE  /\ pc'[q] \in {"replace", "mv", "copying"} => job'[q].copy # Absent
                      /\ pc'[q] = "awk" => file' # Absent
    BY DEF CopyInv
  <2>1. CASE q = p
    BY <1>2, <1>3, <2>1
  <2>2. CASE q # p
    <3>1. pc[q] = "awk" => lock = q /\ file # Absent
      BY DEF Control, LockInv, CopyInv, Held
    <3> QED BY <1>2, <1>3, <2>2, <3>1 DEF Control, CopyInv
  <2> QED BY <2>1, <2>2
<1> QED BY <1>1, <1>2, <1>4, <1>5 DEF Control

\* a move that neither takes nor drops the lock, and writes no file
LEMMA MoveFree ==
  ASSUME Control, NEW p \in Procs, NEW l \in Labels, NEW j, IsJob(j),
         Goto(p, l), SetJob(p, j), lock' = lock, file' = file,
         pc[p] \in Held <=> l \in Held,
         l \in {"replace", "mv", "copying"} => j.copy # Absent,
         l = "awk" => file # Absent
  PROVE  Control'
<1>1. lock = p <=> l \in Held
  BY DEF Control, LockInv
<1> QED BY <1>1, MoveControl DEF Goto, SetJob

\* a move out of the lock, whether it was held or not
LEMMA MoveOut ==
  ASSUME Control, NEW p \in Procs, NEW l \in Labels \ Held, NEW j, IsJob(j),
         Leave(p, l), SetJob(p, j), file' = file \/ lock = p
  PROVE  Control'
<1>1. lock' \in {lock, p, Nobody} /\ lock' # p /\ (lock' # lock => lock \in {p, Nobody})
  BY QueueAssumption DEF Leave
<1>2. l \notin {"replace", "mv", "copying", "awk"}
  BY DEF Held
<1> QED BY <1>1, <1>2, MoveControl DEF Leave, Goto, SetJob

CounterNames == {"jobs", "moves", "edits", "kills", "faults"}

LEMMA CountType ==
  ASSUME used \in [CounterNames -> Nat], NEW k \in CounterNames, Count(k)
  PROVE  used' \in [CounterNames -> Nat]
BY DEF Count

\* the data half of TypeOK
DataOK ==
  /\ file = Absent \/ IsContents(file)
  /\ draft = Absent \/ IsContents(draft)
  /\ snap \in Nat /\ baseline \in ReadType
  /\ tmpf = Absent \/ tmpf \subseteq Finding
  /\ world \in [Parts -> Nat]
  /\ used \in [CounterNames -> Nat]
  /\ reported \cup cleared \cup overtaken \cup queued \subseteq Finding

LEMMA Halves == (IndInv <=> DataOK /\ Control) /\ (IndInv' <=> DataOK' /\ Control')
BY DEF IndInv, TypeOK, DataOK, Control, CounterNames

LEMMA WorldTypes ==
  ASSUME DataOK
  PROVE  /\ world.heads \in Nat /\ world.memo \in Nat /\ world.conf \in Nat
         /\ world.proc \in Nat /\ world.docs \in Nat
         /\ Corpus(world) \in Nat /\ Read(world) \in ReadType
BY DEF DataOK, Parts, Corpus, Read, ReadType

LEMMA InitInd == Init => IndInv
<1> SUFFICES ASSUME Init PROVE IndInv
  OBVIOUS
<1>1. DataOK
  BY DEF Init, DataOK, ReadType, NoRead, Parts, CounterNames
<1>2. Control
  BY IdleJob, QueueAssumption DEF Init, Control, LockInv, CopyInv, Held, Labels
<1> QED BY <1>1, <1>2, Halves

LEMMA StartStep == ASSUME IndInv, NEW p \in Procs, Start(p) PROVE IndInv'
<1>1. DataOK /\ Control
  BY Halves
<1>2. used' \in [CounterNames -> Nat] /\ used.jobs + 1 \in Nat
  <2>1. Count("jobs") /\ "jobs" \in CounterNames
    BY DEF Start, CheckTier1, StartDivert, StartProbe, Begin, CounterNames
  <2>2. used \in [CounterNames -> Nat]
    BY <1>1 DEF DataOK
  <2> QED BY <2>1, <2>2, CountType
<1>3. pc[p] = "idle" /\ lock' = lock /\ file' = file
  BY DEF Start, CheckTier1, StartDivert, StartProbe, Begin
<1>4. DataOK'
  BY <1>1, <1>2 DEF Start, CheckTier1, StartDivert, StartProbe, DataOK, audit, human
<1>5. \E l \in {"snapshot", "wait"} : \E j : IsJob(j) /\ Goto(p, l) /\ SetJob(p, j)
  <2>1. CASE CheckTier1(p)
    <3> DEFINE S == Report("TIER1", Corpus(world))
                      \cup IF snap = world.conf THEN {} ELSE Report("CONF", world.conf)
               j == [NoJob EXCEPT !.live = world.conf, !.put = Only("TIER1", S)]
    <3>1. S \in SUBSET Finding
      BY <1>1, WorldTypes, ReportType DEF Seeded
    <3>2. IsContents(Only("TIER1", S))
      BY <3>1, OnlyType DEF Tags, Seeded
    <3>3. IsJob(j)
      <4>1. j = [[NoJob EXCEPT !.live = world.conf] EXCEPT !.put = Only("TIER1", S)]
        OBVIOUS
      <4> QED BY <1>1, <3>2, <4>1, IdleJob, SetPut, SetOthers, WorldTypes
    <3>4. Goto(p, "snapshot") /\ SetJob(p, j)
      BY <2>1 DEF CheckTier1
    <3> HIDE DEF j
    <3> QED BY <3>3, <3>4
  <2>2. CASE StartDivert(p)
    <3> DEFINE j == [NoJob EXCEPT !.line = used.jobs + 1]
    <3>1. IsJob(j)
      BY <1>2, IdleJob, SetOthers, WorldTypes, <1>1
    <3> QED BY <2>2, <3>1 DEF StartDivert
  <2>3. CASE StartProbe(p)
    <3> DEFINE j == [NoJob EXCEPT !.put = Only("PROC", Report("PROC", world.proc))]
    <3>1. IsContents(Only("PROC", Report("PROC", world.proc)))
      BY <1>1, WorldTypes, ReportType, OnlyType DEF Tags
    <3>2. IsJob(j)
      BY <3>1, IdleJob, SetPut
    <3> QED BY <2>3, <3>2 DEF StartProbe
  <2> QED BY <2>1, <2>2, <2>3 DEF Start
<1>6. Control'
  BY <1>1, <1>3, <1>5, MoveFree DEF Labels, Held
<1> QED BY <1>4, <1>6, Halves

-----------------------------------------------------------------------------
(* The steps of a run under way *)

LEMMA FreeSteps ==
  ASSUME IndInv, NEW p \in Procs,
         \/ SaveSnapshot(p) \/ CheckXref(p) \/ LockTimeout(p) \/ ReadQueue(p)
         \/ AuditGate(p) \/ AgentReads(p) \/ AgentEnds(p) \/ Collect(p) \/ Awk(p)
         \/ Advance(p)
  PROVE  IndInv'
<1>1. DataOK /\ Control /\ IsJob(job[p])
  BY Halves DEF Control
<1> DEFINE Same(l) == pc[p] \in Held <=> l \in Held
<1>2. CASE SaveSnapshot(p)
  <2>1. DataOK'
    BY <1>1, <1>2 DEF SaveSnapshot, DataOK, audit, human, IsJob
  <2>2. SetJob(p, job[p])
    BY <1>1, <1>2 DEF SaveSnapshot, SetJob, Control
  <2> QED BY <1>1, <1>2, <2>1, <2>2, MoveFree, Halves DEF SaveSnapshot, Labels, Held
<1>3. CASE CheckXref(p)
  <2>1. DataOK'
    BY <1>1, <1>3 DEF CheckXref, DataOK, audit, human
  <2>2. ASSUME NEW x \in XrefResult PROVE IsJob([job[p] EXCEPT !.put = With(@, x)])
    <3>1. IsContents(x)
      BY <1>1, WorldTypes, ReportType, OnlyType, ScaffoldType DEF XrefResult, Tags, Seeded
    <3>2. IsContents(With(job[p].put, x))
      BY <1>1, <3>1, WithType DEF IsJob
    <3> QED BY <1>1, <3>2, SetPut
  <2>3. PICK x \in XrefResult : SetJob(p, [job[p] EXCEPT !.put = With(@, x)])
    BY <1>3 DEF CheckXref
  <2> QED BY <1>1, <1>3, <2>1, <2>2, <2>3, MoveFree, Halves DEF CheckXref, Labels, Held
<1>4. CASE LockTimeout(p)
  <2>1. DataOK'
    BY <1>1, <1>4 DEF LockTimeout, DataOK, audit, human
  <2>3. CASE pc[p] = "wait"
    BY <1>1, <1>4, <2>1, <2>3, IdleJob, MoveFree, Halves DEF LockTimeout, After, Labels, Held
  <2>4. CASE pc[p] = "waitsh"
    <3>1. SetJob(p, job[p]) /\ Goto(p, "advance")
      BY <1>1, <1>4, <2>4 DEF LockTimeout, SetJob, Control
    <3> QED BY <1>1, <1>4, <2>1, <2>4, <3>1, MoveFree, Halves DEF LockTimeout, Labels, Held
  <2> QED BY <1>4, <2>3, <2>4 DEF LockTimeout
<1>5. CASE ReadQueue(p)
  <2>1. used' \in [CounterNames -> Nat]
    BY <1>1, <1>5, CountType DEF ReadQueue, Fails, DataOK, CounterNames
  <2>2. DataOK'
    BY <1>1, <1>5, <2>1 DEF ReadQueue, DataOK, audit, human
  <2>3. ASSUME NEW c \in {Parse(file), Fresh}
        PROVE  IsJob([job[p] EXCEPT !.copy = c]) /\ [job[p] EXCEPT !.copy = c].copy # Absent
    <3>1. IsContents(c)
      BY <1>1, ParseType, ScaffoldType DEF DataOK
    <3> QED BY <1>1, <3>1, SetCopy
  <2>4. PICK c \in {Parse(file), Fresh} : SetJob(p, [job[p] EXCEPT !.copy = c])
    BY <1>5 DEF ReadQueue
  <2> QED BY <1>1, <1>5, <2>2, <2>3, <2>4, MoveFree, Halves DEF ReadQueue, Labels, Held
<1>6. CASE AuditGate(p)
  <2>1. DataOK'
    BY <1>1, <1>6 DEF AuditGate, DataOK, human
  <2>2. SetJob(p, job[p]) \/ SetJob(p, [NoJob EXCEPT !.manifest = world.memo])
    BY <1>1, <1>6 DEF AuditGate, SetJob, Control
  <2>3. IsJob([NoJob EXCEPT !.manifest = world.memo])
    BY <1>1, WorldTypes, IdleJob, SetOthers
  <2> QED BY <1>1, <1>6, <2>1, <2>2, <2>3, MoveFree, Halves DEF AuditGate, Labels, Held
<1>7. CASE AgentReads(p)
  <2>1. DataOK'
    BY <1>1, <1>7 DEF AgentReads, DataOK, audit, human
  <2>2. IsJob([job[p] EXCEPT !.read = Read(world)])
    BY <1>1, WorldTypes, SetOthers
  <2> QED BY <1>1, <1>7, <2>1, <2>2, MoveFree, Halves DEF AgentReads, Labels, Held
<1>8. CASE AgentEnds(p)
  <2>1. Report("AUDIT", Corpus(job[p].read)) \in SUBSET Finding
    <3>1. Corpus(job[p].read) \in Nat
      BY <1>1 DEF IsJob, ReadType, Corpus
    <3> QED BY <3>1, ReportType DEF Seeded
  <2>2. DataOK'
    BY <1>1, <1>8, <2>1 DEF AgentEnds, DataOK, human
  <2>3. IsJob([job[p] EXCEPT !.wrote = TRUE])
    BY <1>1, WorldTypes, SetOthers
  <2>4. SetJob(p, job[p]) \/ SetJob(p, [job[p] EXCEPT !.wrote = TRUE])
    BY <1>1, <1>8 DEF AgentEnds, SetJob, Control
  <2> QED BY <1>1, <1>8, <2>2, <2>3, <2>4, MoveFree, Halves DEF AgentEnds, Labels, Held
<1>9. CASE Collect(p)
  <2>1. DataOK'
    BY <1>1, <1>9 DEF Collect, DataOK, audit, human
  <2>2. CASE tmpf = Absent
    BY <1>1, <1>9, <2>1, <2>2, IdleJob, MoveFree, Halves DEF Collect, Labels, Held
  <2>3. CASE tmpf # Absent
    <3>1. IsContents(Only("AUDIT", tmpf))
      BY <1>1, <2>3, OnlyType DEF DataOK, Tags, Seeded
    <3>2. IsJob([job[p] EXCEPT !.put = Only("AUDIT", tmpf)])
      BY <1>1, <3>1, SetPut
    <3> QED BY <1>1, <1>9, <2>1, <2>3, <3>2, MoveFree, Halves DEF Collect, Labels, Held
  <2> QED BY <2>2, <2>3
<1>10. CASE Awk(p)
  <2> DEFINE put == job[p].put
             out == [t \in DOMAIN file \cap AwkKeeps |->
                       IF t \in DOMAIN put THEN put[t] ELSE file[t]]
  <2>1. used' \in [CounterNames -> Nat]
    BY <1>1, <1>10, CountType DEF Awk, Fails, DataOK, CounterNames
  <2>2. DataOK'
    BY <1>1, <1>10, <2>1 DEF Awk, DataOK, audit, human
  <2>3. IsContents(file)
    BY <1>1, <1>10 DEF Control, CopyInv, DataOK, Awk
  <2>4. IsContents(out)
    <3>1. DOMAIN file \cap AwkKeeps \in SUBSET Tags
      BY DEF AwkKeeps
    <3>2. \A t \in DOMAIN file : (IF t \in DOMAIN put THEN put[t] ELSE file[t]) \subseteq Finding
      BY <1>1, <2>3, ContentsType DEF IsJob
    <3> QED BY <3>1, <3>2 DEF IsContents
  <2>5. ASSUME NEW c \in {out, Blank}
        PROVE  IsJob([job[p] EXCEPT !.copy = c]) /\ [job[p] EXCEPT !.copy = c].copy # Absent
    <3>1. IsContents(c)
      BY <2>4, <2>5, ScaffoldType
    <3> HIDE DEF out
    <3> QED BY <1>1, <3>1, SetCopy
  <2>6. PICK c \in {out, Blank} : SetJob(p, [job[p] EXCEPT !.copy = c])
    BY <1>10 DEF Awk
  <2> HIDE DEF out
  <2> QED BY <1>1, <1>10, <2>2, <2>5, <2>6, MoveFree, Halves DEF Awk, Labels, Held
<1>11. CASE Advance(p)
  <2>1. DataOK'
    BY <1>1, <1>11, WorldTypes DEF Advance, DataOK, human, IsJob, ReadType
  <2> QED BY <1>1, <1>11, <2>1, IdleJob, MoveFree, Halves DEF Advance, Labels, Held
<1> QED BY <1>2, <1>3, <1>4, <1>5, <1>6, <1>7, <1>8, <1>9, <1>10, <1>11

\* taking the lock; the steps that write the file or drop the lock
LEMMA HolderSteps ==
  ASSUME IndInv, NEW p \in Procs,
         \/ Acquire(p) \/ ReplaceQueue(p) \/ ReplaceRefused(p) \/ InitSection(p)
         \/ Mv(p) \/ MvUnlinks(p) \/ MvCopies(p) \/ Kill(p)
  PROVE  IndInv'
<1>1. DataOK /\ Control /\ IsJob(job[p])
  BY Halves DEF Control
<1>2. pc[p] \in Held => lock = p
  BY <1>1 DEF Control, LockInv
<1>3. job[p].copy # Absent => IsContents(job[p].copy)
  BY <1>1 DEF IsJob
<1>4. CASE Acquire(p)
  <2>1. DataOK'
    BY <1>1, <1>4 DEF Acquire, DataOK, audit, human
  <2>2. SetJob(p, job[p])
    BY <1>1, <1>4 DEF Acquire, SetJob, Control
  <2>3. \E l \in {"read", "init"} : Goto(p, l)
    BY <1>4 DEF Acquire
  <2>4. lock' = p /\ lock = Nobody /\ file' = file
    BY <1>4 DEF Acquire
  <2>5. Control'
    BY <1>1, <2>2, <2>3, <2>4, MoveControl DEF Goto, SetJob, Labels, Held
  <2> QED BY <2>1, <2>5, Halves
<1>5. CASE ReplaceQueue(p)
  <2>1. IsContents(job[p].copy) /\ lock = p
    BY <1>1, <1>2, <1>3, <1>5 DEF ReplaceQueue, Control, CopyInv, Held
  <2>2. Report(PW, job[p].line) \in SUBSET Finding
    BY <1>1, ReportType DEF IsJob
  <2>3. Section(job[p].copy, PW) \in SUBSET Finding
    BY <2>1, ContentsType DEF Section
  <2>4. IsContents(Update(p))
    BY <1>1, <2>2, <2>3, OnlyType DEF Update, IsJob, Tags
  <2>5. IsContents(file')
    BY <1>5, <2>1, <2>4, WithType DEF ReplaceQueue
  <2>6. DataOK'
    BY <1>1, <1>5, <2>2, <2>5 DEF ReplaceQueue, Leave, DataOK, audit
  <2>7. After(p) \in Labels \ Held
    BY DEF After, Labels, Held
  <2>8. Control'
    BY <1>1, <1>5, <2>1, <2>7, IdleJob, MoveOut DEF ReplaceQueue
  <2> QED BY <2>6, <2>8, Halves
<1>6. CASE ReplaceRefused(p)
  <2>1. used' \in [CounterNames -> Nat]
    BY <1>1, <1>6, CountType DEF ReplaceRefused, Fails, DataOK, CounterNames
  <2>2. DataOK'
    BY <1>1, <1>6, <2>1 DEF ReplaceRefused, Leave, DataOK, audit
  <2>3. After(p) \in Labels \ Held
    BY DEF After, Labels, Held
  <2> QED BY <1>1, <1>6, <2>2, <2>3, IdleJob, MoveOut, Halves DEF ReplaceRefused
<1>7. CASE InitSection(p)
  <2>1. lock = p /\ lock' = lock
    BY <1>2, <1>7 DEF InitSection, Held
  <2>2. IsContents(file')
    <3>1. IsContents(Only("AUDIT", {}))
      BY OnlyType DEF Tags, Seeded
    <3> QED BY <1>1, <1>7, <3>1, ScaffoldType, WithType DEF InitSection, DataOK
  <2>3. file' # Absent
    BY <2>2, QueueAssumption
  <2>4. DataOK'
    BY <1>1, <1>7, <2>2 DEF InitSection, DataOK, audit, human
  <2>5. SetJob(p, job[p])
    BY <1>1, <1>7 DEF InitSection, SetJob, Control
  <2>6. Control'
    BY <1>1, <1>7, <2>1, <2>3, <2>5, MoveControl
       DEF InitSection, Goto, SetJob, Labels, Held
  <2> QED BY <2>4, <2>6, Halves
<1>8. CASE Mv(p) \/ MvCopies(p)
  <2>1. IsContents(job[p].copy) /\ lock = p
    BY <1>1, <1>2, <1>3, <1>8 DEF Mv, MvCopies, Control, CopyInv, Held
  <2>2. Section(job[p].copy, "AUDIT") \in SUBSET Finding
    BY <2>1, ContentsType DEF Section
  <2>3. DataOK'
    BY <1>1, <1>8, <2>1, <2>2 DEF Mv, MvCopies, Leave, DataOK
  <2>4. SetJob(p, job[p])
    BY <1>1, <1>8 DEF Mv, MvCopies, SetJob, Control
  <2>5. "advance" \in Labels \ Held
    BY DEF Labels, Held
  <2> QED BY <1>1, <1>8, <2>1, <2>3, <2>4, <2>5, MoveOut, Halves DEF Mv, MvCopies
<1>9. CASE MvUnlinks(p)
  <2>1. lock = p /\ lock' = lock /\ job[p].copy # Absent
    BY <1>1, <1>2, <1>9 DEF MvUnlinks, Held, Control, CopyInv
  <2>2. used' \in [CounterNames -> Nat]
    BY <1>1, <1>9, CountType DEF MvUnlinks, Fails, DataOK, CounterNames
  <2>3. DataOK'
    BY <1>1, <1>9, <2>2 DEF MvUnlinks, DataOK, audit, human
  <2>4. SetJob(p, job[p])
    BY <1>1, <1>9 DEF MvUnlinks, SetJob, Control
  <2>5. Control'
    BY <1>1, <1>9, <2>1, <2>4, MoveControl DEF MvUnlinks, Goto, SetJob, Labels, Held
  <2> QED BY <2>3, <2>5, Halves
<1>10. CASE Kill(p)
  <2>1. used' \in [CounterNames -> Nat]
    BY <1>1, <1>10, CountType DEF Kill, DataOK, CounterNames
  <2>2. DataOK'
    BY <1>1, <1>10, <2>1 DEF Kill, Leave, DataOK, audit
  <2>3. "idle" \in Labels \ Held
    BY DEF Labels, Held
  <2> QED BY <1>1, <1>10, <2>2, <2>3, IdleJob, MoveOut, Halves DEF Kill
<1> QED BY <1>4, <1>5, <1>6, <1>7, <1>8, <1>9, <1>10

\* what the environment does leaves every process where it is
LEMMA OutsideSteps ==
  ASSUME IndInv,
         \/ \E c \in Parts : Move(c)
         \/ OpenEditor \/ CloseEditor
         \/ \E S \in SUBSET Section(draft, PW) : SaveEditor(S)
  PROVE  IndInv'
<1>1. DataOK /\ Control
  BY Halves
<1>2. CASE \E c \in Parts : Move(c)
  <2>1. used' \in [CounterNames -> Nat]
    BY <1>1, <1>2, CountType DEF Move, DataOK, CounterNames
  <2>2. world' \in [Parts -> Nat]
    BY <1>1, <1>2, WorldTypes DEF Move, DataOK, Parts
  <2>3. DataOK'
    BY <1>1, <1>2, <2>1, <2>2 DEF Move, DataOK, audit, human
  <2> QED BY <1>1, <1>2, <2>3, Halves DEF Move, Control, LockInv, CopyInv
<1>3. CASE OpenEditor
  <2>1. used' \in [CounterNames -> Nat]
    BY <1>1, <1>3, CountType DEF OpenEditor, DataOK, CounterNames
  <2>2. DataOK'
    BY <1>1, <1>3, <2>1 DEF OpenEditor, DataOK, audit
  <2> QED BY <1>1, <1>3, <2>2, Halves DEF OpenEditor, Control, LockInv, CopyInv
<1>4. CASE CloseEditor
  <2>1. DataOK'
    BY <1>1, <1>4 DEF CloseEditor, DataOK, audit
  <2> QED BY <1>1, <1>4, <2>1, Halves DEF CloseEditor, Control, LockInv, CopyInv
<1>5. ASSUME NEW S \in SUBSET Section(draft, PW), SaveEditor(S) PROVE IndInv'
  <2>1. IsContents(draft)
    BY <1>1, <1>5 DEF SaveEditor, DataOK
  <2>2. S \in SUBSET Finding /\ draft[PW] \ S \in SUBSET Finding
    BY <1>5, <2>1, ContentsType DEF SaveEditor, Section
  <2>3. IsContents(file')
    BY <1>5, <2>1, <2>2, OnlyType, WithType DEF SaveEditor, Tags
  <2>4. file' # Absent
    BY <2>3, QueueAssumption
  <2>5. DataOK'
    BY <1>1, <1>5, <2>2, <2>3 DEF SaveEditor, DataOK, audit
  <2> QED BY <1>1, <1>5, <2>4, <2>5, Halves DEF SaveEditor, Control, LockInv, CopyInv
<1> QED BY <1>2, <1>3, <1>4, <1>5

LEMMA NextInd == ASSUME IndInv, [Next]_vars PROVE IndInv'
<1>1. CASE UNCHANGED vars
  BY <1>1 DEF IndInv, TypeOK, LockInv, CopyInv, vars
<1>2. ASSUME NEW p \in Procs, Start(p) \/ Step(p) \/ Kill(p) PROVE IndInv'
  BY <1>2, StartStep, FreeSteps, HolderSteps DEF Step
<1>3. CASE \/ \E c \in Parts : Move(c)
           \/ OpenEditor \/ CloseEditor
           \/ \E S \in SUBSET Section(draft, PW) : SaveEditor(S)
  BY <1>3, OutsideSteps
<1> QED BY <1>1, <1>2, <1>3 DEF Next

\* Every variable of the queue keeps its type, whatever the processes, faults and
\* edits: a section only ever holds findings, and a writer never replaces the file
\* by something that is not one.
THEOREM QueueTypes == Spec => []TypeOK
<1>1. IndInv => TypeOK
  BY DEF IndInv
<1> QED BY <1>1, InitInd, NextInd, PTL DEF Spec

\* The state lock excludes: at most one process is inside a hold, in python or in
\* bash, and a killed or timed-out process is outside.
THEOREM QueueLock == Spec => []LockInv
<1>1. IndInv => LockInv
  BY DEF IndInv
<1> QED BY <1>1, InitInd, NextInd, PTL DEF Spec

-----------------------------------------------------------------------------

\* what the file system and the editor must grant: the queue can be read, mv is a
\* rename and its source is whole, and nobody saves over a file that has changed; a
\* person may save at any moment, inside a producer's hold of the lock too
Sound == ~EditsRaceWriters /\ Faults \subseteq {"temp_refused"}

(* The inductive invariant *)

\* a diverted verb whose proposal is not in the queue yet
Pending(p) == p \in Diverters /\ pc[p] \in {"wait", "read", "replace"}
Line(p) == [tag |-> PW, n |-> job[p].line]

\* who is about to write the file knows every proposal in it, and knows no other but
\* those that a person took out after the copy was made
CopiesCurrent ==
  \A p \in Procs :
    /\ pc[p] \in {"replace", "mv"} =>
         /\ Section(file, PW) \subseteq Section(job[p].copy, PW)
         /\ Section(job[p].copy, PW) \subseteq Section(file, PW) \cup overtaken
    /\ PW \notin DOMAIN job[p].put
    /\ pc[p] # "copying"

\* a pending proposal is nobody else's and has never been in the queue
PendingFresh ==
  /\ \A p \in Diverters : pc[p] \in {"idle", "wait", "read", "replace"}
  /\ \A p \in Procs : Pending(p) =>
       /\ Line(p) \notin Section(file, PW) \cup cleared
       /\ job[p].line <= used.jobs
       /\ \A q \in Procs : Pending(q) /\ q # p => job[q].line # job[p].line
  /\ \A f \in Section(file, PW) \cup cleared : f.n <= used.jobs

SafeInv ==
  /\ ProposalsKept /\ ClearedStaysCleared /\ overtaken \subseteq cleared
  /\ CopiesCurrent /\ PendingFresh

\* p ends a hold, and what its copy brought back was taken out during the hold
Returns(p) ==
  /\ lock = p
  /\ Section(file, PW) \subseteq Section(file', PW)
  /\ Section(file', PW) \subseteq Section(file, PW) \cup overtaken
  /\ overtaken' = overtaken \cap Section(file', PW)

\* no proposal comes or goes
Keeps == Section(file', PW) = Section(file, PW) /\ overtaken' = overtaken

LEMMA Strings ==
  PW \notin {"TIER1", "XREF", "AUDIT", "PROC"} /\ PW \notin Seeded
BY DEF PW, Seeded

\* a step of process p that adds no proposal but those its copy brings back
LEMMA QuietStep ==
  ASSUME IndInv, SafeInv, NEW p \in Procs, NEW l, NEW j,
         Goto(p, l), SetJob(p, j),
         Keeps \/ (Returns(p) /\ l \notin {"replace", "mv"}),
         reported' = reported, cleared' = cleared,
         used.jobs \in Nat, used'.jobs \in Nat, used.jobs <= used'.jobs,
         l \in {"replace", "mv"} => Section(j.copy, PW) = Section(file, PW),
         PW \notin DOMAIN j.put, l # "copying",
         p \in Diverters => l \in {"idle", "wait", "read", "replace"},
         p \in Diverters /\ l # "idle" => Pending(p) /\ j.line = job[p].line
  PROVE  SafeInv'
<1>1. \A q \in Procs : pc'[q] = (IF q = p THEN l ELSE pc[q])
                       /\ job'[q] = (IF q = p THEN j ELSE job[q])
  BY DEF IndInv, TypeOK, Goto, SetJob
<1>2. /\ Section(file, PW) \subseteq Section(file', PW)
      /\ Section(file', PW) \subseteq Section(file, PW) \cup overtaken
      /\ overtaken' \subseteq overtaken /\ overtaken \cap Section(file', PW) \subseteq overtaken'
  BY DEF Keeps, Returns
<1>3. overtaken \subseteq cleared
  BY DEF SafeInv
<1>4. ProposalsKept' /\ ClearedStaysCleared' /\ (overtaken \subseteq cleared)'
  <2>1. ProposalsKept'
    BY <1>2 DEF SafeInv, ProposalsKept
  <2>2. ClearedStaysCleared'
    BY <1>2 DEF SafeInv, ClearedStaysCleared
  <2> QED BY <1>2, <1>3, <2>1, <2>2
<1>5. CopiesCurrent'
  <2> SUFFICES ASSUME NEW q \in Procs
               PROVE  /\ pc'[q] \in {"replace", "mv"} =>
                           /\ Section(file', PW) \subseteq Section(job'[q].copy, PW)
                           /\ Section(job'[q].copy, PW) \subseteq Section(file', PW) \cup overtaken'
                      /\ PW \notin DOMAIN job'[q].put
                      /\ pc'[q] # "copying"
    BY DEF CopiesCurrent
  <2>1. CASE q = p
    BY <1>1, <2>1 DEF Keeps
  <2>2. CASE q # p
    <3>1. pc'[q] = pc[q] /\ job'[q] = job[q]
      BY <1>1, <2>2
    <3>2. CASE Keeps
      BY <3>1, <3>2 DEF Keeps, SafeInv, CopiesCurrent
    <3>3. CASE Returns(p)
      <4>1. pc[q] \notin Held
        BY <2>2, <3>3 DEF Returns, IndInv, LockInv
      <4> QED BY <3>1, <4>1 DEF Held, SafeInv, CopiesCurrent
    <3> QED BY <3>2, <3>3
  <2> QED BY <2>1, <2>2
<1>6. PendingFresh'
  <2>1. \A q \in Diverters : pc'[q] \in {"idle", "wait", "read", "replace"}
    BY <1>1 DEF SafeInv, PendingFresh, Procs
  <2>2. \A q \in Procs : Pending(q)' => Pending(q) /\ job'[q].line = job[q].line
    BY <1>1 DEF Pending
  <2>3. Section(file', PW) \cup cleared' = Section(file, PW) \cup cleared
    BY <1>2, <1>3
  <2>4. \A f \in Section(file, PW) \cup cleared : f.n <= used'.jobs
    <3> SUFFICES ASSUME NEW f \in Section(file, PW) \cup cleared PROVE f.n <= used'.jobs
      OBVIOUS
    <3>1. f \in Finding
      BY ContentsType DEF IndInv, TypeOK, Section
    <3>2. f.n \in Nat /\ f.n <= used.jobs
      BY <3>1 DEF Finding, SafeInv, PendingFresh
    <3> QED BY <3>2
  <2>5. ASSUME NEW q \in Procs, Pending(q)'
        PROVE  /\ Line(q)' \notin Section(file', PW) \cup cleared'
               /\ job'[q].line <= used'.jobs
               /\ \A r \in Procs : Pending(r)' /\ r # q => job'[r].line # job'[q].line
    <3>1. Pending(q) /\ job'[q].line = job[q].line /\ Line(q)' = Line(q)
      BY <2>2, <2>5 DEF Line
    <3>2. job[q].line \in Nat /\ job[q].line <= used.jobs
      BY <3>1 DEF IndInv, TypeOK, IsJob, SafeInv, PendingFresh
    <3>3. Line(q)' \notin Section(file', PW) \cup cleared'
      BY <2>3, <3>1 DEF SafeInv, PendingFresh
    <3>4. \A r \in Procs : Pending(r)' /\ r # q => job'[r].line # job'[q].line
      BY <2>2, <3>1 DEF SafeInv, PendingFresh
    <3> QED BY <3>1, <3>2, <3>3, <3>4
  <2> QED BY <2>1, <2>3, <2>4, <2>5 DEF PendingFresh
<1> QED BY <1>4, <1>5, <1>6 DEF SafeInv

\* a hold that ends without a write, and the end of a process that holds nothing
LEMMA LeaveKeeps ==
  ASSUME NEW p, NEW l, Leave(p, l), file' = file PROVE Keeps \/ Returns(p)
BY DEF Leave, Keeps, Returns

LEMMA JobCount ==
  ASSUME IndInv
  PROVE  /\ used.jobs \in Nat
         /\ \A k \in CounterNames \ {"jobs"} : Count(k) => used'.jobs = used.jobs
         /\ Count("jobs") => used'.jobs = used.jobs + 1
BY DEF IndInv, TypeOK, Count, CounterNames

\* which fields of its locals an action changes
LEMMA Fields ==
  ASSUME NEW j, IsJob(j), NEW x
  PROVE  /\ [j EXCEPT !.put = x].put = x /\ [j EXCEPT !.put = x].line = j.line
         /\ [j EXCEPT !.copy = x].copy = x /\ [j EXCEPT !.copy = x].put = j.put
         /\ [j EXCEPT !.copy = x].line = j.line
         /\ [j EXCEPT !.read = x].put = j.put /\ [j EXCEPT !.wrote = x].put = j.put
         /\ [j EXCEPT !.manifest = x].put = j.put /\ [j EXCEPT !.live = x].put = j.put
         /\ [j EXCEPT !.line = x].put = j.put /\ [j EXCEPT !.line = x].line = x
BY DEF IsJob

LEMMA CheckSteps ==
  ASSUME IndInv, SafeInv, NEW p \in Procs,
         CheckTier1(p) \/ StartProbe(p) \/ SaveSnapshot(p) \/ CheckXref(p)
  PROVE  SafeInv'
<1>1. IsJob(job[p]) /\ PW \notin DOMAIN job[p].put /\ PW \notin DOMAIN NoJob.put
  BY IdleJob, ScaffoldType DEF IndInv, TypeOK, SafeInv, CopiesCurrent
<1>2. \A t \in {"TIER1", "XREF", "PROC"} : \A S : PW \notin DOMAIN Only(t, S)
  BY Strings DEF Only
<1>3. CASE CheckTier1(p)
  <2> DEFINE S == Report("TIER1", Corpus(world))
                    \cup IF snap = world.conf THEN {} ELSE Report("CONF", world.conf)
             j == [NoJob EXCEPT !.live = world.conf, !.put = Only("TIER1", S)]
  <2>1. Goto(p, "snapshot") /\ SetJob(p, j) /\ p \notin Diverters /\ Count("jobs")
    BY <1>3, QueueAssumption DEF CheckTier1, Begin
  <2>2. j.put = Only("TIER1", S)
    BY DEF NoJob
  <2>3. Keeps /\ reported' = reported /\ cleared' = cleared
    BY <1>3 DEF CheckTier1, human, Keeps
  <2> HIDE DEF j, S
  <2> QED BY <1>2, <2>1, <2>2, <2>3, JobCount, QuietStep
<1>4. CASE StartProbe(p)
  <2>1. p \notin Diverters
    BY <1>4, QueueAssumption DEF StartProbe
  <2> DEFINE j == [NoJob EXCEPT !.put = Only("PROC", Report("PROC", world.proc))]
  <2>2. PW \notin DOMAIN j.put
    BY <1>2, IdleJob, Fields
  <2>3. Goto(p, "wait") /\ SetJob(p, j) /\ Count("jobs")
    BY <1>4 DEF StartProbe, Begin
  <2>4. Keeps /\ reported' = reported /\ cleared' = cleared
    BY <1>4 DEF StartProbe, human, Keeps
  <2> HIDE DEF j
  <2> QED BY <2>1, <2>2, <2>3, <2>4, JobCount, QuietStep
<1>5. CASE SaveSnapshot(p)
  <2>1. p \notin Diverters
    BY <1>5 DEF SaveSnapshot, SafeInv, PendingFresh
  <2>2. SetJob(p, job[p])
    BY <1>5 DEF SaveSnapshot, SetJob, IndInv, TypeOK
  <2> QED BY <1>1, <1>5, <2>1, <2>2, JobCount, QuietStep DEF SaveSnapshot, human, Keeps
<1>6. CASE CheckXref(p)
  <2>1. p \notin Diverters
    BY <1>6 DEF CheckXref, SafeInv, PendingFresh
  <2>2. PICK x \in XrefResult : SetJob(p, [job[p] EXCEPT !.put = With(@, x)])
    BY <1>6 DEF CheckXref
  <2>3. PW \notin DOMAIN x
    BY <1>2, ScaffoldType DEF XrefResult
  <2>4. PW \notin DOMAIN With(job[p].put, x)
    BY <1>1, <2>3 DEF With
  <2> DEFINE j == [job[p] EXCEPT !.put = With(job[p].put, x)]
  <2>5. PW \notin DOMAIN j.put
    BY <1>1, <2>4, Fields
  <2>6. Goto(p, "wait") /\ SetJob(p, j) /\ used' = used
    BY <1>6, <2>2 DEF CheckXref
  <2>7. Keeps /\ reported' = reported /\ cleared' = cleared
    BY <1>6 DEF CheckXref, human, Keeps
  <2> HIDE DEF j
  <2> QED BY <2>1, <2>5, <2>6, <2>7, JobCount, QuietStep
<1> QED BY <1>3, <1>4, <1>5, <1>6

\* a diverted verb composes its proposal
LEMMA DivertStep == ASSUME IndInv, SafeInv, NEW p \in Procs, StartDivert(p) PROVE SafeInv'
<1> DEFINE j == [NoJob EXCEPT !.line = used.jobs + 1]
<1>1. p \in Diverters /\ pc[p] = "idle" /\ used'.jobs = used.jobs + 1 /\ used.jobs \in Nat
  BY JobCount DEF StartDivert, Begin
<1>2. j.line = used.jobs + 1 /\ j.put = Blank
  BY IdleJob, Fields
<1>3. \A q \in Procs : pc'[q] = (IF q = p THEN "wait" ELSE pc[q])
                       /\ job'[q] = (IF q = p THEN j ELSE job[q])
  BY DEF StartDivert, IndInv, TypeOK, Goto, SetJob
<1> HIDE DEF j
<1>4. file' = file /\ reported' = reported /\ cleared' = cleared /\ overtaken' = overtaken
  BY DEF StartDivert, human
<1>5. ProposalsKept' /\ ClearedStaysCleared' /\ (overtaken \subseteq cleared)'
  BY <1>4 DEF SafeInv, ProposalsKept, ClearedStaysCleared
<1>6. CopiesCurrent'
  BY <1>2, <1>3, <1>4, ScaffoldType DEF SafeInv, CopiesCurrent
<1>7. PendingFresh'
  <2>1. \A q \in Diverters : pc'[q] \in {"idle", "wait", "read", "replace"}
    BY <1>3 DEF SafeInv, PendingFresh, Procs
  <2>2. \A f \in Section(file, PW) \cup cleared : f.n \in Nat /\ f.n <= used.jobs
    <3> SUFFICES ASSUME NEW f \in Section(file, PW) \cup cleared
                 PROVE  f.n \in Nat /\ f.n <= used.jobs
      OBVIOUS
    <3>1. f \in Finding
      BY ContentsType DEF IndInv, TypeOK, Section
    <3> QED BY <3>1 DEF Finding, SafeInv, PendingFresh
  <2>3. \A q \in Procs : Pending(q) => job[q].line \in Nat /\ job[q].line <= used.jobs
    BY DEF IndInv, TypeOK, IsJob, SafeInv, PendingFresh
  <2>4. ASSUME NEW q \in Procs, Pending(q)'
        PROVE  /\ Line(q)' \notin Section(file', PW) \cup cleared'
               /\ job'[q].line <= used'.jobs
               /\ \A r \in Procs : Pending(r)' /\ r # q => job'[r].line # job'[q].line
    <3>1. \A r \in Procs : Pending(r)' /\ r # p => Pending(r) /\ job'[r].line = job[r].line
      BY <1>3 DEF Pending
    <3>2. job'[p].line = used.jobs + 1
      BY <1>2, <1>3
    <3>3. CASE q = p
      <4>1. Line(q)'.n = used.jobs + 1
        BY <3>2, <3>3 DEF Line
      <4>2. Line(q)' \notin Section(file', PW) \cup cleared'
        BY <1>1, <1>4, <2>2, <4>1
      <4>3. \A r \in Procs : Pending(r)' /\ r # q => job'[r].line # job'[q].line
        BY <1>1, <2>3, <3>1, <3>2, <3>3
      <4> QED BY <1>1, <3>2, <3>3, <4>2, <4>3
    <3>4. CASE q # p
      <4>1. Pending(q) /\ job'[q].line = job[q].line /\ Line(q)' = Line(q)
        BY <2>4, <3>1, <3>4 DEF Line
      <4>2. Line(q)' \notin Section(file', PW) \cup cleared'
        BY <1>4, <4>1 DEF SafeInv, PendingFresh
      <4>3. \A r \in Procs : Pending(r)' /\ r # q => job'[r].line # job'[q].line
        BY <1>1, <2>3, <3>1, <3>2, <4>1 DEF SafeInv, PendingFresh
      <4> QED BY <1>1, <2>3, <4>1, <4>2, <4>3
    <3> QED BY <3>3, <3>4
  <2>5. \A f \in Section(file', PW) \cup cleared' : f.n <= used'.jobs
    BY <1>1, <1>4, <2>2
  <2> QED BY <2>1, <2>4, <2>5 DEF PendingFresh
<1> QED BY <1>5, <1>6, <1>7 DEF SafeInv

LEMMA AuditSteps ==
  ASSUME IndInv, SafeInv, NEW p \in Procs,
         AuditGate(p) \/ AgentReads(p) \/ AgentEnds(p) \/ Collect(p) \/ Advance(p)
  PROVE  SafeInv'
<1>1. IsJob(job[p]) /\ PW \notin DOMAIN job[p].put /\ PW \notin DOMAIN NoJob.put /\ IsJob(NoJob)
  BY IdleJob, ScaffoldType DEF IndInv, TypeOK, SafeInv, CopiesCurrent
<1>2. p \notin Diverters
  BY DEF AuditGate, AgentReads, AgentEnds, Collect, Advance, SafeInv, PendingFresh
<1>3. /\ Keeps /\ reported' = reported /\ cleared' = cleared /\ used' = used
      /\ used.jobs \in Nat
  BY JobCount DEF AuditGate, AgentReads, AgentEnds, Collect, Advance, human, Keeps
<1>4. \E l \in {"idle", "agent", "writing", "collect", "waitsh"} : Goto(p, l)
  BY DEF AuditGate, AgentReads, AgentEnds, Collect, Advance
<1>5. UNCHANGED job => SetJob(p, job[p])
  BY DEF SetJob, IndInv, TypeOK
<1>6. PW \notin DOMAIN Only("AUDIT", tmpf)
  BY Strings DEF Only
<1>7. \E j : SetJob(p, j) /\ PW \notin DOMAIN j.put
  <2>1. CASE AuditGate(p)
    <3>1. SetJob(p, job[p]) \/ SetJob(p, [NoJob EXCEPT !.manifest = world.memo])
      BY <1>5, <2>1 DEF AuditGate
    <3>2. [NoJob EXCEPT !.manifest = world.memo].put = NoJob.put
      BY <1>1, Fields
    <3> QED BY <1>1, <3>1, <3>2
  <2>2. CASE AgentReads(p)
    <3>1. SetJob(p, [job[p] EXCEPT !.read = Read(world)])
      BY <2>2 DEF AgentReads
    <3>2. [job[p] EXCEPT !.read = Read(world)].put = job[p].put
      BY <1>1, Fields
    <3> QED BY <1>1, <3>1, <3>2
  <2>3. CASE AgentEnds(p)
    <3>1. SetJob(p, job[p]) \/ SetJob(p, [job[p] EXCEPT !.wrote = TRUE])
      BY <1>5, <2>3 DEF AgentEnds
    <3>2. [job[p] EXCEPT !.wrote = TRUE].put = job[p].put
      BY <1>1, Fields
    <3> QED BY <1>1, <3>1, <3>2
  <2>4. CASE Collect(p)
    <3>1. SetJob(p, NoJob) \/ SetJob(p, [job[p] EXCEPT !.put = Only("AUDIT", tmpf)])
      BY <2>4 DEF Collect
    <3>2. [job[p] EXCEPT !.put = Only("AUDIT", tmpf)].put = Only("AUDIT", tmpf)
      BY <1>1, Fields
    <3> QED BY <1>1, <1>6, <3>1, <3>2
  <2>5. CASE Advance(p)
    BY <1>1, <2>5 DEF Advance
  <2> QED BY <2>1, <2>2, <2>3, <2>4, <2>5
<1> QED BY <1>2, <1>3, <1>4, <1>7, QuietStep

\* the lock is taken, given up or dropped, and the file read
LEMMA LockSteps ==
  ASSUME IndInv, SafeInv, Sound, NEW p \in Procs,
         Acquire(p) \/ LockTimeout(p) \/ ReadQueue(p) \/ ReplaceRefused(p) \/ Kill(p)
  PROVE  SafeInv'
<1>1. IsJob(job[p]) /\ PW \notin DOMAIN job[p].put /\ PW \notin DOMAIN NoJob.put /\ IsJob(NoJob)
  BY IdleJob, ScaffoldType DEF IndInv, TypeOK, SafeInv, CopiesCurrent
<1>2. /\ reported' = reported /\ cleared' = cleared
      /\ Acquire(p) \/ LockTimeout(p) \/ ReadQueue(p) => Keeps
      /\ ReplaceRefused(p) \/ Kill(p) => Keeps \/ Returns(p)
  <2>1. Acquire(p) \/ LockTimeout(p) \/ ReadQueue(p) => Keeps
    BY DEF Acquire, LockTimeout, ReadQueue, human, Keeps
  <2>2. ReplaceRefused(p) \/ Kill(p) => Keeps \/ Returns(p)
    BY LeaveKeeps DEF ReplaceRefused, Kill
  <2> QED BY <2>1, <2>2 DEF Acquire, LockTimeout, ReadQueue, ReplaceRefused, Kill, human
<1>3. used.jobs \in Nat /\ used'.jobs = used.jobs
  BY JobCount DEF Acquire, LockTimeout, ReadQueue, ReplaceRefused, Kill, Fails, CounterNames
<1>4. p \in Diverters => pc[p] \in {"idle", "wait", "read", "replace"} /\ After(p) = "idle"
  BY QueueAssumption DEF SafeInv, PendingFresh, After
<1>5. CASE Acquire(p)
  <2>1. SetJob(p, job[p])
    BY <1>5 DEF Acquire, SetJob, IndInv, TypeOK
  <2>2. CASE pc[p] = "wait"
    BY <1>1, <1>2, <1>3, <1>4, <1>5, <2>1, <2>2, QuietStep DEF Acquire, Pending
  <2>3. CASE pc[p] = "waitsh"
    BY <1>1, <1>2, <1>3, <1>4, <1>5, <2>1, <2>3, QuietStep DEF Acquire
  <2> QED BY <1>5, <2>2, <2>3 DEF Acquire
<1>6. CASE LockTimeout(p)
  <2>1. UNCHANGED job => SetJob(p, job[p])
    BY DEF SetJob, IndInv, TypeOK
  <2>2. CASE pc[p] = "wait"
    BY <1>1, <1>2, <1>3, <1>4, <1>6, <2>2, QuietStep DEF LockTimeout, After
  <2>3. CASE pc[p] = "waitsh"
    BY <1>1, <1>2, <1>3, <1>4, <1>6, <2>1, <2>3, QuietStep DEF LockTimeout
  <2> QED BY <1>6, <2>2, <2>3 DEF LockTimeout
<1>7. CASE ReadQueue(p)
  <2> DEFINE j == [job[p] EXCEPT !.copy = Parse(file)]
  <2>1. SetJob(p, j) /\ Goto(p, "replace") /\ pc[p] = "read"
    BY <1>7 DEF ReadQueue, Fails, Sound
  <2>2. Section(j.copy, PW) = Section(file, PW) /\ PW \notin DOMAIN j.put /\ j.line = job[p].line
    BY <1>1, ParseType, Fields DEF IndInv, TypeOK
  <2> HIDE DEF j
  <2> QED BY <1>2, <1>3, <1>7, <2>1, <2>2, QuietStep DEF Pending
<1>8. CASE ReplaceRefused(p)
  BY <1>1, <1>2, <1>3, <1>4, <1>8, QuietStep DEF ReplaceRefused, Leave, After
<1>9. CASE Kill(p)
  BY <1>1, <1>2, <1>3, <1>9, QuietStep DEF Kill, Leave
<1> QED BY <1>5, <1>6, <1>7, <1>8, <1>9

\* findings_set_section: the proposals pass through init, awk and mv
LEMMA ShellSteps ==
  ASSUME IndInv, SafeInv, Sound, NEW p \in Procs,
         InitSection(p) \/ Awk(p) \/ Mv(p) \/ MvUnlinks(p) \/ MvCopies(p)
  PROVE  SafeInv'
<1>1. IsJob(job[p]) /\ PW \notin DOMAIN job[p].put
  BY DEF IndInv, TypeOK, SafeInv, CopiesCurrent
<1>2. reported' = reported /\ cleared' = cleared /\ p \notin Diverters
  BY DEF InitSection, Awk, Mv, MvUnlinks, MvCopies, human, SafeInv, PendingFresh
<1>9. InitSection(p) \/ Awk(p) => overtaken' = overtaken
  BY DEF InitSection, Awk, human
<1>3. used.jobs \in Nat /\ used'.jobs = used.jobs
  BY JobCount DEF InitSection, Awk, Mv, MvUnlinks, MvCopies, Fails, CounterNames
<1>4. UNCHANGED job => SetJob(p, job[p])
  BY DEF SetJob, IndInv, TypeOK
<1>5. ~MvUnlinks(p) /\ ~MvCopies(p)
  BY DEF MvUnlinks, MvCopies, Fails, Sound, SafeInv, CopiesCurrent
<1>6. CASE InitSection(p)
  <2>1. IsContents(Only("AUDIT", {})) /\ PW \notin DOMAIN Only("AUDIT", {})
    BY OnlyType, Strings DEF Tags, Seeded
  <2>2. Section(file', PW) = Section(file, PW)
    <3>1. CASE file = Absent
      <4>1. file' = Fresh /\ PW \notin DOMAIN Fresh
        BY <1>6, <3>1, ScaffoldType, Strings DEF InitSection
      <4> QED BY <3>1, <4>1 DEF Section
    <3>2. CASE file # Absent
      <4>1. IsContents(file)
        BY <3>2 DEF IndInv, TypeOK
      <4> QED BY <1>6, <2>1, <3>2, <4>1, WithSection DEF InitSection
    <3> QED BY <3>1, <3>2
  <2> QED BY <1>1, <1>2, <1>3, <1>4, <1>6, <1>9, <2>2, QuietStep DEF InitSection, Keeps
<1>7. CASE Awk(p)
  <2> DEFINE put == job[p].put
             out == [t \in DOMAIN file \cap AwkKeeps |->
                       IF t \in DOMAIN put THEN put[t] ELSE file[t]]
             j == [job[p] EXCEPT !.copy = out]
  <2>1. SetJob(p, j) /\ Goto(p, "mv") /\ file' = file
    BY <1>7 DEF Awk, Fails, Sound
  <2>2. IsContents(file) /\ file # Absent
    BY <1>7, QueueAssumption DEF IndInv, TypeOK, CopyInv, Awk
  <2>3. out # Absent
    <3>1. DOMAIN file \cap AwkKeeps \in SUBSET Tags
      BY DEF AwkKeeps
    <3>2. \A t \in DOMAIN file : (IF t \in DOMAIN put THEN put[t] ELSE file[t]) \subseteq Finding
      BY <1>1, <2>2, ContentsType DEF IsJob
    <3>3. IsContents(out)
      BY <3>1, <3>2 DEF IsContents
    <3> QED BY <3>3, QueueAssumption
  <2>4. Section(out, PW) = Section(file, PW)
    BY <1>1, <2>2, <2>3 DEF Section, AwkKeeps, Tags
  <2>5. j.copy = out /\ j.put = job[p].put
    BY <1>1, Fields
  <2>6. Section(j.copy, PW) = Section(file, PW) /\ PW \notin DOMAIN j.put
    BY <1>1, <2>4, <2>5
  <2> HIDE DEF j, out
  <2>7. Keeps
    BY <1>7, <1>9, <2>1 DEF Keeps
  <2> QED BY <1>2, <1>3, <2>1, <2>6, <2>7, QuietStep
<1>8. CASE Mv(p)
  <2>1. lock = p
    BY <1>8 DEF Mv, IndInv, LockInv, Held
  <2>2. Returns(p)
    BY <1>8, <2>1 DEF Mv, Leave, Returns, SafeInv, CopiesCurrent
  <2> QED BY <1>1, <1>2, <1>3, <1>4, <1>8, <2>2, QuietStep DEF Mv, Leave
<1> QED BY <1>5, <1>6, <1>7, <1>8

\* a python writer puts its copy in place: a diverted verb's proposal arrives
LEMMA ReplaceStep == ASSUME IndInv, SafeInv, NEW p \in Procs, ReplaceQueue(p) PROVE SafeInv'
<1>1. /\ IsJob(job[p]) /\ IsJob(NoJob) /\ PW \notin DOMAIN job[p].put
      /\ PW \notin DOMAIN NoJob.put /\ IsContents(job[p].copy)
      /\ Section(file, PW) \subseteq Section(job[p].copy, PW)
      /\ Section(job[p].copy, PW) \subseteq Section(file, PW) \cup overtaken
  BY IdleJob, ScaffoldType
     DEF ReplaceQueue, IndInv, TypeOK, CopyInv, IsJob, SafeInv, CopiesCurrent
<1>2. cleared' = cleared /\ used' = used /\ used.jobs \in Nat
  BY JobCount DEF ReplaceQueue
<1>6. lock = p /\ overtaken' = overtaken \cap Section(file', PW) /\ overtaken \subseteq cleared
  BY DEF ReplaceQueue, Leave, IndInv, LockInv, Held, SafeInv
<1>3. \A q \in Procs : pc'[q] = (IF q = p THEN After(p) ELSE pc[q])
                       /\ job'[q] = (IF q = p THEN NoJob ELSE job[q])
  BY DEF ReplaceQueue, Leave, IndInv, TypeOK, Goto, SetJob
<1>4. CASE p \notin Diverters
  <2>1. Section(file', PW) = Section(job[p].copy, PW) /\ reported' = reported
    BY <1>1, <1>4, WithSection DEF ReplaceQueue, Update, IsJob
  <2>3. Returns(p)
    BY <1>1, <1>6, <2>1 DEF Returns
  <2>2. Goto(p, After(p)) /\ SetJob(p, NoJob) /\ After(p) \in {"gate", "idle"}
    BY DEF ReplaceQueue, Leave, After
  <2> QED BY <1>1, <1>2, <1>4, <2>1, <2>2, <2>3, QuietStep
<1>5. CASE p \in Diverters
  <2>1. /\ Section(file', PW) = Section(job[p].copy, PW) \cup {Line(p)}
        /\ reported' = reported \cup {Line(p)}
    <3>1. Update(p) = Only(PW, Section(job[p].copy, PW) \cup Report(PW, job[p].line))
      BY <1>5 DEF Update
    <3>2. Report(PW, job[p].line) \in SUBSET Finding
      BY <1>1, ReportType DEF IsJob
    <3>3. Section(job[p].copy, PW) \in SUBSET Finding
      BY <1>1, ContentsType DEF Section
    <3>4. IsContents(Update(p)) /\ DOMAIN Update(p) = {PW}
          /\ Update(p)[PW] = Section(job[p].copy, PW) \cup Report(PW, job[p].line)
      <4>1. PW \in Tags /\ Section(job[p].copy, PW) \cup Report(PW, job[p].line) \in SUBSET Finding
        BY <3>2, <3>3 DEF Tags
      <4> QED BY <3>1, <4>1, OnlyType
    <3>5. Section(file', PW) = Update(p)[PW]
      BY <1>1, <3>4, WithSection DEF ReplaceQueue
    <3> QED BY <1>1, <1>5, <3>4, <3>5 DEF ReplaceQueue, Report, Line
  <2>2. /\ Pending(p) /\ Line(p) \notin Section(file, PW) \cup cleared
        /\ job[p].line <= used.jobs /\ Line(p).n = job[p].line
    BY <1>5 DEF ReplaceQueue, Pending, Line, SafeInv, PendingFresh
  <2>3. After(p) = "idle"
    BY <1>5, QueueAssumption DEF After
  <2>4. \A q \in Procs : pc'[q] \notin {"replace", "mv", "copying"}
    BY <1>3, <2>3 DEF ReplaceQueue, IndInv, LockInv, Held
  <2>5. ProposalsKept' /\ ClearedStaysCleared' /\ (overtaken \subseteq cleared)'
    <3>1. ProposalsKept'
      BY <1>1, <1>2, <2>1 DEF SafeInv, ProposalsKept
    <3>2. ClearedStaysCleared'
      BY <1>1, <1>2, <1>6, <2>1, <2>2 DEF SafeInv, ClearedStaysCleared
    <3> QED BY <1>2, <1>6, <3>1, <3>2
  <2>12. Section(file', PW) \cup cleared' = Section(file, PW) \cup cleared \cup {Line(p)}
    BY <1>1, <1>2, <1>6, <2>1
  <2>6. CopiesCurrent'
    BY <1>1, <1>3, <2>4 DEF SafeInv, CopiesCurrent
  <2>7. \A q \in Diverters : pc'[q] \in {"idle", "wait", "read", "replace"}
    BY <1>3, <2>3 DEF SafeInv, PendingFresh, Procs
  <2>8. \A q \in Procs : Pending(q)' =>
          Pending(q) /\ q # p /\ job'[q].line = job[q].line /\ Line(q)' = Line(q)
    BY <1>3, <2>3 DEF Pending, Line
  <2>9. ASSUME NEW q \in Procs, Pending(q)'
        PROVE  /\ Line(q)' \notin Section(file', PW) \cup cleared'
               /\ job'[q].line <= used'.jobs
               /\ \A r \in Procs : Pending(r)' /\ r # q => job'[r].line # job'[q].line
    <3>1. Pending(q) /\ q # p /\ Line(q)' = Line(q) /\ job'[q].line = job[q].line
      BY <2>8, <2>9
    <3>2. Line(q).n = job[q].line /\ job[q].line # job[p].line
      BY <2>2, <3>1 DEF Line, SafeInv, PendingFresh
    <3>3. Line(q)' \notin Section(file', PW) \cup cleared'
      BY <2>2, <2>12, <3>1, <3>2 DEF SafeInv, PendingFresh
    <3>4. \A r \in Procs : Pending(r)' /\ r # q => job'[r].line # job'[q].line
      BY <2>8, <3>1 DEF SafeInv, PendingFresh
    <3> QED BY <1>2, <3>1, <3>3, <3>4 DEF SafeInv, PendingFresh
  <2>10. \A f \in Section(file', PW) \cup cleared' : f.n <= used'.jobs
    BY <1>2, <2>2, <2>12 DEF SafeInv, PendingFresh
  <2>11. PendingFresh'
    BY <2>7, <2>9, <2>10 DEF PendingFresh
  <2> QED BY <2>5, <2>6, <2>11 DEF SafeInv
<1> QED BY <1>4, <1>5

\* steps that move no process and leave the proposals of the queue alone
LEMMA ElsewhereStep ==
  ASSUME IndInv, SafeInv, UNCHANGED <<file, pc, job, reported, cleared, overtaken>>,
         used'.jobs = used.jobs
  PROVE  SafeInv'
<1>1. \A p \in Procs : (Pending(p)' <=> Pending(p)) /\ Line(p)' = Line(p)
  BY DEF Pending, Line
<1>2. ProposalsKept' /\ ClearedStaysCleared' /\ CopiesCurrent' /\ (overtaken \subseteq cleared)'
  BY DEF SafeInv, ProposalsKept, ClearedStaysCleared, CopiesCurrent
<1>3. PendingFresh'
  BY <1>1 DEF SafeInv, PendingFresh
<1> QED BY <1>2, <1>3 DEF SafeInv

\* what a person's save does to the file
LEMMA SaveFacts ==
  ASSUME IndInv, Sound, NEW S, SaveEditor(S)
  PROVE  /\ S \subseteq Section(file, PW) /\ IsContents(file) /\ file # Absent
         /\ DOMAIN file \subseteq DOMAIN file'
         /\ \A t : Section(file', t) = IF t = PW THEN Section(file, PW) \ S ELSE Section(file, t)
<1>1. /\ file = draft /\ draft # Absent /\ S \subseteq Section(draft, PW) /\ S # {}
      /\ file' = With(draft, Only(PW, draft[PW] \ S))
  BY DEF SaveEditor, Sound
<1>2. IsContents(file) /\ PW \in DOMAIN file /\ file[PW] \in SUBSET Finding /\ PW \in Tags
  <2>1. IsContents(file)
    BY <1>1 DEF IndInv, TypeOK
  <2>2. PW \in DOMAIN file
    BY <1>1 DEF Section
  <2> QED BY <2>1, <2>2, ContentsType DEF Tags
<1>3. file[PW] \ S \in SUBSET Finding
  BY <1>2
<1>4. /\ IsContents(Only(PW, file[PW] \ S)) /\ DOMAIN Only(PW, file[PW] \ S) = {PW}
      /\ Only(PW, file[PW] \ S)[PW] = file[PW] \ S
  BY <1>2, <1>3, OnlyType
<1>5. \A t : Section(file', t) = IF t = PW THEN file[PW] \ S ELSE Section(file, t)
  BY <1>1, <1>2, <1>4, WithSection
<1>6. Section(file, PW) = file[PW]
  BY <1>1, <1>2 DEF Section
<1>7. DOMAIN file \subseteq DOMAIN file'
  BY <1>1 DEF With
<1> QED BY <1>1, <1>2, <1>5, <1>6, <1>7

\* a person takes proposals out, while somebody is about to replace the file or not
LEMMA SaveStep ==
  ASSUME IndInv, SafeInv, Sound, NEW S, SaveEditor(S)
  PROVE  SafeInv'
<1>1. /\ cleared' = cleared \cup S /\ UNCHANGED <<pc, job, used, reported>>
      /\ overtaken' = IF Stale THEN overtaken \cup S ELSE overtaken \ S
  BY DEF SaveEditor
<1>3. Section(file', PW) = Section(file, PW) \ S /\ S \subseteq Section(file, PW)
  BY SaveFacts
<1>4. \A p \in Procs : pc[p] \in {"replace", "mv"} => Stale
  BY QueueAssumption DEF IndInv, LockInv, Held, HasCopy, Stale
<1>5. ProposalsKept' /\ ClearedStaysCleared' /\ (overtaken \subseteq cleared)'
  BY <1>1, <1>3 DEF SafeInv, ProposalsKept, ClearedStaysCleared
<1>6. CopiesCurrent'
  <2> SUFFICES ASSUME NEW p \in Procs
               PROVE  /\ pc[p] \in {"replace", "mv"} =>
                           /\ Section(file', PW) \subseteq Section(job[p].copy, PW)
                           /\ Section(job[p].copy, PW) \subseteq Section(file', PW) \cup overtaken'
                      /\ PW \notin DOMAIN job[p].put
                      /\ pc[p] # "copying"
    BY <1>1 DEF CopiesCurrent
  <2>1. CASE pc[p] \in {"replace", "mv"}
    <3>1. overtaken' = overtaken \cup S
      BY <1>1, <1>4, <2>1
    <3> QED BY <1>3, <2>1, <3>1 DEF SafeInv, CopiesCurrent
  <2>2. CASE pc[p] \notin {"replace", "mv"}
    BY <2>2 DEF SafeInv, CopiesCurrent
  <2> QED BY <2>1, <2>2
<1>7. \A p \in Procs : (Pending(p)' <=> Pending(p)) /\ Line(p)' = Line(p)
  BY <1>1 DEF Pending, Line
<1>8. Section(file', PW) \cup cleared' = Section(file, PW) \cup cleared
  BY <1>1, <1>3
<1>9. PendingFresh'
  BY <1>1, <1>7, <1>8 DEF SafeInv, PendingFresh
<1> QED BY <1>5, <1>6, <1>9 DEF SafeInv

LEMMA OutsideSafe ==
  ASSUME IndInv, SafeInv, Sound,
         \/ \E c \in Parts : Move(c)
         \/ OpenEditor \/ CloseEditor
         \/ \E S \in SUBSET Section(draft, PW) : SaveEditor(S)
  PROVE  SafeInv'
<1>1. CASE \E c \in Parts : Move(c)
  BY <1>1, JobCount, ElsewhereStep DEF Move, human, CounterNames
<1>2. CASE OpenEditor \/ CloseEditor
  BY <1>2, JobCount, ElsewhereStep DEF OpenEditor, CloseEditor, CounterNames
<1>3. CASE \E S \in SUBSET Section(draft, PW) : SaveEditor(S)
  BY <1>3, SaveStep
<1> QED BY <1>1, <1>2, <1>3

LEMMA InitSafe == Init => SafeInv
<1> SUFFICES ASSUME Init PROVE SafeInv
  OBVIOUS
<1>1. Section(file, PW) = {} /\ reported = {} /\ cleared = {} /\ overtaken = {}
  BY DEF Init, Section
<1>2. \A p \in Procs : pc[p] = "idle" /\ job[p] = NoJob
  BY DEF Init
<1>3. ProposalsKept /\ ClearedStaysCleared
  BY <1>1 DEF ProposalsKept, ClearedStaysCleared
<1>4. CopiesCurrent
  BY <1>2, IdleJob, ScaffoldType DEF CopiesCurrent
<1>5. PendingFresh
  BY <1>1, <1>2 DEF PendingFresh, Pending, Procs
<1> QED BY <1>1, <1>3, <1>4, <1>5 DEF SafeInv

LEMMA NextSafe == ASSUME IndInv, SafeInv, Sound, [Next]_vars PROVE SafeInv'
<1>1. CASE UNCHANGED vars
  BY <1>1, ElsewhereStep DEF vars
<1>2. ASSUME NEW p \in Procs, Start(p) \/ Step(p) \/ Kill(p) PROVE SafeInv'
  BY <1>2, CheckSteps, DivertStep, AuditSteps, LockSteps, ShellSteps, ReplaceStep
     DEF Start, Step
<1>3. CASE \/ \E c \in Parts : Move(c)
           \/ OpenEditor \/ CloseEditor
           \/ \E S \in SUBSET Section(draft, PW) : SaveEditor(S)
  BY <1>3, OutsideSafe
<1> QED BY <1>1, <1>2, <1>3 DEF Next

-----------------------------------------------------------------------------
(* What is promised to the session and to the person *)

\* A write verb that the gate diverted and that told its session "queued" is in the
\* queue until a person takes it out (authgate.py:230), for any number of producers
\* in python and bash, kills, lock timeouts and refused temporary files: provided
\* the queue can be read, mv renames, and no editor saves over a changed file.
THEOREM ProposalsSafe ==
  ASSUME Sound PROVE Spec => []ProposalsKept
<1>1. SafeInv => ProposalsKept
  BY DEF SafeInv
<1>2. IndInv /\ SafeInv /\ [Next]_vars => (IndInv /\ SafeInv)'
  BY NextInd, NextSafe
<1>3. Init => IndInv /\ SafeInv
  BY InitInd, InitSafe
<1> QED BY <1>1, <1>2, <1>3, PTL DEF Spec

\* What a person has taken out of the queue comes back with one producer at most, the
\* one that held the lock with its copy made when the person saved (authgate.py:241,
\* store.py:308, findings.sh:58): whenever the person saves, and under the same
\* conditions.
THEOREM AdjudicationHolds ==
  ASSUME Sound PROVE Spec => []ClearedStaysCleared
<1>1. SafeInv => ClearedStaysCleared
  BY DEF SafeInv
<1>2. IndInv /\ SafeInv /\ [Next]_vars => (IndInv /\ SafeInv)'
  BY NextInd, NextSafe
<1>3. Init => IndInv /\ SafeInv
  BY InitInd, InitSafe
<1> QED BY <1>1, <1>2, <1>3, PTL DEF Spec

-----------------------------------------------------------------------------
(* The queue changes as AbstractQueue allows *)

OneRun(S) == \A f, g \in S : f.tag = g.tag => f = g

\* p at label l with locals j, when the file is c: what it will set is of one run, and
\* its copy of the sections of the other producers is the file's
RunOK(p, l, j, c) ==
  /\ l \in {"snapshot", "xref"} => DOMAIN j.put = {"TIER1"}
  /\ l \in {"wait", "read", "replace"} /\ p \notin Diverters => DOMAIN j.put \in Owned
  /\ l \in {"waitsh", "init", "awk", "mv"} => DOMAIN j.put = {"AUDIT"}
  /\ \A t \in DOMAIN j.put : OneRun(j.put[t])
  /\ l = "replace" => \A t \in Tags \ {PW} : Section(j.copy, t) = Section(c, t)
  /\ l = "awk" => "AUDIT" \in DOMAIN c
  /\ l = "mv" => \A t \in Tags \ {PW} :
                    Section(j.copy, t) = IF t = "AUDIT" THEN j.put[t] ELSE Section(c, t)

RunInv ==
  /\ \A p \in Procs : RunOK(p, pc[p], job[p], file)
  /\ tmpf # Absent => OneRun(tmpf)

LEMMA OneReport == ASSUME NEW t, NEW n PROVE OneRun(Report(t, n))
BY DEF OneRun, Report

LEMMA OnlyFacts == ASSUME NEW t, NEW S PROVE DOMAIN Only(t, S) = {t} /\ Only(t, S)[t] = S
BY DEF Only

\* a job that sets one section to the findings S of one run
LEMMA OnlyRun ==
  ASSUME NEW p, NEW l, NEW j, NEW c, NEW t, NEW S,
         j.put = Only(t, S), OneRun(S), l \notin {"replace", "awk", "mv"},
         l \in {"snapshot", "xref"} => t = "TIER1",
         l \in {"wait", "read", "replace"} => t = "PROC",
         l \in {"waitsh", "init", "awk", "mv"} => t = "AUDIT"
  PROVE  RunOK(p, l, j, c)
<1>1. DOMAIN j.put = {t} /\ j.put[t] = S
  BY OnlyFacts
<1>2. \A u \in DOMAIN j.put : OneRun(j.put[u])
  BY <1>1
<1>3. {"PROC"} \in Owned
  BY DEF Owned
<1> QED BY <1>1, <1>2, <1>3 DEF RunOK

\* a step of p that leaves the file alone, or is made with the lock
LEMMA RunStep ==
  ASSUME IndInv, RunInv, NEW p \in Procs, NEW l, NEW j, Goto(p, l), SetJob(p, j),
         RunOK(p, l, j, file'), file' = file \/ lock = p,
         tmpf' = tmpf \/ tmpf' = Absent \/ OneRun(tmpf')
  PROVE  RunInv'
<1>1. \A q \in Procs : pc'[q] = (IF q = p THEN l ELSE pc[q])
                       /\ job'[q] = (IF q = p THEN j ELSE job[q])
  BY DEF IndInv, TypeOK, Goto, SetJob
<1>2. ASSUME NEW q \in Procs PROVE RunOK(q, pc'[q], job'[q], file')
  <2>1. CASE q = p
    BY <1>1, <2>1
  <2>2. CASE q # p
    <3>1. RunOK(q, pc[q], job[q], file)
      BY DEF RunInv
    <3>2. file' = file \/ pc[q] \notin {"replace", "awk", "mv"}
      BY <2>2 DEF IndInv, LockInv, Held
    <3> QED BY <1>1, <2>2, <3>1, <3>2 DEF RunOK
  <2> QED BY <2>1, <2>2
<1> QED BY <1>2 DEF RunInv

LEMMA IdleRun ==
  ASSUME NEW p, NEW l \in {"idle", "gate", "agent"}, NEW j, j.put = Blank, NEW c PROVE RunOK(p, l, j, c)
BY ScaffoldType DEF RunOK

LEMMA RunStart == ASSUME IndInv, RunInv, NEW p \in Procs, Start(p) PROVE RunInv'
<1>1. tmpf' = tmpf /\ file' = file
  BY DEF Start, CheckTier1, StartDivert, StartProbe, audit
<1>2. CASE CheckTier1(p)
  <2> DEFINE drift == IF snap = world.conf THEN {} ELSE Report("CONF", world.conf)
             S == Report("TIER1", Corpus(world)) \cup drift
             j == [NoJob EXCEPT !.live = world.conf, !.put = Only("TIER1", S)]
  <2>1. j.put = Only("TIER1", S)
    BY DEF NoJob
  <2>2. OneRun(S)
    <3>1. \A f \in S : f = [tag |-> "TIER1", n |-> Corpus(world)] \/ f = [tag |-> "CONF", n |-> world.conf]
      BY DEF Report
    <3> QED BY <3>1 DEF OneRun
  <2>3. Goto(p, "snapshot") /\ SetJob(p, j)
    BY <1>2 DEF CheckTier1
  <2> HIDE DEF j, S
  <2>4. RunOK(p, "snapshot", j, file')
    BY <2>1, <2>2, OnlyRun
  <2> QED BY <1>1, <2>3, <2>4, RunStep
<1>3. CASE StartDivert(p)
  <2> DEFINE j == [NoJob EXCEPT !.line = used.jobs + 1]
  <2>1. j.put = Blank
    BY DEF NoJob
  <2>2. Goto(p, "wait") /\ SetJob(p, j) /\ p \in Diverters
    BY <1>3 DEF StartDivert
  <2> HIDE DEF j
  <2>3. RunOK(p, "wait", j, file')
    BY <2>1, <2>2, ScaffoldType DEF RunOK
  <2> QED BY <1>1, <2>2, <2>3, RunStep
<1>4. CASE StartProbe(p)
  <2> DEFINE j == [NoJob EXCEPT !.put = Only("PROC", Report("PROC", world.proc))]
  <2>1. j.put = Only("PROC", Report("PROC", world.proc))
    BY DEF NoJob
  <2>2. Goto(p, "wait") /\ SetJob(p, j)
    BY <1>4 DEF StartProbe
  <2> HIDE DEF j
  <2>3. RunOK(p, "wait", j, file')
    BY <2>1, OneReport, OnlyRun
  <2> QED BY <1>1, <2>2, <2>3, RunStep
<1> QED BY <1>2, <1>3, <1>4 DEF Start

LEMMA RunJob ==
  ASSUME IndInv, NEW p \in Procs PROVE IsJob(job[p]) /\ (UNCHANGED job => SetJob(p, job[p]))
BY DEF IndInv, TypeOK, SetJob

LEMMA RunCheck == ASSUME IndInv, RunInv, NEW p \in Procs, SaveSnapshot(p) \/ CheckXref(p) PROVE RunInv'
<1>1. tmpf' = tmpf /\ file' = file /\ RunOK(p, pc[p], job[p], file)
  BY DEF SaveSnapshot, CheckXref, audit, RunInv
<1>2. CASE SaveSnapshot(p)
  <2>1. RunOK(p, "xref", job[p], file')
    BY <1>1, <1>2 DEF RunOK, SaveSnapshot
  <2> QED BY <1>1, <1>2, <2>1, RunJob, RunStep DEF SaveSnapshot
<1>3. CASE CheckXref(p)
  <2>1. PICK x \in XrefResult : SetJob(p, [job[p] EXCEPT !.put = With(job[p].put, x)])
    BY <1>3 DEF CheckXref
  <2> DEFINE j == [job[p] EXCEPT !.put = With(job[p].put, x)]
  <2>2. j.put = With(job[p].put, x)
    BY RunJob, Fields
  <2>3. Goto(p, "wait") /\ SetJob(p, j) /\ pc[p] = "xref"
    BY <1>3, <2>1 DEF CheckXref
  <2> HIDE DEF j
  <2>4. (DOMAIN x = {} \/ DOMAIN x = {"XREF"}) /\ \A t \in DOMAIN x : OneRun(x[t])
    <3>1. CASE x = Blank
      BY <3>1, ScaffoldType
    <3>2. CASE x = Only("XREF", Report("XREF", Corpus(world)))
      <4>1. DOMAIN x = {"XREF"} /\ x["XREF"] = Report("XREF", Corpus(world))
        BY <3>2, OnlyFacts
      <4> QED BY <4>1, OneReport
    <3> QED BY <3>1, <3>2 DEF XrefResult
  <2>5. DOMAIN j.put = {"TIER1"} \cup DOMAIN x /\ \A t \in DOMAIN j.put : OneRun(j.put[t])
    BY <1>1, <2>2, <2>3, <2>4 DEF With, RunOK
  <2>6. DOMAIN j.put \in Owned
    BY <2>4, <2>5 DEF Owned
  <2>7. RunOK(p, "wait", j, file')
    BY <2>5, <2>6 DEF RunOK
  <2> QED BY <1>1, <2>3, <2>7, RunStep
<1> QED BY <1>2, <1>3

\* a section of the parsed file is the file's
LEMMA ParseSections ==
  ASSUME NEW c, c = Absent \/ IsContents(c), NEW t PROVE Section(Parse(c), t) = Section(c, t)
<1>1. Section(Fresh, t) = {}
  BY ScaffoldType DEF Section, Fresh
<1>2. CASE c = Absent
  BY <1>1, <1>2 DEF Parse, Section
<1>3. CASE c # Absent
  <2>1. Section(Parse(c), t) = IF t \in DOMAIN c THEN c[t] ELSE Section(Fresh, t)
    BY <1>3, ScaffoldType, WithSection DEF Parse
  <2> QED BY <1>1, <1>3, <2>1 DEF Section
<1> QED BY <1>2, <1>3

LEMMA RunLock ==
  ASSUME IndInv, RunInv, Sound, NEW p \in Procs,
         Acquire(p) \/ LockTimeout(p) \/ ReadQueue(p) \/ ReplaceRefused(p) \/ Kill(p)
  PROVE  RunInv'
<1>1. tmpf' = tmpf /\ file' = file /\ RunOK(p, pc[p], job[p], file) /\ NoJob.put = Blank
  BY IdleJob DEF Acquire, LockTimeout, ReadQueue, ReplaceRefused, Kill, audit, RunInv
<1>2. CASE Acquire(p)
  <2>1. CASE pc[p] = "wait"
    <3>1. RunOK(p, "read", job[p], file')
      BY <1>1, <2>1 DEF RunOK
    <3> QED BY <1>1, <1>2, <2>1, <3>1, RunJob, RunStep DEF Acquire
  <2>2. CASE pc[p] = "waitsh"
    <3>1. RunOK(p, "init", job[p], file')
      BY <1>1, <2>2 DEF RunOK
    <3> QED BY <1>1, <1>2, <2>2, <3>1, RunJob, RunStep DEF Acquire
  <2> QED BY <1>2, <2>1, <2>2 DEF Acquire
<1>3. CASE LockTimeout(p)
  <2>1. CASE pc[p] = "wait"
    BY <1>1, <1>3, <2>1, IdleRun, RunStep DEF LockTimeout, After
  <2>2. CASE pc[p] = "waitsh"
    <3>1. RunOK(p, "advance", job[p], file')
      BY <1>1 DEF RunOK
    <3> QED BY <1>1, <1>3, <2>2, <3>1, RunJob, RunStep DEF LockTimeout
  <2> QED BY <1>3, <2>1, <2>2 DEF LockTimeout
<1>4. CASE ReadQueue(p)
  <2> DEFINE j == [job[p] EXCEPT !.copy = Parse(file)]
  <2>1. SetJob(p, j) /\ Goto(p, "replace") /\ pc[p] = "read"
    BY <1>4 DEF ReadQueue, Fails, Sound
  <2>2. j.copy = Parse(file) /\ j.put = job[p].put
    BY RunJob, Fields
  <2> HIDE DEF j
  <2>3. \A t \in Tags \ {PW} : Section(j.copy, t) = Section(file, t)
    BY <2>2, ParseSections DEF IndInv, TypeOK
  <2>4. RunOK(p, "replace", j, file')
    BY <1>1, <2>1, <2>2, <2>3 DEF RunOK
  <2> QED BY <1>1, <2>1, <2>4, RunStep
<1>5. CASE ReplaceRefused(p)
  BY <1>1, <1>5, IdleRun, RunStep DEF ReplaceRefused, Leave, After
<1>6. CASE Kill(p)
  BY <1>1, <1>6, IdleRun, RunStep DEF Kill, Leave
<1> QED BY <1>2, <1>3, <1>4, <1>5, <1>6

LEMMA RunAudit ==
  ASSUME IndInv, RunInv, NEW p \in Procs,
         AuditGate(p) \/ AgentReads(p) \/ AgentEnds(p) \/ Collect(p) \/ Advance(p)
  PROVE  RunInv'
<1>1. file' = file /\ RunOK(p, pc[p], job[p], file) /\ NoJob.put = Blank /\ IsJob(job[p]) /\ IsJob(NoJob)
  BY IdleJob, RunJob DEF AuditGate, AgentReads, AgentEnds, Collect, Advance, RunInv
<1>2. ASSUME NEW l \in {"idle", "agent", "writing", "collect"}, NEW j, j.put = job[p].put
      PROVE  RunOK(p, l, j, file')
  BY <1>1, <1>2 DEF RunOK
<1>3. ASSUME NEW l \in {"idle", "agent", "writing", "collect"}, NEW j, j.put = Blank
      PROVE  RunOK(p, l, j, file')
  BY <1>3, ScaffoldType DEF RunOK
<1>4. CASE AuditGate(p)
  <2>1. tmpf' = tmpf \/ tmpf' = Absent
    BY <1>4 DEF AuditGate
  <2>2. [NoJob EXCEPT !.manifest = world.memo].put = Blank
    BY <1>1, Fields
  <2>3. \E l \in {"idle", "agent"} : Goto(p, l)
    BY <1>4 DEF AuditGate
  <2>4. SetJob(p, job[p]) \/ SetJob(p, [NoJob EXCEPT !.manifest = world.memo])
    BY <1>4, RunJob DEF AuditGate
  <2> QED BY <1>1, <1>2, <1>3, <2>1, <2>2, <2>3, <2>4, RunStep
<1>5. CASE AgentReads(p)
  <2>1. [job[p] EXCEPT !.read = Read(world)].put = job[p].put
    BY <1>1, Fields
  <2> QED BY <1>1, <1>2, <1>5, <2>1, RunStep DEF AgentReads, audit
<1>6. CASE AgentEnds(p)
  <2>1. [job[p] EXCEPT !.wrote = TRUE].put = job[p].put
    BY <1>1, Fields
  <2>2. SetJob(p, job[p]) \/ SetJob(p, [job[p] EXCEPT !.wrote = TRUE])
    BY <1>6, RunJob DEF AgentEnds
  <2>3. tmpf' = tmpf \/ OneRun(tmpf')
    BY <1>6, OneReport DEF AgentEnds
  <2>4. Goto(p, "collect")
    BY <1>6 DEF AgentEnds
  <2> QED BY <1>1, <1>2, <2>1, <2>2, <2>3, <2>4, RunStep
<1>7. CASE Collect(p)
  <2>1. tmpf' = tmpf
    BY <1>7 DEF Collect, audit
  <2>2. CASE tmpf = Absent
    BY <1>1, <1>3, <1>7, <2>1, <2>2, RunStep DEF Collect
  <2>3. CASE tmpf # Absent
    <3> DEFINE j == [job[p] EXCEPT !.put = Only("AUDIT", tmpf)]
    <3>1. j.put = Only("AUDIT", tmpf)
      BY <1>1, Fields
    <3>2. Goto(p, "waitsh") /\ SetJob(p, j)
      BY <1>7, <2>3 DEF Collect
    <3> HIDE DEF j
    <3>3. RunOK(p, "waitsh", j, file')
      BY <2>3, <3>1, OnlyRun DEF RunInv
    <3> QED BY <1>1, <2>1, <3>2, <3>3, RunStep
  <2> QED BY <2>2, <2>3
<1>8. CASE Advance(p)
  <2>1. tmpf' = Absent /\ Goto(p, "idle") /\ SetJob(p, NoJob)
    BY <1>8 DEF Advance
  <2> QED BY <1>1, <1>3, <2>1, RunStep
<1> QED BY <1>4, <1>5, <1>6, <1>7, <1>8

\* findings_init gives the file an AUDIT section, and changes none
LEMMA InitKeeps ==
  ASSUME IndInv, NEW p \in Procs, InitSection(p)
  PROVE  "AUDIT" \in DOMAIN file' /\ \A t \in Tags : Section(file', t) = Section(file, t)
<1>1. IsContents(Only("AUDIT", {}))
  BY OnlyType DEF Tags, Seeded
<1>2. CASE file = Absent
  <2>1. file' = Fresh /\ file' # Absent
    BY <1>2, ScaffoldType, QueueAssumption DEF InitSection
  <2> QED BY <1>2, <2>1, ScaffoldType DEF Section, Fresh, Seeded
<1>3. CASE file # Absent /\ "AUDIT" \in DOMAIN file
  BY <1>3 DEF InitSection
<1>4. CASE file # Absent /\ "AUDIT" \notin DOMAIN file
  <2>1. file' = With(file, Only("AUDIT", {})) /\ IsContents(file)
    BY <1>4 DEF InitSection, IndInv, TypeOK
  <2>2. "AUDIT" \in DOMAIN file'
    BY <2>1, OnlyFacts DEF With
  <2>3. DOMAIN Only("AUDIT", {}) = {"AUDIT"} /\ Only("AUDIT", {})["AUDIT"] = {}
    BY OnlyFacts
  <2>5. \A t : Section(file', t) = IF t = "AUDIT" THEN {} ELSE Section(file, t)
    BY <1>1, <1>4, <2>1, <2>3, WithSection
  <2>4. Section(file, "AUDIT") = {}
    BY <1>4 DEF Section
  <2> QED BY <2>2, <2>4, <2>5
<1> QED BY <1>2, <1>3, <1>4

LEMMA RunShell ==
  ASSUME IndInv, SafeInv, RunInv, Sound, NEW p \in Procs,
         InitSection(p) \/ Awk(p) \/ Mv(p) \/ MvUnlinks(p) \/ MvCopies(p)
  PROVE  RunInv'
<1>1. /\ tmpf' = tmpf /\ RunOK(p, pc[p], job[p], file) /\ IsJob(job[p])
      /\ (pc[p] \in Held => lock = p)
  BY RunJob DEF InitSection, Awk, Mv, MvUnlinks, MvCopies, audit, RunInv, IndInv, LockInv
<1>2. ~MvUnlinks(p) /\ ~MvCopies(p)
  BY DEF MvUnlinks, MvCopies, Fails, Sound, SafeInv, CopiesCurrent
<1>3. CASE InitSection(p)
  <2>1. pc[p] = "init" /\ Goto(p, "awk") /\ SetJob(p, job[p]) /\ lock = p
    BY <1>1, <1>3, RunJob DEF InitSection, Held
  <2>2. RunOK(p, "awk", job[p], file')
    BY <1>1, <1>3, <2>1, InitKeeps DEF RunOK
  <2> QED BY <1>1, <2>1, <2>2, RunStep
<1>4. CASE Awk(p)
  <2> DEFINE put == job[p].put
             out == [t \in DOMAIN file \cap AwkKeeps |-> IF t \in DOMAIN put THEN put[t] ELSE file[t]]
             j == [job[p] EXCEPT !.copy = out]
  <2>1. SetJob(p, j) /\ Goto(p, "mv") /\ file' = file /\ pc[p] = "awk"
    BY <1>4 DEF Awk, Fails, Sound
  <2>2. IsContents(file) /\ file # Absent /\ "AUDIT" \in DOMAIN file /\ DOMAIN put = {"AUDIT"}
    BY <1>1, <2>1 DEF IndInv, TypeOK, CopyInv, RunOK
  <2>3. out # Absent
    <3>1. DOMAIN file \cap AwkKeeps \in SUBSET Tags
      BY DEF AwkKeeps
    <3>2. \A t \in DOMAIN file : (IF t \in DOMAIN put THEN put[t] ELSE file[t]) \subseteq Finding
      BY <1>1, <2>2, ContentsType DEF IsJob
    <3>3. IsContents(out)
      BY <3>1, <3>2 DEF IsContents
    <3> QED BY <3>3, QueueAssumption
  <2>4. \A t \in Tags : Section(out, t) = IF t = "AUDIT" THEN put[t] ELSE Section(file, t)
    BY <2>2, <2>3 DEF Section, AwkKeeps
  <2>5. j.copy = out /\ j.put = put
    BY <1>1, Fields
  <2> HIDE DEF j, out
  <2>6. RunOK(p, "mv", j, file')
    BY <1>1, <2>1, <2>2, <2>4, <2>5 DEF RunOK
  <2> QED BY <1>1, <2>1, <2>6, RunStep
<1>5. CASE Mv(p)
  <2>1. pc[p] = "mv" /\ Goto(p, "advance") /\ SetJob(p, job[p]) /\ lock = p
    BY <1>1, <1>5, RunJob DEF Mv, Leave, Held
  <2>2. RunOK(p, "advance", job[p], file')
    BY <1>1, <2>1 DEF RunOK
  <2> QED BY <1>1, <2>1, <2>2, RunStep
<1> QED BY <1>2, <1>3, <1>4, <1>5

LEMMA RunReplace == ASSUME IndInv, RunInv, NEW p \in Procs, ReplaceQueue(p) PROVE RunInv'
<1>1. tmpf' = tmpf /\ lock = p /\ Goto(p, After(p)) /\ SetJob(p, NoJob) /\ NoJob.put = Blank
  BY IdleJob DEF ReplaceQueue, Leave, audit, IndInv, LockInv, Held
<1>2. RunOK(p, After(p), NoJob, file')
  BY <1>1, IdleRun DEF After
<1> QED BY <1>1, <1>2, RunStep

LEMMA RunOutside ==
  ASSUME IndInv, RunInv, Sound,
         \/ \E c \in Parts : Move(c)
         \/ OpenEditor \/ CloseEditor
         \/ \E S \in SUBSET Section(draft, PW) : SaveEditor(S)
  PROVE  RunInv'
<1>1. pc' = pc /\ job' = job /\ tmpf' = tmpf
  BY DEF Move, OpenEditor, CloseEditor, SaveEditor, audit
<1>2. /\ \A t \in Tags \ {PW} : Section(file', t) = Section(file, t)
      /\ file' = file \/ DOMAIN file \subseteq DOMAIN file'
  BY SaveFacts DEF Move, OpenEditor, CloseEditor
<1>3. ASSUME NEW p \in Procs PROVE RunOK(p, pc'[p], job'[p], file')
  <2>1. RunOK(p, pc[p], job[p], file)
    BY DEF RunInv
  <2> QED BY <1>1, <1>2, <2>1 DEF RunOK
<1> QED BY <1>1, <1>3 DEF RunInv

LEMMA InitRun == Init => RunInv
<1> SUFFICES ASSUME Init PROVE RunInv
  OBVIOUS
<1>1. \A p \in Procs : pc[p] = "idle" /\ job[p] = NoJob
  BY DEF Init
<1>2. tmpf = Absent
  BY DEF Init
<1> QED BY <1>1, <1>2, IdleJob, IdleRun DEF RunInv

LEMMA NextRun == ASSUME IndInv, SafeInv, RunInv, Sound, [Next]_vars PROVE RunInv'
<1>1. CASE UNCHANGED vars
  BY <1>1 DEF vars, RunInv, RunOK
<1>2. ASSUME NEW p \in Procs, Start(p) \/ Step(p) \/ Kill(p) PROVE RunInv'
  BY <1>2, RunStart, RunCheck, RunLock, RunAudit, RunShell, RunReplace DEF Step
<1>3. CASE \/ \E c \in Parts : Move(c)
           \/ OpenEditor \/ CloseEditor
           \/ \E S \in SUBSET Section(draft, PW) : SaveEditor(S)
  BY <1>3, RunOutside
<1> QED BY <1>1, <1>2, <1>3 DEF Next

\* how a step's effect on the file reads as a step of AbstractQueue
Unchanged(P) == \A t \in Tags \ P : Section(file', t) = Section(file, t)
Grows(new) ==
  /\ Section(file, PW) \cup new \subseteq Section(file', PW)
  /\ Section(file', PW) \subseteq Section(file, PW) \cup new \cup overtaken
Settles == overtaken' = overtaken \cap Section(file', PW)
Resolves(P) ==
  /\ P \in Owned /\ Unchanged(P \cup {PW}) /\ Grows({}) /\ Settles
  /\ \A t \in P : OneRun(Section(file', t))
Appends ==
  /\ Unchanged({PW}) /\ Settles
  /\ \E x \in Section(file', PW) \ Section(file, PW) : Grows({x})
GivesUp == Unchanged({}) /\ Settles
Adjudicates ==
  LET out == Section(file, PW) \ Section(file', PW) IN
  /\ Unchanged({PW}) /\ Section(file', PW) \subseteq Section(file, PW)
  /\ overtaken' = overtaken \cup out \/ overtaken' = overtaken \ out
Nothing == Unchanged({}) /\ overtaken' = overtaken
Promised == Nothing \/ (\E P \in Owned : Resolves(P)) \/ Appends \/ GivesUp \/ Adjudicates

LEMMA OwnedTags == \A P \in Owned : P \subseteq Tags /\ PW \notin P
BY DEF Owned, Tags, Seeded, PW

LEMMA AsPromised ==
  ASSUME Promised
  PROVE  AQ!AbsNext \/ UNCHANGED <<[t \in Tags |-> Section(file, t)], overtaken>>
<1> DEFINE s == [t \in Tags |-> Section(file, t)]
<1>1. \A t \in Tags : s[t] = Section(file, t) /\ s'[t] = Section(file', t)
  OBVIOUS
<1>2. PW \in Tags
  BY DEF Tags
<1>3. s[PW] = Section(file, PW) /\ s'[PW] = Section(file', PW)
  BY <1>1, <1>2
<1>4. ASSUME Unchanged({}) PROVE UNCHANGED s
  <2>1. [t \in Tags |-> Section(file', t)] = [t \in Tags |-> Section(file, t)]
    BY <1>4 DEF Unchanged
  <2> QED BY <2>1
<1>5. \A S : Unchanged(S) => AQ!Others(S)
  BY <1>1 DEF Unchanged, AQ!Others
<1>6. Settles => AQ!Settled
  BY <1>3 DEF Settles, AQ!Settled
<1>7. \A S : Grows(S) => AQ!Proposals(S)
  BY <1>3 DEF Grows, AQ!Proposals
<1>8. ASSUME NEW P \in Owned, Resolves(P) PROVE AQ!Resolve(P)
  <2>1. \A t \in P : AQ!OneRun(s'[t])
    BY <1>1, <1>8, OwnedTags DEF Resolves, OneRun, AQ!OneRun
  <2> QED BY <1>5, <1>6, <1>7, <1>8, <2>1 DEF Resolves, AQ!Resolve
<1>9. Appends => AQ!Append
  BY <1>3, <1>5, <1>6, <1>7 DEF Appends, AQ!Append
<1>10. GivesUp => AQ!Fail
  BY <1>4, <1>6 DEF GivesUp, AQ!Fail
<1>11. Adjudicates => AQ!Adjudicate
  BY <1>3, <1>5 DEF Adjudicates, AQ!Adjudicate
<1>12. Nothing => UNCHANGED <<s, overtaken>>
  BY <1>4 DEF Nothing
<1> QED BY <1>8, <1>9, <1>10, <1>11, <1>12 DEF Promised, AQ!AbsNext

\* a python writer
LEMMA ReplacePromised ==
  ASSUME IndInv, SafeInv, RunInv, NEW p \in Procs, ReplaceQueue(p) PROVE Promised
<1>1. /\ IsJob(job[p]) /\ IsContents(job[p].copy) /\ RunOK(p, "replace", job[p], file)
      /\ file' = With(job[p].copy, Update(p)) /\ pc[p] = "replace"
  BY DEF ReplaceQueue, IndInv, TypeOK, CopyInv, IsJob, RunInv
<1>2. \A t \in Tags \ {PW} : Section(job[p].copy, t) = Section(file, t)
  BY <1>1 DEF RunOK
<1>5. /\ Section(file, PW) \subseteq Section(job[p].copy, PW)
      /\ Section(job[p].copy, PW) \subseteq Section(file, PW) \cup overtaken
  BY <1>1 DEF SafeInv, CopiesCurrent
<1>6. Settles
  BY <1>1 DEF ReplaceQueue, Leave, Settles, IndInv, LockInv, Held
<1>3. CASE p \notin Diverters
  <2>1. Update(p) = job[p].put /\ IsContents(job[p].put)
    BY <1>1, <1>3 DEF Update, IsJob
  <2>2. \A t : Section(file', t) = IF t \in DOMAIN job[p].put THEN job[p].put[t]
                                   ELSE Section(job[p].copy, t)
    BY <1>1, <2>1, WithSection
  <2>3. DOMAIN job[p].put \in Owned /\ \A t \in DOMAIN job[p].put : OneRun(job[p].put[t])
    BY <1>1, <1>3 DEF RunOK
  <2>5. PW \notin DOMAIN job[p].put
    BY <2>3, OwnedTags
  <2>6. Grows({})
    BY <1>5, <2>2, <2>5 DEF Grows
  <2>4. Resolves(DOMAIN job[p].put)
    BY <1>2, <1>6, <2>2, <2>3, <2>6 DEF Resolves, Unchanged
  <2> QED BY <2>3, <2>4 DEF Promised
<1>4. CASE p \in Diverters
  <2> DEFINE S == Section(job[p].copy, PW) \cup Report(PW, job[p].line)
  <2>1. Update(p) = Only(PW, S) /\ PW \in Tags
    BY <1>4 DEF Update, Tags
  <2>2. S \in SUBSET Finding
    <3>1. Report(PW, job[p].line) \in SUBSET Finding
      BY <1>1, ReportType DEF IsJob
    <3>2. Section(job[p].copy, PW) \in SUBSET Finding
      BY <1>1, ContentsType DEF Section
    <3> QED BY <3>1, <3>2
  <2>3. IsContents(Update(p)) /\ DOMAIN Update(p) = {PW} /\ Update(p)[PW] = S
    BY <2>1, <2>2, OnlyType
  <2>4. \A t : Section(file', t) = IF t = PW THEN S ELSE Section(job[p].copy, t)
    BY <1>1, <2>3, WithSection
  <2>5. Unchanged({PW}) /\ S = Section(job[p].copy, PW) \cup {Line(p)}
    BY <1>2, <2>1, <2>4 DEF Unchanged, Report, Line
  <2>6. Line(p) \notin Section(file, PW)
    BY <1>1, <1>4 DEF Pending, SafeInv, PendingFresh
  <2>7. Line(p) \in Section(file', PW) /\ Grows({Line(p)})
    BY <1>5, <2>4, <2>5 DEF Grows
  <2> QED BY <1>6, <2>5, <2>6, <2>7 DEF Appends, Promised
<1> QED BY <1>3, <1>4

\* findings_set_section
LEMMA ShellPromised ==
  ASSUME IndInv, SafeInv, RunInv, Sound, NEW p \in Procs,
         InitSection(p) \/ Awk(p) \/ Mv(p) \/ MvUnlinks(p) \/ MvCopies(p)
  PROVE  Promised
<1>1. ~MvUnlinks(p) /\ ~MvCopies(p)
  BY DEF MvUnlinks, MvCopies, Fails, Sound, SafeInv, CopiesCurrent
<1>2. CASE InitSection(p)
  BY <1>2, InitKeeps DEF InitSection, human, Unchanged, Nothing, Promised
<1>3. CASE Awk(p)
  BY <1>3 DEF Awk, human, Unchanged, Nothing, Promised
<1>4. CASE Mv(p)
  <2>1. RunOK(p, "mv", job[p], file) /\ file' = job[p].copy
    BY <1>4 DEF Mv, RunInv
  <2>2. DOMAIN job[p].put = {"AUDIT"} /\ OneRun(job[p].put["AUDIT"])
    BY <2>1 DEF RunOK
  <2>3. \A t \in Tags \ {PW} :
          Section(file', t) = IF t = "AUDIT" THEN job[p].put[t] ELSE Section(file, t)
    BY <2>1 DEF RunOK
  <2>6. Grows({}) /\ Settles
    BY <1>4, <2>1 DEF Mv, Leave, Grows, Settles, SafeInv, CopiesCurrent, IndInv, LockInv, Held
  <2>4. "AUDIT" \in Tags \ {PW} /\ {"AUDIT"} \in Owned
    BY Strings DEF Tags, Seeded, Owned
  <2>5. Resolves({"AUDIT"})
    BY <2>2, <2>3, <2>4, <2>6 DEF Resolves, Unchanged
  <2> QED BY <2>4, <2>5 DEF Promised
<1> QED BY <1>1, <1>2, <1>3, <1>4

\* a person's editor
LEMMA SavePromised == ASSUME IndInv, Sound, NEW S, SaveEditor(S) PROVE Promised
<1>1. overtaken' = overtaken \cup S \/ overtaken' = overtaken \ S
  BY DEF SaveEditor
<1>2. Section(file, PW) \ Section(file', PW) = S
  BY SaveFacts
<1> QED BY <1>1, <1>2, SaveFacts DEF Adjudicates, Unchanged, Promised

\* a step that writes nothing
LEMMA RestPromised ==
  ASSUME IndInv, file' = file, overtaken' = overtaken \/ Settles PROVE Promised
BY DEF Unchanged, Nothing, GivesUp, Promised

LEMMA NextPromised == ASSUME IndInv, SafeInv, RunInv, Sound, [Next]_vars PROVE Promised
<1>1. ASSUME NEW p \in Procs, Start(p) \/ Step(p) \/ Kill(p) PROVE Promised
  <2>1. CASE \/ ReplaceQueue(p) \/ InitSection(p) \/ Awk(p)
             \/ Mv(p) \/ MvUnlinks(p) \/ MvCopies(p)
    BY <2>1, ReplacePromised, ShellPromised
  <2>2. CASE ReplaceRefused(p) \/ Kill(p)
    <3>1. file' = file /\ (overtaken' = overtaken \/ Settles)
      BY <2>2 DEF ReplaceRefused, Kill, Leave, Settles
    <3> QED BY <3>1, RestPromised
  <2>3. CASE \/ Start(p) \/ SaveSnapshot(p) \/ CheckXref(p) \/ Acquire(p) \/ LockTimeout(p)
             \/ ReadQueue(p) \/ AuditGate(p) \/ AgentReads(p) \/ AgentEnds(p) \/ Collect(p)
             \/ Advance(p)
    <3>1. file' = file /\ overtaken' = overtaken
      BY <2>3 DEF Start, CheckTier1, StartDivert, StartProbe, SaveSnapshot, CheckXref, Acquire,
         LockTimeout, ReadQueue, AuditGate, AgentReads, AgentEnds, Collect, Advance, human
    <3> QED BY <3>1, RestPromised
  <2> QED BY <1>1, <2>1, <2>2, <2>3 DEF Step
<1>2. ASSUME \/ \E c \in Parts : Move(c)
             \/ OpenEditor \/ CloseEditor \/ UNCHANGED vars
      PROVE  Promised
  <2>1. file' = file /\ overtaken' = overtaken
    BY <1>2 DEF Move, OpenEditor, CloseEditor, human, vars
  <2> QED BY <2>1, RestPromised
<1> QED BY <1>1, <1>2, SavePromised DEF Next

\* Producers in python and bash, in any interleaving and with kills, lock timeouts and
\* refused writes, change the queue as AbstractQueue does: a producer's own sections,
\* each from one run of it, at once; one new proposal; or proposals a person took out,
\* which only the producer then at work may bring back (checks.py:339, authgate.py:241,
\* findings.sh:58): provided Sound.
THEOREM QueueRefines == ASSUME Sound PROVE Spec => QueueIsAtomic
<1> DEFINE s == [t \in Tags |-> Section(file, t)]
<1> DEFINE both == <<s, overtaken>>
<1>1. Init => AQ!AbsInit
  BY DEF Init, Section, AQ!AbsInit
<1>2. IndInv /\ SafeInv /\ RunInv /\ [Next]_vars => (IndInv /\ SafeInv /\ RunInv)'
  BY NextInd, NextSafe, NextRun
<1>3. IndInv /\ SafeInv /\ RunInv /\ [Next]_vars => [AQ!AbsNext]_both
  BY NextPromised, AsPromised
<1>4. Init => IndInv /\ SafeInv /\ RunInv
  BY InitInd, InitSafe, InitRun
<1> QED BY <1>1, <1>2, <1>3, <1>4, PTL DEF Spec, QueueIsAtomic, AQ!AbsSpec

-----------------------------------------------------------------------------
(* An audit takes only its own agent's findings file *)

\* no two audits at once; the findings file has one name, and audits that overlap share it
Alone == \A a, b \in Auditors : a = b

AuditLabels == {"gate", "agent", "writing", "collect", "waitsh", "init", "awk", "mv",
                "copying", "advance"}

\* p at label l with locals j, when the findings file is f
OwnOK(p, l, j, f) ==
  /\ l \in AuditLabels => p \in Auditors
  /\ l \in {"agent", "writing"} => f = Absent
  /\ l = "collect" /\ f # Absent => j.wrote

OwnInv == \A p \in Procs : OwnOK(p, pc[p], job[p], tmpf)

\* only an audit disturbs the findings file, and there is one audit
LEMMA OwnStep ==
  ASSUME IndInv, OwnInv, Alone, NEW p \in Procs, NEW l, NEW j, Goto(p, l), SetJob(p, j),
         OwnOK(p, l, j, tmpf'), tmpf' \in {tmpf, Absent} \/ p \in Auditors
  PROVE  OwnInv'
<1>1. \A q \in Procs : pc'[q] = (IF q = p THEN l ELSE pc[q])
                       /\ job'[q] = (IF q = p THEN j ELSE job[q])
  BY DEF IndInv, TypeOK, Goto, SetJob
<1>2. ASSUME NEW q \in Procs PROVE OwnOK(q, pc'[q], job'[q], tmpf')
  <2>1. CASE q = p
    BY <1>1, <2>1
  <2>2. CASE q # p
    <3>1. OwnOK(q, pc[q], job[q], tmpf) /\ pc'[q] = pc[q] /\ job'[q] = job[q]
      BY <1>1, <2>2 DEF OwnInv
    <3>2. CASE tmpf' \in {tmpf, Absent}
      BY <3>1, <3>2 DEF OwnOK
    <3>3. CASE p \in Auditors
      <4>1. pc[q] \notin AuditLabels
        BY <2>2, <3>1, <3>3 DEF OwnOK, Alone
      <4> QED BY <3>1, <4>1 DEF OwnOK, AuditLabels
    <3> QED BY <3>2, <3>3
  <2> QED BY <2>1, <2>2
<1> QED BY <1>2 DEF OwnInv

\* labels that ask nothing of the findings file
LEMMA OwnPlain ==
  ASSUME NEW p, NEW l, NEW j, NEW f, l \notin {"agent", "writing", "collect"},
         l \in AuditLabels => p \in Auditors
  PROVE  OwnOK(p, l, j, f)
BY DEF OwnOK

LEMMA OwnPython ==
  ASSUME IndInv, OwnInv, Alone, NEW p \in Procs,
         \/ Start(p) \/ SaveSnapshot(p) \/ CheckXref(p) \/ ReadQueue(p)
         \/ ReplaceQueue(p) \/ ReplaceRefused(p) \/ Kill(p)
  PROVE  OwnInv'
<1>1. tmpf' = tmpf
  BY DEF Start, CheckTier1, StartDivert, StartProbe, SaveSnapshot, CheckXref, ReadQueue,
     ReplaceQueue, ReplaceRefused, Kill, audit
<1>2. \E l \in {"snapshot", "xref", "wait", "replace", "idle", After(p)} : Goto(p, l)
  BY DEF Start, CheckTier1, StartDivert, StartProbe, SaveSnapshot, CheckXref, ReadQueue,
     ReplaceQueue, ReplaceRefused, Kill, Leave
<1>3. \E j : SetJob(p, j)
  BY RunJob DEF Start, CheckTier1, StartDivert, StartProbe, SaveSnapshot, CheckXref, ReadQueue,
     ReplaceQueue, ReplaceRefused, Kill
<1>4. ASSUME NEW l \in {"snapshot", "xref", "wait", "replace", "idle", After(p)}, NEW j
      PROVE  OwnOK(p, l, j, tmpf')
  <2>1. l \notin {"agent", "writing", "collect"} /\ (l \in AuditLabels => p \in Auditors)
    BY DEF After, AuditLabels
  <2> QED BY <2>1, OwnPlain
<1> QED BY <1>1, <1>2, <1>3, <1>4, OwnStep

LEMMA OwnLock ==
  ASSUME IndInv, OwnInv, Alone, NEW p \in Procs, Acquire(p) \/ LockTimeout(p)
  PROVE  OwnInv'
<1>1. tmpf' = tmpf /\ OwnOK(p, pc[p], job[p], tmpf)
  BY DEF Acquire, LockTimeout, audit, OwnInv
<1>2. \E l \in {"read", "init", "advance", After(p)} :
        Goto(p, l) /\ (l \in {"init", "advance"} => pc[p] = "waitsh")
  BY DEF Acquire, LockTimeout, After
<1>3. \E j : SetJob(p, j)
  BY RunJob DEF Acquire, LockTimeout
<1>4. ASSUME NEW l \in {"read", "init", "advance", After(p)}, NEW j,
             l \in {"init", "advance"} => pc[p] = "waitsh"
      PROVE  OwnOK(p, l, j, tmpf')
  <2>1. pc[p] = "waitsh" => p \in Auditors
    BY <1>1 DEF OwnOK, AuditLabels
  <2>2. l \notin {"agent", "writing", "collect"} /\ (l \in AuditLabels => p \in Auditors)
    BY <1>4, <2>1 DEF After, AuditLabels
  <2> QED BY <2>2, OwnPlain
<1> QED BY <1>1, <1>2, <1>3, <1>4, OwnStep

LEMMA OwnShell ==
  ASSUME IndInv, OwnInv, Alone, NEW p \in Procs,
         InitSection(p) \/ Awk(p) \/ Mv(p) \/ MvUnlinks(p) \/ MvCopies(p) \/ Advance(p)
  PROVE  OwnInv'
<1>1. tmpf' \in {tmpf, Absent}
  BY DEF InitSection, Awk, Mv, MvUnlinks, MvCopies, Advance, audit
<1>2. p \in Auditors
  <2>1. pc[p] \in AuditLabels
    BY DEF InitSection, Awk, Mv, MvUnlinks, MvCopies, Advance, AuditLabels
  <2> QED BY <2>1 DEF OwnInv, OwnOK
<1>3. \E l \in {"awk", "mv", "advance", "copying", "idle"} : Goto(p, l)
  BY DEF InitSection, Awk, Mv, MvUnlinks, MvCopies, Advance, Leave
<1>4. \E j : SetJob(p, j)
  BY RunJob DEF InitSection, Awk, Mv, MvUnlinks, MvCopies, Advance
<1>5. ASSUME NEW l \in {"awk", "mv", "advance", "copying", "idle"}, NEW j
      PROVE  OwnOK(p, l, j, tmpf')
  BY <1>2, OwnPlain
<1> QED BY <1>1, <1>3, <1>4, <1>5, OwnStep

LEMMA OwnAudit ==
  ASSUME IndInv, OwnInv, Alone, NEW p \in Procs,
         AuditGate(p) \/ AgentReads(p) \/ AgentEnds(p) \/ Collect(p)
  PROVE  OwnInv'
<1>1. OwnOK(p, pc[p], job[p], tmpf) /\ IsJob(job[p])
  BY RunJob DEF OwnInv
<1>2. p \in Auditors
  <2>1. pc[p] \in AuditLabels
    BY DEF AuditGate, AgentReads, AgentEnds, Collect, AuditLabels
  <2> QED BY <1>1, <2>1 DEF OwnOK
<1>3. CASE AuditGate(p)
  <2>1. \E l \in {"idle", "agent"} : Goto(p, l) /\ (l = "agent" => tmpf' = Absent)
    BY <1>3 DEF AuditGate
  <2>2. \E j : SetJob(p, j)
    BY <1>3, RunJob DEF AuditGate
  <2>3. ASSUME NEW l \in {"idle", "agent"}, NEW j, l = "agent" => tmpf' = Absent
        PROVE  OwnOK(p, l, j, tmpf')
    BY <1>2, <2>3 DEF OwnOK
  <2> QED BY <1>2, <2>1, <2>2, <2>3, OwnStep
<1>4. CASE AgentReads(p)
  <2>1. Goto(p, "writing") /\ pc[p] = "agent" /\ tmpf' = tmpf
    BY <1>4 DEF AgentReads, audit
  <2>2. PICK j : SetJob(p, j)
    BY <1>4 DEF AgentReads
  <2>3. OwnOK(p, "writing", j, tmpf')
    BY <1>1, <1>2, <2>1 DEF OwnOK
  <2> QED BY <1>2, <2>1, <2>2, <2>3, OwnStep
<1>5. CASE AgentEnds(p)
  <2>1. Goto(p, "collect") /\ pc[p] = "writing"
    BY <1>5 DEF AgentEnds
  <2>2. CASE SetJob(p, [job[p] EXCEPT !.wrote = TRUE])
    <3> DEFINE j == [job[p] EXCEPT !.wrote = TRUE]
    <3>1. j.wrote
      BY <1>1, Fields
    <3>2. SetJob(p, j)
      BY <2>2
    <3> HIDE DEF j
    <3>3. OwnOK(p, "collect", j, tmpf')
      BY <1>2, <3>1 DEF OwnOK
    <3> QED BY <1>2, <2>1, <3>2, <3>3, OwnStep
  <2>3. CASE UNCHANGED <<tmpf, job>>
    <3>1. OwnOK(p, "collect", job[p], tmpf')
      BY <1>1, <1>2, <2>1, <2>3 DEF OwnOK
    <3> QED BY <1>2, <2>1, <2>3, <3>1, RunJob, OwnStep
  <2> QED BY <1>5, <2>2, <2>3 DEF AgentEnds
<1>6. CASE Collect(p)
  <2>1. PICK l \in {"idle", "waitsh"} : Goto(p, l)
    BY <1>6 DEF Collect
  <2>2. PICK j : SetJob(p, j)
    BY <1>6 DEF Collect
  <2>3. OwnOK(p, l, j, tmpf')
    BY <1>2, <2>1, OwnPlain
  <2> QED BY <1>2, <2>1, <2>2, <2>3, OwnStep
<1> QED BY <1>3, <1>4, <1>5, <1>6

LEMMA InitOwn == Init => OwnInv
<1> SUFFICES ASSUME Init PROVE OwnInv
  OBVIOUS
<1>1. \A p \in Procs : pc[p] = "idle"
  BY DEF Init
<1> QED BY <1>1 DEF OwnInv, OwnOK, AuditLabels

LEMMA NextOwn == ASSUME IndInv, OwnInv, Alone, [Next]_vars PROVE OwnInv'
<1>1. ASSUME NEW p \in Procs, Start(p) \/ Step(p) \/ Kill(p) PROVE OwnInv'
  BY <1>1, OwnPython, OwnLock, OwnShell, OwnAudit DEF Step
<1>2. ASSUME UNCHANGED <<pc, job, tmpf>> PROVE OwnInv'
  BY <1>2 DEF OwnInv, OwnOK
<1>3. ASSUME NEW c \in Parts, Move(c) PROVE UNCHANGED <<pc, job, tmpf>>
  BY <1>3 DEF Move, audit
<1>4. OpenEditor \/ CloseEditor => UNCHANGED <<pc, job, tmpf>>
  BY DEF OpenEditor, CloseEditor, audit
<1>5. ASSUME NEW S, SaveEditor(S) PROVE UNCHANGED <<pc, job, tmpf>>
  BY <1>5 DEF SaveEditor, audit
<1>6. UNCHANGED vars => UNCHANGED <<pc, job, tmpf>>
  BY DEF vars
<1> QED BY <1>1, <1>2, <1>3, <1>4, <1>5, <1>6 DEF Next

\* an audit leaves "collect" for the queue in one way: it found a findings file
LEMMA OnlyCollect ==
  ASSUME IndInv, [Next]_vars, NEW p \in Procs, pc[p] = "collect", pc'[p] = "waitsh"
  PROVE  tmpf # Absent
<1>1. ASSUME NEW q \in Procs, Start(q) \/ Step(q) \/ Kill(q), q # p PROVE pc'[p] = pc[p]
  <2>1. PICK l : Goto(q, l)
    BY <1>1 DEF Start, Step, CheckTier1, StartDivert, StartProbe, SaveSnapshot, CheckXref,
       Acquire, LockTimeout, ReadQueue, ReplaceQueue, ReplaceRefused, AuditGate, AgentReads,
       AgentEnds, Collect, InitSection, Awk, Mv, MvUnlinks, MvCopies, Advance, Kill, Leave
  <2> QED BY <1>1, <2>1 DEF Goto, IndInv, TypeOK
<1>2. pc'[p] # pc[p]
  OBVIOUS
<1>3. Start(p) \/ Step(p) \/ Kill(p)
  <2>1. ~UNCHANGED vars
    BY <1>2 DEF vars
  <2>2. ASSUME NEW c \in Parts PROVE ~Move(c)
    BY <1>2 DEF Move
  <2>3. ~OpenEditor /\ ~CloseEditor
    BY <1>2 DEF OpenEditor, CloseEditor
  <2>4. ASSUME NEW S PROVE ~SaveEditor(S)
    BY <1>2 DEF SaveEditor
  <2> QED BY <1>1, <1>2, <2>1, <2>2, <2>3, <2>4 DEF Next
<1>4. Collect(p) \/ Kill(p)
  BY <1>3 DEF Start, Step, Begin, CheckTier1, StartDivert, StartProbe, SaveSnapshot, CheckXref,
     Acquire, LockTimeout, ReadQueue, ReplaceQueue, ReplaceRefused, AuditGate, AgentReads,
     AgentEnds, InitSection, Awk, Mv, MvUnlinks, MvCopies, Advance
<1>5. ~Kill(p)
  BY DEF Kill, Leave, Goto, IndInv, TypeOK
<1>6. tmpf = Absent /\ Collect(p) => pc'[p] = "idle"
  BY DEF Collect, Goto, IndInv, TypeOK
<1> QED BY <1>4, <1>5, <1>6

\* Of audits that do not overlap, none takes the findings file of an earlier one, which
\* may have been killed or timed out, for its own agent's completion: the gate removes
\* what is there before the agent starts (consistency-audit.sh:93).
THEOREM AuditTakesItsOwn == Alone /\ Spec => CompletionIsOwn
<1>1. IndInv /\ OwnInv /\ Alone /\ [Next]_vars => (IndInv /\ OwnInv)'
  BY NextInd, NextOwn
<1>2. Init => IndInv /\ OwnInv
  BY InitInd, InitOwn
<1>3. IndInv /\ OwnInv /\ [Next]_vars
      => [\A p \in Auditors : pc[p] = "collect" /\ pc'[p] = "waitsh" => job[p].wrote]_vars
  <2> SUFFICES ASSUME IndInv, OwnInv, [Next]_vars, NEW p \in Auditors,
                      pc[p] = "collect", pc'[p] = "waitsh"
               PROVE  job[p].wrote
    OBVIOUS
  <2>1. p \in Procs /\ tmpf # Absent
    BY OnlyCollect DEF Procs
  <2> QED BY <2>1 DEF OwnInv, OwnOK
<1>4. Alone /\ [Next]_vars => Alone'
  BY DEF Alone
<1> QED BY <1>1, <1>2, <1>3, <1>4, PTL DEF Spec, CompletionIsOwn
=============================================================================
