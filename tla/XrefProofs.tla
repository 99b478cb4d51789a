----------------------------- MODULE XrefProofs -----------------------------
(* Proofs about Xref, for any number of checks, verbs and HEADs and any times: *)
(* no wave-off is lost, a pair waved off is quiet until the HEAD's content     *)
(* changes, and then it fires.                                                 *)
EXTENDS Xref, TLAPS

Procs == Checkers \cup Wavers
Fields == {"head", "rows", "store", "base", "todo", "at", "epoch", "before", "dirty", "fire", "held",
           "blind"}
IsJob(j) == j = [f \in Fields |-> j[f]]

Shape ==
  /\ pc = [p \in Procs |-> pc[p]] /\ job = [p \in Procs |-> job[p]]
  /\ \A p \in Procs : IsJob(job[p])
  /\ ver \in [Heads -> Nat]

\* the state lock is held exactly from the reading of the rows to the last save
LockInv ==
  /\ \A c \in Checkers : pc[c] \in {"idle", "load", "judge"} /\ lock # c
  /\ \A w \in Wavers : lock = w <=> pc[w] \in {"wave", "stored"}

\* what a verb is asked to wave off are pairs
PairsInv ==
  /\ \A p \in Procs : \A f \in job[p].fire : f[1] \in Near
  /\ \A w \in Wavers : pc[w] \in {"lock", "wave"} => job[w].todo \subseteq Near

\* a row is of a body that the HEAD has had
RowsOK(R) == /\ DOMAIN R \subseteq Near
             /\ \A x \in DOMAIN R : ~R[x].day => R[x].ver \in Nat /\ R[x].ver <= ver[x[2]]
\* the rows R have all of the rows Q, and none of them older
Covers(R, Q) ==
  \A x \in DOMAIN Q : x \in DOMAIN R /\ (~Q[x].day => ~R[x].day /\ R[x].ver >= Q[x].ver)

\* what the holder of the lock is about to save has every row that is saved, unless it could
\* not read them
RowsInv ==
  /\ RowsOK(rows)
  /\ \A w \in Wavers : pc[w] = "wave" =>
       RowsOK(job[w].rows) /\ (job[w].blind \/ Covers(job[w].rows, rows))

IInv == Shape /\ LockInv /\ PairsInv /\ RowsInv

-----------------------------------------------------------------------------

\* p goes on to label l with job j, and every other process stays as it is
Moves(p, l, j) ==
  /\ pc' = [q \in Procs |-> pc'[q]] /\ job' = [q \in Procs |-> job'[q]]
  /\ pc'[p] = l /\ job'[p] = j
  /\ \A q \in Procs \ {p} : pc'[q] = pc[q] /\ job'[q] = job[q]

LEMMA Moving ==
  ASSUME Shape, NEW p \in Procs, NEW l, NEW j, SetJob(p, j) \/ (job' = job /\ j = job[p]),
         Goto(p, l) \/ (pc' = pc /\ l = pc[p])
  PROVE  Moves(p, l, j)
<1>1. job' = [q \in Procs |-> job'[q]] /\ job'[p] = j /\ \A q \in Procs \ {p} : job'[q] = job[q]
  BY DEF Shape, SetJob
<1>2. pc' = [q \in Procs |-> pc'[q]] /\ pc'[p] = l /\ \A q \in Procs \ {p} : pc'[q] = pc[q]
  BY DEF Shape, Goto
<1> QED BY <1>1, <1>2 DEF Moves

LEMMA NoJobFacts == IsJob(NoJob) /\ NoJob.fire = {} /\ NoJob.todo = {}
BY DEF NoJob, IsJob, Fields

LEMMA Returning == ASSUME Shape, NEW p \in Procs, Return(p) PROVE Moves(p, "idle", NoJob)
BY Moving DEF Return

LEMMA CoversRefl == ASSUME NEW R, RowsOK(R), ver \in [Heads -> Nat] PROVE Covers(R, R)
BY DEF Covers, RowsOK

\* a step of p that leaves the rows and the HEADs alone, outside the two locked labels
LEMMA Outside ==
  ASSUME IInv, NEW p \in Procs, NEW l, NEW j, Moves(p, l, j), IsJob(j),
         \A f \in j.fire : f[1] \in Near,
         p \in Checkers => l \in {"idle", "load", "judge"},
         l = "lock" => j.todo \subseteq Near,
         l \notin {"wave", "stored"}, lock' = (IF lock = p THEN Nobody ELSE lock),
         rows' = rows, ver' = ver
  PROVE  IInv'
<1>1. Shape /\ LockInv /\ PairsInv /\ RowsInv
  BY DEF IInv
<1>2. Shape'
  BY <1>1 DEF Shape, Moves
<1>3. LockInv'
  BY <1>1, XrefAssumption DEF LockInv, Moves, Procs
<1>4. PairsInv'
  BY <1>1 DEF PairsInv, Moves, Procs
<1>5. RowsInv'
  BY <1>1 DEF RowsInv, RowsOK, Covers, Moves, Procs
<1> QED BY <1>2, <1>3, <1>4, <1>5 DEF IInv

\* a step of the holder, which keeps the lock
LEMMA Inside ==
  ASSUME IInv, NEW w \in Wavers, NEW l, NEW j, Moves(w, l, j), IsJob(j),
         pc[w] = "wave", l \in {"wave", "stored"}, j.fire = job[w].fire, j.todo \subseteq job[w].todo,
         RowsOK(j.rows), rows' = rows \/ (l = "stored" /\ rows' = job[w].rows),
         l = "wave" => j.blind \/ Covers(j.rows, rows), lock' = lock, ver' = ver
  PROVE  IInv'
<1>1. Shape /\ LockInv /\ PairsInv /\ RowsInv /\ w \in Procs
  BY DEF IInv, Procs
<1>2. Shape'
  BY <1>1 DEF Shape, Moves
<1>3. LockInv'
  BY <1>1, XrefAssumption DEF LockInv, Moves, Procs
<1>4. PairsInv'
  BY <1>1 DEF PairsInv, Moves, Procs
<1>5. \A v \in Wavers \ {w} : pc'[v] # "wave"
  BY <1>1 DEF LockInv, Moves, Procs
<1>6. RowsInv'
  BY <1>1, <1>5 DEF RowsInv, RowsOK, Covers, Moves
<1> QED BY <1>2, <1>3, <1>4, <1>6 DEF IInv

-----------------------------------------------------------------------------
(* One step each *)

LEMMA Parts ==
  ASSUME IInv
  PROVE  /\ Shape /\ LockInv /\ PairsInv /\ RowsInv /\ ver \in [Heads -> Nat]
         /\ \A p \in Procs : IsJob(job[p]) /\ \A f \in job[p].fire : f[1] \in Near
         /\ \A p \in Procs : pc[p] \in {"idle", "load", "judge", "lock"} => lock # p
BY XrefAssumption DEF IInv, Shape, LockInv, PairsInv, Procs

LEMMA StartStep ==
  ASSUME IInv, NEW p \in Procs, NEW head, Start(p, "load", head) PROVE IInv'
<1> DEFINE j == [NoJob EXCEPT !.head = head, !.rows = rows]
<1>1. IsJob(j) /\ j.fire = {}
  BY NoJobFacts DEF IsJob, Fields, NoJob
<1>2. SetJob(p, j) /\ Goto(p, "load") /\ pc[p] = "idle" /\ rows' = rows /\ lock' = lock /\ ver' = ver
  BY DEF Start, world
<1> HIDE DEF j
<1> QED BY <1>1, <1>2, Parts, Moving, Outside

LEMMA JudgementFacts ==
  ASSUME NEW j, IsJob(j), NEW h, \A f \in j.fire : f[1] \in Near
  PROVE  IsJob(Judgement(j, h)) /\ \A f \in Judgement(j, h).fire : f[1] \in Near
<1> DEFINE body == heads[h].body
           me == MovedEpoch(j.store, h, body, j.epoch)
           known == body # NoBody /\ h \in DOMAIN j.store /\ j.store[h].body = body
           tracked == {x \in Near : x[2] = h /\ x[1] \notin Generic /\ mems[x[1]] # 0}
           gated(x) == me - mems[x[1]] < Gate
           waved(x) == x \in DOMAIN j.rows /\ StillQuiet(j.rows[x], me)
           facts(X) == {<<x, ver[h]>> : x \in X}
           store1 == IF known THEN j.store ELSE Remember(j.store, h, body, me)
           dirty == j.dirty \/ (~known /\ body # NoBody)
           fire == j.fire \cup facts({x \in tracked : ~gated(x) /\ ~waved(x)})
           held == j.held \cup facts({x \in tracked : ~gated(x) /\ waved(x)})
           k == [j EXCEPT !.todo = j.todo \ {h}, !.at = <<>>, !.store = store1, !.dirty = dirty,
                          !.fire = fire, !.held = held]
<1>1. Judgement(j, h) = k
  BY DEF Judgement
<1>2. \A f \in fire : f[1] \in Near
  OBVIOUS
<1> HIDE DEF store1, dirty, fire, held
<1>3. IsJob(k) /\ k.fire = fire
  BY DEF IsJob, Fields
<1> QED BY <1>1, <1>2, <1>3

LEMMA JudgeStep ==
  ASSUME IInv, NEW p \in Procs,
         LoadStore(p) \/ \E h \in job[p].todo : JudgeStamp(p, h) \/ JudgeHash(p, h)
  PROVE  IInv'
<1>1. Shape /\ IsJob(job[p]) /\ rows' = rows /\ lock' = lock /\ ver' = ver /\ pc[p] \in {"load", "judge"} /\ lock # p
  BY Parts DEF LoadStore, JudgeStamp, JudgeHash, world
<1>2. PICK j : SetJob(p, j) /\ IsJob(j) /\ \A f \in j.fire : f[1] \in Near
  <2>1. CASE LoadStore(p)
    <3> PICK R, S : SetJob(p, [job[p] EXCEPT !.rows = R, !.store = S, !.base = S,
                                             !.todo = {x[2] : x \in Tracked}])
      BY <2>1 DEF LoadStore
    <3> DEFINE todo == {x[2] : x \in Tracked}
               j == [job[p] EXCEPT !.rows = R, !.store = S, !.base = S, !.todo = todo]
    <3>2. SetJob(p, j)
      OBVIOUS
    <3> HIDE DEF todo
    <3>1. IsJob(j) /\ j.fire = job[p].fire
      BY <1>1 DEF IsJob, Fields
    <3> HIDE DEF j
    <3> QED BY <3>1, <3>2, Parts
  <2>2. ASSUME NEW h, JudgeStamp(p, h) PROVE \E j : SetJob(p, j) /\ IsJob(j) /\ \A f \in j.fire : f[1] \in Near
    <3> DEFINE epoch == IF heads[h].body = NoBody THEN 0 ELSE Epoch(h)
               j == [job[p] EXCEPT !.at = <<h>>, !.before = writes[h], !.epoch = epoch]
    <3>1. SetJob(p, j)
      BY <2>2 DEF JudgeStamp, ReadStamp
    <3> HIDE DEF epoch
    <3>2. IsJob(j) /\ j.fire = job[p].fire
      BY <1>1 DEF IsJob, Fields
    <3> HIDE DEF j
    <3> QED BY <3>1, <3>2, Parts
  <2>3. ASSUME NEW h, JudgeHash(p, h) PROVE \E j : SetJob(p, j) /\ IsJob(j) /\ \A f \in j.fire : f[1] \in Near
    BY <1>1, <2>3, Parts, JudgementFacts DEF JudgeHash
  <2> QED BY <2>1, <2>2, <2>3
<1>3. Goto(p, "judge") \/ (pc' = pc /\ pc[p] = "judge")
  BY DEF LoadStore, JudgeStamp, JudgeHash
<1>4. Moves(p, "judge", j)
  BY <1>1, <1>2, <1>3, Moving
<1> QED BY <1>1, <1>2, <1>4, Outside

LEMMA ReturnStep ==
  ASSUME IInv, NEW p \in Procs, Return(p), rows' = rows, ver' = ver,
         lock' = IF lock = p THEN Nobody ELSE lock
  PROVE  IInv'
BY Parts, Returning, NoJobFacts, Outside

LEMMA ReportStep ==
  ASSUME IInv, NEW p \in Procs, GoOn(p), pc[p] = "judge", rows' = rows, lock' = lock, ver' = ver
  PROVE  IInv'
<1> DEFINE pairs == {f[1] : f \in {g \in job[p].fire : g[1][2] = job[p].head}}
           j == [NoJob EXCEPT !.head = job[p].head, !.todo = pairs]
<1>1. lock # p /\ pairs \subseteq Near
  BY Parts
<1>2. CASE Return(p)
  BY <1>1, <1>2, ReturnStep
<1>3. CASE p \in Wavers /\ Goto(p, "lock") /\ SetJob(p, j)
  <2>1. IsJob(j) /\ j.fire = {} /\ j.todo = pairs
    BY NoJobFacts DEF IsJob, Fields, NoJob
  <2> HIDE DEF j, pairs
  <2>2. Moves(p, "lock", j)
    BY <1>3, Parts, Moving
  <2> QED BY <1>1, <1>3, <2>1, <2>2, XrefAssumption, Outside
<1> QED BY <1>2, <1>3 DEF GoOn

LEMMA WaveStartStep ==
  ASSUME IInv, NEW w \in Wavers, NEW x \in Near, WaveStart(w, x) PROVE IInv'
<1> DEFINE j == [NoJob EXCEPT !.todo = {x}]
<1>1. IsJob(j) /\ j.fire = {} /\ j.todo = {x}
  BY NoJobFacts DEF IsJob, Fields, NoJob
<1>2. SetJob(w, j) /\ Goto(w, "lock") /\ pc[w] = "idle" /\ rows' = rows /\ lock' = lock /\ ver' = ver
  BY DEF WaveStart, world
<1> HIDE DEF j
<1>3. w \in Procs
  BY DEF Procs
<1>4. Moves(w, "lock", j)
  BY <1>2, <1>3, Parts, Moving
<1> QED BY <1>1, <1>2, <1>3, <1>4, Parts, XrefAssumption, Outside

\* what is read under the lock is what is there, or nothing
LEMMA WaveLockStep == ASSUME IInv, NEW w \in Wavers, WaveLock(w) PROVE IInv'
<1> PICK R, S : /\ Reads(rows, R, S)
                /\ SetJob(w, [job[w] EXCEPT !.store = S, !.base = S, !.rows = R, !.blind = R # rows])
  BY DEF WaveLock
<1> DEFINE blind == R # rows
           j == [job[w] EXCEPT !.store = S, !.base = S, !.rows = R, !.blind = blind]
<1>1. w \in Procs /\ w # Nobody /\ IsJob(job[w])
  BY Parts, XrefAssumption DEF Procs
<1>3. /\ SetJob(w, j) /\ Goto(w, "wave") /\ pc[w] = "lock" /\ lock = Nobody /\ lock' = w
      /\ rows' = rows /\ ver' = ver
  BY DEF WaveLock, LockFree, world
<1>9. (R = rows \/ R = <<>>) /\ (R = rows \/ blind)
  BY DEF Reads
<1> HIDE DEF blind
<1>2. IsJob(j) /\ j.fire = job[w].fire /\ j.todo = job[w].todo /\ j.rows = R /\ j.blind = blind
  BY <1>1 DEF IsJob, Fields
<1> HIDE DEF j
<1>4. Moves(w, "wave", j)
  BY <1>1, <1>3, Parts, Moving
<1>5. Shape'
  BY <1>2, <1>3, <1>4, Parts DEF Shape, Moves
<1>6. LockInv'
  BY <1>3, <1>4, Parts, XrefAssumption DEF LockInv, Moves, Procs
<1>7. PairsInv'
  BY <1>2, <1>3, <1>4, Parts DEF PairsInv, Moves, Procs
<1>8. RowsInv'
  <2>1. RowsOK(rows) /\ Covers(rows, rows) /\ \A v \in Wavers : pc[v] # "wave"
    BY <1>3, Parts, CoversRefl, XrefAssumption DEF RowsInv, LockInv
  <2>2. RowsOK(R)
    BY <1>9, <2>1 DEF RowsOK
  <2> QED BY <1>2, <1>3, <1>4, <1>9, <2>1, <2>2 DEF RowsInv, RowsOK, Covers, Moves, Procs
<1> QED BY <1>5, <1>6, <1>7, <1>8 DEF IInv

\* the holder changes its copy of the store only
LEMMA WaveKeepsRows ==
  ASSUME IInv, NEW w \in Wavers, WaveSaveStore(w) \/ \E x \in job[w].todo : WaveStamp(w, x)
  PROVE  IInv'
<1>1. w \in Procs /\ IsJob(job[w]) /\ Shape /\ RowsOK(job[w].rows) /\ pc[w] = "wave"
      /\ (job[w].blind \/ Covers(job[w].rows, rows))
  BY Parts DEF WaveSaveStore, WaveStamp, Waved, Pending, RowsInv, Procs
<1>2. PICK j : /\ SetJob(w, j) /\ IsJob(j) /\ j.rows = job[w].rows /\ j.fire = job[w].fire
               /\ j.todo = job[w].todo /\ j.blind = job[w].blind
  <2>1. CASE WaveSaveStore(w)
    <3> DEFINE j == [job[w] EXCEPT !.dirty = FALSE, !.base = store', !.store = store']
    <3>1. IsJob(j) /\ j.rows = job[w].rows /\ j.fire = job[w].fire /\ j.todo = job[w].todo /\ j.blind = job[w].blind
      BY <1>1 DEF IsJob, Fields
    <3>2. SetJob(w, j)
      BY <2>1 DEF WaveSaveStore
    <3> HIDE DEF j
    <3> QED BY <3>1, <3>2
  <2>2. ASSUME NEW x, WaveStamp(w, x)
        PROVE  \E j : /\ SetJob(w, j) /\ IsJob(j) /\ j.rows = job[w].rows /\ j.fire = job[w].fire
                      /\ j.todo = job[w].todo /\ j.blind = job[w].blind
    <3> DEFINE epoch == IF heads[x[2]].body = NoBody THEN 0 ELSE Epoch(x[2])
               j == [job[w] EXCEPT !.at = x, !.before = writes[x[2]], !.epoch = epoch]
    <3>1. SetJob(w, j)
      BY <2>2 DEF WaveStamp, ReadStamp
    <3> HIDE DEF epoch
    <3>2. IsJob(j) /\ j.rows = job[w].rows /\ j.fire = job[w].fire /\ j.todo = job[w].todo /\ j.blind = job[w].blind
      BY <1>1 DEF IsJob, Fields
    <3> HIDE DEF j
    <3> QED BY <3>1, <3>2
  <2> QED BY <2>1, <2>2
<1>3. pc' = pc /\ rows' = rows /\ lock' = lock /\ ver' = ver
  BY DEF WaveSaveStore, WaveStamp, world
<1>4. Moves(w, "wave", j)
  BY <1>1, <1>2, <1>3, Moving
<1> QED BY <1>1, <1>2, <1>3, <1>4, Inside

LEMMA WaveHashStep == ASSUME IInv, NEW w \in Wavers, NEW x \in job[w].todo, WaveHash(w, x) PROVE IInv'
<1>1. /\ w \in Procs /\ IsJob(job[w]) /\ Shape /\ RowsOK(job[w].rows)
      /\ (job[w].blind \/ Covers(job[w].rows, rows))
      /\ pc[w] = "wave" /\ x \in Near /\ x[2] \in Heads
  BY Parts, XrefAssumption DEF WaveHash, Pending, RowsInv, PairsInv, Procs
<1>2. PICK row, store1, dirty :
        /\ row.day = FALSE /\ row.ver = ver[x[2]]
        /\ SetJob(w, [job[w] EXCEPT !.todo = @ \ {x}, !.at = <<>>, !.store = store1, !.dirty = dirty,
                                    !.rows = Put(@, x, row)])
  <2> DEFINE me == MovedEpoch(job[w].store, x[2], heads[x[2]].body, job[w].epoch)
             row == [day |-> FALSE, t |-> Floor(me), whole |-> me % Second = 0,
                     ver |-> ver[x[2]]]
  <2>1. row.day = FALSE /\ row.ver = ver[x[2]]
    OBVIOUS
  <2>2. \E store1, dirty :
          SetJob(w, [job[w] EXCEPT !.todo = @ \ {x}, !.at = <<>>, !.store = store1, !.dirty = dirty,
                                   !.rows = Put(@, x, row)])
    BY DEF WaveHash
  <2> HIDE DEF row
  <2> QED BY <2>1, <2>2
<1> DEFINE j == [job[w] EXCEPT !.todo = @ \ {x}, !.at = <<>>, !.store = store1, !.dirty = dirty,
                               !.rows = Put(@, x, row)]
<1>3. /\ IsJob(j) /\ j.fire = job[w].fire /\ j.todo = job[w].todo \ {x}
      /\ j.rows = Put(job[w].rows, x, row) /\ j.blind = job[w].blind
  BY <1>1 DEF IsJob, Fields
<1>4. SetJob(w, j) /\ pc' = pc /\ rows' = rows /\ lock' = lock /\ ver' = ver
  BY <1>2 DEF WaveHash, world
<1> HIDE DEF j
<1>5. Moves(w, "wave", j)
  BY <1>1, <1>4, Moving
<1>6. RowsOK(j.rows)
  BY <1>1, <1>2, <1>3, Parts DEF RowsOK, Put
<1>7. j.blind \/ Covers(j.rows, rows)
  <2>1. \A y \in DOMAIN rows : ~rows[y].day => rows[y].ver <= ver[y[2]] /\ rows[y].ver \in Nat
    BY Parts DEF RowsInv, RowsOK
  <2> QED BY <1>1, <1>2, <1>3, <2>1, Parts DEF Covers, Put
<1> QED BY <1>1, <1>3, <1>4, <1>5, <1>6, <1>7, Inside

\* the rows are saved
LEMMA SaveStep == ASSUME IInv, NEW w \in Wavers, WaveSaveRows(w) \/ WaveAllSaveRows(w) PROVE IInv'
<1>1. /\ w \in Procs /\ pc[w] = "wave" /\ lock = w /\ rows' = job[w].rows /\ ver' = ver
      /\ RowsOK(job[w].rows) /\ IsJob(job[w]) /\ Shape
  BY Parts DEF WaveSaveRows, WaveAllSaveRows, Waved, RowsInv, LockInv, Procs, world
<1>2. CASE WaveAllSaveRows(w)
  <2>1. Goto(w, "stored") /\ job' = job /\ lock' = lock
    BY <1>2 DEF WaveAllSaveRows
  <2>2. Moves(w, "stored", job[w])
    BY <1>1, <2>1, Moving
  <2> QED BY <1>1, <2>1, <2>2, Inside
<1>3. CASE WaveSaveRows(w)
  <2>1. Moves(w, "idle", NoJob) /\ lock' = Nobody
    BY <1>1, <1>3, Returning DEF WaveSaveRows
  <2>2. Shape'
    BY <1>1, <2>1, NoJobFacts DEF Shape, Moves
  <2>3. LockInv'
    BY <1>1, <2>1, Parts, XrefAssumption DEF LockInv, Moves, Procs
  <2>4. PairsInv'
    BY <2>1, Parts, NoJobFacts DEF PairsInv, Moves, Procs
  <2>5. RowsInv'
    <3>1. \A v \in Wavers \ {w} : pc[v] # "wave"
      BY <1>1, Parts DEF LockInv
    <3> QED BY <1>1, <2>1, <3>1 DEF RowsInv, RowsOK, Moves, Procs
  <2> QED BY <2>2, <2>3, <2>4, <2>5 DEF IInv
<1> QED BY <1>2, <1>3

LEMMA UnsavedStep == ASSUME IInv, NEW w \in Wavers, WaveUnsaved(w) PROVE IInv'
<1>1. w \in Procs /\ IsJob(job[w]) /\ Shape /\ rows' = rows /\ ver' = ver
  BY Parts DEF WaveUnsaved, Procs, world
<1>2. CASE pc[w] = "stored" /\ Return(w) /\ lock' = Nobody
  BY <1>1, <1>2, Parts, ReturnStep DEF LockInv
<1>3. CASE Waved(w) /\ SetJob(w, [job[w] EXCEPT !.dirty = FALSE]) /\ UNCHANGED <<pc, lock>>
  <2> DEFINE j == [job[w] EXCEPT !.dirty = FALSE]
  <2>1. IsJob(j) /\ j.fire = job[w].fire /\ j.todo = job[w].todo /\ j.rows = job[w].rows
        /\ j.blind = job[w].blind
    BY <1>1 DEF IsJob, Fields
  <2>2. SetJob(w, j) /\ pc[w] = "wave" /\ pc' = pc /\ lock' = lock
    BY <1>3 DEF Waved
  <2> HIDE DEF j
  <2>3. Moves(w, "wave", j) /\ RowsOK(job[w].rows)
        /\ (job[w].blind \/ Covers(job[w].rows, rows))
    BY <1>1, <2>2, Moving, Parts DEF RowsInv
  <2> QED BY <1>1, <2>1, <2>2, <2>3, Inside
<1> QED BY <1>2, <1>3 DEF WaveUnsaved

\* time and versions only grow
LEMMA WorldStep ==
  ASSUME IInv, pc' = pc, job' = job, lock' = lock, rows' = rows, ver' \in [Heads -> Nat],
         \A h \in Heads : ver'[h] >= ver[h]
  PROVE  IInv'
<1>1. ASSUME NEW R, RowsOK(R) PROVE RowsOK(R)'
  BY <1>1, Parts, XrefAssumption DEF RowsOK
<1>2. RowsInv'
  BY <1>1, Parts DEF RowsInv, RowsOK, Covers
<1> QED BY <1>2 DEF IInv, Shape, LockInv, PairsInv, RowsInv

LEMMA StepInv == IInv /\ [Next]_vars => IInv'
<1> SUFFICES ASSUME IInv, [Next]_vars PROVE IInv'
  OBVIOUS
<1>1. ASSUME NEW c \in Checkers, CheckStart(c) PROVE IInv'
  BY <1>1, StartStep DEF CheckStart, Procs
<1>2. ASSUME NEW p \in Procs, (pc[p] \in {"load", "judge"} /\ Judge(p)) \/ ReportUnsaved(p) \/ GiveUp(p) PROVE IInv'
  <2>1. CASE Report(p) \/ ReportUnsaved(p)
    BY <2>1, ReportStep DEF Report, ReportUnsaved, Judged, world
  <2>2. CASE GiveUp(p)
    BY <2>2, ReturnStep DEF GiveUp, world
  <2>3. CASE LoadStore(p) \/ \E h \in job[p].todo : JudgeStamp(p, h) \/ JudgeHash(p, h)
    BY <2>3, JudgeStep
  <2> QED BY <1>2, <2>1, <2>2, <2>3 DEF Judge
<1>3. ASSUME NEW w \in Wavers, Wave(w) PROVE IInv'
  <2>1. CASE WaveLock(w)
    BY <2>1, WaveLockStep
  <2>2. CASE WaveSaveStore(w) \/ \E x \in job[w].todo : WaveStamp(w, x)
    BY <2>2, WaveKeepsRows
  <2>3. CASE WaveSaveRows(w) \/ WaveAllSaveRows(w)
    BY <2>3, SaveStep
  <2>4. CASE WaveAllSaveStore(w)
    BY <2>4, Parts, ReturnStep DEF WaveAllSaveStore, LockInv, Procs, world
  <2>5. CASE \E x \in job[w].todo : WaveRefused(w, x)
    BY <2>5, Parts, ReturnStep DEF WaveRefused, Pending, LockInv, Procs, world
  <2>6. CASE \E x \in job[w].todo : WaveHash(w, x)
    BY <2>6, WaveHashStep
  <2> QED BY <1>3, <2>1, <2>2, <2>3, <2>4, <2>5, <2>6 DEF Wave
<1>4. ASSUME NEW w \in Wavers, WaveUnsaved(w) PROVE IInv'
  BY <1>4, UnsavedStep
<1>5. ASSUME NEW w \in Wavers, NEW x \in Near, WaveStart(w, x) PROVE IInv'
  BY <1>5, WaveStartStep
<1>6. ASSUME NEW w \in Wavers, NEW h \in Heads, WaveAllStart(w, h) PROVE IInv'
  BY <1>6, StartStep DEF WaveAllStart, Procs
<1>7. ASSUME NEW h \in Heads, NEW body, NEW stamp, WriteHead(h, body, stamp) PROVE IInv'
  <2>1. ver' \in [Heads -> Nat] /\ \A g \in Heads : ver'[g] >= ver[g]
    BY <1>7, Parts DEF WriteHead
  <2> QED BY <1>7, <2>1, WorldStep DEF WriteHead
<1>8. ASSUME NEW m, NEW there, EditMemory(m, there) PROVE IInv'
  BY <1>8, Parts, WorldStep DEF EditMemory
<1>9. CASE UNCHANGED vars
  BY <1>9, Parts, WorldStep DEF vars
<1> QED BY <1>1, <1>2, <1>3, <1>4, <1>5, <1>6, <1>7, <1>8, <1>9 DEF Next, Procs

LEMMA InitInv == Init => IInv
<1> SUFFICES ASSUME Init PROVE IInv
  OBVIOUS
<1>1. /\ \A p \in Procs : pc[p] = "idle" /\ job[p] = NoJob
      /\ pc = [p \in Procs |-> pc[p]] /\ job = [p \in Procs |-> job[p]]
      /\ lock = Nobody /\ rows = OldRows /\ ver \in [Heads -> Nat]
  BY DEF Init, Procs
<1>2. Shape
  BY <1>1, NoJobFacts DEF Shape
<1>3. LockInv
  BY <1>1, XrefAssumption DEF LockInv, Procs
<1>4. PairsInv
  BY <1>1, NoJobFacts DEF PairsInv, Procs
<1>5. RowsInv
  BY <1>1, XrefAssumption DEF RowsInv, RowsOK, Procs
<1> QED BY <1>2, <1>3, <1>4, <1>5 DEF IInv

\* the holder of the lock could not read the rows it is about to replace
Blind == lock \in Wavers /\ job[lock].blind

\* the only step that replaces the rows saves what covers them
LEMMA StepKeeps == IInv /\ [Next]_vars => Covers(rows', rows) \/ Blind
<1> SUFFICES ASSUME IInv, [Next]_vars PROVE Covers(rows', rows) \/ Blind
  OBVIOUS
<1>1. Covers(rows, rows)
  BY Parts, CoversRefl DEF RowsInv
<1>2. ASSUME NEW w \in Wavers, WaveSaveRows(w) \/ WaveAllSaveRows(w) PROVE Covers(rows', rows) \/ Blind
  <2>1. pc[w] = "wave" /\ rows' = job[w].rows
    BY <1>2 DEF WaveSaveRows, WaveAllSaveRows, Waved
  <2>2. lock = w /\ (job[w].blind \/ Covers(job[w].rows, rows))
    BY <2>1, Parts DEF RowsInv, LockInv
  <2> QED BY <2>1, <2>2 DEF Blind
<1>3. CASE rows' = rows
  BY <1>1, <1>3
<1>4. rows' = rows \/ \E w \in Wavers : WaveSaveRows(w) \/ WaveAllSaveRows(w)
  BY DEF Next, vars, CheckStart, WaveAllStart, Start, Judge, LoadStore, JudgeStamp, JudgeHash, Report,
         ReportUnsaved, GiveUp, Wave, WaveLock, WaveStamp, WaveRefused, WaveHash, WaveSaveStore,
         WaveAllSaveStore, WaveUnsaved, WaveStart, WriteHead, EditMemory
<1> QED BY <1>2, <1>3, <1>4

(* A wave-off that was saved is never lost and never goes back to an older    *)
(* body, whatever checks, verbs, kills and lock timeouts come between, but by *)
(* a verb that could not open the table and took it for an empty one          *)
(* (load_waveoffs, _persist_waveoffs).                                        *)
THEOREM NoWaveoffLost == Spec => WaveoffsKept
<1>1. IInv /\ [Next]_vars =>
        [\A x \in DOMAIN rows :
           \/ x \in DOMAIN rows' /\ (~rows[x].day => ~rows'[x].day /\ rows'[x].ver >= rows[x].ver)
           \/ lock \in Wavers /\ job[lock].blind]_vars
  BY StepKeeps DEF Covers, Blind
<1> QED BY <1>1, InitInv, StepInv, PTL DEF Spec, WaveoffsKept

-----------------------------------------------------------------------------
(* Quiet until the content changes.  Rows that a check has read or that are    *)
(* saved are in play.  When one of them names the present content of a HEAD,   *)
(* then - unless the HEAD is shaky - the store remembers that content under    *)
(* the row's time, and every process that is going to save the store either    *)
(* leaves that entry as it is or makes the HEAD shaky.                         *)

WorldOK ==
  /\ heads \in [Heads -> [body : Bodies \cup {NoBody}, stamp : Nat \cup {NoStamp}, mtime : Nat]]
  /\ mems \in [Memories -> Nat] /\ clock \in Nat
  /\ ver \in [Heads -> Nat] /\ writes \in [Heads -> Nat] /\ moved \in [Heads -> Nat]
  /\ had \in [Heads -> SUBSET (Bodies \cup {NoBody})]
  /\ \A h \in Heads :
       /\ heads[h].body \in had[h]
       /\ moved[h] <= clock /\ moved[h] % Second = 0
       /\ moved[h] > 0 => heads[h].stamp \in Nat /\ heads[h].stamp >= moved[h]

\* an entry is of a body the HEAD has had, and not older than a verb's new content
StoreOK(S) ==
  \A h \in DOMAIN S :
    /\ h \in Heads /\ S[h] = [body |-> S[h].body, me |-> S[h].me]
    /\ S[h].me \in Nat /\ S[h].body # NoBody /\ S[h].body \in had[h]
    /\ S[h].body = heads[h].body /\ h \notin shaky => S[h].me >= moved[h]

Whole(R) == \A x \in DOMAIN R : ~R[x].day => R[x].t \in Nat /\ Round(R[x].t) = R[x].t
\* the HEAD's present content is waved off in R by a row of a whole second
Current(R, x) == x \in DOMAIN R /\ ~R[x].day /\ R[x].whole /\ R[x].ver = ver[x[2]]
\* the store S agrees with the current rows of R
Says(R, S) ==
  \A x \in DOMAIN R : Current(R, x) /\ x[2] \notin shaky =>
    x[2] \in DOMAIN S /\ S[x[2]].body = heads[x[2]].body /\ S[x[2]].me = R[x].t

\* the stamp that was read is still the HEAD's, unless it was written since
Of(at, h) == at = <<h>> \/ \E m \in Memories : at = <<m, h>>
AtOK(j) ==
  /\ j.before \in Nat /\ j.epoch \in Nat
  /\ \A h \in Heads : Of(j.at, h) =>
       /\ j.before <= writes[h]
       /\ j.before = writes[h] =>
            /\ j.epoch = IF heads[h].body = NoBody THEN 0 ELSE Epoch(h)
            /\ heads[h].body = NoBody => j.at = <<h>>

Quiet(j) ==
  \A f \in j.fire :
    LET x == f[1] IN
    x \in DOMAIN j.rows /\ ~j.rows[x].day /\ j.rows[x].whole /\ j.rows[x].ver = f[2] => x[2] \in shaky
Fires(j) ==
  \A f \in j.held :
    LET x == f[1]  row == j.rows[x] IN
    /\ x \in DOMAIN j.rows /\ f[2] <= ver[x[2]] /\ f[2] \in Nat
    /\ ~row.day /\ ver[x[2]] = f[2] /\ moved[x[2]] > row.t => x[2] \in shaky

\* a check replaces an entry it has read only when the body has changed
KeepsBase(j) ==
  \A h \in DOMAIN j.base :
    /\ h \in DOMAIN j.store
    /\ j.store[h] = j.base[h] \/ j.store[h].body # j.base[h].body
    /\ h \in j.todo => j.store[h] = j.base[h]

ProcOK(l, j) ==
  /\ StoreOK(j.store) /\ StoreOK(j.base) /\ RowsOK(j.rows) /\ Whole(j.rows) /\ AtOK(j)
  /\ Quiet(j) /\ Fires(j)
  /\ l \in {"load", "lock", "wave"} => j.fire = {} /\ j.held = {}
  /\ l = "judge" => j.todo \subseteq Heads
  /\ l \in {"load", "judge"} => Says(j.rows, store)
  /\ l \in {"judge", "wave"} => Says(j.rows, j.store)
  /\ l \notin {"wave", "stored"} => KeepsBase(j)

Names(R, h) == \E x \in DOMAIN R : Current(R, x) /\ x[2] = h
Anchored(h) ==
  /\ h \notin shaky
  /\ Names(rows, h) \/ \E q \in Procs : pc[q] \in {"load", "judge"} /\ Names(job[q].rows, h)
\* the holder of the lock leaves an anchored entry that it has read as it is
Holds(j) ==
  \A h \in DOMAIN j.base : Anchored(h) /\ h \in DOMAIN store /\ j.base[h] = store[h]
     => h \in DOMAIN j.store /\ j.store[h] = j.base[h]

SavedOK == /\ StoreOK(store) /\ Whole(rows) /\ Says(rows, store)
           /\ \A h \in DOMAIN store : Round(store[h].me) = store[h].me
WInv ==
  /\ WorldOK /\ SavedOK
  /\ \A p \in Procs : \A l, j : l = pc[p] /\ j = job[p] =>
       ProcOK(l, j) /\ (l \in {"wave", "stored"} => Holds(j))

LEMMA Rounding ==
  ASSUME NEW e \in Nat
  PROVE  /\ Round(e) \in Nat /\ Round(Round(e)) = Round(e)
         /\ Floor(e) \in Nat /\ Floor(e) <= e /\ Round(Floor(e)) = Floor(e) /\ Floor(e) % Second = 0
         /\ e % Second = 0 => Floor(e) = e /\ Round(e) = e
         /\ \A m \in Nat : m % Second = 0 /\ m <= e => m <= Floor(e) /\ m <= Round(e)
BY SMTT(60) DEF Round, Floor, Second

LEMMA OfOne == ASSUME NEW g, NEW h PROVE Of(<<g>>, h) => h = g
BY DEF Of
LEMMA OfTwo == ASSUME NEW m, NEW g, NEW h PROVE Of(<<m, g>>, h) => h = g
BY DEF Of
LEMMA OfNone == ASSUME NEW h PROVE ~Of(<<>>, h)
BY DEF Of

LEMMA WParts ==
  ASSUME WInv
  PROVE  /\ WorldOK /\ SavedOK /\ StoreOK(store) /\ Says(rows, store)
         /\ \A p \in Procs : ProcOK(pc[p], job[p]) /\ (pc[p] \in {"wave", "stored"} => Holds(job[p]))
         /\ \A p \in Procs : pc[p] \in {"load", "judge"} => Says(job[p].rows, store)
BY DEF WInv, SavedOK, ProcOK

\* what an anchored HEAD's content is, the store knows
LEMMA AnchoredKnown ==
  ASSUME WInv, NEW h, Anchored(h)
  PROVE  h \in DOMAIN store /\ store[h].body = heads[h].body /\ h \in Heads
<1>1. h \in DOMAIN store /\ store[h].body = heads[h].body
  BY WParts DEF Anchored, Names, Current, Says
<1> QED BY <1>1, WParts DEF StoreOK

LEMMA SaysMono ==
  ASSUME NEW R, NEW S, Says(R, S), shaky \subseteq shaky', heads' = heads, ver' = ver
  PROVE  Says(R, S)'
BY DEF Says, Current

LEMMA StoreMono ==
  ASSUME NEW S, StoreOK(S), shaky \subseteq shaky', heads' = heads, had' = had, moved' = moved
  PROVE  StoreOK(S)'
BY DEF StoreOK

\* what holds of a process goes on to hold of it while others make HEADs shaky
LEMMA ProcMono ==
  ASSUME NEW l, NEW j, ProcOK(l, j), shaky \subseteq shaky', heads' = heads, ver' = ver, had' = had,
         moved' = moved, writes' = writes, l \in {"load", "judge"} => Says(j.rows, store)'
  PROVE  ProcOK(l, j)'
<1>1. StoreOK(j.store)' /\ StoreOK(j.base)' /\ RowsOK(j.rows)' /\ Whole(j.rows)' /\ AtOK(j)'
  BY StoreMono DEF ProcOK, RowsOK, Whole, AtOK, Epoch
<1>2. Quiet(j)' /\ Fires(j)'
  BY DEF ProcOK, Quiet, Fires
<1>3. l \in {"judge", "wave"} => Says(j.rows, j.store)'
  BY SaysMono DEF ProcOK
<1> QED BY <1>1, <1>2, <1>3 DEF ProcOK, KeepsBase

\* a step of p that leaves the HEADs and the saved rows alone and, of the store, the anchored entries
LEMMA ProcStep ==
  ASSUME WInv, NEW p \in Procs, NEW l, NEW j, Moves(p, l, j), world' = world, rows' = rows,
         shaky \subseteq shaky', ProcOK(l, j)',
         StoreOK(store)', \A h \in DOMAIN store' : Round(store'[h].me) = store'[h].me,
         \A h : Anchored(h) /\ h \notin shaky' => h \in DOMAIN store' /\ store'[h] = store[h],
         l \in {"load", "judge"} =>
           j.rows \in {rows, <<>>} \/ (pc[p] \in {"load", "judge"} /\ j.rows = job[p].rows),
         l \in {"wave", "stored"} => \A h \in DOMAIN j.base :
            Anchored(h) /\ h \notin shaky' /\ j.base[h] = store'[h] => h \in DOMAIN j.store /\ j.store[h] = j.base[h]
  PROVE  WInv'
<1>1. /\ heads' = heads /\ mems' = mems /\ clock' = clock /\ ver' = ver /\ had' = had /\ moved' = moved
      /\ writes' = writes
  BY DEF world
<1>2. ASSUME NEW h, Anchored(h)' PROVE Anchored(h) /\ h \notin shaky'
  <2>1. ASSUME NEW R PROVE Names(R, h)' = Names(R, h)
    BY <1>1 DEF Names, Current
  <2>2. CASE Names(rows', h)
    BY <1>2, <2>2 DEF Anchored
  <2>3. ASSUME NEW q \in Procs, pc'[q] \in {"load", "judge"}, Names(job'[q].rows, h) PROVE Anchored(h) /\ h \notin shaky'
    <3>1. CASE q = p
      <4>1. j.rows # <<>>
        BY <2>3, <3>1 DEF Moves, Names
      <4> QED BY <1>2, <2>3, <3>1, <4>1 DEF Anchored, Moves
    <3>2. CASE q # p
      BY <1>2, <2>3, <3>2 DEF Anchored, Moves
    <3> QED BY <3>1, <3>2
  <2>4. Names(rows', h) \/ \E q \in Procs : pc'[q] \in {"load", "judge"} /\ Names(job'[q].rows, h)
    BY <1>1, <1>2 DEF Anchored, Names, Current
  <2> QED BY <2>2, <2>3, <2>4
<1>3. ASSUME NEW R, Says(R, store), \A h : h \notin shaky /\ Names(R, h) => Anchored(h)
      PROVE  Says(R, store)'
  <2> SUFFICES ASSUME NEW x \in DOMAIN R, Current(R, x), x[2] \notin shaky'
               PROVE  /\ x[2] \in DOMAIN store' /\ store'[x[2]].body = heads[x[2]].body
                      /\ store'[x[2]].me = R[x].t
    BY <1>1 DEF Says, Current
  <2>1. Anchored(x[2])
    BY <1>3 DEF Names
  <2> QED BY <1>3, <2>1 DEF Says
<1>4. Says(rows, store)'
  <2>1. Says(rows, store)
    BY WParts
  <2>2. \A R : R = rows => Says(R, store)'
    BY <1>3, <2>1 DEF Anchored
  <2> QED BY <2>2 DEF Says, Current
<1>5. WorldOK' /\ SavedOK'
  BY <1>1, <1>4, WParts DEF WorldOK, SavedOK, Whole
<1>6. ASSUME NEW q \in Procs, NEW k, NEW i, k = pc'[q], i = job'[q] PROVE ProcOK(k, i)'
  <2>1. CASE q = p
    <3>1. k = l /\ i = j
      BY <1>6, <2>1 DEF Moves
    <3> QED BY <3>1
  <2>2. CASE q # p
    <3>1. k = pc[q] /\ i = job[q]
      BY <1>6, <2>2 DEF Moves
    <3>2. ProcOK(k, i)
      BY <3>1, WParts
    <3>3. k \in {"load", "judge"} => Says(i.rows, store)'
      BY <1>3, <3>1, <3>2 DEF Anchored, ProcOK
    <3> QED BY <1>1, <3>2, <3>3, ProcMono
  <2> QED BY <2>1, <2>2
<1>7. ASSUME NEW q \in Procs, NEW k, NEW i, k = pc'[q], i = job'[q], k \in {"wave", "stored"} PROVE Holds(i)'
  <2> SUFFICES ASSUME NEW h \in DOMAIN i.base, Anchored(h)', h \in DOMAIN store', i.base[h] = store'[h]
               PROVE  h \in DOMAIN i.store /\ i.store[h] = i.base[h]
    BY DEF Holds
  <2>1. CASE q = p
    BY <1>2, <1>7, <2>1 DEF Moves
  <2>2. CASE q # p
    <3>1. Holds(i) /\ h \in DOMAIN store /\ store'[h] = store[h] /\ Anchored(h)
      BY <1>2, <1>7, <2>2, AnchoredKnown, WParts DEF Moves
    <3> QED BY <3>1 DEF Holds
  <2> QED BY <2>1, <2>2
<1> QED BY <1>5, <1>6, <1>7 DEF WInv

-----------------------------------------------------------------------------
(* The world goes on: HEADs and memories are written *)

Unwritten(h) ==
  /\ heads'[h] = heads[h] /\ writes'[h] = writes[h] /\ ver'[h] = ver[h]
  /\ moved'[h] = moved[h] /\ had'[h] = had[h]
Written(h) ==
  /\ writes'[h] = writes[h] + 1 /\ had[h] \subseteq had'[h]
  /\ \/ heads'[h].body = heads[h].body /\ ver'[h] = ver[h] /\ moved'[h] = moved[h]
     \/ ver'[h] = ver[h] + 1 /\ (moved'[h] = 0 \/ heads'[h].body \notin had[h])

LEMMA WorldChange ==
  ASSUME IInv, WInv, WorldOK', UNCHANGED <<pc, job, rows, store, shaky>>,
         \A h \in Heads : Unwritten(h) \/ Written(h)
  PROVE  WInv'
<1>1. WorldOK
  BY WParts
<1>2. \A x \in Near : x[2] \in Heads
  BY XrefAssumption
<1>3. ASSUME NEW R, RowsOK(R) PROVE RowsOK(R)'
  <2> SUFFICES ASSUME NEW x \in DOMAIN R, ~R[x].day PROVE R[x].ver <= ver'[x[2]]
    BY <1>3 DEF RowsOK
  <2>1. x[2] \in Heads /\ R[x].ver \in Nat /\ R[x].ver <= ver[x[2]] /\ ver[x[2]] \in Nat
    BY <1>1, <1>2, <1>3 DEF RowsOK, WorldOK
  <2> QED BY <2>1 DEF Unwritten, Written
<1>4. ASSUME NEW R, RowsOK(R), NEW x, Current(R, x)'
      PROVE  Current(R, x) /\ heads'[x[2]].body = heads[x[2]].body
  <2>1. x \in DOMAIN R /\ ~R[x].day /\ R[x].whole /\ R[x].ver = ver'[x[2]]
    BY <1>4 DEF Current
  <2>2. x[2] \in Heads /\ R[x].ver \in Nat /\ R[x].ver <= ver[x[2]] /\ ver[x[2]] \in Nat
    BY <1>1, <1>2, <1>4, <2>1 DEF RowsOK, WorldOK
  <2> QED BY <2>1, <2>2 DEF Current, Unwritten, Written
<1>5. ASSUME NEW R, NEW S, RowsOK(R), Says(R, S) PROVE Says(R, S)'
  BY <1>4, <1>5 DEF Says
<1>6. ASSUME NEW S, StoreOK(S) PROVE StoreOK(S)'
  <2> SUFFICES ASSUME NEW h \in DOMAIN S
               PROVE  /\ h \in Heads /\ S[h] = [body |-> S[h].body, me |-> S[h].me]
                      /\ S[h].me \in Nat /\ S[h].body # NoBody /\ S[h].body \in had'[h]
                      /\ S[h].body = heads'[h].body /\ h \notin shaky => S[h].me >= moved'[h]
    BY DEF StoreOK
  <2>1. /\ h \in Heads /\ S[h] = [body |-> S[h].body, me |-> S[h].me]
        /\ S[h].me \in Nat /\ S[h].body # NoBody /\ S[h].body \in had[h]
        /\ S[h].body = heads[h].body /\ h \notin shaky => S[h].me >= moved[h]
    BY <1>6 DEF StoreOK
  <2> QED BY <2>1 DEF Unwritten, Written
<1>7. ASSUME NEW j, AtOK(j) PROVE AtOK(j)'
  <2> SUFFICES ASSUME NEW h \in Heads, Of(j.at, h)
               PROVE  /\ j.before <= writes'[h]
                      /\ j.before = writes'[h] =>
                           /\ j.epoch = IF heads'[h].body = NoBody THEN 0 ELSE Epoch(h)'
                           /\ heads'[h].body = NoBody => j.at = <<h>>
    BY <1>7 DEF AtOK
  <2>1. /\ j.before \in Nat /\ j.before <= writes[h] /\ writes[h] \in Nat
        /\ j.before = writes[h] =>
             /\ j.epoch = IF heads[h].body = NoBody THEN 0 ELSE Epoch(h)
             /\ heads[h].body = NoBody => j.at = <<h>>
    BY <1>1, <1>7 DEF AtOK, WorldOK
  <2>2. CASE Unwritten(h)
    BY <2>1, <2>2 DEF Unwritten, Epoch
  <2>3. CASE Written(h)
    BY <2>1, <2>3 DEF Written
  <2> QED BY <2>2, <2>3
<1>8. ASSUME NEW j, Fires(j), RowsOK(j.rows) PROVE Fires(j)'
  <2> SUFFICES ASSUME NEW f \in j.held, NEW x, x = f[1]
               PROVE  /\ x \in DOMAIN j.rows /\ f[2] <= ver'[x[2]] /\ f[2] \in Nat
                      /\ ~j.rows[x].day /\ ver'[x[2]] = f[2] /\ moved'[x[2]] > j.rows[x].t => x[2] \in shaky
    BY DEF Fires
  <2>1. /\ x \in DOMAIN j.rows /\ f[2] <= ver[x[2]] /\ f[2] \in Nat
        /\ ~j.rows[x].day /\ ver[x[2]] = f[2] /\ moved[x[2]] > j.rows[x].t => x[2] \in shaky
    BY <1>8 DEF Fires
  <2>2. x[2] \in Heads /\ ver[x[2]] \in Nat
    BY <1>1, <1>2, <1>8, <2>1 DEF RowsOK, WorldOK
  <2> QED BY <2>1, <2>2 DEF Unwritten, Written
<1>9. ASSUME NEW l, NEW j, ProcOK(l, j) PROVE ProcOK(l, j)'
  <2>1. StoreOK(j.store)' /\ StoreOK(j.base)' /\ RowsOK(j.rows)' /\ Whole(j.rows)' /\ AtOK(j)' /\ Fires(j)'
    BY <1>3, <1>6, <1>7, <1>8, <1>9 DEF ProcOK, Whole
  <2>2. Quiet(j)' /\ (l \notin {"wave", "stored"} => KeepsBase(j)')
    BY <1>9 DEF ProcOK, Quiet, KeepsBase
  <2>3. (l \in {"judge", "wave"} => Says(j.rows, j.store)') /\ (l \in {"load", "judge"} => Says(j.rows, store)')
    <3>1. /\ RowsOK(j.rows)
          /\ l \in {"judge", "wave"} => Says(j.rows, j.store)
          /\ l \in {"load", "judge"} => Says(j.rows, store)
      BY <1>9 DEF ProcOK
    <3>2. l \in {"judge", "wave"} => Says(j.rows, j.store)'
      BY <1>5, <3>1
    <3>3. PICK T : T = store
      OBVIOUS
    <3>4. l \in {"load", "judge"} => Says(j.rows, T)'
      BY <1>5, <3>1, <3>3
    <3>5. Says(j.rows, T)' => Says(j.rows, store)'
      BY <3>3 DEF Says, Current
    <3> QED BY <3>2, <3>4, <3>5
  <2> QED BY <1>9, <2>1, <2>2, <2>3 DEF ProcOK
<1>10. RowsOK(rows) /\ SavedOK'
  BY <1>5, <1>6, WParts, Parts DEF SavedOK, Whole, StoreOK, Says, Current, RowsInv
<1>11. ASSUME NEW h, Anchored(h)' PROVE Anchored(h)
  <2>1. \A q \in Procs : RowsOK(job[q].rows)
    BY WParts DEF ProcOK
  <2>2. ASSUME NEW R, RowsOK(R), \E x \in DOMAIN R : Current(R, x)' /\ x[2] = h PROVE Names(R, h)
    BY <1>4, <2>2 DEF Names
  <2>3. ASSUME NEW R PROVE (\E x \in DOMAIN R : Current(R, x)' /\ x[2] = h) <=> Names(R, h)'
    BY DEF Names
  <2>4. Names(rows, h)' => Names(rows, h)
    BY <1>10, <2>2, <2>3 DEF Names, Current
  <2>5. \A q \in Procs : Names(job[q].rows, h)' => Names(job[q].rows, h)
    BY <2>1, <2>2, <2>3 DEF Names, Current
  <2> QED BY <1>11, <2>4, <2>5 DEF Anchored
<1>12. ASSUME NEW j, Holds(j) PROVE Holds(j)'
  BY <1>11, <1>12 DEF Holds
<1> QED BY <1>9, <1>10, <1>12 DEF WInv

LEMMA EditStep == ASSUME IInv, WInv, NEW m \in Memories, NEW there \in BOOLEAN, EditMemory(m, there) PROVE WInv'
<1>1. WorldOK'
  <2>1. clock' \in Nat /\ clock' >= clock /\ mems' \in [Memories -> Nat]
    BY WParts, XrefAssumption DEF EditMemory, MayWrite, WorldOK
  <2> QED BY <2>1, WParts DEF EditMemory, WorldOK
<1> QED BY <1>1, WorldChange DEF EditMemory, Unwritten

LEMMA WriteHeadStep ==
  ASSUME IInv, WInv, NEW h \in Heads, NEW body \in Bodies \cup {NoBody},
         NEW stamp \in {heads[h].stamp, Floor(clock + Step)}, WriteHead(h, body, stamp)
  PROVE  WInv'
<1> DEFINE t == IF stamp = heads[h].stamp \/ body \in had[h] THEN 0 ELSE stamp
<1>1. /\ heads \in [Heads -> [body : Bodies \cup {NoBody}, stamp : Nat \cup {NoStamp}, mtime : Nat]]
      /\ clock \in Nat /\ clock + Step \in Nat /\ clock' = clock + Step
      /\ ver \in [Heads -> Nat] /\ writes \in [Heads -> Nat] /\ moved \in [Heads -> Nat]
      /\ had \in [Heads -> SUBSET (Bodies \cup {NoBody})]
  BY WParts, XrefAssumption DEF WriteHead, MayWrite, WorldOK
<1>2. /\ Floor(clock + Step) \in Nat /\ Floor(clock + Step) <= clock' /\ Floor(clock + Step) % Second = 0
      /\ \A m \in Nat : m % Second = 0 /\ m <= clock' => m <= Floor(clock + Step)
  BY <1>1, Rounding
<1>3. t \in Nat /\ t % Second = 0 /\ t <= clock' /\ (t > 0 => stamp = Floor(clock + Step))
  <2>1. t = 0 \/ (t = Floor(clock + Step) /\ stamp = Floor(clock + Step))
    OBVIOUS
  <2>2. 0 \in Nat /\ 0 % Second = 0 /\ 0 <= clock' /\ ~(0 > 0)
    BY <1>1 DEF Second
  <2> QED BY <1>2, <2>1, <2>2
<1>4. stamp \in Nat \cup {NoStamp}
  BY <1>1, <1>2
<1>5. /\ heads'[h].body = body /\ heads'[h].stamp = stamp
      /\ had'[h] = had[h] \cup {body} /\ writes'[h] = writes[h] + 1
      /\ body = heads[h].body => ver' = ver /\ moved' = moved
      /\ body # heads[h].body => ver'[h] = ver[h] + 1 /\ moved'[h] = t
      /\ \A g \in Heads \ {h} : Unwritten(g)
  BY <1>1 DEF WriteHead, Unwritten
<1>6. /\ heads' \in [Heads -> [body : Bodies \cup {NoBody}, stamp : Nat \cup {NoStamp}, mtime : Nat]]
      /\ writes' \in [Heads -> Nat] /\ had' \in [Heads -> SUBSET (Bodies \cup {NoBody})]
  BY <1>1, <1>4 DEF WriteHead
<1>7. ver' \in [Heads -> Nat]
  BY <1>1 DEF WriteHead
<1>8. moved' \in [Heads -> Nat]
  BY <1>1, <1>3 DEF WriteHead
<1> HIDE DEF t
<1>9. ASSUME NEW g \in Heads
      PROVE  /\ heads'[g].body \in had'[g]
             /\ moved'[g] <= clock' /\ moved'[g] % Second = 0
             /\ moved'[g] > 0 => heads'[g].stamp \in Nat /\ heads'[g].stamp >= moved'[g]
  <2>1. /\ heads[g].body \in had[g] /\ moved[g] <= clock /\ moved[g] % Second = 0 /\ moved[g] \in Nat
        /\ moved[g] > 0 => heads[g].stamp \in Nat /\ heads[g].stamp >= moved[g]
    BY WParts DEF WorldOK
  <2>2. moved[g] <= clock'
    BY <1>1, <2>1, XrefAssumption
  <2>3. CASE g # h
    BY <1>5, <2>1, <2>2, <2>3 DEF Unwritten
  <2>4. CASE g = h /\ body # heads[h].body
    <3>1. t > 0 => stamp \in Nat /\ stamp >= t
      BY <1>1, <1>2, <1>3 DEF t
    <3> QED BY <1>3, <1>5, <2>4, <3>1
  <2>5. CASE g = h /\ body = heads[h].body
    BY <1>1, <1>2, <1>5, <2>1, <2>2, <2>5
  <2> QED BY <2>3, <2>4, <2>5
<1>10. mems' = mems /\ mems \in [Memories -> Nat] /\ clock' \in Nat
  BY <1>1, WParts DEF WriteHead, WorldOK
<1>11. WorldOK'
  BY <1>6, <1>7, <1>8, <1>9, <1>10 DEF WorldOK
<1>12. Written(h)
  BY <1>5 DEF Written, t
<1> QED BY <1>5, <1>11, <1>12, WorldChange DEF WriteHead

-----------------------------------------------------------------------------
(* The steps of a process *)

LEMMA NoJobOK ==
  /\ NoJob.store = <<>> /\ NoJob.base = <<>> /\ NoJob.rows = <<>> /\ NoJob.at = <<>>
  /\ NoJob.before = 0 /\ NoJob.epoch = 0 /\ NoJob.fire = {} /\ NoJob.held = {} /\ NoJob.todo = {}
BY DEF NoJob

\* a job that has read at most the rows
LEMMA FreshOK ==
  ASSUME NEW l \in {"idle", "load", "lock"}, NEW j,
         j.store = <<>>, j.base = <<>>, j.at = <<>>, j.before = 0, j.epoch = 0, j.fire = {}, j.held = {},
         RowsOK(j.rows), Whole(j.rows), l = "load" => Says(j.rows, store)
  PROVE  ProcOK(l, j)
BY OfNone DEF ProcOK, StoreOK, AtOK, Quiet, Fires, KeepsBase

LEMMA NoRows == ASSUME NEW R, R = <<>> PROVE RowsOK(R) /\ Whole(R)
BY DEF RowsOK, Whole

\* nothing is saved
LEMMA PlainStep ==
  ASSUME WInv, NEW p \in Procs, NEW l, NEW j, Moves(p, l, j), world' = world, rows' = rows, store' = store,
         shaky \subseteq shaky', ProcOK(l, j)',
         l \in {"load", "judge"} =>
           j.rows \in {rows, <<>>} \/ (pc[p] \in {"load", "judge"} /\ j.rows = job[p].rows),
         l \in {"wave", "stored"} => \A h \in DOMAIN j.base :
            Anchored(h) /\ h \notin shaky' /\ j.base[h] = store[h] => h \in DOMAIN j.store /\ j.store[h] = j.base[h]
  PROVE  WInv'
<1>1. StoreOK(store)' /\ \A h \in DOMAIN store' : Round(store'[h].me) = store'[h].me
  <2>1. heads' = heads /\ had' = had /\ moved' = moved
    BY DEF world
  <2> QED BY <2>1, WParts DEF StoreOK, SavedOK
<1>2. \A h : Anchored(h) /\ h \notin shaky' => h \in DOMAIN store' /\ store'[h] = store[h]
  BY AnchoredKnown
<1> QED BY <1>1, <1>2, ProcStep

\* the world is as it was, so what held of a fresh job still does
LEMMA FreshStep ==
  ASSUME IInv, WInv, NEW p \in Procs, NEW l \in {"idle", "load", "lock"}, NEW j, Moves(p, l, j),
         world' = world, rows' = rows, store' = store, shaky \subseteq shaky',
         j.store = <<>>, j.base = <<>>, j.at = <<>>, j.before = 0, j.epoch = 0, j.fire = {}, j.held = {},
         j.rows = <<>> \/ j.rows = rows, l = "load" => j.rows = rows
  PROVE  WInv'
<1>1. /\ heads' = heads /\ ver' = ver /\ had' = had /\ moved' = moved /\ writes' = writes
  BY DEF world
<1>2. RowsOK(j.rows) /\ Whole(j.rows) /\ (l = "load" => Says(j.rows, store))
  BY NoRows, Parts, WParts DEF RowsInv, SavedOK
<1>3. ProcOK(l, j)
  BY <1>2, FreshOK
<1>4. l \in {"load", "judge"} => Says(j.rows, store)'
  BY <1>1, <1>2, SaysMono DEF Says, Current
<1>5. ProcOK(l, j)'
  BY <1>1, <1>3, <1>4, ProcMono
<1> QED BY <1>5, PlainStep

LEMMA StartW == ASSUME IInv, WInv, NEW p \in Procs, NEW head, Start(p, "load", head) PROVE WInv'
<1> DEFINE j == [NoJob EXCEPT !.head = head, !.rows = rows]
<1>1. /\ j.store = <<>> /\ j.base = <<>> /\ j.at = <<>> /\ j.before = 0 /\ j.epoch = 0
      /\ j.fire = {} /\ j.held = {} /\ j.rows = rows
  BY DEF NoJob
<1>2. /\ SetJob(p, j) /\ Goto(p, "load") /\ rows' = rows /\ store' = store /\ shaky' = shaky
      /\ world' = world
  BY DEF Start
<1> HIDE DEF j
<1>3. Moves(p, "load", j)
  BY <1>2, Parts, Moving
<1> QED BY <1>1, <1>2, <1>3, FreshStep

LEMMA WaveStartW == ASSUME IInv, WInv, NEW w \in Wavers, NEW x \in Near, WaveStart(w, x) PROVE WInv'
<1> DEFINE j == [NoJob EXCEPT !.todo = {x}]
<1>1. /\ j.store = <<>> /\ j.base = <<>> /\ j.at = <<>> /\ j.before = 0 /\ j.epoch = 0
      /\ j.fire = {} /\ j.held = {} /\ j.rows = <<>>
  BY DEF NoJob
<1>2. /\ SetJob(w, j) /\ Goto(w, "lock") /\ rows' = rows /\ store' = store /\ shaky' = shaky
      /\ world' = world /\ w \in Procs
  BY DEF WaveStart, Procs
<1> HIDE DEF j
<1>3. Moves(w, "lock", j)
  BY <1>2, Parts, Moving
<1> QED BY <1>1, <1>2, <1>3, FreshStep

LEMMA ReturnW ==
  ASSUME IInv, WInv, NEW p \in Procs, Return(p), world' = world, rows' = rows, store' = store,
         shaky \subseteq shaky'
  PROVE  WInv'
<1>1. Moves(p, "idle", NoJob)
  BY Parts, Returning
<1> QED BY <1>1, NoJobOK, FreshStep

\* head_moved_epoch: the epoch it returns and the store it leaves
Known(S, h) == heads[h].body # NoBody /\ h \in DOMAIN S /\ S[h].body = heads[h].body
Me(j, h) == MovedEpoch(j.store, h, heads[h].body, j.epoch)
Stored(j, h) == IF Known(j.store, h) THEN j.store ELSE Remember(j.store, h, heads[h].body, Me(j, h))

IsStored(j, h, S) ==
  /\ Known(j.store, h) => S = j.store /\ Me(j, h) = j.store[h].me
  /\ heads[h].body = NoBody => S = j.store /\ Me(j, h) = j.epoch
  /\ ~Known(j.store, h) => Me(j, h) = j.epoch
  /\ ~Known(j.store, h) /\ heads[h].body # NoBody =>
       DOMAIN S = DOMAIN j.store \cup {h} /\ S[h] = [body |-> heads[h].body, me |-> Me(j, h)]
  /\ \A g : g # h => (g \in DOMAIN S <=> g \in DOMAIN j.store) /\ (g \in DOMAIN S => S[g] = j.store[g])
LEMMA StoredFacts == ASSUME NEW j, NEW h, NEW S, S = Stored(j, h) PROVE IsStored(j, h, S)
BY DEF IsStored, Stored, Known, Me, MovedEpoch, Remember, Put

LEMMA Reading ==
  ASSUME WInv, NEW j, StoreOK(j.store), AtOK(j), NEW h \in Heads, Of(j.at, h), world' = world,
         shaky' = shaky \cup (IF writes[h] # j.before THEN {h} ELSE {}), NEW S, S = Stored(j, h)
  PROVE  /\ Me(j, h) \in Nat /\ StoreOK(S)'
         /\ h \notin shaky' /\ heads[h].body # NoBody => Me(j, h) >= moved[h]
         /\ h \notin shaky' /\ heads[h].body = NoBody => Me(j, h) = 0 /\ j.at = <<h>>
<1>1. heads' = heads /\ had' = had /\ moved' = moved /\ WorldOK
  BY WParts DEF world
<1>2. j.epoch \in Nat /\ moved[h] \in Nat
  BY <1>1 DEF AtOK, WorldOK
<1>0. IsStored(j, h, S)
  BY StoredFacts
<1>3. /\ Known(j.store, h) => Me(j, h) = j.store[h].me
      /\ ~Known(j.store, h) => Me(j, h) = j.epoch
  BY <1>0 DEF IsStored
<1>4. Me(j, h) \in Nat
  BY <1>2, <1>3 DEF Known, StoreOK
<1>5. h \notin shaky' => h \notin shaky /\ j.before = writes[h]
  OBVIOUS
<1>6. h \notin shaky' =>
        /\ j.epoch = IF heads[h].body = NoBody THEN 0 ELSE Epoch(h)
        /\ heads[h].body = NoBody => j.at = <<h>>
  BY <1>5 DEF AtOK
<1>7. Epoch(h) >= moved[h]
  <2>1. moved[h] <= 0 \/ (heads[h].stamp \in Nat /\ heads[h].stamp >= moved[h])
    BY <1>1, <1>2 DEF WorldOK
  <2>2. heads[h].stamp # NoStamp => Epoch(h) = heads[h].stamp /\ heads[h].stamp \in Nat
    BY <1>1 DEF WorldOK, Epoch
  <2>3. heads[h].stamp = NoStamp => Epoch(h) \in Nat /\ moved[h] <= 0
    BY <1>1, <2>1, XrefAssumption DEF WorldOK, Epoch
  <2> QED BY <1>2, <2>1, <2>2, <2>3
<1>8. h \notin shaky' /\ heads[h].body # NoBody => Me(j, h) >= moved[h]
  <2>1. CASE Known(j.store, h)
    BY <1>3, <1>5, <2>1 DEF Known, StoreOK
  <2>2. CASE ~Known(j.store, h)
    BY <1>3, <1>6, <1>7, <2>2
  <2> QED BY <2>1, <2>2
<1>9. StoreOK(j.store)'
  BY <1>1, StoreMono
<1>10. StoreOK(S)'
  <2>1. CASE Known(j.store, h) \/ heads[h].body = NoBody
    <3>1. S = j.store
      BY <1>0, <2>1 DEF IsStored
    <3> QED BY <1>9, <3>1
  <2>2. CASE ~Known(j.store, h) /\ heads[h].body # NoBody
    <3>1. DOMAIN S = DOMAIN j.store \cup {h} /\ S[h] = [body |-> heads[h].body, me |-> Me(j, h)]
      BY <1>0, <2>2 DEF IsStored
    <3>2. \A g \in DOMAIN S : g # h => g \in DOMAIN j.store /\ S[g] = j.store[g]
      BY <1>0 DEF IsStored
    <3>3. S[h].body = heads[h].body /\ S[h].me = Me(j, h)
      BY <3>1
    <3>4. heads[h].body \in had[h]
      BY <1>1 DEF WorldOK
    <3>5. S[h] = [body |-> S[h].body, me |-> S[h].me]
      BY <3>1, <3>3
    <3> SUFFICES ASSUME NEW g \in DOMAIN S
                 PROVE  /\ g \in Heads /\ S[g] = [body |-> S[g].body, me |-> S[g].me]
                        /\ S[g].me \in Nat /\ S[g].body # NoBody /\ S[g].body \in had'[g]
                        /\ S[g].body = heads'[g].body /\ g \notin shaky' => S[g].me >= moved'[g]
      BY DEF StoreOK
    <3>6. CASE g = h
      BY <1>1, <1>4, <1>8, <2>2, <3>3, <3>4, <3>5, <3>6
    <3>7. CASE g # h
      BY <1>9, <3>2, <3>7 DEF StoreOK
    <3> QED BY <3>6, <3>7
  <2> QED BY <2>1, <2>2
<1>11. h \notin shaky' /\ heads[h].body = NoBody => Me(j, h) = 0 /\ j.at = <<h>>
  BY <1>0, <1>6 DEF IsStored
<1> QED BY <1>4, <1>8, <1>10, <1>11

\* an entry that a current row relies on is known already
LEMMA SaysStored ==
  ASSUME NEW R, NEW j, NEW h, NEW S, S = Stored(j, h), Says(R, j.store), StoreOK(j.store)
  PROVE  Says(R, S)
<1> SUFFICES ASSUME NEW x \in DOMAIN R, Current(R, x), x[2] \notin shaky
             PROVE  x[2] \in DOMAIN S /\ S[x[2]].body = heads[x[2]].body /\ S[x[2]].me = R[x].t
  BY DEF Says
<1>1. x[2] \in DOMAIN j.store /\ j.store[x[2]].body = heads[x[2]].body /\ j.store[x[2]].me = R[x].t
  BY DEF Says
<1>0. IsStored(j, h, S)
  BY StoredFacts
<1>2. CASE x[2] = h
  <2>1. Known(j.store, h)
    BY <1>1, <1>2 DEF Known, StoreOK
  <2> QED BY <1>0, <1>1, <1>2, <2>1 DEF IsStored
<1>3. CASE x[2] # h
  BY <1>0, <1>1, <1>3 DEF IsStored
<1> QED BY <1>2, <1>3

\* a store taken for an empty one makes its HEADs shaky
LEMMA ReadFacts ==
  ASSUME WInv, NEW seen, NEW R, NEW S, Reads(seen, R, S), RowsOK(seen), Whole(seen), Says(seen, store),
         heads' = heads, ver' = ver, had' = had, moved' = moved, store' = store
  PROVE  /\ shaky \subseteq shaky' /\ RowsOK(R) /\ Whole(R) /\ R \in {seen, <<>>}
         /\ StoreOK(S) /\ Says(R, S)' /\ Says(R, store)'
         /\ S # store => DOMAIN S = {}
<1>1. /\ shaky \subseteq shaky' /\ R \in {seen, <<>>} /\ S \in {store, <<>>}
      /\ S # store => DOMAIN store \subseteq shaky'
  BY DEF Reads
<1>2. RowsOK(R) /\ Whole(R) /\ Says(R, store)
  BY <1>1, NoRows DEF Says
<1>3. StoreOK(S) /\ (S # store => DOMAIN S = {})
  BY <1>1, WParts DEF StoreOK
<1>4. \A x \in DOMAIN R : Current(R, x) /\ x[2] \notin shaky' =>
        /\ x[2] \in DOMAIN store /\ store[x[2]].body = heads[x[2]].body /\ store[x[2]].me = R[x].t
        /\ S = store
  BY <1>1, <1>2 DEF Says
<1>5. Says(R, S)'
  BY <1>4 DEF Says, Current
<1>6. Says(R, store)'
  BY <1>4 DEF Says, Current
<1> QED BY <1>1, <1>2, <1>3, <1>5, <1>6

\* the fields of a job that a step changes
LEMMA LoadW == ASSUME IInv, WInv, NEW p \in Procs, LoadStore(p) PROVE WInv'
<1> PICK R, S : /\ Reads(job[p].rows, R, S)
                /\ SetJob(p, [job[p] EXCEPT !.rows = R, !.store = S, !.base = S,
                                            !.todo = {x[2] : x \in Tracked}])
  BY DEF LoadStore
<1> PICK todo : todo = {x[2] : x \in Tracked}
  OBVIOUS
<1> PICK j : j = [job[p] EXCEPT !.rows = R, !.store = S, !.base = S, !.todo = todo]
  OBVIOUS
<1>1. IsJob(job[p]) /\ ProcOK("load", job[p])
  BY Parts, WParts DEF LoadStore
<1>2. /\ j.store = S /\ j.base = S /\ j.todo = todo /\ j.rows = R
      /\ j.at = job[p].at /\ j.before = job[p].before /\ j.epoch = job[p].epoch
      /\ j.fire = job[p].fire /\ j.held = job[p].held
  BY <1>1 DEF IsJob, Fields
<1>3. /\ SetJob(p, j) /\ Goto(p, "judge") /\ rows' = rows /\ store' = store
      /\ world' = world /\ pc[p] = "load"
  BY DEF LoadStore
<1>4. Moves(p, "judge", j)
  BY <1>3, Parts, Moving
<1>5. j.todo \subseteq Heads
  BY <1>2, XrefAssumption DEF Tracked
<1>6. /\ heads' = heads /\ ver' = ver /\ had' = had /\ moved' = moved /\ writes' = writes
  BY <1>3 DEF world
<1>7. /\ RowsOK(job[p].rows) /\ Whole(job[p].rows) /\ Says(job[p].rows, store) /\ AtOK(job[p])
      /\ job[p].fire = {} /\ job[p].held = {}
  BY <1>1 DEF ProcOK
<1>8. /\ shaky \subseteq shaky' /\ RowsOK(R) /\ Whole(R) /\ R \in {job[p].rows, <<>>}
      /\ StoreOK(S) /\ Says(R, S)' /\ Says(R, store)'
  BY <1>3, <1>6, <1>7, ReadFacts
<1>9. RowsOK(R)' /\ Whole(R)' /\ StoreOK(S)'
  BY <1>6, <1>8, StoreMono DEF RowsOK, Whole
<1>10. AtOK(j)' /\ Quiet(j)' /\ Fires(j)' /\ KeepsBase(j)'
  BY <1>2, <1>6, <1>7 DEF AtOK, Epoch, Quiet, Fires, KeepsBase
<1>11. ProcOK("judge", j)'
  BY <1>2, <1>5, <1>8, <1>9, <1>10 DEF ProcOK
<1> QED BY <1>2, <1>3, <1>4, <1>8, <1>11, PlainStep

LEMMA StampFacts ==
  ASSUME WInv, NEW h \in Heads, NEW x, x = <<h>> \/ (heads[h].body # NoBody /\ \E m \in Memories : x = <<m, h>>),
         NEW j, j.at = x, j.before = writes[h], j.epoch = IF heads[h].body = NoBody THEN 0 ELSE Epoch(h)
  PROVE  AtOK(j)
<1>1. WorldOK
  BY WParts
<1>2. j.before \in Nat /\ j.epoch \in Nat
  BY <1>1 DEF WorldOK, Epoch
<1>3. \A g : Of(j.at, g) => g = h
  BY OfOne, OfTwo
<1> QED BY <1>2, <1>3 DEF AtOK, WorldOK

LEMMA JudgeStampW == ASSUME IInv, WInv, NEW p \in Procs, NEW h \in job[p].todo, JudgeStamp(p, h) PROVE WInv'
<1> PICK e : e = IF heads[h].body = NoBody THEN 0 ELSE Epoch(h)
  OBVIOUS
<1> PICK j : j = [job[p] EXCEPT !.at = <<h>>, !.before = writes[h], !.epoch = e]
  OBVIOUS
<1>1. IsJob(job[p]) /\ ProcOK("judge", job[p]) /\ h \in Heads
  BY Parts, WParts DEF JudgeStamp, ProcOK
<1>2. /\ j.store = job[p].store /\ j.base = job[p].base /\ j.todo = job[p].todo /\ j.rows = job[p].rows
      /\ j.at = <<h>> /\ j.before = writes[h] /\ j.epoch = e
      /\ j.fire = job[p].fire /\ j.held = job[p].held
  BY <1>1 DEF IsJob, Fields
<1>3. /\ SetJob(p, j) /\ pc' = pc /\ pc[p] = "judge" /\ rows' = rows /\ store' = store /\ shaky' = shaky
      /\ world' = world
  BY DEF JudgeStamp, ReadStamp
<1>4. Moves(p, "judge", j)
  BY <1>3, Parts, Moving
<1>5. AtOK(j)
  BY <1>1, <1>2, StampFacts
<1>6. ProcOK("judge", j)
  BY <1>1, <1>2, <1>5 DEF ProcOK, Quiet, Fires, KeepsBase
<1>7. Says(j.rows, store)'
  BY <1>3, <1>6 DEF ProcOK, Says, Current, world
<1>8. ProcOK("judge", j)'
  BY <1>3, <1>6, <1>7, ProcMono DEF world
<1> QED BY <1>2, <1>3, <1>4, <1>8, PlainStep

LEMMA WaveStampW == ASSUME IInv, WInv, NEW w \in Wavers, NEW x \in job[w].todo, WaveStamp(w, x) PROVE WInv'
<1> PICK e : e = IF heads[x[2]].body = NoBody THEN 0 ELSE Epoch(x[2])
  OBVIOUS
<1> PICK j : j = [job[w] EXCEPT !.at = x, !.before = writes[x[2]], !.epoch = e]
  OBVIOUS
<1>1. IsJob(job[w]) /\ ProcOK("wave", job[w]) /\ x \in Near /\ w \in Procs /\ Holds(job[w])
  BY Parts, WParts DEF WaveStamp, Pending, ProcOK, PairsInv, Procs
<1>2. /\ j.store = job[w].store /\ j.base = job[w].base /\ j.todo = job[w].todo /\ j.rows = job[w].rows
      /\ j.at = x /\ j.before = writes[x[2]] /\ j.epoch = e
      /\ j.fire = job[w].fire /\ j.held = job[w].held
  BY <1>1 DEF IsJob, Fields
<1>3. /\ SetJob(w, j) /\ pc' = pc /\ pc[w] = "wave" /\ rows' = rows /\ store' = store /\ shaky' = shaky
      /\ world' = world /\ heads[x[2]].body # NoBody
  BY DEF WaveStamp, ReadStamp, Pending
<1>4. Moves(w, "wave", j)
  BY <1>1, <1>3, Parts, Moving
<1>5. AtOK(j)
  <2>1. x[2] \in Heads /\ \E m \in Memories : x = <<m, x[2]>>
    BY <1>1, XrefAssumption
  <2> QED BY <1>2, <1>3, <2>1, StampFacts
<1>6. ProcOK("wave", j)
  BY <1>1, <1>2, <1>5 DEF ProcOK, Quiet, Fires
<1>7. ProcOK("wave", j)'
  BY <1>3, <1>6, ProcMono DEF world
<1>8. \A h \in DOMAIN j.base :
        Anchored(h) /\ h \notin shaky' /\ j.base[h] = store[h] => h \in DOMAIN j.store /\ j.store[h] = j.base[h]
  BY <1>1, <1>2, AnchoredKnown DEF Holds
<1> QED BY <1>1, <1>3, <1>4, <1>7, <1>8, PlainStep

\* the pairs of h: they fire, or are held by the row of an earlier wave-off
LEMMA JudgementParts ==
  ASSUME NEW j, IsJob(j), NEW h, NEW k, k = Judgement(j, h)
  PROVE  /\ k.todo = j.todo \ {h} /\ k.at = <<>> /\ k.store = Stored(j, h)
         /\ k.rows = j.rows /\ k.base = j.base /\ k.before = j.before /\ k.epoch = j.epoch
         /\ \A f \in k.fire : f \in j.fire \/ (/\ f[1] \in Near /\ f[1][2] = h /\ f[2] = ver[h]
              /\ ~(f[1] \in DOMAIN j.rows /\ StillQuiet(j.rows[f[1]], Me(j, h))))
         /\ \A f \in k.held : f \in j.held \/ (/\ f[1] \in Near /\ f[1][2] = h /\ f[2] = ver[h]
              /\ mems[f[1][1]] # 0 /\ ~(Me(j, h) - mems[f[1][1]] < Gate)
              /\ f[1] \in DOMAIN j.rows /\ StillQuiet(j.rows[f[1]], Me(j, h)))
<1> DEFINE body == heads[h].body
           known == body # NoBody /\ h \in DOMAIN j.store /\ j.store[h].body = body
           me == MovedEpoch(j.store, h, body, j.epoch)
           tracked == {x \in Near : x[2] = h /\ x[1] \notin Generic /\ mems[x[1]] # 0}
           gated(x) == me - mems[x[1]] < Gate
           waved(x) == x \in DOMAIN j.rows /\ StillQuiet(j.rows[x], me)
           facts(X) == {<<x, ver[h]>> : x \in X}
           store1 == IF known THEN j.store ELSE Remember(j.store, h, body, me)
           dirty == j.dirty \/ (~known /\ body # NoBody)
           fire == j.fire \cup facts({x \in tracked : ~gated(x) /\ ~waved(x)})
           held == j.held \cup facts({x \in tracked : ~gated(x) /\ waved(x)})
<1>1. k = [j EXCEPT !.todo = j.todo \ {h}, !.at = <<>>, !.store = store1, !.dirty = dirty,
                    !.fire = fire, !.held = held]
  BY DEF Judgement
<1>2. store1 = Stored(j, h) /\ me = Me(j, h)
  BY DEF Stored, Known, Me
<1>3. \A f \in fire : f \in j.fire \/ (/\ f[1] \in Near /\ f[1][2] = h /\ f[2] = ver[h]
              /\ ~(f[1] \in DOMAIN j.rows /\ StillQuiet(j.rows[f[1]], me)))
  OBVIOUS
<1>4. \A f \in held : f \in j.held \/ (/\ f[1] \in Near /\ f[1][2] = h /\ f[2] = ver[h]
              /\ mems[f[1][1]] # 0 /\ ~(me - mems[f[1][1]] < Gate)
              /\ f[1] \in DOMAIN j.rows /\ StillQuiet(j.rows[f[1]], me))
  OBVIOUS
<1> HIDE DEF store1, dirty, fire, held
<1>5. /\ k.todo = j.todo \ {h} /\ k.at = <<>> /\ k.store = store1
      /\ k.rows = j.rows /\ k.base = j.base /\ k.before = j.before /\ k.epoch = j.epoch
      /\ k.fire = fire /\ k.held = held
  BY <1>1 DEF IsJob, Fields
<1> HIDE DEF me
<1> QED BY <1>2, <1>3, <1>4, <1>5

\* the heart of it: a current row holds its pair, and one of older content does not
LEMMA JudgeHashW == ASSUME IInv, WInv, NEW p \in Procs, NEW h \in job[p].todo, JudgeHash(p, h) PROVE WInv'
<1> PICK j : j = job[p]
  OBVIOUS
<1> PICK k : k = Judgement(j, h)
  OBVIOUS
<1> PICK S : S = Stored(j, h)
  OBVIOUS
<1>1. IsJob(j) /\ ProcOK("judge", j) /\ h \in Heads /\ j.at = <<h>>
  BY Parts, WParts DEF JudgeHash, ProcOK
<1>2. /\ SetJob(p, k) /\ pc' = pc /\ pc[p] = "judge" /\ rows' = rows /\ store' = store
      /\ shaky' = shaky \cup (IF writes[h] # j.before THEN {h} ELSE {})
      /\ world' = world
  BY DEF JudgeHash, Torn
<1>3. Moves(p, "judge", k)
  BY <1>2, Parts, Moving
<1>4. /\ StoreOK(j.store) /\ StoreOK(j.base) /\ RowsOK(j.rows) /\ Whole(j.rows) /\ AtOK(j)
      /\ Quiet(j) /\ Fires(j) /\ j.todo \subseteq Heads /\ Says(j.rows, store) /\ Says(j.rows, j.store)
      /\ KeepsBase(j)
  BY <1>1 DEF ProcOK
<1>5. /\ k.todo = j.todo \ {h} /\ k.at = <<>> /\ k.store = S
      /\ k.rows = j.rows /\ k.base = j.base /\ k.before = j.before /\ k.epoch = j.epoch
      /\ \A f \in k.fire : f \in j.fire \/ (/\ f[1] \in Near /\ f[1][2] = h /\ f[2] = ver[h]
           /\ ~(f[1] \in DOMAIN j.rows /\ StillQuiet(j.rows[f[1]], Me(j, h))))
      /\ \A f \in k.held : f \in j.held \/ (/\ f[1] \in Near /\ f[1][2] = h /\ f[2] = ver[h]
           /\ mems[f[1][1]] # 0 /\ ~(Me(j, h) - mems[f[1][1]] < Gate)
           /\ f[1] \in DOMAIN j.rows /\ StillQuiet(j.rows[f[1]], Me(j, h)))
  BY <1>1, JudgementParts
<1>6. IsStored(j, h, S) /\ Of(j.at, h)
  BY <1>1, StoredFacts DEF Of
<1>7. /\ Me(j, h) \in Nat /\ StoreOK(S)'
      /\ h \notin shaky' /\ heads[h].body # NoBody => Me(j, h) >= moved[h]
      /\ h \notin shaky' /\ heads[h].body = NoBody => Me(j, h) = 0 /\ j.at = <<h>>
  BY <1>1, <1>2, <1>4, <1>6, Reading
<1>8. /\ heads' = heads /\ mems' = mems /\ ver' = ver /\ had' = had /\ moved' = moved /\ writes' = writes
      /\ shaky \subseteq shaky' /\ WorldOK
  BY <1>2, WParts DEF world
<1>9. Quiet(k)'
  <2> SUFFICES ASSUME NEW f \in k.fire, NEW x, x = f[1], x \in DOMAIN j.rows, ~j.rows[x].day, j.rows[x].whole,
                      j.rows[x].ver = f[2], x[2] \notin shaky'
               PROVE  FALSE
    BY <1>5 DEF Quiet
  <2>1. f \notin j.fire
    BY <1>4, <1>8 DEF Quiet
  <2>2. x[2] = h /\ f[2] = ver[h] /\ ~StillQuiet(j.rows[x], Me(j, h))
    BY <1>5, <2>1
  <2>3. Current(j.rows, x) /\ h \notin shaky
    BY <1>8, <2>2 DEF Current
  <2>4. h \in DOMAIN j.store /\ j.store[h].body = heads[h].body /\ j.store[h].me = j.rows[x].t
    BY <1>4, <2>2, <2>3 DEF Says
  <2>5. Me(j, h) = j.rows[x].t
    <3>1. Known(j.store, h)
      BY <1>4, <2>4 DEF Known, StoreOK
    <3> QED BY <1>6, <2>4, <3>1 DEF IsStored
  <2> QED BY <1>7, <2>2, <2>5 DEF StillQuiet
<1>10. Fires(k)'
  <2> SUFFICES ASSUME NEW f \in k.held, NEW x, x = f[1]
               PROVE  /\ x \in DOMAIN k.rows /\ f[2] <= ver'[x[2]] /\ f[2] \in Nat
                      /\ ~k.rows[x].day /\ ver'[x[2]] = f[2] /\ moved'[x[2]] > k.rows[x].t => x[2] \in shaky'
    BY DEF Fires
  <2>1. CASE f \in j.held
    BY <1>4, <1>5, <1>8, <2>1 DEF Fires
  <2>2. CASE f \notin j.held
    <3>1. /\ x \in Near /\ x[2] = h /\ f[2] = ver[h] /\ mems[x[1]] # 0 /\ ~(Me(j, h) - mems[x[1]] < Gate)
          /\ x \in DOMAIN j.rows /\ StillQuiet(j.rows[x], Me(j, h))
      BY <1>5, <2>2
    <3>2. ver[h] \in Nat /\ moved[h] \in Nat /\ mems[x[1]] \in Nat
      BY <1>1, <1>8, <3>1, XrefAssumption DEF WorldOK
    <3>3. ASSUME ~j.rows[x].day, moved[h] > j.rows[x].t, h \notin shaky' PROVE FALSE
      <4>1. j.rows[x].t >= Me(j, h) /\ j.rows[x].t \in Nat
        BY <1>4, <3>1, <3>3 DEF StillQuiet, Whole
      <4>2. CASE heads[h].body = NoBody
        BY <1>7, <3>1, <3>2, <3>3, <4>2, XrefAssumption
      <4>3. CASE heads[h].body # NoBody
        BY <1>7, <3>2, <3>3, <4>1, <4>3
      <4> QED BY <4>2, <4>3
    <3> QED BY <1>5, <1>8, <3>1, <3>2, <3>3
  <2> QED BY <2>1, <2>2
<1>11. KeepsBase(k)
  <2> SUFFICES ASSUME NEW g \in DOMAIN j.base
               PROVE  /\ g \in DOMAIN S
                      /\ S[g] = j.base[g] \/ S[g].body # j.base[g].body
                      /\ g \in j.todo \ {h} => S[g] = j.base[g]
    BY <1>5 DEF KeepsBase
  <2>1. /\ g \in DOMAIN j.store /\ (j.store[g] = j.base[g] \/ j.store[g].body # j.base[g].body)
        /\ g \in j.todo => j.store[g] = j.base[g]
    BY <1>4 DEF KeepsBase
  <2>2. CASE g # h
    BY <1>6, <2>1, <2>2 DEF IsStored
  <2>3. CASE g = h /\ (Known(j.store, h) \/ heads[h].body = NoBody)
    BY <1>6, <2>1, <2>3 DEF IsStored
  <2>4. CASE g = h /\ ~Known(j.store, h) /\ heads[h].body # NoBody
    <3>1. h \in DOMAIN S /\ S[h].body = heads[h].body
      BY <1>6, <2>4 DEF IsStored
    <3>2. j.base[h].body # heads[h].body
      BY <2>1, <2>4 DEF Known
    <3> QED BY <2>4, <3>1, <3>2
  <2> QED BY <2>2, <2>3, <2>4
<1>12. Says(k.rows, k.store)' /\ Says(k.rows, store)'
  <2>1. Says(k.rows, S)
    BY <1>4, <1>5, SaysStored
  <2>2. Says(k.rows, S)'
    BY <1>8, <2>1, SaysMono
  <2> QED BY <1>2, <1>4, <1>5, <1>8, <2>2 DEF Says, Current
<1>13. StoreOK(k.store)' /\ StoreOK(k.base)' /\ RowsOK(k.rows)' /\ Whole(k.rows)' /\ AtOK(k)'
  <2>1. AtOK(k)'
    BY <1>4, <1>5, OfNone DEF AtOK
  <2>2. StoreOK(k.base)'
    BY <1>4, <1>5, <1>8, StoreMono
  <2> QED BY <1>4, <1>5, <1>7, <1>8, <2>1, <2>2 DEF RowsOK, Whole
<1>14. KeepsBase(k)'
  BY <1>11 DEF KeepsBase
<1>15. ProcOK("judge", k)'
  BY <1>4, <1>5, <1>9, <1>10, <1>12, <1>13, <1>14 DEF ProcOK
<1> QED BY <1>2, <1>3, <1>5, <1>8, <1>15, PlainStep

\* who saves the store leaves the anchored entries as they are
LEMMA SaveFacts ==
  ASSUME IInv, WInv, NEW p \in Procs, pc[p] \in {"judge", "wave", "stored"}, SaveStore(p, job[p].store),
         world' = world
  PROVE  /\ shaky \subseteq shaky' /\ StoreOK(store)'
         /\ \A h \in DOMAIN store' : Round(store'[h].me) = store'[h].me
         /\ \A h : Anchored(h) /\ h \notin shaky' => h \in DOMAIN store' /\ store'[h] = store[h]
         /\ DOMAIN store' = DOMAIN job[p].store
         /\ \A h \in DOMAIN store' : /\ store'[h].body = job[p].store[h].body
                                     /\ store'[h].me = Round(job[p].store[h].me)
<1> PICK st, base : st = job[p].store /\ base = job[p].base
  OBVIOUS
<1>1. /\ StoreOK(st) /\ StoreOK(base) /\ (pc[p] = "judge" => KeepsBase(job[p]))
      /\ pc[p] \in {"wave", "stored"} => Holds(job[p])
  BY WParts DEF ProcOK
<1>2. /\ heads' = heads /\ had' = had /\ moved' = moved /\ WorldOK
  BY WParts DEF world
<1>3. /\ store' = [h \in DOMAIN st |-> [st[h] EXCEPT !.me = Round(@)]]
      /\ shaky \subseteq shaky'
      /\ \A h \in DOMAIN store : (h \notin DOMAIN store' \/ store'[h] # store[h])
           /\ (~(h \in DOMAIN base /\ base[h] = store[h]) \/ ~(h \in DOMAIN st /\ st[h].body = heads[h].body))
              => h \in shaky'
  BY DEF SaveStore
<1>4. ASSUME NEW h \in DOMAIN st
      PROVE  /\ h \in DOMAIN store' /\ store'[h] = [body |-> st[h].body, me |-> Round(st[h].me)]
             /\ st[h].me \in Nat
             /\ store'[h].body = st[h].body /\ store'[h].me = Round(st[h].me)
  <2>1. st[h] = [body |-> st[h].body, me |-> st[h].me] /\ st[h].me \in Nat
    BY <1>1 DEF StoreOK
  <2>2. h \in DOMAIN store' /\ store'[h] = [body |-> st[h].body, me |-> Round(st[h].me)]
    BY <1>3, <2>1
  <2>3. store'[h].body = st[h].body /\ store'[h].me = Round(st[h].me)
    BY <2>2
  <2> QED BY <2>1, <2>2, <2>3
<1>5. \A h \in DOMAIN st : store'[h].body = st[h].body /\ store'[h].me = Round(st[h].me) /\ st[h].me \in Nat
  BY <1>4
<1>6. DOMAIN store' = DOMAIN st
  BY <1>3
<1>7. ASSUME NEW h \in DOMAIN store' PROVE Round(store'[h].me) = store'[h].me
  <2>1. store'[h].me = Round(st[h].me) /\ st[h].me \in Nat
    BY <1>5, <1>6, <1>7
  <2> QED BY <2>1, Rounding
<1>8. StoreOK(store)'
  <2> SUFFICES ASSUME NEW h \in DOMAIN store'
               PROVE  /\ h \in Heads /\ store'[h] = [body |-> store'[h].body, me |-> store'[h].me]
                      /\ store'[h].me \in Nat /\ store'[h].body # NoBody /\ store'[h].body \in had'[h]
                      /\ store'[h].body = heads'[h].body /\ h \notin shaky' => store'[h].me >= moved'[h]
    BY DEF StoreOK
  <2>1. /\ h \in Heads /\ st[h].me \in Nat /\ st[h].body # NoBody /\ st[h].body \in had[h]
        /\ st[h].body = heads[h].body /\ h \notin shaky => st[h].me >= moved[h]
    BY <1>1, <1>6 DEF StoreOK
  <2>2. moved[h] \in Nat /\ moved[h] % Second = 0
    BY <1>2, <2>1 DEF WorldOK
  <2>3. Round(st[h].me) \in Nat /\ (st[h].me >= moved[h] => Round(st[h].me) >= moved[h])
    BY <2>1, <2>2, Rounding
  <2>4. store'[h] = [body |-> store'[h].body, me |-> store'[h].me]
    BY <1>4, <1>5, <1>6
  <2> QED BY <1>2, <1>3, <1>5, <1>6, <2>1, <2>3, <2>4
<1>9. ASSUME NEW h, Anchored(h), h \notin shaky' PROVE h \in DOMAIN store' /\ store'[h] = store[h]
  <2>1. h \in DOMAIN store /\ store[h].body = heads[h].body /\ h \in Heads
    BY <1>9, AnchoredKnown
  <2> SUFFICES ASSUME h \notin DOMAIN store' \/ store'[h] # store[h] PROVE FALSE
    OBVIOUS
  <2>2. h \in DOMAIN base /\ base[h] = store[h] /\ h \in DOMAIN st /\ st[h].body = heads[h].body
    BY <1>3, <1>9, <2>1
  <2>3. st[h] = base[h]
    <3>1. CASE pc[p] = "judge"
      BY <1>1, <2>1, <2>2, <3>1 DEF KeepsBase
    <3>2. CASE pc[p] \in {"wave", "stored"}
      BY <1>1, <1>9, <2>1, <2>2, <3>2 DEF Holds
    <3> QED BY <3>1, <3>2
  <2>4. Round(store[h].me) = store[h].me /\ store[h] = [body |-> store[h].body, me |-> store[h].me]
    BY <2>1, WParts DEF SavedOK, StoreOK
  <2>5. h \in DOMAIN store' /\ store'[h] = [body |-> st[h].body, me |-> Round(st[h].me)]
    BY <1>4, <2>2
  <2> QED BY <2>2, <2>3, <2>4, <2>5
<1>10. /\ DOMAIN store' = DOMAIN job[p].store
       /\ \A h \in DOMAIN store' : /\ store'[h].body = job[p].store[h].body
                                   /\ store'[h].me = Round(job[p].store[h].me)
  BY <1>5, <1>6
<1>11. shaky \subseteq shaky'
  BY <1>3
<1>12. \A h : Anchored(h) /\ h \notin shaky' => h \in DOMAIN store' /\ store'[h] = store[h]
  BY <1>9
<1>13. \A h \in DOMAIN store' : Round(store'[h].me) = store'[h].me
  BY <1>7
<1> QED BY <1>8, <1>10, <1>11, <1>12, <1>13

\* a check that ends, or goes on to wave off what fires
LEMMA ReportW ==
  ASSUME IInv, WInv, NEW p \in Procs, Report(p) \/ ReportUnsaved(p) PROVE WInv'
<1>1. /\ world' = world /\ rows' = rows /\ GoOn(p) /\ pc[p] = "judge"
      /\ SaveStore(p, job[p].store) \/ (store' = store /\ shaky' = shaky)
  BY DEF Report, ReportUnsaved, Judged
<1>2. PICK l, j :
        /\ l \in {"idle", "lock"} /\ Moves(p, l, j) /\ j.store = <<>> /\ j.base = <<>> /\ j.at = <<>> /\ j.before = 0 /\ j.epoch = 0
        /\ j.fire = {} /\ j.held = {} /\ j.rows = <<>>
  <2>1. CASE Return(p)
    BY <2>1, Parts, Returning, NoJobOK
  <2>2. CASE ~Return(p)
    <3> PICK pairs : pairs = {f[1] : f \in {g \in job[p].fire : g[1][2] = job[p].head}}
      OBVIOUS
    <3> PICK j : j = [NoJob EXCEPT !.head = job[p].head, !.todo = pairs]
      OBVIOUS
    <3>1. Goto(p, "lock") /\ SetJob(p, j)
      BY <1>1, <2>2 DEF GoOn
    <3>2. Moves(p, "lock", j)
      BY <3>1, Parts, Moving
    <3>3. /\ j.store = <<>> /\ j.base = <<>> /\ j.at = <<>> /\ j.before = 0 /\ j.epoch = 0
          /\ j.fire = {} /\ j.held = {} /\ j.rows = <<>>
      BY DEF NoJob
    <3> QED BY <3>2, <3>3
  <2> QED BY <2>1, <2>2
<1>3. CASE store' = store /\ shaky' = shaky
  BY <1>1, <1>2, <1>3, FreshStep
<1>4. CASE SaveStore(p, job[p].store)
  <2>1. /\ shaky \subseteq shaky' /\ StoreOK(store)'
        /\ \A h \in DOMAIN store' : Round(store'[h].me) = store'[h].me
        /\ \A h : Anchored(h) /\ h \notin shaky' => h \in DOMAIN store' /\ store'[h] = store[h]
    BY <1>1, <1>4, SaveFacts
  <2>2. ProcOK(l, j)
    BY <1>2, NoRows, FreshOK
  <2>3. ProcOK(l, j)'
    BY <1>1, <1>2, <2>1, <2>2, ProcMono DEF world
  <2> QED BY <1>1, <1>2, <2>1, <2>3, ProcStep
<1> QED BY <1>1, <1>3, <1>4

\* under the lock the store and the rows are read as they are, or as empty
LEMMA WaveLockW == ASSUME IInv, WInv, NEW w \in Wavers, WaveLock(w) PROVE WInv'
<1> PICK R, S : /\ Reads(rows, R, S)
                /\ SetJob(w, [job[w] EXCEPT !.store = S, !.base = S, !.rows = R, !.blind = R # rows])
  BY DEF WaveLock
<1> PICK blind : blind = (R # rows)
  OBVIOUS
<1> PICK j : j = [job[w] EXCEPT !.store = S, !.base = S, !.rows = R, !.blind = blind]
  OBVIOUS
<1>1. w \in Procs /\ IsJob(job[w]) /\ ProcOK("lock", job[w])
  BY Parts, WParts DEF WaveLock, Procs
<1>2. /\ j.store = S /\ j.base = S /\ j.rows = R /\ j.at = job[w].at
      /\ j.before = job[w].before /\ j.epoch = job[w].epoch /\ j.fire = job[w].fire /\ j.held = job[w].held
  BY <1>1 DEF IsJob, Fields
<1>3. /\ SetJob(w, j) /\ Goto(w, "wave") /\ world' = world /\ rows' = rows /\ store' = store
  BY DEF WaveLock
<1>4. Moves(w, "wave", j)
  BY <1>1, <1>3, Parts, Moving
<1>5. /\ heads' = heads /\ ver' = ver /\ had' = had /\ moved' = moved /\ writes' = writes
  BY <1>3 DEF world
<1>6. AtOK(job[w]) /\ job[w].fire = {} /\ job[w].held = {} /\ RowsOK(rows) /\ Whole(rows) /\ Says(rows, store)
  BY <1>1, Parts, WParts DEF ProcOK, SavedOK, RowsInv
<1>7. /\ shaky \subseteq shaky' /\ RowsOK(R) /\ Whole(R) /\ StoreOK(S) /\ Says(R, S)'
      /\ S # store => DOMAIN S = {}
  BY <1>3, <1>5, <1>6, ReadFacts
<1>8. RowsOK(R)' /\ Whole(R)' /\ StoreOK(S)'
  BY <1>5, <1>7, StoreMono DEF RowsOK, Whole
<1>9. AtOK(j)' /\ Quiet(j)' /\ Fires(j)' /\ j.fire = {} /\ j.held = {}
  BY <1>2, <1>5, <1>6 DEF AtOK, Epoch, Quiet, Fires
<1>10. ProcOK("wave", j)'
  BY <1>2, <1>7, <1>8, <1>9 DEF ProcOK
<1> QED BY <1>1, <1>2, <1>3, <1>4, <1>7, <1>10, PlainStep

\* the row says what the holder's store says
LEMMA WaveHashW == ASSUME IInv, WInv, NEW w \in Wavers, NEW x \in job[w].todo, WaveHash(w, x) PROVE WInv'
<1> PICK j, h : j = job[w] /\ h = x[2]
  OBVIOUS
<1> PICK S : S = Stored(j, h)
  OBVIOUS
<1> PICK row : row = [day |-> FALSE, t |-> Floor(Me(j, h)), whole |-> Me(j, h) % Second = 0, ver |-> ver[h]]
  OBVIOUS
<1>1. IsJob(j) /\ ProcOK("wave", j) /\ x \in Near /\ h \in Heads /\ w \in Procs /\ Holds(j) /\ j.at = x
  BY Parts, WParts, XrefAssumption DEF WaveHash, Pending, ProcOK, PairsInv, Procs
<1>2. PICK k : /\ SetJob(w, k) /\ k.todo = j.todo \ {x} /\ k.at = <<>> /\ k.store = S
               /\ k.rows = Put(j.rows, x, row) /\ k.base = j.base /\ k.before = j.before /\ k.epoch = j.epoch
               /\ k.fire = j.fire /\ k.held = j.held
  <2> DEFINE body == heads[h].body
             me == MovedEpoch(j.store, h, body, j.epoch)
             known == body # NoBody /\ h \in DOMAIN j.store /\ j.store[h].body = body
             dirty == j.dirty \/ (~known /\ body # NoBody)
             R == Put(j.rows, x, row)
             k == [j EXCEPT !.todo = j.todo \ {x}, !.at = <<>>, !.store = S, !.dirty = dirty, !.rows = R]
  <2>1. SetJob(w, k)
    BY DEF WaveHash, Stored, Known, Me
  <2> HIDE DEF dirty, R
  <2>2. /\ k.todo = j.todo \ {x} /\ k.at = <<>> /\ k.store = S
        /\ k.rows = R /\ k.base = j.base /\ k.before = j.before /\ k.epoch = j.epoch
        /\ k.fire = j.fire /\ k.held = j.held
    BY <1>1 DEF IsJob, Fields
  <2> HIDE DEF k
  <2> QED BY <2>1, <2>2 DEF R
<1>3. /\ pc' = pc /\ pc[w] = "wave" /\ rows' = rows /\ store' = store /\ world' = world
      /\ shaky' = shaky \cup (IF writes[h] # j.before THEN {h} ELSE {})
  BY DEF WaveHash, Pending, Torn
<1>4. Moves(w, "wave", k)
  BY <1>1, <1>2, <1>3, Parts, Moving
<1>5. /\ StoreOK(j.store) /\ StoreOK(j.base) /\ RowsOK(j.rows) /\ Whole(j.rows) /\ AtOK(j)
      /\ j.fire = {} /\ j.held = {} /\ Says(j.rows, j.store)
  BY <1>1 DEF ProcOK
<1>6. IsStored(j, h, S) /\ Of(j.at, h) /\ j.at # <<h>>
  BY <1>1, StoredFacts, XrefAssumption DEF Of
<1>7. /\ Me(j, h) \in Nat /\ StoreOK(S)'
      /\ h \notin shaky' => heads[h].body # NoBody
  BY <1>1, <1>3, <1>5, <1>6, Reading
<1>8. /\ heads' = heads /\ mems' = mems /\ ver' = ver /\ had' = had /\ moved' = moved /\ writes' = writes
      /\ shaky \subseteq shaky' /\ WorldOK
  BY <1>3, WParts DEF world
<1>9. /\ ~row.day /\ row.t = Floor(Me(j, h)) /\ row.ver = ver[h] /\ (row.whole => row.t = Me(j, h))
      /\ row.t \in Nat /\ Round(row.t) = row.t /\ row.ver \in Nat
  BY <1>1, <1>7, <1>8, Rounding DEF WorldOK
<1>10. DOMAIN k.rows = DOMAIN j.rows \cup {x} /\ k.rows[x] = row /\ \A y \in DOMAIN j.rows : y # x => k.rows[y] = j.rows[y]
  BY <1>2 DEF Put
<1>11. Says(k.rows, S)'
  <2>1. Says(j.rows, S)
    BY <1>5, SaysStored
  <2> SUFFICES ASSUME NEW y \in DOMAIN k.rows, Current(k.rows, y), y[2] \notin shaky'
               PROVE  y[2] \in DOMAIN S /\ S[y[2]].body = heads[y[2]].body /\ S[y[2]].me = k.rows[y].t
    BY <1>8 DEF Says, Current
  <2>2. CASE y # x
    BY <1>8, <1>10, <2>1, <2>2 DEF Says, Current
  <2>3. CASE y = x
    <3>1. heads[h].body # NoBody /\ row.t = Me(j, h)
      BY <1>7, <1>9, <1>10, <2>3 DEF Current
    <3>2. CASE Known(j.store, h)
      BY <1>6, <1>10, <2>3, <3>1, <3>2 DEF IsStored, Known
    <3>3. CASE ~Known(j.store, h)
      BY <1>6, <1>10, <2>3, <3>1, <3>3 DEF IsStored
    <3> QED BY <3>2, <3>3
  <2> QED BY <2>2, <2>3
<1>12. RowsOK(k.rows)' /\ Whole(k.rows)'
  <2>1. ver[h] \in Nat
    BY <1>9
  <2> QED BY <1>1, <1>5, <1>8, <1>9, <1>10, <2>1 DEF RowsOK, Whole
<1>13. StoreOK(k.store)' /\ StoreOK(k.base)' /\ AtOK(k)'
  <2>1. AtOK(k)'
    BY <1>2, <1>5, OfNone DEF AtOK
  <2>2. StoreOK(k.base)'
    BY <1>2, <1>5, <1>8, StoreMono
  <2> QED BY <1>2, <1>7, <2>1, <2>2
<1>14. Quiet(k)' /\ Fires(k)' /\ k.fire = {} /\ k.held = {}
  BY <1>2, <1>5 DEF Quiet, Fires
<1>15. Says(k.rows, k.store)'
  BY <1>2, <1>11
<1>16. ProcOK("wave", k)'
  BY <1>12, <1>13, <1>14, <1>15 DEF ProcOK
<1>17. ASSUME NEW g \in DOMAIN k.base, Anchored(g), k.base[g] = store[g]
       PROVE  g \in DOMAIN k.store /\ k.store[g] = k.base[g]
  <2>1. g \in DOMAIN store /\ store[g].body = heads[g].body
    BY <1>17, AnchoredKnown
  <2>2. g \in DOMAIN j.store /\ j.store[g] = j.base[g]
    BY <1>1, <1>2, <1>17, <2>1 DEF Holds
  <2>3. CASE g # h
    BY <1>2, <1>6, <2>2, <2>3 DEF IsStored
  <2>4. CASE g = h
    <3>1. Known(j.store, h)
      <4>1. j.store[h].body # NoBody
        BY <1>5, <2>2, <2>4 DEF StoreOK
      <4>2. j.store[h].body = heads[h].body
        BY <1>2, <1>17, <2>1, <2>2, <2>4
      <4> QED BY <2>2, <2>4, <4>1, <4>2 DEF Known
    <3> QED BY <1>2, <1>6, <2>2, <2>4, <3>1 DEF IsStored
  <2> QED BY <2>3, <2>4
<1> QED BY <1>1, <1>3, <1>4, <1>8, <1>16, <1>17, PlainStep

LEMMA WaveSaveStoreW == ASSUME IInv, WInv, NEW w \in Wavers, WaveSaveStore(w) PROVE WInv'
<1> PICK j : j = [job[w] EXCEPT !.dirty = FALSE, !.base = store', !.store = store']
  OBVIOUS
<1>1. w \in Procs /\ IsJob(job[w]) /\ ProcOK("wave", job[w])
  BY Parts, WParts DEF WaveSaveStore, Waved, Procs
<1>2. /\ j.store = store' /\ j.base = store' /\ j.rows = job[w].rows /\ j.at = job[w].at
      /\ j.before = job[w].before /\ j.epoch = job[w].epoch /\ j.fire = job[w].fire /\ j.held = job[w].held
  BY <1>1 DEF IsJob, Fields
<1>3. /\ SetJob(w, j) /\ pc' = pc /\ pc[w] = "wave" /\ world' = world /\ rows' = rows
      /\ SaveStore(w, job[w].store)
  BY DEF WaveSaveStore, Waved
<1>4. Moves(w, "wave", j)
  BY <1>1, <1>3, Parts, Moving
<1>5. /\ shaky \subseteq shaky' /\ StoreOK(store)'
      /\ \A h \in DOMAIN store' : Round(store'[h].me) = store'[h].me
      /\ \A h : Anchored(h) /\ h \notin shaky' => h \in DOMAIN store' /\ store'[h] = store[h]
      /\ DOMAIN store' = DOMAIN job[w].store
      /\ \A h \in DOMAIN store' : store'[h].body = job[w].store[h].body /\ store'[h].me = Round(job[w].store[h].me)
  BY <1>1, <1>3, SaveFacts
<1>6. heads' = heads /\ ver' = ver /\ had' = had /\ moved' = moved /\ writes' = writes
  BY <1>3 DEF world
<1>7. Says(j.rows, j.store)'
  <2> SUFFICES ASSUME NEW x \in DOMAIN j.rows, Current(j.rows, x), x[2] \notin shaky'
               PROVE  x[2] \in DOMAIN j.store /\ j.store[x[2]].body = heads[x[2]].body /\ j.store[x[2]].me = j.rows[x].t
    BY <1>6 DEF Says, Current
  <2>1. /\ x[2] \in DOMAIN job[w].store /\ job[w].store[x[2]].body = heads[x[2]].body
        /\ job[w].store[x[2]].me = j.rows[x].t
    BY <1>1, <1>2, <1>5 DEF ProcOK, Says, Current
  <2>2. Round(j.rows[x].t) = j.rows[x].t
    BY <1>1, <1>2 DEF ProcOK, Whole, Current
  <2> QED BY <1>2, <1>5, <2>1, <2>2
<1>8. StoreOK(j.store)' /\ StoreOK(j.base)'
  BY <1>2, <1>5 DEF StoreOK
<1>9. AtOK(j)' /\ RowsOK(j.rows)' /\ Whole(j.rows)' /\ j.fire = {} /\ j.held = {}
  BY <1>1, <1>2, <1>6 DEF ProcOK, AtOK, RowsOK, Whole, Epoch
<1>10. ProcOK("wave", j)'
  BY <1>7, <1>8, <1>9 DEF ProcOK, Quiet, Fires
<1> QED BY <1>1, <1>2, <1>3, <1>4, <1>5, <1>10, ProcStep

LEMMA WaveAllSaveStoreW == ASSUME IInv, WInv, NEW w \in Wavers, WaveAllSaveStore(w) PROVE WInv'
<1>1. /\ w \in Procs /\ pc[w] = "stored" /\ world' = world /\ rows' = rows /\ Return(w)
      /\ SaveStore(w, job[w].store)
  BY DEF WaveAllSaveStore, Procs
<1>2. Moves(w, "idle", NoJob)
  BY <1>1, Parts, Returning
<1>3. /\ shaky \subseteq shaky' /\ StoreOK(store)'
      /\ \A h \in DOMAIN store' : Round(store'[h].me) = store'[h].me
      /\ \A h : Anchored(h) /\ h \notin shaky' => h \in DOMAIN store' /\ store'[h] = store[h]
  BY <1>1, SaveFacts
<1>4. ProcOK("idle", NoJob)
  BY NoJobOK, NoRows, FreshOK
<1>5. ProcOK("idle", NoJob)'
  BY <1>1, <1>3, <1>4, ProcMono DEF world
<1> QED BY <1>1, <1>2, <1>3, <1>5, ProcStep

\* the rows that are saved are what the store says, but for the HEADs that become shaky
LEMMA SaveRowsW == ASSUME IInv, WInv, NEW w \in Wavers, WaveSaveRows(w) \/ WaveAllSaveRows(w) PROVE WInv'
<1> PICK i : i = job[w]
  OBVIOUS
<1>1. /\ w \in Procs /\ pc[w] = "wave" /\ world' = world /\ rows' = i.rows /\ store' = store
      /\ shaky' = shaky \cup {h \in DOMAIN i.store : h \notin DOMAIN store \/ store[h] # i.store[h]}
  BY DEF WaveSaveRows, WaveAllSaveRows, Waved, Ahead, Procs
<1>2. ProcOK("wave", i) /\ Holds(i) /\ RowsOK(i.rows) /\ Whole(i.rows) /\ Says(i.rows, i.store)
  BY <1>1, WParts DEF ProcOK
<1>3. PICK l, j : Moves(w, l, j) /\ ((l = "idle" /\ j = NoJob) \/ (l = "stored" /\ j = i))
  <2>1. CASE WaveAllSaveRows(w)
    BY <1>1, <2>1, Parts, Moving DEF WaveAllSaveRows
  <2>2. CASE WaveSaveRows(w)
    BY <1>1, <2>2, Parts, Returning DEF WaveSaveRows
  <2> QED BY <2>1, <2>2
<1>4. /\ heads' = heads /\ mems' = mems /\ clock' = clock /\ ver' = ver /\ had' = had /\ moved' = moved
      /\ writes' = writes /\ shaky \subseteq shaky'
  BY <1>1 DEF world
<1>6. ASSUME NEW x \in DOMAIN i.rows, Current(i.rows, x), x[2] \notin shaky'
      PROVE  /\ x[2] \in DOMAIN store /\ x[2] \in DOMAIN i.store /\ store[x[2]] = i.store[x[2]]
             /\ store[x[2]].body = heads[x[2]].body /\ store[x[2]].me = i.rows[x].t
  <2>1. x[2] \in DOMAIN i.store /\ i.store[x[2]].body = heads[x[2]].body /\ i.store[x[2]].me = i.rows[x].t
    BY <1>2, <1>4, <1>6 DEF Says
  <2>2. x[2] \in DOMAIN store /\ store[x[2]] = i.store[x[2]]
    BY <1>1, <1>6, <2>1
  <2> QED BY <2>1, <2>2
<1>7. SavedOK' /\ WorldOK'
  <2>1. Says(rows, store)'
    BY <1>1, <1>4, <1>6 DEF Says, Current
  <2>2. StoreOK(store)'
    BY <1>1, <1>4, WParts DEF StoreOK
  <2> QED BY <1>1, <1>2, <1>4, <2>1, <2>2, WParts DEF SavedOK, WorldOK, Whole
<1>8. ASSUME NEW q \in Procs, NEW k, NEW m, k = pc'[q], m = job'[q] PROVE ProcOK(k, m)'
  <2>1. ProcOK(k, m)
    <3>1. CASE q = w
      <4>1. k = l /\ m = j
        BY <1>3, <1>8, <3>1 DEF Moves
      <4>2. ProcOK("idle", NoJob)
        BY NoJobOK, NoRows, FreshOK
      <4>3. ProcOK("stored", i)
        BY <1>2 DEF ProcOK
      <4> QED BY <1>3, <4>1, <4>2, <4>3
    <3>2. CASE q # w
      BY <1>3, <1>8, <3>2, WParts DEF Moves
    <3> QED BY <3>1, <3>2
  <2>2. k \in {"load", "judge"} => Says(m.rows, store)'
    <3>1. k \in {"load", "judge"} => Says(m.rows, store)
      BY <2>1 DEF ProcOK
    <3> QED BY <1>1, <1>4, <3>1 DEF Says, Current
  <2> QED BY <1>4, <2>1, <2>2, ProcMono
<1>9. ASSUME NEW q \in Procs, NEW k, NEW m, k = pc'[q], m = job'[q], k \in {"wave", "stored"} PROVE Holds(m)'
  <2>1. q = w
    <3>1. \A v \in Procs \ {w} : pc[v] \notin {"wave", "stored"}
      BY <1>1, Parts DEF LockInv, Procs
    <3> QED BY <1>3, <1>9, <3>1 DEF Moves
  <2>2. m = i /\ k = "stored"
    BY <1>3, <1>9, <2>1 DEF Moves
  <2> SUFFICES ASSUME NEW g \in DOMAIN i.base, Anchored(g)', g \in DOMAIN store, i.base[g] = store[g]
               PROVE  g \in DOMAIN i.store /\ i.store[g] = i.base[g]
    BY <1>1, <2>2 DEF Holds
  <2>3. CASE Anchored(g)
    BY <1>2, <2>3 DEF Holds
  <2>4. CASE ~Anchored(g)
    <3>1. g \notin shaky' /\ g \notin shaky
      BY <1>4 DEF Anchored
    <3>2. \E x \in DOMAIN i.rows : Current(i.rows, x) /\ x[2] = g
      <4>1. ~\E q1 \in Procs : pc[q1] \in {"load", "judge"} /\ Names(job[q1].rows, g)
        BY <2>4, <3>1 DEF Anchored
      <4>2. ~\E q1 \in Procs : pc'[q1] \in {"load", "judge"} /\ Names(job'[q1].rows, g)
        BY <1>3, <4>1 DEF Moves
      <4>3. Names(rows', g)
        BY <1>4, <4>2 DEF Anchored, Names, Current
      <4> QED BY <1>1, <4>3 DEF Names
    <3> QED BY <1>6, <3>1, <3>2
  <2> QED BY <2>3, <2>4
<1> QED BY <1>7, <1>8, <1>9 DEF WInv

LEMMA UnsavedW == ASSUME IInv, WInv, NEW w \in Wavers, WaveUnsaved(w) PROVE WInv'
<1>1. w \in Procs /\ world' = world /\ rows' = rows /\ store' = store /\ shaky \subseteq shaky'
  BY DEF WaveUnsaved, Procs
<1>2. CASE pc[w] = "stored" /\ Return(w)
  BY <1>1, <1>2, ReturnW
<1>3. CASE Waved(w) /\ SetJob(w, [job[w] EXCEPT !.dirty = FALSE]) /\ pc' = pc
  <2> PICK j : j = [job[w] EXCEPT !.dirty = FALSE]
    OBVIOUS
  <2>1. IsJob(job[w]) /\ ProcOK("wave", job[w]) /\ Holds(job[w]) /\ pc[w] = "wave"
    BY <1>1, <1>3, Parts, WParts DEF Waved
  <2>2. /\ j.store = job[w].store /\ j.base = job[w].base /\ j.rows = job[w].rows /\ j.at = job[w].at
        /\ j.before = job[w].before /\ j.epoch = job[w].epoch /\ j.fire = job[w].fire /\ j.held = job[w].held
    BY <2>1 DEF IsJob, Fields
  <2>3. Moves(w, "wave", j)
    BY <1>1, <1>3, <2>1, Parts, Moving
  <2>4. ProcOK("wave", j)
    BY <2>1, <2>2 DEF ProcOK, AtOK, Quiet, Fires
  <2>5. ProcOK("wave", j)'
    BY <1>1, <2>4, ProcMono DEF world
  <2>6. \A h \in DOMAIN j.base :
          Anchored(h) /\ h \notin shaky' /\ j.base[h] = store[h] => h \in DOMAIN j.store /\ j.store[h] = j.base[h]
    BY <2>1, <2>2, AnchoredKnown DEF Holds
  <2> QED BY <1>1, <2>3, <2>5, <2>6, PlainStep
<1> QED BY <1>2, <1>3 DEF WaveUnsaved

-----------------------------------------------------------------------------

LEMMA StepW == IInv /\ WInv /\ [Next]_vars => WInv'
<1> SUFFICES ASSUME IInv, WInv, [Next]_vars PROVE WInv'
  OBVIOUS
<1>1. ASSUME NEW c \in Checkers, CheckStart(c) PROVE WInv'
  BY <1>1, StartW DEF CheckStart, Procs
<1>2. ASSUME NEW p \in Procs, (pc[p] \in {"load", "judge"} /\ Judge(p)) \/ ReportUnsaved(p) \/ GiveUp(p) PROVE WInv'
  <2>1. CASE Report(p) \/ ReportUnsaved(p)
    BY <2>1, ReportW
  <2>2. CASE GiveUp(p)
    BY <2>2, ReturnW DEF GiveUp
  <2>3. CASE LoadStore(p)
    BY <2>3, LoadW
  <2>4. ASSUME NEW h \in job[p].todo, JudgeStamp(p, h) \/ JudgeHash(p, h) PROVE WInv'
    BY <2>4, JudgeStampW, JudgeHashW
  <2> QED BY <1>2, <2>1, <2>2, <2>3, <2>4 DEF Judge
<1>3. ASSUME NEW w \in Wavers, Wave(w) PROVE WInv'
  <2>1. CASE WaveLock(w)
    BY <2>1, WaveLockW
  <2>2. CASE WaveSaveStore(w)
    BY <2>2, WaveSaveStoreW
  <2>3. CASE WaveSaveRows(w) \/ WaveAllSaveRows(w)
    BY <2>3, SaveRowsW
  <2>4. CASE WaveAllSaveStore(w)
    BY <2>4, WaveAllSaveStoreW
  <2>5. ASSUME NEW x \in job[w].todo, WaveStamp(w, x) \/ WaveRefused(w, x) \/ WaveHash(w, x) PROVE WInv'
    <3>1. CASE WaveRefused(w, x)
      BY <3>1, ReturnW DEF WaveRefused, Procs
    <3> QED BY <2>5, <3>1, WaveStampW, WaveHashW
  <2> QED BY <1>3, <2>1, <2>2, <2>3, <2>4, <2>5 DEF Wave
<1>4. ASSUME NEW w \in Wavers, WaveUnsaved(w) PROVE WInv'
  BY <1>4, UnsavedW
<1>5. ASSUME NEW w \in Wavers, NEW x \in Near, WaveStart(w, x) PROVE WInv'
  BY <1>5, WaveStartW
<1>6. ASSUME NEW w \in Wavers, NEW h \in Heads, WaveAllStart(w, h) PROVE WInv'
  BY <1>6, StartW DEF WaveAllStart, Procs
<1>7. ASSUME NEW h \in Heads, NEW body \in Bodies \cup {NoBody},
             NEW stamp \in {heads[h].stamp, Floor(clock + Step)}, WriteHead(h, body, stamp) PROVE WInv'
  BY <1>7, WriteHeadStep
<1>8. ASSUME NEW m \in Memories, NEW there \in BOOLEAN, EditMemory(m, there) PROVE WInv'
  BY <1>8, EditStep
<1>9. CASE UNCHANGED vars
  <2>1. WorldOK'
    BY <1>9, WParts DEF vars, WorldOK
  <2> QED BY <1>9, <2>1, WorldChange DEF vars, Unwritten
<1> QED BY <1>1, <1>2, <1>3, <1>4, <1>5, <1>6, <1>7, <1>8, <1>9 DEF Next, Procs

LEMMA InitW == Init => WInv
<1> SUFFICES ASSUME Init PROVE WInv
  OBVIOUS
<1>1. WorldOK
  BY XrefAssumption DEF Init, WorldOK, Second
<1>2. RowsOK(rows) /\ Whole(rows) /\ Says(rows, store) /\ StoreOK(store)
  BY InitInv, Parts, XrefAssumption DEF Init, RowsInv, Whole, Says, Current, StoreOK
<1>3. SavedOK
  BY <1>2 DEF SavedOK, Init
<1>4. \A p \in Procs : pc[p] = "idle" /\ job[p] = NoJob
  BY DEF Init, Procs
<1>5. ProcOK("idle", NoJob)
  BY NoJobOK, NoRows, FreshOK
<1> QED BY <1>1, <1>3, <1>4, <1>5 DEF WInv

(* A pair that a person waved off does not fire again before the content of    *)
(* the HEAD changes: stamps alone, other checks and other wave-offs do not     *)
(* bring it back, for any numbers of them.                                     *)
THEOREM WavedOffIsQuiet == Spec => []QuietUntilContentChanges
<1>1. IInv /\ WInv => QuietUntilContentChanges
  BY DEF WInv, ProcOK, Quiet, QuietUntilContentChanges, Procs
<1> QED BY <1>1, InitInv, StepInv, InitW, StepW, PTL DEF Spec

(* Once a verb has given the HEAD content it never had before, in a later      *)
(* second, the wave-off holds the pair no longer, however checks, wave-offs    *)
(* and writes interleave.                                                      *)
THEOREM NewContentFires == Spec => []ContentChangeFires
<1>1. IInv /\ WInv => ContentChangeFires
  BY DEF WInv, ProcOK, Fires, ContentChangeFires, Procs
<1> QED BY <1>1, InitInv, StepInv, InitW, StepW, PTL DEF Spec
=============================================================================
