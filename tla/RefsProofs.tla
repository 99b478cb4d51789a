------------------------------ MODULE RefsProofs ------------------------------
(* Proofs about Refs: a retired record stays as it is, and a trigger judges a  *)
(* claim by a look that is younger than the claim.                             *)
EXTENDS Refs, FiniteSetTheorems, TLAPS

Counters == {"binds", "writes", "moves", "triggers", "judged", "faults", "tears"}
Fields == {"changed", "unread", "todo", "seen", "out", "write"}

Shape ==
  /\ DOMAIN pc = Processes /\ DOMAIN job = Processes
  /\ \A p \in Processes : DOMAIN job[p] = Fields
  /\ used \in [Counters -> Nat]

\* a claim of no later than the n-th move of reality
Dated(rec, n) ==
  {"status", "asof", "sasof"} \subseteq DOMAIN rec /\ rec.asof \in Nat /\ rec.asof <= n

\* what is bound, and what is about to be, was looked at before now
DatedInv ==
  /\ \A rec \in recs : Dated(rec, used.moves)
  /\ \A p \in Processes : \A rec \in job[p].out : Dated(rec, used.moves)

\* a marking pass holds the lock; it has looked, or will, at every candidate, and each
\* look came after all claims
Marks(j) ==
  /\ \A rec \in recs : Candidate(rec, j.changed) => rec.ref \in j.todo \cup DOMAIN j.seen
  /\ \A r \in DOMAIN j.seen : \A rec \in recs : j.seen[r].asof \in Nat /\ rec.asof <= j.seen[r].asof
MarkInv ==
  /\ lock # Nobody => lock \in Hooks /\ pc[lock] = "marking"
  /\ \A h \in Hooks : /\ pc[h] = "mark" => DOMAIN job[h].seen = {}
                      /\ pc[h] = "marking" => lock = h /\ Marks(job[h])

IInv == Shape /\ DatedInv /\ MarkInv

-----------------------------------------------------------------------------
(* Moving on *)

\* p goes on to label l with job j, and every other process stays as it is
Moves(p, l, j) ==
  /\ DOMAIN pc' = Processes /\ DOMAIN job' = Processes
  /\ pc'[p] = l /\ job'[p] = j
  /\ \A q \in Processes \ {p} : pc'[q] = pc[q] /\ job'[q] = job[q]

LEMMA Moving ==
  ASSUME Shape, NEW p \in Processes, NEW l, NEW j, SetJob(p, j), Goto(p, l) \/ (pc' = pc /\ l = pc[p])
  PROVE  Moves(p, l, j)
<1>1. DOMAIN job' = Processes /\ job'[p] = j /\ \A q \in Processes \ {p} : job'[q] = job[q]
  BY DEF Shape, SetJob
<1>2. DOMAIN pc' = Processes /\ pc'[p] = l /\ \A q \in Processes \ {p} : pc'[q] = pc[q]
  BY DEF Shape, Goto
<1> QED BY <1>1, <1>2 DEF Moves

LEMMA NoJobFacts ==
  /\ DOMAIN NoJob = Fields /\ NoJob.changed = {} /\ NoJob.unread = {} /\ NoJob.todo = {}
  /\ NoJob.out = {} /\ NoJob.seen = <<>> /\ DOMAIN NoJob.seen = {}
BY DEF NoJob, Fields

LEMMA Returning == ASSUME Shape, NEW p \in Processes, Return(p) PROVE Moves(p, "idle", NoJob)
BY Moving DEF Return

LEMMA ProcessFacts ==
  /\ Hooks \subseteq Processes /\ Binders \subseteq Processes /\ Sweeper \in Processes
  /\ Nobody \notin Processes /\ Sweeper \notin Hooks /\ Binders \cap Hooks = {}
BY RefsAssumption DEF Processes

\* the counters go on, reality no further back
Ticks == used' \in [Counters -> Nat] /\ used.moves <= used'.moves

LEMMA Counting ==
  ASSUME Shape, NEW k \in Counters, Count(k) PROVE Ticks /\ (k # "moves" => used'.moves = used.moves)
<1>1. used \in [Counters -> Nat] /\ "moves" \in Counters
  BY DEF Shape, Counters
<1>2. used' = [used EXCEPT ![k] = used[k] + 1]
  BY DEF Count
<1>3. used' \in [Counters -> Nat]
  BY <1>1, <1>2
<1>4. used'["moves"] = IF k = "moves" THEN used["moves"] + 1 ELSE used["moves"]
  BY <1>1, <1>2
<1> QED BY <1>1, <1>3, <1>4 DEF Ticks

LEMMA CountingTwo ==
  ASSUME Shape, NEW k \in Counters, NEW l \in Counters \ {k},
         used' = [used EXCEPT ![k] = used[k] + 1, ![l] = used[l] + 1]
  PROVE  Ticks
<1>1. used \in [Counters -> Nat] /\ "moves" \in Counters
  BY DEF Shape, Counters
<1>2. used' \in [Counters -> Nat]
  BY <1>1
<1>3. used'["moves"] = IF "moves" \in {k, l} THEN used["moves"] + 1 ELSE used["moves"]
  BY <1>1
<1> QED BY <1>1, <1>2, <1>3 DEF Ticks

LEMMA NotCounting == ASSUME Shape, used' = used PROVE Ticks
BY DEF Shape, Ticks, Counters

\* a step that leaves every marking pass alone: p is not marking afterwards, and the
\* records change only when nobody holds the lock
LEMMA Outside ==
  ASSUME IInv, NEW p \in Processes, NEW l, NEW j, Moves(p, l, j), DOMAIN j = Fields, Ticks,
         \A rec \in j.out : Dated(rec, used'.moves),
         p \in Hooks => l # "marking" /\ (l = "mark" => DOMAIN j.seen = {}),
         lock' = (IF lock = p THEN Nobody ELSE lock),
         recs' = recs \/ (lock \in {Nobody, p} /\ \A rec \in recs' : Dated(rec, used'.moves))
  PROVE  IInv'
<1>1. Shape /\ DatedInv /\ MarkInv
  BY DEF IInv
<1>2. \A rec : Dated(rec, used.moves) => Dated(rec, used'.moves)
  BY <1>1 DEF Dated, Ticks, Shape, Counters
<1>3. Shape'
  BY <1>1 DEF Shape, Moves, Ticks
<1>4. DatedInv'
  BY <1>1, <1>2 DEF DatedInv, Moves
<1>5. ASSUME NEW h \in Hooks
      PROVE  /\ pc'[h] = "mark" => DOMAIN job'[h].seen = {}
             /\ pc'[h] = "marking" => lock' = h /\ Marks(job[h])' /\ recs' = recs /\ job'[h] = job[h]
  <2>1. CASE h = p
    BY <2>1, <1>5 DEF Moves
  <2>2. CASE h # p
    <3>1. pc'[h] = pc[h] /\ job'[h] = job[h] /\ h \in Processes
      BY <2>2, ProcessFacts DEF Moves
    <3>2. pc[h] = "marking" => lock = h /\ lock' = h /\ recs' = recs
      BY <1>1, <2>2, <3>1, ProcessFacts DEF MarkInv
    <3> QED BY <1>1, <3>1, <3>2 DEF MarkInv, Marks, Candidate
  <2> QED BY <2>1, <2>2
<1>6. lock' # Nobody => lock' \in Hooks /\ pc'[lock'] = "marking"
  BY <1>1, ProcessFacts DEF MarkInv, Moves
<1>7. MarkInv'
  BY <1>5, <1>6 DEF MarkInv, Marks, Candidate
<1> QED BY <1>3, <1>4, <1>7 DEF IInv

\* nobody goes on: reality moves, or a person edits the file
LEMMA Still ==
  ASSUME IInv, pc' = pc, job' = job, lock' = lock, Ticks,
         recs' = recs \/ (Free /\ \A rec \in recs' : Dated(rec, used'.moves))
  PROVE  IInv'
<1>1. Shape /\ DatedInv /\ MarkInv
  BY DEF IInv
<1>2. \A rec : Dated(rec, used.moves) => Dated(rec, used'.moves)
  BY <1>1 DEF Dated, Ticks, Shape, Counters
<1>3. Shape'
  BY <1>1 DEF Shape, Ticks
<1>4. DatedInv'
  BY <1>1, <1>2 DEF DatedInv
<1>5. MarkInv'
  BY <1>1, ProcessFacts DEF MarkInv, Marks, Candidate, Free
<1> QED BY <1>3, <1>4, <1>5 DEF IInv

LEMMA Parts ==
  ASSUME IInv
  PROVE  /\ Shape /\ DatedInv /\ MarkInv
         /\ \A p \in Processes : /\ DOMAIN job[p] = Fields
                                 /\ pc[p] # "marking" => lock # p
                                 /\ \A rec \in job[p].out : Dated(rec, used.moves)
         /\ \A rec \in recs : Dated(rec, used.moves)
         /\ used.moves \in Nat
BY ProcessFacts DEF IInv, Shape, DatedInv, MarkInv, Counters

-----------------------------------------------------------------------------
(* The records *)

LEMMA RecordDated ==
  ASSUME NEW r, NEW at, NEW write, NEW look, used.moves \in Nat
  PROVE  Dated(Record(r, at, write, look), used.moves)
BY DEF Dated, Record

LEMMA TransitionFacts ==
  ASSUME NEW rec, NEW n, Dated(rec, n), NEW now, NEW asof
  PROVE  /\ Dated(Transition(rec, now, asof), n)
         /\ \/ Transition(rec, now, asof) = rec
            \/ Transition(rec, now, asof).status # "suspect"
            \/ /\ Transition(rec, now, asof).sasof = asof
               /\ Transition(rec, now, asof).asof = rec.asof
<1>1. DOMAIN Transition(rec, now, asof) = DOMAIN rec /\ Transition(rec, now, asof).asof = rec.asof
  BY DEF Transition, Dated
<1>2. Dated(Transition(rec, now, asof), n)
  BY <1>1 DEF Dated
<1>3. \/ Transition(rec, now, asof) = rec
      \/ Transition(rec, now, asof).status # "suspect"
      \/ Transition(rec, now, asof).sasof = asof
  BY DEF Transition, Dated
<1> QED BY <1>1, <1>2, <1>3

LEMMA SweptDated ==
  ASSUME NEW rec, NEW n, Dated(rec, n), NEW saw PROVE Dated(Swept(rec, saw), n)
<1>1. Dated(Transition(rec, saw.fp, saw.asof), n)
  BY TransitionFacts
<1>2. CASE rec.ref[1] = "unit" /\ Legacy(rec.fp) /\ rec.fp = LegacyOf(saw.fp)
  BY <1>2 DEF Swept, Dated
<1>3. CASE ~(rec.ref[1] = "unit" /\ Legacy(rec.fp) /\ rec.fp = LegacyOf(saw.fp))
           /\ rec.ref[1] # "unit" /\ rec.status = "error"
  BY <1>3 DEF Swept, Dated
<1>4. CASE ~(rec.ref[1] = "unit" /\ Legacy(rec.fp) /\ rec.fp = LegacyOf(saw.fp))
           /\ ~(rec.ref[1] # "unit" /\ rec.status = "error")
  <2>1. Swept(rec, saw) = Transition(rec, saw.fp, saw.asof)
    BY <1>4 DEF Swept
  <2> QED BY <1>1, <2>1
<1> QED BY <1>2, <1>3, <1>4

LEMMA Written ==
  ASSUME NEW kept, NEW new, NEW n, Write(kept, new),
         \A rec \in kept : Dated(rec, n), \A rec \in new : Dated(rec, n)
  PROVE  \A rec \in recs' : Dated(rec, n)
BY DEF Write

-----------------------------------------------------------------------------
(* One step each *)

LEMMA BinderKeeps ==
  ASSUME IInv, NEW b \in Binders, BinderStep(b) \/ BindTorn(b) PROVE IInv'
<1>1. b \in Processes /\ b \notin Hooks
  BY ProcessFacts
<1>2. ASSUME BindStart(b) PROVE IInv'
  <2>1. PICK refs : SetJob(b, [NoJob EXCEPT !.todo = refs, !.write = used.writes + 1])
    BY <1>2 DEF BindStart
  <2> DEFINE j == [NoJob EXCEPT !.todo = refs, !.write = used.writes + 1]
  <2>2. DOMAIN j = Fields /\ j.out = {}
    BY DEF NoJob, Fields
  <2>3. Ticks
    BY <1>2, Parts, CountingTwo DEF BindStart, Counters
  <2>4. SetJob(b, j) /\ Goto(b, "looking") /\ pc[b] = "idle" /\ lock' = lock /\ recs' = recs
    BY <1>2, <2>1 DEF BindStart, store
  <2> HIDE DEF j
  <2> QED BY <1>1, <2>2, <2>3, <2>4, Parts, Moving, Outside
<1>3. ASSUME NEW r, BindLook(b, r) PROVE IInv'
  <2> DEFINE j == [job[b] EXCEPT !.todo = @ \ {r}, !.out = @ \cup {Record(r, HeadLine, job[b].write, Look(r))}]
             l == IF job[b].todo = {r} THEN "append" ELSE "looking"
  <2>1. DOMAIN j = Fields /\ j.out = job[b].out \cup {Record(r, HeadLine, job[b].write, Look(r))}
    BY <1>1, Parts DEF Fields
  <2>2. \A rec \in j.out : Dated(rec, used.moves)
    BY <1>1, <2>1, Parts, RecordDated
  <2>3. SetJob(b, j) /\ Goto(b, l) /\ pc[b] = "looking" /\ lock' = lock /\ recs' = recs /\ used' = used
    BY <1>3 DEF BindLook, store
  <2>4. Ticks
    BY <2>3, Parts, NotCounting
  <2> HIDE DEF j, l
  <2>5. Moves(b, l, j)
    BY <1>1, <2>3, Parts, Moving
  <2> QED BY <1>1, <2>1, <2>2, <2>3, <2>4, <2>5, Parts, Outside
<1>4. ASSUME BindAppend(b) PROVE IInv'
  <2>1. Return(b) /\ pc[b] = "append" /\ lock' = lock /\ lock = Nobody /\ used' = used /\ Write(recs, job[b].out)
    BY <1>4 DEF BindAppend, Free
  <2>2. \A rec \in recs' : Dated(rec, used.moves)
    BY <1>1, <2>1, Parts, Written
  <2>3. Ticks
    BY <2>1, Parts, NotCounting
  <2> QED BY <1>1, <2>1, <2>2, <2>3, Parts, Returning, NoJobFacts, Outside
<1>5. ASSUME BindTorn(b) PROVE IInv'
  <2>1. Return(b) /\ pc[b] = "append" /\ lock' = lock /\ recs' = recs
    BY <1>5 DEF BindTorn
  <2>2. Ticks
    BY <1>5, Parts, CountingTwo DEF BindTorn, Counters
  <2> QED BY <1>1, <2>1, <2>2, Parts, Returning, NoJobFacts, Outside
<1> QED BY <1>2, <1>3, <1>4, <1>5 DEF BinderStep

\* a trigger on its way to a marking pass, and the reads of a rebind
LEMMA HookStartKeeps == ASSUME IInv, NEW h \in Hooks, HookStart(h) PROVE IInv'
<1> DEFINE j == Pushed(last)
<1>1. DOMAIN j = Fields /\ j.out = {} /\ DOMAIN j.seen = {}
  BY DEF Pushed, NoJob, Fields
<1>2. SetJob(h, j) /\ Goto(h, "mark") /\ pc[h] = "committed" /\ lock' = lock /\ recs' = recs /\ used' = used
  BY DEF HookStart, store
<1> HIDE DEF j
<1> QED BY <1>1, <1>2, ProcessFacts, Parts, NotCounting, Moving, Outside

LEMMA WatchKeeps == ASSUME IInv, NEW h \in Hooks, NEW d, WatchStart(h, d) PROVE IInv'
<1> DEFINE j == [NoJob EXCEPT !.changed = Covers[d]]
<1>1. DOMAIN j = Fields /\ j.out = {} /\ DOMAIN j.seen = {}
  BY DEF NoJob, Fields
<1>2. SetJob(h, j) /\ Goto(h, "mark") /\ pc[h] = "idle" /\ lock' = lock /\ recs' = recs /\ Count("triggers")
  BY DEF WatchStart, store
<1>3. Ticks
  BY <1>2, Parts, Counting DEF Counters
<1> HIDE DEF j
<1> QED BY <1>1, <1>2, <1>3, ProcessFacts, Parts, Moving, Outside

LEMMA SeedKeeps == ASSUME IInv, NEW h \in Hooks, SeedStart(h) PROVE IInv'
<1> DEFINE j == [NoJob EXCEPT !.changed = Corpus, !.unread = Corpus]
<1>1. DOMAIN j = Fields /\ j.out = {}
  BY DEF NoJob, Fields
<1>2. SetJob(h, j) /\ Goto(h, "reading") /\ pc[h] = "idle" /\ lock' = lock /\ recs' = recs /\ Count("triggers")
  BY DEF SeedStart, store
<1>3. Ticks
  BY <1>2, Parts, Counting DEF Counters
<1> HIDE DEF j
<1> QED BY <1>1, <1>2, <1>3, ProcessFacts, Parts, Moving, Outside

LEMMA CommitKeeps == ASSUME IInv, NEW h \in Hooks, NEW c, Commit(h, c) PROVE IInv'
<1> DEFINE j == Pushed(Touched(c))
<1>1. DOMAIN j = Fields /\ j.out = {}
  BY DEF Pushed, NoJob, Fields
<1>2. SetJob(h, j) /\ Goto(h, "committed") /\ pc[h] = "idle" /\ lock' = lock /\ recs' = recs
  BY DEF Commit, store
<1>3. Ticks
  <2>1. \/ used' = [used EXCEPT !.triggers = @ + 1, !.moves = @ + 1]
        \/ Count("triggers")
    BY DEF Commit
  <2>2. CASE used' = [used EXCEPT !.triggers = @ + 1, !.moves = @ + 1]
    BY <2>2, Parts, CountingTwo DEF Counters
  <2> QED BY <2>1, <2>2, Parts, Counting DEF Counters
<1> HIDE DEF j
<1> QED BY <1>1, <1>2, <1>3, ProcessFacts, Parts, Moving, Outside

\* with the lock a trigger has all its candidates before it, and nothing seen
LEMMA HookLockKeeps == ASSUME IInv, NEW h \in Hooks, HookLock(h) PROVE IInv'
<1> DEFINE refs == {rec.ref : rec \in {x \in recs : Candidate(x, job[h].changed)}}
           j == [job[h] EXCEPT !.todo = refs]
<1>1. h \in Processes /\ Shape /\ DatedInv /\ MarkInv
  BY ProcessFacts, Parts
<1>2. SetJob(h, j) /\ Goto(h, "marking") /\ pc[h] = "mark" /\ lock = Nobody /\ lock' = h /\ recs' = recs /\ used' = used
  BY DEF HookLock, store, Free
<1>3. DOMAIN j = Fields /\ j.out = job[h].out /\ j.changed = job[h].changed /\ j.todo = refs /\ j.seen = job[h].seen
  BY <1>1, Parts DEF Fields
<1>4. Marks(j)
  BY <1>1, <1>2, <1>3 DEF Marks, MarkInv
<1> HIDE DEF j, refs
<1>5. PICK k : Moves(h, "marking", k) /\ DOMAIN k = Fields /\ k.out = job[h].out /\ Marks(k)
  BY <1>1, <1>2, <1>3, <1>4, Moving
<1>6. Shape'
  BY <1>1, <1>2, <1>5 DEF Shape, Moves
<1>7. DatedInv'
  BY <1>1, <1>2, <1>5 DEF DatedInv, Moves
<1>8. Marks(k)'
  BY <1>2, <1>5 DEF Marks, Candidate
<1>9. MarkInv'
  <2>1. lock' \in Hooks /\ pc'[lock'] = "marking"
    BY <1>2, <1>5 DEF Moves
  <2>2. Marks(job[h])'
    BY <1>5, <1>8 DEF Moves, Marks, Candidate
  <2>3. ASSUME NEW g \in Hooks, g # h
        PROVE  (pc'[g] = "mark" => DOMAIN job'[g].seen = {}) /\ pc'[g] # "marking"
    BY <1>1, <1>2, <1>5, <2>3, ProcessFacts DEF MarkInv, Moves
  <2> QED BY <1>2, <1>5, <2>1, <2>2, <2>3 DEF MarkInv, Moves
<1> QED BY <1>6, <1>7, <1>9 DEF IInv

LEMMA HookLookKeeps == ASSUME IInv, NEW h \in Hooks, NEW r, r \in job[h].todo, HookLook(h, r) PROVE IInv'
<1> DEFINE saw == [fp |-> Look(r).fp, status |-> Look(r).status, asof |-> used.moves]
           j == [job[h] EXCEPT !.todo = @ \ {r}, !.seen = Put(@, r, saw)]
<1>1. h \in Processes /\ Shape /\ DatedInv /\ MarkInv
  BY ProcessFacts, Parts
<1>2. SetJob(h, j) /\ pc' = pc /\ pc[h] = "marking" /\ lock' = lock /\ recs' = recs /\ used' = used
  BY DEF HookLook, store, Saw
<1>3. /\ DOMAIN j = Fields /\ j.out = job[h].out /\ j.changed = job[h].changed
      /\ j.todo = job[h].todo \ {r} /\ j.seen = Put(job[h].seen, r, saw)
  BY <1>1, Parts DEF Fields
<1>4. lock = h /\ Marks(job[h])
  BY <1>1, <1>2 DEF MarkInv
<1>5. Marks(j)
  <2>1. DOMAIN j.seen = DOMAIN job[h].seen \cup {r}
    BY <1>3 DEF Put
  <2>2. \A x \in DOMAIN j.seen : j.seen[x].asof = IF x = r THEN used.moves ELSE job[h].seen[x].asof
    BY <1>3 DEF Put
  <2>3. \A rec \in recs : rec.asof <= used.moves /\ used.moves \in Nat
    BY Parts DEF Dated
  <2> QED BY <1>3, <1>4, <2>1, <2>2, <2>3 DEF Marks
<1> HIDE DEF j, saw
<1>6. PICK k : Moves(h, "marking", k) /\ DOMAIN k = Fields /\ k.out = job[h].out /\ Marks(k)
  BY <1>1, <1>2, <1>3, <1>5, Moving
<1>7. Shape'
  BY <1>1, <1>2, <1>6 DEF Shape, Moves
<1>8. DatedInv'
  BY <1>1, <1>2, <1>6 DEF DatedInv, Moves
<1>9. MarkInv'
  <2>1. lock' = h /\ pc'[h] = "marking"
    BY <1>2, <1>4, <1>6 DEF Moves
  <2>2. Marks(job[h])'
    BY <1>2, <1>6 DEF Moves, Marks, Candidate
  <2>3. ASSUME NEW g \in Hooks, g # h
        PROVE  (pc'[g] = "mark" => DOMAIN job'[g].seen = {}) /\ pc'[g] # "marking"
    BY <1>1, <1>4, <1>6, <2>3, ProcessFacts DEF MarkInv, Moves
  <2> QED BY <2>1, <2>2, <2>3 DEF MarkInv
<1> QED BY <1>7, <1>8, <1>9 DEF IInv

\* what a marking pass writes back: each record as it was, or judged by what was seen
LEMMA MarkedFacts ==
  ASSUME IInv, NEW h \in Hooks, HookMark(h)
  PROVE  /\ pc[h] = "marking" /\ lock = h /\ lock' = Nobody /\ used' = used
         /\ \A new \in recs' : Dated(new, used.moves)
         /\ \A new \in recs' : new \notin recs /\ new.status = "suspect" => new.sasof >= new.asof
<1> DEFINE seen == job[h].seen
           marked(rec) == IF /\ Candidate(rec, job[h].changed)
                             /\ seen[rec.ref].status # "error"
                          THEN Transition(rec, seen[rec.ref].fp, seen[rec.ref].asof) ELSE rec
<1>1. pc[h] = "marking" /\ job[h].todo = {} /\ lock' = Nobody /\ used' = used
      /\ recs' = {marked(rec) : rec \in recs}
  BY DEF HookMark
<1>2. lock = h /\ Marks(job[h])
  BY <1>1, Parts DEF MarkInv
<1>3. ASSUME NEW new \in recs'
      PROVE  Dated(new, used.moves) /\ (new \notin recs /\ new.status = "suspect" => new.sasof >= new.asof)
  <2>1. PICK rec \in recs : new = marked(rec)
    BY <1>1, <1>3
  <2>2. Dated(rec, used.moves)
    BY Parts
  <2>3. CASE new = rec
    BY <2>2, <2>3
  <2>4. CASE /\ Candidate(rec, job[h].changed)
             /\ new = Transition(rec, seen[rec.ref].fp, seen[rec.ref].asof)
    <3>1. rec.ref \in DOMAIN seen
      BY <1>1, <1>2, <2>4 DEF Marks
    <3>2. rec.asof <= seen[rec.ref].asof
      BY <1>2, <3>1 DEF Marks
    <3> HIDE DEF seen
    <3> QED BY <2>2, <2>4, <3>2, TransitionFacts
  <2> QED BY <2>1, <2>3, <2>4
<1> QED BY <1>1, <1>2, <1>3

LEMMA HookMarkKeeps == ASSUME IInv, NEW h \in Hooks, HookMark(h) PROVE IInv'
<1> DEFINE mds == ToRebind(job[h])
           j == [NoJob EXCEPT !.changed = mds, !.unread = mds]
<1>1. DOMAIN j = Fields /\ j.out = {}
  BY DEF NoJob, Fields
<1>2. (SetJob(h, j) /\ Goto(h, "reading")) \/ Return(h)
  BY DEF HookMark
<1>3. /\ lock = h /\ lock' = Nobody /\ used' = used /\ \A rec \in recs' : Dated(rec, used.moves)
  BY MarkedFacts
<1>4. Ticks
  BY <1>3, Parts, NotCounting
<1> HIDE DEF j
<1>5. CASE SetJob(h, j) /\ Goto(h, "reading")
  <2>1. Moves(h, "reading", j)
    BY <1>5, Moving, Parts, ProcessFacts
  <2> QED BY <1>1, <1>3, <1>4, <2>1, ProcessFacts, Outside
<1>6. CASE Return(h)
  <2>1. Moves(h, "idle", NoJob)
    BY <1>6, Returning, Parts, ProcessFacts
  <2> QED BY <1>3, <1>4, <2>1, NoJobFacts, ProcessFacts, Outside
<1> QED BY <1>2, <1>5, <1>6

LEMMA RebindKeeps ==
  ASSUME IInv, NEW h \in Hooks,
         RebindReplace(h) \/ (\E f : RebindRead(h, f)) \/ (\E f, r : RebindLook(h, f, r))
  PROVE  IInv'
<1>1. h \in Processes
  BY ProcessFacts
<1>2. ASSUME NEW f, RebindRead(h, f) PROVE IInv'
  <2>1. PICK refs : SetJob(h, [job[h] EXCEPT !.unread = @ \ {f}, !.todo = {<<f, r>> : r \in refs},
                                             !.write = used.writes + 1])
    BY <1>2 DEF RebindRead
  <2> DEFINE j == [job[h] EXCEPT !.unread = @ \ {f}, !.todo = {<<f, r>> : r \in refs}, !.write = used.writes + 1]
  <2>2. DOMAIN j = Fields /\ j.out = job[h].out
    BY <1>1, Parts DEF Fields
  <2>3. SetJob(h, j) /\ pc' = pc /\ pc[h] = "reading" /\ lock' = lock /\ recs' = recs
    BY <1>2, <2>1 DEF RebindRead, store
  <2>4. Ticks
    <3>1. used' = [used EXCEPT !.writes = IF job[h].write = 0 THEN used.writes + 1 ELSE used.writes]
      BY <1>2 DEF RebindRead
    <3>2. used' = used \/ Count("writes")
      BY <3>1, Parts DEF Count, Shape, Counters
    <3> QED BY <3>2, Parts, Counting, NotCounting DEF Counters
  <2> HIDE DEF j
  <2>5. Moves(h, "reading", j)
    BY <1>1, <2>3, Parts, Moving
  <2>6. \A rec \in j.out : Dated(rec, used'.moves)
    BY <1>1, <2>2, <2>4, Parts DEF Dated, Ticks, Counters
  <2> QED BY <1>1, <2>2, <2>3, <2>4, <2>5, <2>6, Parts, Outside
<1>3. ASSUME NEW f, NEW r, RebindLook(h, f, r) PROVE IInv'
  <2> DEFINE new == Record(r, f, job[h].write, Look(r))
             j == [job[h] EXCEPT !.todo = @ \ {<<f, r>>}, !.out = @ \cup {new}]
  <2>1. DOMAIN j = Fields /\ j.out = job[h].out \cup {new}
    BY <1>1, Parts DEF Fields
  <2>2. \A rec \in j.out : Dated(rec, used.moves)
    BY <1>1, <2>1, Parts, RecordDated
  <2>3. SetJob(h, j) /\ pc' = pc /\ pc[h] = "reading" /\ lock' = lock /\ recs' = recs /\ used' = used
    BY <1>3 DEF RebindLook, store
  <2>4. Ticks
    BY <2>3, Parts, NotCounting
  <2> HIDE DEF j, new
  <2>5. Moves(h, "reading", j)
    BY <1>1, <2>3, Parts, Moving
  <2> QED BY <1>1, <2>1, <2>2, <2>3, <2>4, <2>5, Parts, Outside
<1>4. ASSUME RebindReplace(h) PROVE IInv'
  <2> DEFINE old == Superseded(recs, job[h].changed)
  <2>1. /\ Return(h) /\ pc[h] = "reading" /\ lock' = lock /\ lock = Nobody /\ used' = used
        /\ Write(recs \ old, job[h].out)
    BY <1>4 DEF RebindReplace, Free
  <2>2. \A rec \in recs \ old : Dated(rec, used.moves)
    BY Parts
  <2>3. \A rec \in job[h].out : Dated(rec, used.moves)
    BY <1>1, Parts
  <2> HIDE DEF old
  <2>4. \A rec \in recs' : Dated(rec, used.moves)
    BY <2>1, <2>2, <2>3, Written
  <2>5. Ticks
    BY <2>1, Parts, NotCounting
  <2>6. Moves(h, "idle", NoJob)
    BY <1>1, <2>1, Parts, Returning
  <2> QED BY <1>1, <2>1, <2>4, <2>5, <2>6, NoJobFacts, Outside
<1> QED BY <1>2, <1>3, <1>4

LEMMA SweepKeeps == ASSUME IInv, SweepStep PROVE IInv'
<1> DEFINE p == Sweeper
<1>1. p \in Processes /\ p \notin Hooks
  BY ProcessFacts
<1>2. ASSUME SweepStart PROVE IInv'
  <2> DEFINE todo == {rec.ref : rec \in {x \in recs : WantsProbe(x)}}
             j == [NoJob EXCEPT !.todo = todo, !.out = recs]
  <2>1. DOMAIN j = Fields /\ j.out = recs
    BY DEF NoJob, Fields
  <2>2. SetJob(p, j) /\ Goto(p, "probing") /\ pc[p] = "idle" /\ lock' = lock /\ recs' = recs /\ used' = used
    BY <1>2 DEF SweepStart, store
  <2>3. Ticks
    BY <2>2, Parts, NotCounting
  <2> HIDE DEF j, p
  <2>4. Moves(p, "probing", j)
    BY <1>1, <2>2, Parts, Moving
  <2> QED BY <1>1, <2>1, <2>2, <2>3, <2>4, Parts, Outside
<1>3. ASSUME NEW r, SweepLook(r) PROVE IInv'
  <2> DEFINE j == Saw(job[p], r)
  <2>1. DOMAIN j = Fields /\ j.out = job[p].out
    BY <1>1, Parts DEF Saw, Fields
  <2>2. SetJob(p, j) /\ pc' = pc /\ pc[p] = "probing" /\ lock' = lock /\ recs' = recs /\ used' = used
    BY <1>3 DEF SweepLook, store
  <2>3. Ticks
    BY <2>2, Parts, NotCounting
  <2> HIDE DEF j, p
  <2>4. Moves(p, "probing", j)
    BY <1>1, <2>2, Parts, Moving
  <2>5. \A rec \in j.out : Dated(rec, used.moves)
    BY <1>1, <2>1, Parts
  <2> QED BY <1>1, <2>1, <2>2, <2>3, <2>4, <2>5, Parts, Outside
<1>4. ASSUME SweepApply PROVE IInv'
  <2> DEFINE j == job[Sweeper]
             applied(rec) == IF /\ WantsProbe(rec) /\ rec.ref \in DOMAIN j.seen
                                /\ j.seen[rec.ref].status # "error"
                             THEN Swept(rec, j.seen[rec.ref]) ELSE rec
  <2>1. /\ Return(p) /\ pc[p] = "probing" /\ lock' = lock /\ lock = Nobody /\ used' = used
        /\ recs' = {applied(rec) : rec \in recs}
    BY <1>4 DEF SweepApply, Free, Reread
  <2>2. \A rec \in recs : Dated(applied(rec), used.moves)
    BY Parts, SweptDated
  <2>3. \A rec \in recs' : Dated(rec, used.moves)
    BY <2>1, <2>2
  <2>4. Ticks
    BY <2>1, Parts, NotCounting
  <2> HIDE DEF p, applied
  <2>5. Moves(p, "idle", NoJob)
    BY <1>1, <2>1, Parts, Returning
  <2> QED BY <1>1, <2>1, <2>3, <2>4, <2>5, NoJobFacts, Outside
<1> QED BY <1>2, <1>3, <1>4 DEF SweepStep

LEMMA MoveKeeps == ASSUME IInv, NEW r, NEW o, Move(r, o) PROVE IInv'
<1>1. pc' = pc /\ job' = job /\ lock' = lock /\ recs' = recs /\ Count("moves")
  BY DEF Move, store
<1>2. Ticks
  BY <1>1, Parts, Counting DEF Counters
<1> QED BY <1>1, <1>2, Still

LEMMA JudgedKeeps == ASSUME IInv, NEW rec \in recs, Retire(rec) \/ Waive(rec) PROVE IInv'
<1>1. pc' = pc /\ job' = job /\ lock' = lock /\ Free /\ Count("judged")
  BY DEF Retire, Waive
<1>2. Ticks /\ used'.moves = used.moves
  BY <1>1, Parts, Counting DEF Counters
<1>3. \A x \in recs' : Dated(x, used.moves)
  <2>1. Dated(rec, used.moves)
    BY Parts
  <2>2. CASE Retire(rec)
    <3>1. Dated([rec EXCEPT !.status = "retired"], used.moves)
      BY <2>1 DEF Dated
    <3> QED BY <2>2, <3>1, Parts DEF Retire
  <2>3. CASE Waive(rec)
    <3> DEFINE new == [rec EXCEPT !.status = "waived", !.fp = Look(rec.ref).fp,
                                  !.asof = used.moves, !.sfp = NoFp, !.sasof = 0]
    <3>1. Dated(new, used.moves)
      BY <2>1, Parts DEF Dated
    <3>2. recs' = (recs \ {rec}) \cup {new}
      BY <2>3 DEF Waive
    <3> HIDE DEF new
    <3> QED BY <3>1, <3>2, Parts
  <2> QED BY <2>2, <2>3
<1> QED BY <1>1, <1>2, <1>3, Still

LEMMA GiveUpKeeps == ASSUME IInv, NEW p \in Processes, GiveUp(p) PROVE IInv'
<1>1. Return(p) /\ recs' = recs /\ lock' = (IF lock = p THEN Nobody ELSE lock) /\ Count("faults")
  BY DEF GiveUp, store, Fault
<1>2. Ticks
  BY <1>1, Parts, Counting DEF Counters
<1>3. Moves(p, "idle", NoJob)
  BY <1>1, Parts, Returning
<1> QED BY <1>1, <1>2, <1>3, NoJobFacts, Outside

LEMMA UnreadableKeeps == ASSUME IInv, NEW h \in Hooks, NEW f, RebindUnreadable(h, f) PROVE IInv'
<1>1. h \in Processes
  BY ProcessFacts
<1> DEFINE j == [job[h] EXCEPT !.unread = @ \ {f}]
<1>2. DOMAIN j = Fields /\ j.out = job[h].out
  BY <1>1, Parts DEF Fields
<1>3. /\ SetJob(h, j) /\ pc' = pc /\ pc[h] = "reading" /\ lock' = lock /\ recs' = recs
      /\ Count("faults")
  BY DEF RebindUnreadable, store, Fault
<1> HIDE DEF j
<1>4. Ticks
  BY <1>3, Parts, Counting DEF Counters
<1>5. Moves(h, "reading", j)
  BY <1>1, <1>3, Parts, Moving
<1>6. \A rec \in j.out : Dated(rec, used'.moves)
  BY <1>1, <1>2, <1>4, Parts DEF Dated, Ticks, Counters
<1> QED BY <1>1, <1>2, <1>3, <1>4, <1>5, <1>6, Parts, Outside

LEMMA RefsInit == Init => IInv
<1> SUFFICES ASSUME Init PROVE IInv
  OBVIOUS
<1>1. Shape
  BY NoJobFacts DEF Init, Shape, Counters
<1>2. DatedInv
  BY RefsAssumption, NoJobFacts DEF Init, DatedInv, Dated
<1>3. MarkInv
  BY ProcessFacts DEF Init, MarkInv
<1> QED BY <1>1, <1>2, <1>3 DEF IInv

LEMMA RefsStep == IInv /\ [Next]_vars => IInv'
<1> SUFFICES ASSUME IInv, [Next]_vars PROVE IInv'
  OBVIOUS
<1>1. CASE \E b \in Binders : BinderStep(b) \/ BindTorn(b)
  BY <1>1, BinderKeeps
<1>2. ASSUME NEW h \in Hooks,
             \/ HookStep(h) \/ SeedStart(h)
             \/ \E d \in DOMAIN Covers : WatchStart(h, d)
             \/ \E c \in Tracked \cup Corpus : Commit(h, c)
      PROVE  IInv'
  <2>1. HookStep(h) => IInv'
    BY HookStartKeeps, HookLockKeeps, HookMarkKeeps, RebindKeeps, UnreadableKeeps, HookLookKeeps DEF HookStep
  <2> QED BY <1>2, <2>1, SeedKeeps, WatchKeeps, CommitKeeps
<1>3. CASE SweepStep
  BY <1>3, SweepKeeps
<1>4. CASE \E r \in Referents : \E o \in Worlds[r] : Move(r, o)
  BY <1>4, MoveKeeps
<1>5. CASE \E rec \in recs : Retire(rec) \/ Waive(rec)
  BY <1>5, JudgedKeeps
<1>6. CASE \E p \in Processes : GiveUp(p)
  BY <1>6, GiveUpKeeps
<1>7. CASE UNCHANGED vars
  <2>1. Ticks
    BY <1>7, Parts, NotCounting DEF vars
  <2> QED BY <1>7, <2>1, Still DEF vars
<1> QED BY <1>1, <1>2, <1>3, <1>4, <1>5, <1>6, <1>7 DEF Next

-----------------------------------------------------------------------------
(* The properties *)

\* only a marking pass, or its end, gives the lock back
LEMMA LooksLater ==
  ASSUME IInv, [Next]_vars, lock # Nobody, lock' = Nobody
  PROVE  \A new \in recs' : new \notin recs /\ new.status = "suspect" => new.sasof >= new.asof
<1>1. CASE \E h \in Hooks : HookMark(h)
  BY <1>1, MarkedFacts
<1>2. CASE \E p \in Processes : GiveUp(p)
  BY <1>2 DEF GiveUp, store
<1>3. (\E h \in Hooks : HookMark(h)) \/ (\E p \in Processes : GiveUp(p))
  <2>1. CASE UNCHANGED vars
    BY <2>1 DEF vars
  <2>2. CASE \E b \in Binders : BinderStep(b) \/ BindTorn(b)
    BY <2>2 DEF BinderStep, BindStart, BindLook, BindAppend, BindTorn
  <2>3. ASSUME NEW h \in Hooks, HookStep(h) PROVE \E g \in Hooks : HookMark(g)
    BY <2>3, ProcessFacts DEF HookStep, HookStart, HookLock, HookLook, RebindReplace, RebindRead, RebindUnreadable, RebindLook
  <2>4. ASSUME NEW h \in Hooks,
               \/ SeedStart(h)
               \/ \E d \in DOMAIN Covers : WatchStart(h, d)
               \/ \E c \in Tracked \cup Corpus : Commit(h, c)
        PROVE  FALSE
    BY <2>4 DEF SeedStart, WatchStart, Commit
  <2>5. CASE SweepStep
    BY <2>5 DEF SweepStep, SweepStart, SweepLook, SweepApply
  <2>6. ASSUME NEW r, NEW o, Move(r, o) PROVE FALSE
    BY <2>6 DEF Move
  <2>7. ASSUME NEW rec, Retire(rec) \/ Waive(rec) PROVE FALSE
    BY <2>7 DEF Retire, Waive
  <2> QED BY <2>1, <2>2, <2>3, <2>4, <2>5, <2>6, <2>7 DEF Next
<1> QED BY <1>1, <1>2, <1>3

(* For any number of writes, triggers, sweeps, moves of reality and deaths, a *)
(* trigger never raises a suspicion from a look older than the claim.         *)
THEOREM LooksAreLater == Spec => TriggersLookAfterClaims
<1>1. IInv /\ [Next]_vars =>
        [lock # Nobody /\ lock' = Nobody =>
           \A new \in recs' : new \notin recs /\ new.status = "suspect" => new.sasof >= new.asof]_vars
  BY LooksLater
<1> QED BY <1>1, RefsInit, RefsStep, PTL DEF Spec, TriggersLookAfterClaims

\* a pass that maps the records changes none that is retired
LEMMA RetiredStays ==
  ASSUME [Next]_vars, NEW rec \in recs, rec.status = "retired"
  PROVE  rec \in recs' \/ Id(rec) \in dropped'
<1>1. CASE \E h \in Hooks : HookMark(h)
  <2>1. PICK h \in Hooks : HookMark(h)
    BY <1>1
  <2>2. ~Candidate(rec, job[h].changed)
    BY DEF Candidate, Suspectable
  <2> QED BY <2>1, <2>2 DEF HookMark
<1>2. CASE \E h \in Hooks : RebindReplace(h)
  BY <1>2 DEF RebindReplace, Write, Ids
<1>3. CASE SweepApply
  <2>1. ~WantsProbe(rec)
    BY DEF WantsProbe
  <2> QED BY <1>3, <2>1 DEF SweepApply, Reread
<1>4. CASE \E b \in Binders : BindAppend(b)
  BY <1>4 DEF BindAppend, Write
<1>5. CASE \E x \in recs : Retire(x) \/ Waive(x)
  BY <1>5 DEF Retire, Waive
<1>6. \/ recs' = recs \/ (\E h \in Hooks : HookMark(h) \/ RebindReplace(h)) \/ SweepApply
      \/ (\E b \in Binders : BindAppend(b)) \/ (\E x \in recs : Retire(x) \/ Waive(x))
  BY DEF Next, vars, store, BinderStep, BindStart, BindLook, BindTorn, HookStep, HookStart, HookLock, HookLook,
         RebindRead, RebindUnreadable, RebindLook, SeedStart, WatchStart, Commit, SweepStep, SweepStart, SweepLook, Move, GiveUp
<1> QED BY <1>1, <1>2, <1>3, <1>4, <1>5, <1>6

(* A record a person retired is never changed, by any trigger or sweep,       *)
(* however old its reading: only a rebind of its corpus file drops it.        *)
THEOREM RetiredIsTerminal == Spec => RetiredTerminal
<1>1. [Next]_vars =>
        [\A rec \in recs : rec.status = "retired" => rec \in recs' \/ Id(rec) \in dropped']_vars
  BY RetiredStays
<1> QED BY <1>1, PTL DEF Spec, RetiredTerminal

-----------------------------------------------------------------------------
(* No record is lost *)

RecordFields == {"at", "write", "ref", "fp", "asof", "status", "sfp", "sasof"}
Typed(rec) == DOMAIN rec = RecordFields
\* the records that are neither in the file nor superseded
Lost == bound \ (Ids(recs) \cup dropped)

\* every half-written line has cost one record, or will cost the next one
LedgerInv ==
  /\ \A rec \in recs : Typed(rec)
  /\ \A p \in Processes : \A rec \in job[p].out : Typed(rec)
  /\ \A p \in Processes \ {Sweeper} : IsFiniteSet(job[p].out)
  /\ \A b \in Binders : \A rec \in job[b].out : rec.at = HeadLine
  /\ torn \in BOOLEAN
  /\ IsFiniteSet(Lost) /\ Cardinality(Lost) + (IF torn THEN 1 ELSE 0) <= used.tears

\* b says of the same referent, for the same write, what a said or something newer
SameClaim(a, b) == Typed(b) /\ b.at = a.at /\ b.write = a.write /\ b.ref = a.ref
\* each record was rewritten and none left out
Matched(R, S) ==
  /\ \A a \in R : \E b \in S : SameClaim(a, b)
  /\ \A b \in S : \E a \in R : SameClaim(a, b)

\* the referents R binds for the file f
Have(R, f) == {rec.ref : rec \in {x \in R : x.at = f}}

LEMMA MatchedFacts ==
  ASSUME NEW R, NEW S, Matched(R, S)
  PROVE  Ids(S) = Ids(R) /\ (\A f : Have(S, f) = Have(R, f)) /\ \A rec \in S : Typed(rec)
<1>1. \A rec \in S : Typed(rec)
  BY DEF Matched, SameClaim
<1>2. \A a \in R : \E b \in S : b.at = a.at /\ Id(b) = Id(a) /\ b.ref = a.ref
  BY DEF Matched, SameClaim, Id
<1>3. \A b \in S : \E a \in R : b.at = a.at /\ Id(b) = Id(a) /\ b.ref = a.ref
  BY DEF Matched, SameClaim, Id
<1>4. Ids(S) = Ids(R)
  <2>1. \A i : i \in Ids(S) <=> i \in Ids(R)
    BY <1>2, <1>3 DEF Ids
  <2> QED BY <2>1
<1>5. ASSUME NEW f PROVE Have(S, f) = Have(R, f)
  <2>1. \A r : r \in Have(S, f) <=> r \in Have(R, f)
    BY <1>2, <1>3 DEF Have
  <2> QED BY <2>1
<1> QED BY <1>1, <1>4, <1>5

LEMMA TransitionSame ==
  ASSUME NEW rec, Typed(rec), NEW now, NEW asof PROVE SameClaim(rec, Transition(rec, now, asof))
BY DEF SameClaim, Typed, RecordFields, Transition

LEMMA SweptSame == ASSUME NEW rec, Typed(rec), NEW saw PROVE SameClaim(rec, Swept(rec, saw))
<1>1. SameClaim(rec, Transition(rec, saw.fp, saw.asof))
  BY TransitionSame
<1>2. CASE rec.ref[1] = "unit" /\ Legacy(rec.fp) /\ rec.fp = LegacyOf(saw.fp)
  BY <1>2 DEF Swept, SameClaim, Typed, RecordFields
<1>3. CASE ~(rec.ref[1] = "unit" /\ Legacy(rec.fp) /\ rec.fp = LegacyOf(saw.fp))
           /\ rec.ref[1] # "unit" /\ rec.status = "error"
  BY <1>3 DEF Swept, SameClaim, Typed, RecordFields
<1>4. CASE ~(rec.ref[1] = "unit" /\ Legacy(rec.fp) /\ rec.fp = LegacyOf(saw.fp))
           /\ ~(rec.ref[1] # "unit" /\ rec.status = "error")
  <2>1. Swept(rec, saw) = Transition(rec, saw.fp, saw.asof)
    BY <1>4 DEF Swept
  <2> QED BY <1>1, <2>1
<1> QED BY <1>2, <1>3, <1>4

LEMMA SameItself == ASSUME NEW rec, Typed(rec) PROVE SameClaim(rec, rec)
BY DEF SameClaim

\* the marking pass, the sweep and the person rewrite each record and leave none out
LEMMA MarkMatches ==
  ASSUME \A rec \in recs : Typed(rec), NEW h, HookMark(h) PROVE Matched(recs, recs')
<1> DEFINE seen == job[h].seen
           marked(rec) == IF /\ Candidate(rec, job[h].changed)
                             /\ seen[rec.ref].status # "error"
                          THEN Transition(rec, seen[rec.ref].fp, seen[rec.ref].asof) ELSE rec
<1>1. recs' = {marked(rec) : rec \in recs}
  BY DEF HookMark
<1>2. \A rec \in recs : SameClaim(rec, marked(rec))
  BY TransitionSame, SameItself
<1> HIDE DEF marked
<1> QED BY <1>1, <1>2 DEF Matched

LEMMA SweepMatches ==
  ASSUME \A rec \in recs : Typed(rec), SweepApply PROVE Matched(recs, recs')
<1> DEFINE j == job[Sweeper]
           applied(rec) == IF /\ WantsProbe(rec) /\ rec.ref \in DOMAIN j.seen
                              /\ j.seen[rec.ref].status # "error"
                           THEN Swept(rec, j.seen[rec.ref]) ELSE rec
<1>1. recs' = {applied(rec) : rec \in recs}
  BY DEF SweepApply, Reread
<1>2. \A rec \in recs : SameClaim(rec, applied(rec))
  BY SweptSame, SameItself
<1> HIDE DEF applied
<1> QED BY <1>1, <1>2 DEF Matched

LEMMA JudgedMatches ==
  ASSUME \A rec \in recs : Typed(rec), NEW rec \in recs, Retire(rec) \/ Waive(rec)
  PROVE  Matched(recs, recs')
<1>1. PICK new : recs' = (recs \ {rec}) \cup {new} /\ SameClaim(rec, new)
  <2>1. CASE Retire(rec)
    <3>1. SameClaim(rec, [rec EXCEPT !.status = "retired"])
      BY DEF SameClaim, Typed, RecordFields
    <3> QED BY <2>1, <3>1 DEF Retire
  <2>2. CASE Waive(rec)
    <3>1. SameClaim(rec, [rec EXCEPT !.status = "waived", !.fp = Look(rec.ref).fp,
                                     !.asof = used.moves, !.sfp = NoFp, !.sasof = 0])
      BY DEF SameClaim, Typed, RecordFields
    <3> QED BY <2>2, <3>1 DEF Waive
  <2> QED BY <2>1, <2>2
<1>2. \A x \in recs : SameClaim(x, x)
  BY SameItself
<1> QED BY <1>1, <1>2 DEF Matched

-----------------------------------------------------------------------------
(* What each process is about to write *)

\* a job collects its records one by one; the sweep remembers those it read
Grown(p, old, new) ==
  \/ new \subseteq old
  \/ \E rec : Typed(rec) /\ (p \in Binders => rec.at = HeadLine) /\ new = old \cup {rec}
  \/ p = Sweeper /\ new = recs

LEMMA GrownBy ==
  ASSUME Shape, NEW p \in Processes, NEW j, SetJob(p, j), Grown(p, job[p].out, j.out)
  PROVE  \A q \in Processes : Grown(q, job[q].out, job'[q].out)
<1>1. \A q \in Processes : job'[q] = IF q = p THEN j ELSE job[q]
  BY DEF Shape, SetJob
<1>2. \A q \in Processes : Grown(q, job[q].out, job[q].out)
  BY DEF Grown
<1> QED BY <1>1, <1>2

LEMMA RecordTyped ==
  ASSUME NEW r, NEW at, NEW write, NEW look
  PROVE  /\ Typed(Record(r, at, write, look)) /\ Record(r, at, write, look).at = at
         /\ Record(r, at, write, look).ref = r
BY DEF Typed, RecordFields, Record

LEMMA Growing ==
  ASSUME Shape, [Next]_vars PROVE \A p \in Processes : Grown(p, job[p].out, job'[p].out)
<1>1. CASE job' = job
  BY <1>1 DEF Grown
<1>2. ASSUME NEW p \in Processes, Return(p) PROVE \A q \in Processes : Grown(q, job[q].out, job'[q].out)
  BY <1>2, NoJobFacts, GrownBy DEF Return, Grown
<1>3. ASSUME NEW b \in Binders, BinderStep(b) PROVE \A q \in Processes : Grown(q, job[q].out, job'[q].out)
  <2>1. ASSUME BindStart(b) PROVE \A q \in Processes : Grown(q, job[q].out, job'[q].out)
    <3>1. PICK refs : SetJob(b, [NoJob EXCEPT !.todo = refs, !.write = used.writes + 1])
      BY <2>1 DEF BindStart
    <3> DEFINE j == [NoJob EXCEPT !.todo = refs, !.write = used.writes + 1]
    <3>2. j.out = {}
      BY DEF NoJob
    <3> HIDE DEF j
    <3> QED BY <3>1, <3>2, ProcessFacts, GrownBy DEF Grown, j
  <2>2. ASSUME NEW r, BindLook(b, r) PROVE \A q \in Processes : Grown(q, job[q].out, job'[q].out)
    <3> DEFINE new == Record(r, HeadLine, job[b].write, Look(r))
               j == [job[b] EXCEPT !.todo = @ \ {r}, !.out = @ \cup {new}]
    <3>1. j.out = job[b].out \cup {new}
      BY ProcessFacts DEF Shape, Fields
    <3>2. Typed(new) /\ new.at = HeadLine
      BY RecordTyped
    <3>3. SetJob(b, j)
      BY <2>2 DEF BindLook
    <3> HIDE DEF j, new
    <3>4. Grown(b, job[b].out, j.out)
      BY <3>1, <3>2 DEF Grown
    <3> QED BY <3>3, <3>4, ProcessFacts, GrownBy
  <2> QED BY <1>2, <1>3, <2>1, <2>2, ProcessFacts DEF BinderStep, BindAppend
<1>4. ASSUME NEW h \in Hooks, NEW j, j.out = {}, SetJob(h, j)
      PROVE \A q \in Processes : Grown(q, job[q].out, job'[q].out)
  BY <1>4, ProcessFacts, GrownBy DEF Grown
<1>5. ASSUME NEW h \in Hooks, NEW j, j.out = job[h].out, SetJob(h, j)
      PROVE \A q \in Processes : Grown(q, job[q].out, job'[q].out)
  BY <1>5, ProcessFacts, GrownBy DEF Grown
<1>6. ASSUME NEW h \in Hooks, HookStep(h) PROVE \A q \in Processes : Grown(q, job[q].out, job'[q].out)
  <2>1. DOMAIN job[h] = Fields /\ h \in Processes
    BY ProcessFacts DEF Shape
  <2>2. CASE HookStart(h)
    <3>1. Pushed(last).out = {}
      BY DEF Pushed, NoJob
    <3> QED BY <1>4, <2>2, <3>1 DEF HookStart
  <2>3. CASE HookLock(h)
    <3> DEFINE j == [job[h] EXCEPT !.todo = {rec.ref : rec \in {x \in recs : Candidate(x, job[h].changed)}}]
    <3>1. j.out = job[h].out
      BY <2>1 DEF Fields
    <3>2. SetJob(h, j)
      BY <2>3 DEF HookLock
    <3> HIDE DEF j
    <3> QED BY <1>5, <3>1, <3>2
  <2>4. CASE HookMark(h)
    <3> DEFINE mds == ToRebind(job[h])
               j == [NoJob EXCEPT !.changed = mds, !.unread = mds]
    <3>1. j.out = {}
      BY DEF NoJob
    <3>2. SetJob(h, j) \/ Return(h)
      BY <2>4 DEF HookMark
    <3> HIDE DEF j
    <3> QED BY <1>2, <1>4, <2>1, <3>1, <3>2
  <2>5. CASE RebindReplace(h)
    BY <1>2, <2>1, <2>5 DEF RebindReplace
  <2>6. ASSUME NEW f, RebindRead(h, f) PROVE \A q \in Processes : Grown(q, job[q].out, job'[q].out)
    <3>1. PICK refs : SetJob(h, [job[h] EXCEPT !.unread = @ \ {f}, !.todo = {<<f, r>> : r \in refs},
                                               !.write = used.writes + 1])
      BY <2>6 DEF RebindRead
    <3> DEFINE j == [job[h] EXCEPT !.unread = @ \ {f}, !.todo = {<<f, r>> : r \in refs}, !.write = used.writes + 1]
    <3>2. j.out = job[h].out /\ SetJob(h, j)
      BY <2>1, <3>1 DEF Fields
    <3> HIDE DEF j
    <3> QED BY <1>5, <3>2
  <2>7. ASSUME NEW r, HookLook(h, r) PROVE \A q \in Processes : Grown(q, job[q].out, job'[q].out)
    <3> DEFINE j == Saw(job[h], r)
    <3>1. j.out = job[h].out /\ SetJob(h, j)
      BY <2>1, <2>7 DEF Fields, Saw, HookLook
    <3> HIDE DEF j
    <3> QED BY <1>5, <3>1
  <2>8. ASSUME NEW f, NEW r, RebindLook(h, f, r) PROVE \A q \in Processes : Grown(q, job[q].out, job'[q].out)
    <3> DEFINE new == Record(r, f, job[h].write, Look(r))
               j == [job[h] EXCEPT !.todo = @ \ {<<f, r>>}, !.out = @ \cup {new}]
    <3>1. j.out = job[h].out \cup {new} /\ SetJob(h, j)
      BY <2>1, <2>8 DEF Fields, RebindLook
    <3>2. Typed(new)
      BY RecordTyped
    <3> HIDE DEF j, new
    <3>3. Grown(h, job[h].out, j.out)
      BY <3>1, <3>2, ProcessFacts DEF Grown
    <3> QED BY <2>1, <3>1, <3>3, GrownBy
  <2>9. ASSUME NEW f, RebindUnreadable(h, f) PROVE \A q \in Processes : Grown(q, job[q].out, job'[q].out)
    <3> DEFINE j == [job[h] EXCEPT !.unread = @ \ {f}]
    <3>1. j.out = job[h].out /\ SetJob(h, j)
      BY <2>1, <2>9 DEF Fields, RebindUnreadable
    <3> HIDE DEF j
    <3> QED BY <1>5, <3>1
  <2> QED BY <1>6, <2>2, <2>3, <2>4, <2>5, <2>6, <2>7, <2>8, <2>9 DEF HookStep
<1>7. ASSUME NEW h \in Hooks,
             \/ SeedStart(h)
             \/ \E d \in DOMAIN Covers : WatchStart(h, d)
             \/ \E c \in Tracked \cup Corpus : Commit(h, c)
      PROVE  \A q \in Processes : Grown(q, job[q].out, job'[q].out)
  <2>1. PICK j : SetJob(h, j) /\ j.out = {}
    <3>1. CASE SeedStart(h)
      <4>1. [NoJob EXCEPT !.changed = Corpus, !.unread = Corpus].out = {}
        BY DEF NoJob
      <4> QED BY <3>1, <4>1 DEF SeedStart
    <3>2. ASSUME NEW d, WatchStart(h, d) PROVE \E j : SetJob(h, j) /\ j.out = {}
      <4>1. [NoJob EXCEPT !.changed = Covers[d]].out = {}
        BY DEF NoJob
      <4> QED BY <3>2, <4>1 DEF WatchStart
    <3>3. ASSUME NEW c, Commit(h, c) PROVE \E j : SetJob(h, j) /\ j.out = {}
      <4>1. Pushed(Touched(c)).out = {}
        BY DEF Pushed, NoJob
      <4> QED BY <3>3, <4>1 DEF Commit
    <3> QED BY <1>7, <3>1, <3>2, <3>3
  <2> QED BY <1>4, <2>1
<1>8. CASE SweepStep
  <2>1. DOMAIN job[Sweeper] = Fields /\ Sweeper \in Processes
    BY ProcessFacts DEF Shape
  <2>2. CASE SweepStart
    <3> DEFINE j == [NoJob EXCEPT !.todo = {rec.ref : rec \in {x \in recs : WantsProbe(x)}}, !.out = recs]
    <3>1. j.out = recs /\ SetJob(Sweeper, j)
      BY <2>2 DEF NoJob, SweepStart
    <3> HIDE DEF j
    <3> QED BY <2>1, <3>1, GrownBy DEF Grown
  <2>3. ASSUME NEW r, SweepLook(r) PROVE \A q \in Processes : Grown(q, job[q].out, job'[q].out)
    <3> DEFINE j == Saw(job[Sweeper], r)
    <3>1. j.out = job[Sweeper].out /\ SetJob(Sweeper, j)
      BY <2>1, <2>3 DEF Fields, Saw, SweepLook
    <3> HIDE DEF j
    <3> QED BY <2>1, <3>1, GrownBy DEF Grown
  <2> QED BY <1>2, <1>8, <2>1, <2>2, <2>3 DEF SweepStep, SweepApply
<1> QED BY <1>1, <1>2, <1>3, <1>6, <1>7, <1>8, ProcessFacts DEF Next, vars, BindTorn, Move, Retire, Waive, GiveUp

-----------------------------------------------------------------------------
(* The ledger of what was written *)

LEMMA LedgerParts ==
  ASSUME LedgerInv
  PROVE  /\ \A rec \in recs : Typed(rec)
         /\ torn \in BOOLEAN /\ IsFiniteSet(Lost) /\ Cardinality(Lost) \in Nat
         /\ Cardinality(Lost) + (IF torn THEN 1 ELSE 0) <= used.tears
BY FS_CardinalityType DEF LedgerInv

\* the jobs stay finite and well formed
LEMMA JobsKept ==
  ASSUME Shape, LedgerInv, [Next]_vars
  PROVE  /\ \A p \in Processes : \A rec \in job'[p].out : Typed(rec)
         /\ \A p \in Processes \ {Sweeper} : IsFiniteSet(job'[p].out)
         /\ \A b \in Binders : \A rec \in job'[b].out : rec.at = HeadLine
<1>1. ASSUME NEW p \in Processes PROVE \A rec \in job'[p].out : Typed(rec)
  BY Growing DEF LedgerInv, Grown
<1>2. ASSUME NEW p \in Processes \ {Sweeper} PROVE IsFiniteSet(job'[p].out)
  <2>1. IsFiniteSet(job[p].out)
    BY DEF LedgerInv
  <2>2. Grown(p, job[p].out, job'[p].out)
    BY Growing
  <2>3. CASE job'[p].out \subseteq job[p].out
    BY <2>1, <2>3, FS_Subset
  <2>4. ASSUME NEW rec, job'[p].out = job[p].out \cup {rec} PROVE IsFiniteSet(job'[p].out)
    BY <2>1, <2>4, FS_AddElement
  <2> QED BY <2>2, <2>3, <2>4 DEF Grown
<1>3. ASSUME NEW b \in Binders PROVE \A rec \in job'[b].out : rec.at = HeadLine
  <2>1. Grown(b, job[b].out, job'[b].out) /\ b # Sweeper
    BY Growing, ProcessFacts, RefsAssumption
  <2> QED BY <2>1 DEF LedgerInv, Grown
<1> QED BY <1>1, <1>2, <1>3

\* a step that rewrites records but loses none
LEMMA LedgerSame ==
  ASSUME Shape, LedgerInv, [Next]_vars, Matched(recs, recs'),
         bound' = bound, dropped' = dropped, torn' = torn, used'.tears = used.tears
  PROVE  LedgerInv'
<1>1. Ids(recs') = Ids(recs) /\ \A rec \in recs' : Typed(rec)
  BY MatchedFacts
<1>2. Lost' = Lost
  BY <1>1 DEF Lost
<1> QED BY <1>1, <1>2, JobsKept, LedgerParts DEF LedgerInv

\* what Write leaves out of the file is one record, behind a half-written line
LEMMA LedgerWritten ==
  ASSUME Shape, LedgerInv, [Next]_vars, NEW kept, NEW new, Write(kept, new), IsFiniteSet(new),
         \A rec \in kept \cup new : Typed(rec),
         Ids(recs) \subseteq Ids(kept) \cup dropped', dropped \subseteq dropped', used' = used
  PROVE  LedgerInv'
<1>1. PICK lost \in SUBSET new :
        /\ Cardinality(lost) = (IF torn /\ new # {} THEN 1 ELSE 0)
        /\ recs' = kept \cup (new \ lost)
  BY DEF Write
<1>2. bound' = bound \cup Ids(new) /\ torn' = (torn /\ new = {})
  BY DEF Write
<1>3. IsFiniteSet(lost)
  BY FS_Subset
<1>4. PICK ids : /\ IsFiniteSet(ids) /\ Cardinality(ids) = Cardinality(lost)
                 /\ Cardinality(ids) \in Nat /\ Ids(lost) = ids
  <2>1. CASE torn /\ new # {}
    <3>1. PICK rec : lost = {rec}
      BY <1>1, <1>3, <2>1, FS_Singleton
    <3>2. Ids(lost) = {Id(rec)}
      BY <3>1 DEF Ids
    <3>3. IsFiniteSet(Ids(lost)) /\ Cardinality(Ids(lost)) = 1
      BY <3>2, FS_Singleton
    <3>4. Cardinality(lost) = 1
      BY <1>1, <2>1
    <3> QED BY <3>3, <3>4
  <2>2. CASE ~(torn /\ new # {})
    <3>1. lost = {}
      BY <1>1, <1>3, <2>2, FS_EmptySet
    <3>2. Ids(lost) = {}
      BY <3>1 DEF Ids
    <3> QED BY <3>1, <3>2, FS_EmptySet
  <2> QED BY <2>1, <2>2
<1>5. Lost' \subseteq Lost \cup ids
  <2>1. Ids(recs') = Ids(kept) \cup Ids(new \ lost) /\ Ids(new) = Ids(new \ lost) \cup Ids(lost)
    BY <1>1 DEF Ids
  <2> QED BY <1>2, <1>4, <2>1 DEF Lost
<1>6. IsFiniteSet(Lost') /\ Cardinality(Lost') \in Nat /\ Cardinality(Lost') <= Cardinality(Lost) + Cardinality(ids)
  <2>1. IsFiniteSet(Lost \cup ids)
        /\ Cardinality(Lost \cup ids) = Cardinality(Lost) + Cardinality(ids) - Cardinality(Lost \cap ids)
    BY <1>4, LedgerParts, FS_Union
  <2>2. Cardinality(Lost \cap ids) \in Nat
    BY <1>4, FS_Subset, FS_CardinalityType
  <2>3. IsFiniteSet(Lost') /\ Cardinality(Lost') <= Cardinality(Lost \cup ids)
    BY <1>5, <2>1, FS_Subset
  <2>4. Cardinality(Lost') \in Nat /\ Cardinality(Lost \cup ids) \in Nat
    BY <2>1, <2>3, FS_CardinalityType
  <2> QED BY <1>4, <2>1, <2>2, <2>3, <2>4, LedgerParts
<1>7. Cardinality(Lost') + (IF torn' THEN 1 ELSE 0) <= used'.tears
  <2>1. used.tears \in Nat
    BY DEF Shape, Counters
  <2>2. Cardinality(ids) = (IF torn /\ new # {} THEN 1 ELSE 0)
    BY <1>1, <1>4
  <2>3. Cardinality(ids) + (IF torn' THEN 1 ELSE 0) <= (IF torn THEN 1 ELSE 0)
    <3>1. CASE torn /\ new # {}
      <4>1. Cardinality(ids) = 1 /\ ~torn'
        BY <1>2, <2>2, <3>1
      <4> QED BY <3>1, <4>1
    <3>2. CASE ~(torn /\ new # {})
      <4>1. Cardinality(ids) = 0 /\ (torn' => torn)
        BY <1>2, <2>2, <3>2
      <4> QED BY <4>1
    <3> QED BY <3>1, <3>2
  <2> QED BY <1>4, <1>6, <2>1, <2>3, LedgerParts
<1>8. \A rec \in recs' : Typed(rec)
  BY <1>1
<1>9. torn' \in BOOLEAN
  BY <1>2
<1> QED BY <1>6, <1>7, <1>8, <1>9, JobsKept DEF LedgerInv

LEMMA LedgerTorn ==
  ASSUME Shape, LedgerInv, [Next]_vars, NEW b, BindTorn(b) PROVE LedgerInv'
<1>1. recs' = recs /\ bound' = bound /\ dropped' = dropped /\ torn' = TRUE
      /\ used' = [used EXCEPT !.faults = @ + 1, !.tears = @ + 1]
  BY DEF BindTorn
<1>2. used.tears \in Nat /\ used'.tears = used.tears + 1
  BY <1>1 DEF Shape, Counters
<1>3. Lost' = Lost
  BY <1>1 DEF Lost
<1> QED BY <1>1, <1>2, <1>3, JobsKept, LedgerParts DEF LedgerInv

LEMMA MatchedItself == ASSUME LedgerInv, recs' = recs PROVE Matched(recs, recs')
BY SameItself DEF LedgerInv, Matched

\* counters other than the half-written lines
LEMMA Untorn ==
  ASSUME Shape, NEW k \in Counters \ {"tears"}, Count(k) PROVE used'.tears = used.tears
BY DEF Shape, Count, Counters

\* the steps that neither write the file nor tear it
LEMMA LedgerIdle ==
  ASSUME Shape, LedgerInv, [Next]_vars, UNCHANGED store, used'.tears = used.tears PROVE LedgerInv'
BY MatchedItself, LedgerSame DEF store

LEMMA LedgerStep == IInv /\ LedgerInv /\ [Next]_vars => LedgerInv'
<1> SUFFICES ASSUME IInv, LedgerInv, [Next]_vars PROVE LedgerInv'
  OBVIOUS
<1>0. Shape /\ \A rec \in recs : Typed(rec)
  BY DEF IInv, LedgerInv
<1>1. CASE UNCHANGED vars
  BY <1>0, <1>1, LedgerIdle DEF vars, store
<1>2. ASSUME NEW b \in Binders, BinderStep(b) \/ BindTorn(b) PROVE LedgerInv'
  <2>1. CASE BindStart(b)
    <3>1. used'.tears = used.tears
      BY <1>0, <2>1 DEF BindStart, Shape, Counters
    <3> QED BY <1>0, <2>1, <3>1, LedgerIdle DEF BindStart
  <2>2. ASSUME NEW r, BindLook(b, r) PROVE LedgerInv'
    BY <1>0, <2>2, LedgerIdle DEF BindLook
  <2>3. CASE BindAppend(b)
    <3>1. IsFiniteSet(job[b].out) /\ \A rec \in job[b].out : Typed(rec)
      BY ProcessFacts, RefsAssumption DEF LedgerInv
    <3> QED BY <1>0, <2>3, <3>1, LedgerWritten DEF BindAppend
  <2> QED BY <1>0, <1>2, <2>1, <2>2, <2>3, LedgerTorn DEF BinderStep
<1>3. ASSUME NEW h \in Hooks, HookStep(h) PROVE LedgerInv'
  <2>1. CASE HookMark(h)
    <3>1. Matched(recs, recs')
      BY <1>0, <2>1, MarkMatches
    <3> QED BY <1>0, <2>1, <3>1, LedgerSame DEF HookMark
  <2>2. CASE RebindReplace(h)
    <3> DEFINE old == Superseded(recs, job[h].changed)
    <3>1. Write(recs \ old, job[h].out) /\ dropped' = dropped \cup Ids(old) /\ used' = used
      BY <2>2 DEF RebindReplace
    <3>2. IsFiniteSet(job[h].out) /\ \A rec \in job[h].out : Typed(rec)
      BY ProcessFacts DEF LedgerInv
    <3> HIDE DEF old
    <3>3. Ids(recs) \subseteq Ids(recs \ old) \cup dropped'
      BY <3>1 DEF Ids
    <3>4. dropped \subseteq dropped'
      BY <3>1
    <3> QED BY <1>0, <3>1, <3>2, <3>3, <3>4, LedgerWritten
  <2>3. ASSUME NEW f, RebindRead(h, f) PROVE LedgerInv'
    <3>1. used'.tears = used.tears
      BY <1>0, <2>3 DEF RebindRead, Shape, Counters
    <3> QED BY <1>0, <2>3, <3>1, LedgerIdle DEF RebindRead
  <2>4. CASE HookStart(h) \/ HookLock(h)
    BY <1>0, <2>4, LedgerIdle DEF HookStart, HookLock
  <2>5. ASSUME NEW r, HookLook(h, r) PROVE LedgerInv'
    BY <1>0, <2>5, LedgerIdle DEF HookLook
  <2>6. ASSUME NEW f, NEW r, RebindLook(h, f, r) PROVE LedgerInv'
    BY <1>0, <2>6, LedgerIdle DEF RebindLook
  <2>7. ASSUME NEW f, RebindUnreadable(h, f) PROVE LedgerInv'
    <3>1. used'.tears = used.tears
      BY <1>0, <2>7, Untorn DEF RebindUnreadable, Fault, Counters
    <3> QED BY <1>0, <2>7, <3>1, LedgerIdle DEF RebindUnreadable
  <2> QED BY <1>3, <2>1, <2>2, <2>3, <2>4, <2>5, <2>6, <2>7 DEF HookStep
<1>4. ASSUME NEW h \in Hooks,
             \/ SeedStart(h)
             \/ \E d \in DOMAIN Covers : WatchStart(h, d)
             \/ \E c \in Tracked \cup Corpus : Commit(h, c)
      PROVE  LedgerInv'
  <2>1. UNCHANGED store
    BY <1>4 DEF SeedStart, WatchStart, Commit
  <2>2. Count("triggers") \/ used' = [used EXCEPT !.triggers = @ + 1, !.moves = @ + 1]
    BY <1>4 DEF SeedStart, WatchStart, Commit
  <2>3. used'.tears = used.tears
    <3>1. CASE Count("triggers")
      BY <1>0, <3>1, Untorn DEF Counters
    <3>2. CASE used' = [used EXCEPT !.triggers = @ + 1, !.moves = @ + 1]
      BY <1>0, <3>2 DEF Shape, Counters
    <3> QED BY <2>2, <3>1, <3>2
  <2> QED BY <1>0, <2>1, <2>3, LedgerIdle
<1>5. CASE SweepStep
  <2>1. CASE SweepApply
    <3>1. Matched(recs, recs')
      BY <1>0, <2>1, SweepMatches
    <3> QED BY <1>0, <2>1, <3>1, LedgerSame DEF SweepApply
  <2>2. CASE SweepStart
    BY <1>0, <2>2, LedgerIdle DEF SweepStart
  <2>3. ASSUME NEW r, SweepLook(r) PROVE LedgerInv'
    BY <1>0, <2>3, LedgerIdle DEF SweepLook
  <2> QED BY <1>5, <2>1, <2>2, <2>3 DEF SweepStep
<1>6. ASSUME NEW r, NEW o, Move(r, o) PROVE LedgerInv'
  <2>1. UNCHANGED store /\ Count("moves")
    BY <1>6 DEF Move
  <2> QED BY <1>0, <2>1, Untorn, LedgerIdle DEF Counters
<1>7. ASSUME NEW rec \in recs, Retire(rec) \/ Waive(rec) PROVE LedgerInv'
  <2>1. Matched(recs, recs')
    BY <1>0, <1>7, JudgedMatches
  <2>2. bound' = bound /\ dropped' = dropped /\ torn' = torn /\ Count("judged")
    BY <1>7 DEF Retire, Waive
  <2> QED BY <1>0, <2>1, <2>2, Untorn, LedgerSame DEF Counters
<1>8. ASSUME NEW p \in Processes, GiveUp(p) PROVE LedgerInv'
  <2>1. UNCHANGED store /\ Count("faults")
    BY <1>8 DEF GiveUp, Fault
  <2> QED BY <1>0, <2>1, Untorn, LedgerIdle DEF Counters
<1> QED BY <1>1, <1>2, <1>3, <1>4, <1>5, <1>6, <1>7, <1>8 DEF Next

LEMMA LedgerInit == Init => LedgerInv
<1> SUFFICES ASSUME Init PROVE LedgerInv
  OBVIOUS
<1>1. \A rec \in recs : Typed(rec)
  BY RefsAssumption DEF Init, Typed, RecordFields
<1>2. \A p \in Processes : job[p].out = {}
  BY NoJobFacts DEF Init
<1>3. Lost = {} /\ torn = FALSE /\ used.tears = 0
  BY DEF Init, Lost
<1>4. Cardinality(Lost) + (IF torn THEN 1 ELSE 0) <= used.tears
  BY <1>3, FS_EmptySet
<1>5. IsFiniteSet(Lost) /\ torn \in BOOLEAN
  BY <1>3, FS_EmptySet
<1>6. \A p \in Processes : IsFiniteSet(job[p].out) /\ \A rec \in job[p].out : Typed(rec) /\ rec.at = HeadLine
  BY <1>2, FS_EmptySet
<1> QED BY <1>1, <1>4, <1>5, <1>6, ProcessFacts DEF LedgerInv

(* No interleaving of writes, triggers, sweeps, rebinds and adjudications     *)
(* drops a record of another process: what is neither in the file nor         *)
(* superseded by a rebind of its own file is at most one record for each      *)
(* half-written line.                                                         *)
THEOREM RecordsAreKept == Spec => []NoRecordLost
<1>1. IInv /\ LedgerInv => NoRecordLost
  <2> SUFFICES ASSUME IInv, LedgerInv PROVE NoRecordLost
    OBVIOUS
  <2>0. used.tears \in Nat
    BY DEF IInv, Shape, Counters
  <2>1. CASE torn
    <3>1. Cardinality(Lost) + 1 <= used.tears /\ Cardinality(Lost) \in Nat
      BY <2>1, LedgerParts
    <3>2. Cardinality(Lost) <= used.tears
      BY <2>0, <3>1
    <3> QED BY <3>2 DEF NoRecordLost, Lost
  <2>2. CASE ~torn
    <3>1. Cardinality(Lost) + 0 <= used.tears /\ Cardinality(Lost) \in Nat
      BY <2>2, LedgerParts
    <3>2. Cardinality(Lost) <= used.tears
      BY <2>0, <3>1
    <3> QED BY <3>2 DEF NoRecordLost, Lost
  <2> QED BY <2>1, <2>2
<1> QED BY <1>1, RefsInit, RefsStep, LedgerInit, LedgerStep, PTL DEF Spec

-----------------------------------------------------------------------------
(* A text refers to finitely many referents *)

LEMMA FiniteImage ==
  ASSUME NEW S, IsFiniteSet(S), NEW f, DOMAIN f = S PROVE IsFiniteSet({f[x] : x \in S})
<1> DEFINE T == {f[x] : x \in S}
           g == [x \in S |-> f[x]]
<1>1. g \in Surjection(S, T)
  BY DEF Surjection, Range
<1> HIDE DEF g, T
<1>2. IsFiniteSet(T)
  BY <1>1, FS_Surjection
<1> QED BY <1>2 DEF T

\* the union of finitely many finite sets
LEMMA FiniteUnion ==
  ASSUME NEW S, IsFiniteSet(S), NEW f, DOMAIN f = S, \A x \in S : IsFiniteSet(f[x])
  PROVE  IsFiniteSet(UNION {f[x] : x \in S})
<1>1. IsFiniteSet({f[x] : x \in S})
  BY FiniteImage
<1>2. \A T \in {f[x] : x \in S} : IsFiniteSet(T)
  OBVIOUS
<1> QED BY <1>1, <1>2, FS_UNION

LEMMA SoleOwnerFinite == ASSUME NEW held, NEW tok PROVE IsFiniteSet(SoleOwner(held, tok))
<1> DEFINE owners == {a \in UniqueRepos : tok \in held[RepoOf[a]]}
<1>1. IsFiniteSet(owners)
  <2>1. IsFiniteSet(DOMAIN Aliases)
    <3>1. DOMAIN Aliases = 1 .. Len(Aliases) /\ Len(Aliases) \in Nat
      BY ExtractAssumption
    <3> QED BY <3>1, FS_Interval
  <2>2. IsFiniteSet({Aliases[i] : i \in DOMAIN Aliases})
    BY <2>1, FiniteImage
  <2>3. owners \subseteq {Aliases[i] : i \in DOMAIN Aliases}
    BY DEF UniqueRepos
  <2> HIDE DEF owners
  <2> QED BY <2>2, <2>3, FS_Subset
<1> QED BY <1>1, FS_EmptySet DEF SoleOwner

LEMMA ExtractFinite == ASSUME NEW text, IsFiniteSet(text) PROVE IsFiniteSet(Extract(text))
<1> DEFINE of(form) == {m \in text : m.form = form}
           owned == {m.tok : m \in {m \in of("aliased") : m.by \in DOMAIN RepoOf}}
           bare == {m \in of("bare") \cup of("aliased") : m.tok \notin owned}
           files == [r \in DOMAIN HasFile |-> DOMAIN HasFile[r]]
           A == {{r \in Rooted(m) : Hygienic(r)} : m \in of("rooted")}
           B == {Remote(m) : m \in of("remote")}
           C == {{r \in ResolveRelpath(m.tok) : Hygienic(r)} : m \in of("relative")}
           D == {Aliased(m) : m \in of("aliased")}
           E == {ResolveBareSha(m.tok) : m \in bare}
           F == {{<<"unit", m.tok>>} : m \in of("unit")}
           G == {{<<"port", m.tok>>} : m \in of("port")}
<1>1. Extract(text) = UNION (A \cup B \cup C \cup D \cup E \cup F \cup G)
  BY DEF Extract
<1>2. \A form : IsFiniteSet(of(form))
  BY FS_Subset
<1>3. IsFiniteSet(bare)
  <2>1. bare \subseteq text
    OBVIOUS
  <2> HIDE DEF bare
  <2> QED BY <2>1, FS_Subset
<1> HIDE DEF of, bare, owned
<1>a. IsFiniteSet(UNION A)
  <2> DEFINE f == [m \in of("rooted") |-> {r \in Rooted(m) : Hygienic(r)}]
  <2>1. \A m \in of("rooted") : IsFiniteSet(f[m])
    <3>1. \A m : IsFiniteSet(Rooted(m))
      BY FS_EmptySet, FS_Singleton DEF Rooted
    <3> QED BY <3>1, FS_Subset
  <2>2. DOMAIN f = of("rooted") /\ A = {f[m] : m \in of("rooted")}
    OBVIOUS
  <2> HIDE DEF f, A
  <2> QED BY <1>2, <2>1, <2>2, FiniteUnion
<1>b. IsFiniteSet(UNION B)
  <2> DEFINE f == [m \in of("remote") |-> Remote(m)]
  <2>1. \A m \in of("remote") : IsFiniteSet(f[m])
    BY FS_EmptySet, FS_Singleton DEF Remote
  <2>2. DOMAIN f = of("remote") /\ B = {f[m] : m \in of("remote")}
    OBVIOUS
  <2> HIDE DEF f, B
  <2> QED BY <1>2, <2>1, <2>2, FiniteUnion
<1>c. IsFiniteSet(UNION C)
  <2> DEFINE f == [m \in of("relative") |-> {r \in ResolveRelpath(m.tok) : Hygienic(r)}]
  <2>1. ASSUME NEW tok PROVE IsFiniteSet(ResolveRelpath(tok))
    <3> DEFINE S == SoleOwner(files, tok)
               g == [a \in S |-> <<"file", HasFile[RepoOf[a]][tok]>>]
    <3>1. IsFiniteSet(S)
      BY SoleOwnerFinite
    <3>2. DOMAIN g = S /\ ResolveRelpath(tok) = {g[a] : a \in S}
      BY DEF ResolveRelpath
    <3> HIDE DEF S, g
    <3> QED BY <3>1, <3>2, FiniteImage
  <2>2. \A m \in of("relative") : IsFiniteSet(f[m])
    BY <2>1, FS_Subset
  <2>3. DOMAIN f = of("relative") /\ C = {f[m] : m \in of("relative")}
    OBVIOUS
  <2> HIDE DEF f, C
  <2> QED BY <1>2, <2>2, <2>3, FiniteUnion
<1>d. IsFiniteSet(UNION D)
  <2> DEFINE f == [m \in of("aliased") |-> Aliased(m)]
  <2>1. \A m \in of("aliased") : IsFiniteSet(f[m])
    BY FS_EmptySet, FS_Singleton DEF Aliased
  <2>2. DOMAIN f = of("aliased") /\ D = {f[m] : m \in of("aliased")}
    OBVIOUS
  <2> HIDE DEF f, D
  <2> QED BY <1>2, <2>1, <2>2, FiniteUnion
<1>e. IsFiniteSet(UNION E)
  <2> DEFINE f == [m \in bare |-> ResolveBareSha(m.tok)]
  <2>1. ASSUME NEW tok PROVE IsFiniteSet(ResolveBareSha(tok))
    <3> DEFINE S == SoleOwner(HasCommit, tok)
               g == [a \in S |-> <<"git", <<a, tok>>>>]
    <3>1. IsFiniteSet(S)
      BY SoleOwnerFinite
    <3>2. DOMAIN g = S /\ ResolveBareSha(tok) = {g[a] : a \in S}
      BY DEF ResolveBareSha
    <3> HIDE DEF S, g
    <3> QED BY <3>1, <3>2, FiniteImage
  <2>2. \A m \in bare : IsFiniteSet(f[m])
    BY <2>1
  <2>3. DOMAIN f = bare /\ E = {f[m] : m \in bare}
    OBVIOUS
  <2> HIDE DEF f, E
  <2> QED BY <1>3, <2>2, <2>3, FiniteUnion
<1>f. IsFiniteSet(UNION F)
  <2> DEFINE f == [m \in of("unit") |-> {<<"unit", m.tok>>}]
  <2>1. \A m \in of("unit") : IsFiniteSet(f[m])
    BY FS_Singleton
  <2>2. DOMAIN f = of("unit") /\ F = {f[m] : m \in of("unit")}
    OBVIOUS
  <2> HIDE DEF f, F
  <2> QED BY <1>2, <2>1, <2>2, FiniteUnion
<1>g. IsFiniteSet(UNION G)
  <2> DEFINE f == [m \in of("port") |-> {<<"port", m.tok>>}]
  <2>1. \A m \in of("port") : IsFiniteSet(f[m])
    BY FS_Singleton
  <2>2. DOMAIN f = of("port") /\ G = {f[m] : m \in of("port")}
    OBVIOUS
  <2> HIDE DEF f, G
  <2> QED BY <1>2, <2>1, <2>2, FiniteUnion
<1> HIDE DEF A, B, C, D, E, F, G
<1>4. Extract(text) = (UNION A) \cup (UNION B) \cup (UNION C) \cup (UNION D) \cup (UNION E)
                      \cup (UNION F) \cup (UNION G)
  BY <1>1
<1>5. IsFiniteSet((UNION A) \cup (UNION B) \cup (UNION C))
  BY <1>a, <1>b, <1>c, FS_Union
<1>6. IsFiniteSet((UNION A) \cup (UNION B) \cup (UNION C) \cup (UNION D) \cup (UNION E))
  BY <1>5, <1>d, <1>e, FS_Union
<1>7. IsFiniteSet((UNION F) \cup (UNION G))
  BY <1>f, <1>g, FS_Union
<1> DEFINE P == (UNION A) \cup (UNION B) \cup (UNION C) \cup (UNION D) \cup (UNION E)
           Q == (UNION F) \cup (UNION G)
<1>8. Extract(text) = P \cup Q
  BY <1>4
<1>9. IsFiniteSet(P) /\ IsFiniteSet(Q)
  BY <1>6, <1>7
<1> HIDE DEF P, Q
<1> QED BY <1>8, <1>9, FS_Union

-----------------------------------------------------------------------------
(* The records of a corpus file follow its text *)

\* the records of earlier builds follow the texts the corpus starts with
Want(text, f) == IF f \in Aspirational THEN {} ELSE Extract(text)
Enough(S) == IF Cardinality(S) < MaxRefs THEN Cardinality(S) ELSE MaxRefs
Seeded ==
  \A f \in Corpus : /\ Have(OldRecords, f) \subseteq Want(StartDocs[f], f)
                    /\ Cardinality(Have(OldRecords, f)) >= Enough(Want(StartDocs[f], f))

\* the records of f name referents of its text, all of them but for half-written lines
Follows(R, text, f, tears) ==
  /\ Have(R, f) \subseteq Want(text, f)
  /\ Cardinality(Have(R, f)) + tears >= Enough(Want(text, f))

Found(j, f) == Have(j.out, f) \cup {x[2] : x \in {y \in j.todo : y[1] = f}}
\* a rebind that has read a file looks at what the text of that file names
Rebinding(j, texts, gone) ==
  /\ j.unread \subseteq j.changed
  /\ \A rec \in j.out : rec.at \in j.changed \ j.unread
  /\ \A x \in j.todo : x[1] \in j.changed \ j.unread
  /\ \A f \in j.changed \ (j.unread \cup gone) : Found(j, f) \in Cut(Want(texts[f], f), MaxRefs)

Duty(l, j) == IF l = "reading" THEN j.changed ELSE j.unread
HookOK(l, j, texts, gone) ==
  /\ Duty(l, j) \subseteq Corpus
  /\ l = "idle" => j.unread = {}
  /\ l = "reading" => Rebinding(j, texts, gone)

\* between commits a corpus file is followed by its records or owed a rebind
FollowInv ==
  /\ DOMAIN docs = Corpus /\ \A f \in Corpus : IsFiniteSet(docs[f])
  /\ \A h \in Hooks : HookOK(pc[h], job[h], docs, missed)
  /\ \A f \in Corpus \ missed :
       Follows(recs, docs[f], f, used.tears) \/ \E h \in Hooks : f \in Duty(pc[h], job[h])

LEMMA MoreGone ==
  ASSUME NEW l, NEW j, NEW texts, NEW gone, NEW more, gone \subseteq more, HookOK(l, j, texts, gone)
  PROVE  HookOK(l, j, texts, more)
BY DEF HookOK, Rebinding

LEMMA WantFinite ==
  ASSUME NEW text, IsFiniteSet(text), NEW f PROVE IsFiniteSet(Want(text, f))
BY ExtractFinite, FS_EmptySet DEF Want

\* what the cap leaves is finite and as much as the cap allows
LEMMA CutFacts ==
  ASSUME NEW S, IsFiniteSet(S), NEW X \in Cut(S, MaxRefs)
  PROVE  X \subseteq S /\ IsFiniteSet(X) /\ Cardinality(X) = Enough(S) /\ Cardinality(X) \in Nat
<1>1. X \subseteq S /\ Cardinality(X) = Enough(S)
  BY DEF Cut, Enough
<1> QED BY <1>1, FS_Subset, FS_CardinalityType

LEMMA EnoughNat == ASSUME NEW S, IsFiniteSet(S) PROVE Enough(S) \in Nat
BY FS_CardinalityType, ExtractAssumption DEF Enough


LEMMA FollowsStays ==
  ASSUME NEW R, NEW S, NEW text, NEW f, IsFiniteSet(text), Have(S, f) = Have(R, f),
         NEW m \in Nat, NEW n \in Nat, m <= n, Follows(R, text, f, m)
  PROVE  Follows(S, text, f, n)
<1>1. IsFiniteSet(Want(text, f)) /\ Enough(Want(text, f)) \in Nat
  BY WantFinite, EnoughNat
<1>2. Cardinality(Have(R, f)) \in Nat
  BY <1>1, FS_Subset, FS_CardinalityType DEF Follows
<1>3. Cardinality(Have(R, f)) + m >= Enough(Want(text, f))
  BY DEF Follows
<1>4. Cardinality(Have(S, f)) + n >= Enough(Want(text, f))
  BY <1>1, <1>2, <1>3
<1> QED BY <1>4 DEF Follows

\* the texts and the records of every corpus file stay, and no duty is forgotten
LEMMA FollowKept ==
  ASSUME Shape, Shape', FollowInv, docs' = docs, missed \subseteq missed', used.tears <= used'.tears,
         \A f \in Corpus : Have(recs', f) = Have(recs, f),
         \A h \in Hooks : /\ HookOK(pc'[h], job'[h], docs, missed')
                          /\ Duty(pc[h], job[h]) \subseteq Duty(pc'[h], job'[h]) \cup missed'
  PROVE  FollowInv'
<1>1. used.tears \in Nat /\ used'.tears \in Nat
  BY DEF Shape, Counters
<1>2. \A f \in Corpus : Follows(recs, docs[f], f, used.tears) => Follows(recs', docs[f], f, used'.tears)
  BY <1>1, FollowsStays DEF FollowInv
<1>3. \A f \in Corpus \ missed' :
        Follows(recs', docs'[f], f, used'.tears) \/ \E h \in Hooks : f \in Duty(pc'[h], job'[h])
  BY <1>2 DEF FollowInv
<1> QED BY <1>3 DEF FollowInv

\* the tears counter only grows
LEMMA TearsGrow == ASSUME Shape, [Next]_vars PROVE used.tears <= used'.tears
<1>1. used \in [Counters -> Nat] /\ used.tears \in Nat
  BY DEF Shape, Counters
<1>2. CASE used' = used
  BY <1>1, <1>2
<1>3. ASSUME NEW k \in Counters \ {"tears"}, Count(k) PROVE used.tears <= used'.tears
  BY <1>1, <1>3, Untorn
<1>4. ASSUME NEW b, BindStart(b) PROVE used.tears <= used'.tears
  BY <1>1, <1>4 DEF BindStart, Counters
<1>5. ASSUME NEW b, BindTorn(b) PROVE used.tears <= used'.tears
  BY <1>1, <1>5 DEF BindTorn, Counters
<1>6. ASSUME NEW h, NEW f, RebindRead(h, f) PROVE used.tears <= used'.tears
  BY <1>1, <1>6 DEF RebindRead, Counters
<1>7. ASSUME NEW h, NEW c, Commit(h, c) PROVE used.tears <= used'.tears
  <2>1. CASE Count("triggers")
    BY <1>3, <2>1 DEF Counters
  <2>2. CASE used' = [used EXCEPT !.triggers = @ + 1, !.moves = @ + 1]
    BY <1>1, <2>2 DEF Counters
  <2> QED BY <1>7, <2>1, <2>2 DEF Commit
<1> QED BY <1>2, <1>3, <1>4, <1>5, <1>6, <1>7
     DEF Next, vars, Counters, BinderStep, BindLook, BindAppend, HookStep, HookStart, HookLock, HookMark, HookLook,
         RebindUnreadable, RebindLook, RebindReplace, SeedStart, WatchStart, SweepStep, SweepStart, SweepLook,
         SweepApply, Move, Retire, Waive, GiveUp, Fault

\* only hook p goes on, the records as they were or rewritten one by one
LEMMA FollowHook ==
  ASSUME IInv, FollowInv, [Next]_vars, NEW p \in Hooks, NEW l, NEW j, Moves(p, l, j), docs' = docs,
         missed \subseteq missed', \A f \in Corpus : Have(recs', f) = Have(recs, f),
         HookOK(l, j, docs, missed'), Duty(pc[p], job[p]) \subseteq Duty(l, j) \cup missed'
  PROVE  FollowInv'
<1>1. Shape /\ Shape'
  BY RefsStep DEF IInv
<1>2. \A h \in Hooks : /\ HookOK(pc'[h], job'[h], docs, missed')
                       /\ Duty(pc[h], job[h]) \subseteq Duty(pc'[h], job'[h]) \cup missed'
  BY ProcessFacts, MoreGone DEF Moves, FollowInv
<1> QED BY <1>1, <1>2, TearsGrow, FollowKept

\* a step of a write, of the sweep or of the environment
LEMMA FollowOthers ==
  ASSUME IInv, FollowInv, [Next]_vars, docs' = docs, missed \subseteq missed',
         \A f \in Corpus : Have(recs', f) = Have(recs, f),
         \A h \in Hooks : pc'[h] = pc[h] /\ job'[h] = job[h]
  PROVE  FollowInv'
<1>1. Shape /\ Shape'
  BY RefsStep DEF IInv
<1>2. \A h \in Hooks : HookOK(pc'[h], job'[h], docs, missed')
  BY MoreGone DEF FollowInv
<1> QED BY <1>1, <1>2, TearsGrow, FollowKept

-----------------------------------------------------------------------------
(* A rebind *)

LEMMA ReadFollows ==
  ASSUME IInv, FollowInv, [Next]_vars, NEW h \in Hooks, NEW f, RebindRead(h, f) PROVE FollowInv'
<1>0. Shape /\ h \in Processes /\ DOMAIN job[h] = Fields
  BY ProcessFacts DEF IInv, Shape
<1>1. PICK refs \in Cut(Want(docs[f], f), MaxRefs) :
        SetJob(h, [job[h] EXCEPT !.unread = @ \ {f}, !.todo = {<<f, r>> : r \in refs}, !.write = used.writes + 1])
  <2>1. {} \in Cut({}, MaxRefs)
    BY FS_EmptySet, ExtractAssumption DEF Cut
  <2> QED BY <2>1 DEF RebindRead, Want
<1> DEFINE j == [job[h] EXCEPT !.unread = @ \ {f}, !.todo = {<<f, r>> : r \in refs}, !.write = used.writes + 1]
<1>2. /\ j.out = job[h].out /\ j.changed = job[h].changed /\ j.unread = job[h].unread \ {f}
      /\ j.todo = {<<f, r>> : r \in refs}
  BY <1>0 DEF Fields
<1>3. /\ pc[h] = "reading" /\ job[h].todo = {} /\ f \in job[h].unread /\ pc' = pc /\ SetJob(h, j)
      /\ docs' = docs /\ recs' = recs /\ missed' = missed
  BY <1>1 DEF RebindRead, reality, store
<1> HIDE DEF j
<1>4. Rebinding(job[h], docs, missed) /\ job[h].changed \subseteq Corpus
  BY <1>3 DEF FollowInv, HookOK, Duty
<1>5. Rebinding(j, docs, missed')
  <2>1. \A rec \in j.out : rec.at \in j.changed \ j.unread /\ rec.at # f
    BY <1>2, <1>3, <1>4 DEF Rebinding
  <2>2. Found(j, f) = refs
    <3>1. Have(j.out, f) = {}
      BY <2>1 DEF Have
    <3>2. {y \in j.todo : y[1] = f} = {<<f, r>> : r \in refs}
      BY <1>2
    <3>3. {x[2] : x \in {<<f, r>> : r \in refs}} = refs
      <4>1. \A r : <<f, r>>[2] = r
        OBVIOUS
      <4> QED BY <4>1
    <3> QED BY <3>1, <3>2, <3>3 DEF Found
  <2>3. ASSUME NEW g \in j.changed \ j.unread, g # f PROVE Found(j, g) = Found(job[h], g)
    <3>1. {y \in j.todo : y[1] = g} = {} /\ {y \in job[h].todo : y[1] = g} = {}
      BY <1>2, <1>3, <2>3
    <3> QED BY <1>2, <3>1 DEF Found
  <2>4. \A x \in j.todo : x[1] = f
    BY <1>2
  <2>5. f \in j.changed \ j.unread /\ j.unread \subseteq j.changed
    BY <1>2, <1>3, <1>4 DEF Rebinding
  <2>6. \A g \in j.changed \ (j.unread \cup missed') : Found(j, g) \in Cut(Want(docs[g], g), MaxRefs)
    BY <1>2, <1>3, <1>4, <2>2, <2>3 DEF Rebinding
  <2> QED BY <2>1, <2>4, <2>5, <2>6 DEF Rebinding
<1>6. HookOK("reading", j, docs, missed')
  BY <1>2, <1>4, <1>5 DEF HookOK, Duty
<1>7. Moves(h, "reading", j)
  BY <1>0, <1>3, Moving
<1>8. Duty(pc[h], job[h]) \subseteq Duty("reading", j) \cup missed'
  BY <1>2, <1>3 DEF Duty
<1> QED BY <1>3, <1>6, <1>7, <1>8, FollowHook

\* a file that cannot be read is left to the next rebind
LEMMA UnreadableFollows ==
  ASSUME IInv, FollowInv, [Next]_vars, NEW h \in Hooks, NEW f, RebindUnreadable(h, f) PROVE FollowInv'
<1>0. Shape /\ h \in Processes /\ DOMAIN job[h] = Fields
  BY ProcessFacts DEF IInv, Shape
<1> DEFINE j == [job[h] EXCEPT !.unread = @ \ {f}]
<1>1. /\ j.out = job[h].out /\ j.changed = job[h].changed /\ j.unread = job[h].unread \ {f}
      /\ j.todo = job[h].todo
  BY <1>0 DEF Fields
<1>2. /\ pc[h] = "reading" /\ f \in job[h].unread /\ pc' = pc /\ SetJob(h, j)
      /\ docs' = docs /\ recs' = recs /\ missed' = missed \cup {f}
  BY DEF RebindUnreadable, reality, store
<1> HIDE DEF j
<1>3. Rebinding(job[h], docs, missed) /\ job[h].changed \subseteq Corpus
  BY <1>2 DEF FollowInv, HookOK, Duty
<1>4. \A g : Found(j, g) = Found(job[h], g)
  BY <1>1 DEF Found
<1>5. HookOK("reading", j, docs, missed')
  BY <1>1, <1>2, <1>3, <1>4 DEF HookOK, Duty, Rebinding
<1>6. Moves(h, "reading", j)
  BY <1>0, <1>2, Moving
<1>7. Duty(pc[h], job[h]) \subseteq Duty("reading", j) \cup missed'
  BY <1>1, <1>2 DEF Duty
<1> QED BY <1>2, <1>5, <1>6, <1>7, FollowHook

LEMMA LookFollows ==
  ASSUME IInv, FollowInv, [Next]_vars, NEW h \in Hooks, NEW x, x \in job[h].todo,
         RebindLook(h, x[1], x[2])
  PROVE  FollowInv'
<1>0. Shape /\ h \in Processes /\ DOMAIN job[h] = Fields
  BY ProcessFacts DEF IInv, Shape
<1> DEFINE f == x[1]
           r == x[2]
           new == Record(r, f, job[h].write, Look(r))
           j == [job[h] EXCEPT !.todo = @ \ {<<f, r>>}, !.out = @ \cup {new}]
<1>1. /\ j.out = job[h].out \cup {new} /\ j.changed = job[h].changed /\ j.unread = job[h].unread
      /\ j.todo = job[h].todo \ {<<f, r>>}
  BY <1>0 DEF Fields
<1>2. new.at = f /\ new.ref = r
  BY RecordTyped
<1>3. /\ pc[h] = "reading" /\ <<f, r>> \in job[h].todo /\ pc' = pc /\ SetJob(h, j)
      /\ docs' = docs /\ recs' = recs /\ missed' = missed
  BY DEF RebindLook, reality, store
<1> HIDE DEF j, new
<1>4. Rebinding(job[h], docs, missed) /\ job[h].changed \subseteq Corpus
  BY <1>3 DEF FollowInv, HookOK, Duty
<1>5. ASSUME NEW g PROVE Found(j, g) = Found(job[h], g)
  <2>1. Have(j.out, g) = Have(job[h].out, g) \cup {rec.ref : rec \in {y \in {new} : y.at = g}}
    BY <1>1 DEF Have
  <2>2. CASE g # f
    <3>1. Have(j.out, g) = Have(job[h].out, g)
      BY <1>2, <2>1, <2>2
    <3>2. {y \in j.todo : y[1] = g} = {y \in job[h].todo : y[1] = g}
      BY <1>1, <2>2
    <3> QED BY <3>1, <3>2 DEF Found
  <2>3. CASE g = f
    <3>1. Have(j.out, g) = Have(job[h].out, g) \cup {r}
      BY <1>2, <2>1, <2>3
    <3>2. {y[2] : y \in {z \in job[h].todo : z[1] = g}} = {y[2] : y \in {z \in j.todo : z[1] = g}} \cup {r}
      BY <1>1, <1>3, <2>3
    <3>3. {y[2] : y \in {z \in j.todo : z[1] = g}} \cup {r} = {y[2] : y \in {z \in job[h].todo : z[1] = g}} \cup {r}
      BY <3>2
    <3> QED BY <3>1, <3>2 DEF Found
  <2> QED BY <2>2, <2>3
<1>6. Rebinding(j, docs, missed')
  <2>1. f \in job[h].changed \ job[h].unread
    BY <1>4 DEF Rebinding
  <2> QED BY <1>1, <1>2, <1>3, <1>4, <1>5, <2>1 DEF Rebinding
<1>7. HookOK("reading", j, docs, missed')
  BY <1>1, <1>4, <1>6 DEF HookOK, Duty
<1>8. Moves(h, "reading", j)
  BY <1>0, <1>3, Moving
<1>9. Duty(pc[h], job[h]) \subseteq Duty("reading", j) \cup missed'
  BY <1>1, <1>3 DEF Duty
<1> QED BY <1>3, <1>7, <1>8, <1>9, FollowHook

\* what a rebind puts in the place of a file's records: what it looked at, less one line
LEMMA Rebound ==
  ASSUME IInv, LedgerInv, FollowInv, NEW h \in Hooks, RebindReplace(h), NEW f \in job[h].changed \ missed
  PROVE  Follows(recs', docs[f], f, used.tears)
<1> DEFINE old == Superseded(recs, job[h].changed)
           X == Have(job[h].out, f)
           W == Want(docs[f], f)
<1>1. pc[h] = "reading" /\ job[h].unread = {} /\ job[h].todo = {} /\ Write(recs \ old, job[h].out)
  BY DEF RebindReplace
<1>2. Rebinding(job[h], docs, missed) /\ f \in Corpus
  BY <1>1 DEF FollowInv, HookOK, Duty
<1>3. IsFiniteSet(W) /\ X \in Cut(W, MaxRefs)
  <2>1. Found(job[h], f) = X
    BY <1>1 DEF Found
  <2> QED BY <1>1, <1>2, <2>1, WantFinite DEF Rebinding, FollowInv
<1>4. X \subseteq W /\ IsFiniteSet(X) /\ Cardinality(X) = Enough(W) /\ Cardinality(X) \in Nat
  BY <1>3, CutFacts
<1>5. PICK lost \in SUBSET job[h].out :
        /\ Cardinality(lost) = (IF torn /\ job[h].out # {} THEN 1 ELSE 0)
        /\ recs' = (recs \ old) \cup (job[h].out \ lost)
  BY <1>1 DEF Write
<1>6. IsFiniteSet(lost)
  <2>1. IsFiniteSet(job[h].out)
    BY ProcessFacts DEF LedgerInv
  <2> QED BY <2>1, FS_Subset
<1>7. Have(recs', f) = Have(job[h].out \ lost, f)
  <2>1. \A rec \in recs \ old : rec.at # f
    BY DEF Superseded
  <2> HIDE DEF old
  <2> QED BY <1>5, <2>1 DEF Have
<1>8. Have(recs', f) \subseteq X
  BY <1>7 DEF Have
<1>9. IsFiniteSet(Have(recs', f)) /\ Cardinality(Have(recs', f)) \in Nat
  BY <1>4, <1>8, FS_Subset, FS_CardinalityType
<1>10. used.tears \in Nat
  BY DEF IInv, Shape, Counters
<1>11. Cardinality(Have(recs', f)) + used.tears >= Enough(W)
  <2>1. CASE torn /\ job[h].out # {}
    <3>1. PICK l : lost = {l}
      BY <1>5, <1>6, <2>1, FS_Singleton
    <3>2. X \ {l.ref} \subseteq Have(recs', f)
      BY <1>7, <3>1 DEF Have
    <3>3. Cardinality(X \ {l.ref}) <= Cardinality(Have(recs', f))
      BY <1>9, <3>2, FS_Subset
    <3>4. Cardinality(X \ {l.ref}) = (IF l.ref \in X THEN Cardinality(X) - 1 ELSE Cardinality(X))
      BY <1>4, FS_RemoveElement
    <3>5. used.tears >= 1
      <4>1. Cardinality(Lost) + 1 <= used.tears /\ Cardinality(Lost) \in Nat
        BY <2>1, LedgerParts
      <4> QED BY <1>10, <4>1
    <3>6. Cardinality(X) - 1 <= Cardinality(Have(recs', f))
      BY <1>4, <1>9, <3>3, <3>4
    <3>7. Cardinality(X) <= Cardinality(Have(recs', f)) + used.tears
      BY <1>4, <1>9, <1>10, <3>5, <3>6
    <3> QED BY <1>4, <1>9, <1>10, <3>7
  <2>2. CASE ~(torn /\ job[h].out # {})
    <3>1. lost = {}
      BY <1>5, <1>6, <2>2, FS_EmptySet
    <3>2. Have(recs', f) = X
      BY <1>7, <3>1
    <3>3. Cardinality(Have(recs', f)) = Enough(W)
      BY <1>4, <3>2
    <3> QED BY <1>9, <1>10, <3>3
  <2> QED BY <2>1, <2>2
<1>12. Have(recs', f) \subseteq W
  BY <1>4, <1>8
<1> QED BY <1>11, <1>12 DEF Follows

LEMMA ReplaceFollows ==
  ASSUME IInv, LedgerInv, FollowInv, [Next]_vars, NEW h \in Hooks, RebindReplace(h) PROVE FollowInv'
<1>0. Shape /\ h \in Processes /\ used.tears \in Nat
  BY ProcessFacts DEF IInv, Shape, Counters
<1> DEFINE old == Superseded(recs, job[h].changed)
<1>1. /\ pc[h] = "reading" /\ Write(recs \ old, job[h].out) /\ Return(h)
      /\ job[h].unread = {} /\ docs' = docs /\ missed' = missed /\ used' = used
  BY DEF RebindReplace, reality
<1>2. Moves(h, "idle", NoJob)
  BY <1>0, <1>1, Returning
<1>3. Rebinding(job[h], docs, missed) /\ Duty(pc[h], job[h]) = job[h].changed
  BY <1>1 DEF FollowInv, HookOK, Duty
<1>4. ASSUME NEW f, f \notin job[h].changed PROVE Have(recs', f) = Have(recs, f)
  <2>1. PICK lost : recs' = (recs \ old) \cup (job[h].out \ lost)
    BY <1>1 DEF Write
  <2>2. \A rec \in job[h].out : rec.at # f
    BY <1>3, <1>4 DEF Rebinding
  <2>3. \A rec \in recs : rec.at = f => rec \notin old
    BY <1>4 DEF Superseded
  <2> HIDE DEF old
  <2> QED BY <2>1, <2>2, <2>3 DEF Have
<1>5. ASSUME NEW f \in Corpus \ missed'
      PROVE  Follows(recs', docs'[f], f, used'.tears) \/ \E g \in Hooks : f \in Duty(pc'[g], job'[g])
  <2>1. CASE f \in job[h].changed
    BY <1>1, <2>1, Rebound
  <2>2. CASE f \notin job[h].changed /\ Follows(recs, docs[f], f, used.tears)
    <3>1. IsFiniteSet(docs[f]) /\ Have(recs', f) = Have(recs, f)
      BY <1>4, <2>2 DEF FollowInv
    <3> QED BY <1>0, <1>1, <2>2, <3>1, FollowsStays
  <2>3. ASSUME NEW g \in Hooks, f \in Duty(pc[g], job[g]), f \notin job[h].changed
        PROVE  f \in Duty(pc'[g], job'[g])
    BY <1>2, <1>3, <2>3, ProcessFacts DEF Moves
  <2> QED BY <1>1, <2>1, <2>2, <2>3 DEF FollowInv
<1>6. HookOK("idle", NoJob, docs, missed')
  BY NoJobFacts DEF HookOK, Duty
<1>7. \A g \in Hooks : HookOK(pc'[g], job'[g], docs', missed')
  BY <1>1, <1>2, <1>6, ProcessFacts DEF Moves, FollowInv
<1> QED BY <1>1, <1>5, <1>7 DEF FollowInv

-----------------------------------------------------------------------------
(* The other steps *)

LEMMA StartFollows ==
  ASSUME IInv, FollowInv, [Next]_vars, NEW h \in Hooks,
         HookStart(h) \/ SeedStart(h) \/ (\E d : WatchStart(h, d))
  PROVE  FollowInv'
<1>0. Shape /\ h \in Processes /\ HookOK(pc[h], job[h], docs, missed)
  BY ProcessFacts DEF IInv, Shape, FollowInv
<1>1. docs' = docs /\ recs' = recs /\ missed \subseteq missed'
  BY DEF HookStart, SeedStart, WatchStart, reality, store
<1>2. CASE HookStart(h)
  <2> DEFINE j == Pushed(last)
  <2>1. j.unread = Corpus \cap last
    BY DEF Pushed, NoJob
  <2>2. SetJob(h, j) /\ Goto(h, "mark") /\ pc[h] = "committed" /\ missed' = missed \cup (job[h].unread \ last)
    BY <1>2 DEF HookStart
  <2> HIDE DEF j
  <2>3. HookOK("mark", j, docs, missed')
    BY <2>1 DEF HookOK, Duty
  <2>4. Duty(pc[h], job[h]) \subseteq Duty("mark", j) \cup missed'
    BY <1>0, <2>1, <2>2 DEF HookOK, Duty
  <2>5. Moves(h, "mark", j)
    BY <1>0, <2>2, Moving
  <2> QED BY <1>1, <2>3, <2>4, <2>5, FollowHook
<1>3. CASE SeedStart(h)
  <2> DEFINE j == [NoJob EXCEPT !.changed = Corpus, !.unread = Corpus]
  <2>1. j.changed = Corpus /\ j.unread = Corpus /\ j.out = {} /\ j.todo = {}
    BY DEF NoJob
  <2>2. SetJob(h, j) /\ Goto(h, "reading") /\ pc[h] = "idle"
    BY <1>3 DEF SeedStart
  <2> HIDE DEF j
  <2>3. HookOK("reading", j, docs, missed')
    BY <2>1 DEF HookOK, Duty, Rebinding
  <2>4. Duty(pc[h], job[h]) \subseteq Duty("reading", j) \cup missed'
    BY <1>0, <2>2 DEF HookOK, Duty
  <2>5. Moves(h, "reading", j)
    BY <1>0, <2>2, Moving
  <2> QED BY <1>1, <2>3, <2>4, <2>5, FollowHook
<1>4. ASSUME NEW d, WatchStart(h, d) PROVE FollowInv'
  <2> DEFINE j == [NoJob EXCEPT !.changed = Covers[d]]
  <2>1. j.unread = {}
    BY DEF NoJob
  <2>2. SetJob(h, j) /\ Goto(h, "mark") /\ pc[h] = "idle"
    BY <1>4 DEF WatchStart
  <2> HIDE DEF j
  <2>3. HookOK("mark", j, docs, missed')
    BY <2>1 DEF HookOK, Duty
  <2>4. Duty(pc[h], job[h]) \subseteq Duty("mark", j) \cup missed'
    BY <1>0, <2>2 DEF HookOK, Duty
  <2>5. Moves(h, "mark", j)
    BY <1>0, <2>2, Moving
  <2> QED BY <1>1, <2>3, <2>4, <2>5, FollowHook
<1> QED BY <1>2, <1>3, <1>4

LEMMA PassFollows ==
  ASSUME IInv, LedgerInv, FollowInv, [Next]_vars, NEW h \in Hooks,
         HookLock(h) \/ HookMark(h) \/ (\E r : HookLook(h, r))
  PROVE  FollowInv'
<1>0. Shape /\ h \in Processes /\ DOMAIN job[h] = Fields /\ HookOK(pc[h], job[h], docs, missed)
  BY ProcessFacts DEF IInv, Shape, FollowInv
<1>1. docs' = docs /\ missed' = missed
  BY DEF HookLock, HookMark, HookLook, reality
<1>2. CASE HookLock(h)
  <2> DEFINE refs == {rec.ref : rec \in {x \in recs : Candidate(x, job[h].changed)}}
             j == [job[h] EXCEPT !.todo = refs]
  <2>1. j.unread = job[h].unread
    BY <1>0 DEF Fields
  <2>2. SetJob(h, j) /\ Goto(h, "marking") /\ pc[h] = "mark" /\ recs' = recs
    BY <1>2 DEF HookLock, store
  <2> HIDE DEF j
  <2>3. HookOK("marking", j, docs, missed') /\ Duty(pc[h], job[h]) \subseteq Duty("marking", j)
    BY <1>0, <2>1, <2>2 DEF HookOK, Duty
  <2>4. Moves(h, "marking", j)
    BY <1>0, <2>2, Moving
  <2> QED BY <1>1, <2>2, <2>3, <2>4, FollowHook
<1>3. ASSUME NEW r, HookLook(h, r) PROVE FollowInv'
  <2> DEFINE j == Saw(job[h], r)
  <2>1. j.unread = job[h].unread
    BY <1>0 DEF Fields, Saw
  <2>2. SetJob(h, j) /\ pc' = pc /\ pc[h] = "marking" /\ recs' = recs
    BY <1>3 DEF HookLook, store
  <2> HIDE DEF j
  <2>3. HookOK("marking", j, docs, missed') /\ Duty(pc[h], job[h]) \subseteq Duty("marking", j)
    BY <1>0, <2>1, <2>2 DEF HookOK, Duty
  <2>4. Moves(h, "marking", j)
    BY <1>0, <2>2, Moving
  <2> QED BY <1>1, <2>2, <2>3, <2>4, FollowHook
<1>4. CASE HookMark(h)
  <2>1. \A f \in Corpus : Have(recs', f) = Have(recs, f)
    BY <1>4, MarkMatches, MatchedFacts DEF LedgerInv
  <2> DEFINE mds == ToRebind(job[h])
             j == [NoJob EXCEPT !.changed = mds, !.unread = mds]
  <2>2. j.changed = mds /\ j.unread = mds /\ j.out = {} /\ j.todo = {} /\ mds = job[h].unread
    BY DEF NoJob, ToRebind
  <2>3. pc[h] = "marking" /\ (IF mds # {} THEN Goto(h, "reading") /\ SetJob(h, j) ELSE Return(h))
    BY <1>4 DEF HookMark
  <2> HIDE DEF j, mds
  <2>4. CASE mds # {}
    <3>1. HookOK("reading", j, docs, missed') /\ Duty(pc[h], job[h]) \subseteq Duty("reading", j)
      BY <1>0, <2>2, <2>3 DEF HookOK, Duty, Rebinding
    <3>2. Moves(h, "reading", j)
      BY <1>0, <2>3, <2>4, Moving
    <3> QED BY <1>1, <2>1, <3>1, <3>2, FollowHook
  <2>5. CASE mds = {}
    <3>1. HookOK("idle", NoJob, docs, missed') /\ Duty(pc[h], job[h]) \subseteq Duty("idle", NoJob)
      BY <2>2, <2>3, <2>5, NoJobFacts DEF HookOK, Duty
    <3>2. Moves(h, "idle", NoJob)
      BY <1>0, <2>3, <2>5, Returning
    <3> QED BY <1>1, <2>1, <3>1, <3>2, FollowHook
  <2> QED BY <2>4, <2>5
<1> QED BY <1>2, <1>3, <1>4

\* a hook that dies leaves its corpus files to the next seed
LEMMA GiveUpFollows ==
  ASSUME IInv, FollowInv, [Next]_vars, NEW p \in Processes, GiveUp(p) PROVE FollowInv'
<1>1. Shape /\ Return(p) /\ docs' = docs /\ recs' = recs
  BY DEF GiveUp, reality, store, IInv
<1>2. Moves(p, "idle", NoJob)
  BY <1>1, Returning
<1>3. CASE p \in Hooks
  <2>1. missed' = missed \cup Duty(pc[p], job[p])
    BY <1>3 DEF GiveUp, Owes, Duty
  <2>2. HookOK("idle", NoJob, docs, missed')
    BY NoJobFacts DEF HookOK, Duty
  <2> QED BY <1>1, <1>2, <1>3, <2>1, <2>2, FollowHook
<1>4. CASE p \notin Hooks
  <2>1. \A h \in Hooks : pc'[h] = pc[h] /\ job'[h] = job[h]
    BY <1>2, <1>4, ProcessFacts DEF Moves
  <2> QED BY <1>1, <1>4, <2>1, FollowOthers DEF GiveUp
<1> QED BY <1>3, <1>4

\* with one hook at a time, a commit to a corpus file finds no rebind under way
LEMMA CommitFollows ==
  ASSUME ~HooksOverlap, IInv, FollowInv, [Next]_vars, NEW h \in Hooks, NEW c, Commit(h, c) PROVE FollowInv'
<1>0. Shape /\ h \in Processes
  BY ProcessFacts DEF IInv
<1> DEFINE j == Pushed(Touched(c))
<1>1. j.unread = Corpus \cap Touched(c) /\ c \in Touched(c)
  BY DEF Pushed, NoJob, Touched
<1>2. /\ SetJob(h, j) /\ Goto(h, "committed") /\ recs' = recs /\ missed' = missed
      /\ \A g \in Hooks : pc[g] = "idle"
  BY DEF Commit, store
<1> HIDE DEF j
<1>3. Moves(h, "committed", j)
  BY <1>0, <1>2, Moving
<1>4. \/ docs' = docs
      \/ c \in Corpus /\ \E text \in Texts : docs' = [docs EXCEPT ![c] = text]
  BY DEF Commit
<1>5. DOMAIN docs' = Corpus /\ (\A f \in Corpus : IsFiniteSet(docs'[f])) /\ \A f \in Corpus \ {c} : docs'[f] = docs[f]
  BY <1>4, RefsAssumption DEF FollowInv
<1>6. \A g \in Hooks : HookOK(pc'[g], job'[g], docs', missed')
  <2>1. HookOK("committed", j, docs', missed')
    BY <1>1 DEF HookOK, Duty
  <2>2. \A g \in Hooks \ {h} : pc'[g] = "idle" /\ job'[g] = job[g]
    BY <1>2, <1>3, ProcessFacts DEF Moves
  <2>3. \A g \in Hooks : HookOK("idle", job[g], docs', missed')
    BY <1>2 DEF FollowInv, HookOK, Duty
  <2> QED BY <1>3, <2>1, <2>2, <2>3 DEF Moves
<1>7. ASSUME NEW f \in Corpus \ missed'
      PROVE  Follows(recs', docs'[f], f, used'.tears) \/ \E g \in Hooks : f \in Duty(pc'[g], job'[g])
  <2>1. CASE f = c
    BY <1>1, <1>3, <2>1 DEF Moves, Duty
  <2>2. CASE f # c
    <3>1. \A g \in Hooks : Duty(pc[g], job[g]) = {}
      BY <1>2 DEF FollowInv, HookOK, Duty
    <3>2. Follows(recs, docs[f], f, used.tears) /\ docs'[f] = docs[f] /\ IsFiniteSet(docs[f])
      BY <1>2, <1>5, <2>2, <3>1 DEF FollowInv
    <3>3. used.tears \in Nat /\ used'.tears \in Nat /\ used.tears <= used'.tears
      BY <1>0, RefsStep, TearsGrow DEF IInv, Shape, Counters
    <3> QED BY <1>2, <3>2, <3>3, FollowsStays
  <2> QED BY <2>1, <2>2
<1> QED BY <1>5, <1>6, <1>7 DEF FollowInv

\* a write binds claims of its HEAD, the sweep and the person rewrite records one by one
LEMMA OthersFollow ==
  ASSUME IInv, LedgerInv, FollowInv, [Next]_vars,
         \/ \E b \in Binders : BinderStep(b) \/ BindTorn(b)
         \/ SweepStep
         \/ \E r \in Referents : \E o \in Worlds[r] : Move(r, o)
         \/ \E rec \in recs : Retire(rec) \/ Waive(rec)
  PROVE  FollowInv'
<1>0. Shape /\ \A rec \in recs : Typed(rec)
  BY DEF IInv, LedgerInv
<1>1. docs' = docs /\ missed' = missed
  BY DEF BinderStep, BindStart, BindLook, BindAppend, BindTorn, SweepStep, SweepStart, SweepLook, SweepApply,
         Move, Retire, Waive, reality
<1>2. \A h \in Hooks : pc'[h] = pc[h] /\ job'[h] = job[h]
  <2>1. ASSUME NEW p \in Processes \ Hooks, NEW l, NEW j, SetJob(p, j), Goto(p, l) \/ pc' = pc
        PROVE  \A h \in Hooks : pc'[h] = pc[h] /\ job'[h] = job[h]
    BY <1>0, <2>1, ProcessFacts DEF Shape, SetJob, Goto
  <2>2. ASSUME NEW p \in Processes \ Hooks, Return(p)
        PROVE  \A h \in Hooks : pc'[h] = pc[h] /\ job'[h] = job[h]
    BY <2>1, <2>2 DEF Return
  <2>3. ASSUME NEW b \in Binders, BinderStep(b) \/ BindTorn(b)
        PROVE  \A h \in Hooks : pc'[h] = pc[h] /\ job'[h] = job[h]
    <3>1. b \in Processes \ Hooks
      BY ProcessFacts
    <3>2. (\E j : SetJob(b, j) /\ \E l : Goto(b, l)) \/ Return(b)
      BY <2>3 DEF BinderStep, BindStart, BindLook, BindAppend, BindTorn
    <3> QED BY <2>1, <2>2, <3>1, <3>2
  <2>4. CASE SweepStep
    <3>1. Sweeper \in Processes \ Hooks
      BY ProcessFacts
    <3>2. (\E j : SetJob(Sweeper, j) /\ (pc' = pc \/ \E l : Goto(Sweeper, l))) \/ Return(Sweeper)
      BY <2>4 DEF SweepStep, SweepStart, SweepLook, SweepApply
    <3> QED BY <2>1, <2>2, <3>1, <3>2
  <2> QED BY <2>3, <2>4 DEF Move, Retire, Waive
<1>3. \A f \in Corpus : Have(recs', f) = Have(recs, f)
  <2>1. CASE recs' = recs
    BY <2>1
  <2>2. ASSUME NEW b \in Binders, BindAppend(b) PROVE \A f \in Corpus : Have(recs', f) = Have(recs, f)
    <3>1. \A rec \in job[b].out : rec.at \notin Corpus
      BY RefsAssumption DEF LedgerInv
    <3>2. PICK lost : recs' = recs \cup (job[b].out \ lost)
      BY <2>2 DEF BindAppend, Write
    <3> QED BY <3>1, <3>2 DEF Have
  <2>3. CASE SweepApply
    BY <1>0, <2>3, SweepMatches, MatchedFacts
  <2>4. CASE \E rec \in recs : Retire(rec) \/ Waive(rec)
    BY <1>0, <2>4, JudgedMatches, MatchedFacts
  <2> QED BY <2>1, <2>2, <2>3, <2>4
       DEF BinderStep, BindStart, BindLook, BindTorn, SweepStep, SweepStart, SweepLook, Move, store
<1> QED BY <1>1, <1>2, <1>3, FollowOthers

LEMMA FollowStep == ~HooksOverlap /\ IInv /\ LedgerInv /\ FollowInv /\ [Next]_vars => FollowInv'
<1> SUFFICES ASSUME ~HooksOverlap, IInv, LedgerInv, FollowInv, [Next]_vars PROVE FollowInv'
  OBVIOUS
<1>1. CASE UNCHANGED vars
  BY <1>1, FollowOthers DEF vars
<1>2. ASSUME NEW h \in Hooks,
             \/ HookStep(h) \/ SeedStart(h)
             \/ \E d \in DOMAIN Covers : WatchStart(h, d)
             \/ \E c \in Tracked \cup Corpus : Commit(h, c)
      PROVE  FollowInv'
  BY <1>2, StartFollows, PassFollows, ReadFollows, UnreadableFollows, LookFollows, ReplaceFollows, CommitFollows DEF HookStep
<1>3. ASSUME NEW p \in Processes, GiveUp(p) PROVE FollowInv'
  BY <1>3, GiveUpFollows
<1> QED BY <1>1, <1>2, <1>3, OthersFollow DEF Next

LEMMA FollowInit == Seeded /\ Init => FollowInv
<1> SUFFICES ASSUME Seeded, Init PROVE FollowInv
  OBVIOUS
<1>1. docs = StartDocs /\ recs = OldRecords /\ used.tears = 0
  BY DEF Init
<1>2. DOMAIN docs = Corpus /\ \A f \in Corpus : IsFiniteSet(docs[f])
  BY <1>1, RefsAssumption
<1>3. \A h \in Hooks : HookOK(pc[h], job[h], docs, missed)
  BY ProcessFacts, NoJobFacts DEF Init, HookOK, Duty
<1>4. ASSUME NEW f \in Corpus PROVE Follows(recs, docs[f], f, used.tears)
  <2>1. Have(recs, f) \subseteq Want(docs[f], f) /\ Cardinality(Have(recs, f)) >= Enough(Want(docs[f], f))
    BY <1>1 DEF Seeded
  <2>2. IsFiniteSet(Want(docs[f], f))
    BY <1>2, WantFinite
  <2>3. Cardinality(Have(recs, f)) \in Nat
    BY <2>1, <2>2, FS_Subset, FS_CardinalityType
  <2>4. Cardinality(Have(recs, f)) + used.tears = Cardinality(Have(recs, f))
    BY <1>1, <2>3
  <2> QED BY <2>1, <2>4 DEF Follows
<1> QED BY <1>2, <1>3, <1>4 DEF FollowInv

LEMMA FollowImplies == FollowInv => CorpusFollowsText
<1> SUFFICES ASSUME FollowInv, \A h \in Hooks : pc[h] = "idle", NEW f \in Corpus \ missed
             PROVE  LET have == {rec.ref : rec \in {x \in recs : x.at = f}}
                        want == IF f \in Aspirational THEN {} ELSE Extract(docs[f])
                    IN  /\ have \subseteq want
                        /\ Cardinality(have) + used.tears >= IF Cardinality(want) < MaxRefs THEN Cardinality(want) ELSE MaxRefs
  BY DEF CorpusFollowsText
<1>1. \A h \in Hooks : Duty(pc[h], job[h]) = {}
  BY DEF FollowInv, HookOK, Duty
<1>2. Follows(recs, docs[f], f, used.tears)
  BY <1>1 DEF FollowInv
<1> QED BY <1>2 DEF Follows, Have, Want, Enough

(* If the hooks of two commits do not overlap, and the records of earlier     *)
(* builds follow the texts, then whatever writes, sweeps, watches, seeds and  *)
(* deaths come between, the records of each corpus file name what its text    *)
(* names, but for those whose hook died, gave up or could not open the file.  *)
(* With overlapping hooks, which the theorem leaves out, it fails:            *)
(* two rebinds read one after the other and replace in the other order.       *)
THEOREM CorpusIsFollowed == ~HooksOverlap /\ Seeded /\ Spec => []CorpusFollowsText
<1>1. ~HooksOverlap /\ [Next]_vars => (~HooksOverlap)'
  OBVIOUS
<1> QED BY <1>1, RefsInit, RefsStep, LedgerInit, LedgerStep, FollowInit, FollowStep, FollowImplies, PTL DEF Spec
=============================================================================
