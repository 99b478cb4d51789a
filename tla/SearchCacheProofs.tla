-------------------------- MODULE SearchCacheProofs --------------------------
(* Proofs about SearchCache, for any number of searches, servers, files and    *)
(* chunks: a server's index in memory, what a save may drop, and how much of it. *)
EXTENDS SearchCache, FiniteSetTheorems, TLAPS

Begun == {"begin", "copy", "load"}
Walking == {"walk", "checkpoint", "saving"}
Holding == {"saving", "reaped"}
Labels == {"idle"} \cup Begun \cup Walking \cup Holding

SearchJob ==
  [sig : Int, force : BOOLEAN, left : Seq(In(Files)), todo : Seq(Keys), cache : SUBSET Keys,
   nBefore : Nat, live : SUBSET Keys, index : SUBSET Keys, dropped : SUBSET Keys,
   pending : SUBSET Keys, embedded : SUBSET Keys, since : Nat, fresh : SUBSET Keys,
   unread : SUBSET Keys]
SearchMem == [sig : Int, index : SUBSET Keys, dropped : SUBSET Keys, migrated : BOOLEAN]

Procs == Searchers \cup Strangers

\* the corpus, its signature, and the ages: the sidecar has no key as an orphan for longer
\* than the key is unseen
World ==
  /\ corpus \in [In(Files) -> Seq(Keys)]
  /\ used \in [faults : Nat, edits : Nat] /\ stamp = used.edits
  /\ disk = NoCache \/ disk \subseteq Keys
  /\ unseen \in [Keys -> Nat]
  /\ \A k \in DOMAIN ages : ages[k] \in Nat /\ (k \in Keys => ages[k] <= unseen[k])
  /\ lock \in Searchers \cup {Nobody}
  /\ mem = [b \in Searchers |-> mem[b]]
  /\ pc = [p \in Procs |-> pc[p]] /\ job = [p \in Procs |-> job[p]]

\* what the walk has not read yet
Ahead(j) == UNION {In(corpus[f]) : f \in In(j.left)}

\* unless the corpus changes, the index and the live keys come to what the corpus has
WalkInv(l, j) ==
  /\ l \in Begun => j.index = {} /\ j.dropped = {} /\ j.unread = {} /\ j.live = {} /\ j.todo = <<>>
  /\ l \in Walking =>
       /\ j.index \cup j.dropped \cup j.unread \cup In(j.todo) \cup Ahead(j) = Chunks
       /\ j.live \cup j.unread \cup Ahead(j) = Chunks
  /\ l = "reaped" =>
       /\ j.index \cup j.dropped \cup j.unread = Chunks
       /\ j.live \cup j.unread = Chunks

\* the keys on disk that a save of `cache` would drop though they were seen not long ago
Young(cache) == {k \in Contents \ (cache \cup Legacy) : unseen[k] < Decay}

\* what the lock protects: a save drops nothing but what its reap decided to drop
HeldInv(l, j) ==
  /\ l = "saving" => Contents \subseteq j.fresh \cup Legacy
  /\ l = "reaped" => /\ Contents \cap j.live \subseteq j.fresh \cup Legacy
                     /\ ReapForce \/ Cardinality(Young(j.fresh)) <= Cardinality(j.fresh)

Local(b) ==
  /\ pc[b] \in Labels /\ job[b] \in SearchJob /\ mem[b] \in SearchMem
  /\ lock = b <=> pc[b] \in Holding
  /\ job[b].sig <= stamp /\ mem[b].sig <= stamp
  /\ job[b].sig = stamp => WalkInv(pc[b], job[b])
  /\ HeldInv(pc[b], job[b])
  /\ mem[b].sig = stamp => mem[b].index \cup mem[b].dropped = Chunks

IInv ==
  /\ World
  /\ \A b \in Searchers : Local(b)
  /\ \A o \in Strangers : pc[o] \in {"idle", "remove"}

-----------------------------------------------------------------------------
(* Sequences and frames *)

USE DEF world, cachedir, SetMem, Free

LEMMA InFacts ==
  /\ In(<<>>) = {}
  /\ \A S : \A q \in Seq(S) :
       /\ In(q) \subseteq S
       /\ q # <<>> => In(q) = {Head(q)} \cup In(Tail(q)) /\ Head(q) \in S /\ Tail(q) \in Seq(S)
<1>1. In(<<>>) = {}
  BY DEF In
<1>2. ASSUME NEW S, NEW q \in Seq(S)
      PROVE  /\ In(q) \subseteq S
             /\ q # <<>> => In(q) = {Head(q)} \cup In(Tail(q)) /\ Head(q) \in S /\ Tail(q) \in Seq(S)
  <2>1. In(q) \subseteq S
    BY DEF In
  <2>2. ASSUME q # <<>>
        PROVE  In(q) = {Head(q)} \cup In(Tail(q)) /\ Head(q) \in S /\ Tail(q) \in Seq(S)
    <3>1. Head(q) = q[1] /\ 1 \in DOMAIN q /\ Head(q) \in S /\ Tail(q) \in Seq(S)
      BY <2>2
    <3>2. DOMAIN q = 1 .. Len(q) /\ DOMAIN Tail(q) = 1 .. (Len(q) - 1) /\ Len(q) \in Nat
      BY <2>2
    <3>3. \A n \in DOMAIN Tail(q) : Tail(q)[n] = q[n + 1] /\ n + 1 \in DOMAIN q
      BY <2>2
    <3>4. \A n \in DOMAIN q : n # 1 => n - 1 \in DOMAIN Tail(q) /\ (n - 1) + 1 = n
      BY <3>2
    <3>5. In(q) \subseteq {Head(q)} \cup In(Tail(q))
      BY <3>1, <3>3, <3>4 DEF In
    <3>6. In(Tail(q)) \subseteq In(q)
      BY <3>3 DEF In
    <3> QED BY <3>1, <3>5, <3>6 DEF In
  <2> QED BY <2>1, <2>2
<1> QED BY <1>1, <1>2

LEMMA KeysHave == Legacy \subseteq Keys /\ (StartCache # NoCache => StartCache \subseteq Keys)
<1>1. ASSUME NEW x \in Legacy PROVE x \in Keys
  BY DEF Keys
<1>2. ASSUME StartCache # NoCache, NEW x \in StartCache PROVE x \in Keys
  BY <1>2 DEF Keys
<1> QED BY <1>1, <1>2

\* everything there is is finite
LEMMA KeySets ==
  ASSUME World
  PROVE  /\ Contents \subseteq Keys /\ Chunks \subseteq Keys
         /\ \A X \in SUBSET Keys : IsFiniteSet(X) /\ Cardinality(X) \in Nat
         /\ \A X, Y \in SUBSET Keys : X \subseteq Y => Cardinality(X) <= Cardinality(Y)
<1>1. Contents \subseteq Keys
  BY DEF World, Contents
<1>2. Chunks \subseteq Keys
  BY InFacts DEF World, Chunks
<1>3. \A X \in SUBSET Keys : IsFiniteSet(X) /\ Cardinality(X) \in Nat
  BY SearchAssumption, FS_Subset, FS_CardinalityType
<1>4. \A X, Y \in SUBSET Keys : X \subseteq Y => Cardinality(X) <= Cardinality(Y)
  BY <1>3, FS_Subset
<1> QED BY <1>1, <1>2, <1>3, <1>4

\* p goes on to label l with job j, and every other process stays as it is
Moves(p, l, j) ==
  /\ pc' = [q \in Procs |-> pc'[q]] /\ job' = [q \in Procs |-> job'[q]]
  /\ pc'[p] = l /\ job'[p] = j
  /\ \A q \in Procs \ {p} : pc'[q] = pc[q] /\ job'[q] = job[q]

LEMMA Moving ==
  ASSUME World, NEW p \in Procs, NEW l, NEW j, SetJob(p, j) \/ (job' = job /\ j = job[p]),
         Goto(p, l) \/ (pc' = pc /\ l = pc[p])
  PROVE  Moves(p, l, j)
<1>1. job' = [q \in Procs |-> job'[q]] /\ job'[p] = j /\ \A q \in Procs \ {p} : job'[q] = job[q]
  BY DEF World, SetJob
<1>2. pc' = [q \in Procs |-> pc'[q]] /\ pc'[p] = l /\ \A q \in Procs \ {p} : pc'[q] = pc[q]
  BY DEF World, Goto
<1> QED BY <1>1, <1>2 DEF Moves

LEMMA Faulting ==
  ASSUME World, Fault PROVE used' \in [faults : Nat, edits : Nat] /\ used'.edits = used.edits
<1>1. used \in [faults : Nat, edits : Nat]
  BY DEF World
<1>2. used' = [used EXCEPT !.faults = @ + 1]
  BY DEF Fault
<1> QED BY <1>1, <1>2

LEMMA NoJobFacts == NoJob \in SearchJob /\ NoJob.sig = -1 /\ NoMem \in SearchMem /\ NoMem.sig = -1
<1>1. <<>> \in Seq(In(Files)) /\ <<>> \in Seq(Keys)
  OBVIOUS
<1> QED BY <1>1 DEF NoJob, SearchJob, NoMem, SearchMem

\* what another search does leaves a search's own invariant alone: on disk it can only
\* take away, or bring the old cache, while that search holds the lock
LEMMA Others ==
  ASSUME IInv, NEW u \in Searchers, NEW b, b # u,
         pc'[u] = pc[u], job'[u] = job[u], mem'[u] = mem[u], UNCHANGED <<corpus, stamp>>,
         lock' \in {lock, b, Nobody}, lock' # lock => lock \in {b, Nobody},
         \/ lock = b \/ lock' = b
         \/ unseen' = unseen /\ Contents' \subseteq Contents \cup Legacy
  PROVE  Local(u)'
<1>0. World /\ Local(u) /\ u # Nobody
  BY SearchAssumption DEF IInv
<1>1. lock' = u <=> pc'[u] \in Holding
  BY <1>0 DEF Local
<1>2. HeldInv(pc[u], job[u])'
  <2>1. CASE pc[u] \notin Holding
    BY <2>1 DEF HeldInv, Holding
  <2>2. CASE pc[u] \in Holding
    <3>1. lock = u /\ lock' = u
      BY <1>0, <1>1, <2>2 DEF Local
    <3>2. unseen' = unseen /\ Contents' \subseteq Contents \cup Legacy
      BY <3>1
    <3>3. job[u].fresh \subseteq Keys
      BY <1>0 DEF Local, SearchJob
    <3>4. Young(job[u].fresh)' \subseteq Young(job[u].fresh)
      BY <3>2 DEF Young
    <3>5. Young(job[u].fresh) \subseteq Keys
      BY <1>0, KeySets DEF Young
    <3>6. /\ Cardinality(Young(job[u].fresh)') <= Cardinality(Young(job[u].fresh))
          /\ Cardinality(Young(job[u].fresh)') \in Nat /\ Cardinality(Young(job[u].fresh)) \in Nat
          /\ Cardinality(job[u].fresh) \in Nat
      BY <1>0, <3>3, <3>4, <3>5, KeySets
    <3> QED BY <1>0, <3>2, <3>6 DEF Local, HeldInv
  <2> QED BY <2>1, <2>2
<1>3. /\ WalkInv(pc[u], job[u])' <=> WalkInv(pc[u], job[u])
      /\ Chunks' = Chunks
  BY DEF WalkInv, Chunks, Ahead
<1> QED BY <1>0, <1>1, <1>2, <1>3 DEF Local

\* what is left to show of an action of search b
LEMMA OwnStep ==
  ASSUME IInv, NEW b \in Searchers, NEW l, NEW j, Moves(b, l, j), UNCHANGED <<corpus, stamp>>,
         \A u \in Searchers \ {b} : mem'[u] = mem[u],
         lock' \in {lock, b, Nobody}, lock' # lock => lock \in {b, Nobody},
         \/ lock = b \/ lock' = b
         \/ unseen' = unseen /\ Contents' \subseteq Contents \cup Legacy,
         World', Local(b)'
  PROVE  IInv'
<1>1. ASSUME NEW u \in Searchers \ {b} PROVE Local(u)'
  <2>1. pc'[u] = pc[u] /\ job'[u] = job[u]
    BY DEF Moves, Procs
  <2> QED BY <2>1, Others
<1>2. \A o \in Strangers : pc'[o] = pc[o]
  BY SearchAssumption DEF Moves, Procs
<1> QED BY <1>1, <1>2 DEF IInv

\* a step after which the search does not hold the lock
LEMMA FreeStep ==
  ASSUME IInv, NEW b \in Searchers, NEW l \in Labels \ Holding, NEW j \in SearchJob, NEW m \in SearchMem,
         Goto(b, l) \/ (pc' = pc /\ l = pc[b]),
         SetJob(b, j) \/ (job' = job /\ j = job[b]), SetMem(b, m) \/ (mem' = mem /\ m = mem[b]),
         lock' = IF lock = b THEN Nobody ELSE lock,
         UNCHANGED <<world, ages, unseen>>,
         disk' = disk \/ disk' = Legacy \/ (lock = b /\ disk' \subseteq Keys),
         UNCHANGED used \/ Fault,
         j.sig <= stamp, j.sig = stamp => WalkInv(l, j),
         m.sig <= stamp, m.sig = stamp => m.index \cup m.dropped = Chunks
  PROVE  IInv'
<1>0. World /\ Local(b) /\ b \in Procs
  BY DEF IInv, Procs
<1>1. Moves(b, l, j)
  BY <1>0, Moving
<1>2. mem' = [u \in Searchers |-> mem'[u]] /\ mem'[b] = m /\ \A u \in Searchers \ {b} : mem'[u] = mem[u]
  BY <1>0 DEF World
<1>3. World'
  <2>1. used' \in [faults : Nat, edits : Nat] /\ used'.edits = used.edits
    BY <1>0, Faulting DEF World
  <2>2. disk' = NoCache \/ disk' \subseteq Keys
    BY <1>0, KeysHave DEF World
  <2> QED BY <1>0, <1>1, <1>2, <2>1, <2>2 DEF World, Moves
<1>4. (WalkInv(l, j)' <=> WalkInv(l, j)) /\ Chunks' = Chunks
  BY DEF WalkInv, Chunks, Ahead
<1>5. lock' # b
  BY SearchAssumption
<1>6. Local(b)'
  BY <1>0, <1>1, <1>2, <1>4, <1>5 DEF Local, Moves, HeldInv, Holding
<1>7. lock = b \/ Contents' \subseteq Contents \cup Legacy
  BY DEF Contents
<1> QED BY <1>1, <1>2, <1>3, <1>6, <1>7, OwnStep

-----------------------------------------------------------------------------
(* Each action preserves IInv *)

LEMMA SearchInit == Init => IInv
<1> SUFFICES ASSUME Init PROVE IInv
  OBVIOUS
<1>1. StartCache # NoCache => StartCache \subseteq Keys
  BY KeysHave
<1>2. DOMAIN ages = {}
  BY DEF Init
<1>3. World
  BY <1>1, <1>2, SearchAssumption DEF Init, World, Procs
<1>4. ASSUME NEW b \in Searchers PROVE Local(b)
  <2>1. pc[b] = "idle" /\ job[b] = NoJob /\ mem[b] = NoMem /\ lock # b /\ stamp = 0
    BY SearchAssumption DEF Init
  <2> QED BY <2>1, NoJobFacts DEF Local, Labels, Holding, HeldInv
<1> QED BY <1>3, <1>4, SearchAssumption DEF IInv, Init

LEMMA BeginStep ==
  ASSUME IInv, NEW b \in Searchers, NEW force \in BOOLEAN,
         Search(b, force) \/ Begin(b) \/ MigrateCopy(b)
  PROVE  IInv'
<1>0. World /\ Local(b)
  BY DEF IInv
<1>1. CASE Search(b, force)
  <2> DEFINE j == [NoJob EXCEPT !.force = force, !.sig = stamp]
  <2>1. /\ j \in SearchJob /\ j.sig = stamp /\ j.index = {} /\ j.dropped = {} /\ j.live = {}
        /\ j.todo = <<>> /\ j.unread = {}
    <3>1. stamp \in Int
      BY <1>0 DEF World
    <3>2. j \in SearchJob
      BY <3>1, NoJobFacts DEF SearchJob
    <3> QED BY <3>2 DEF NoJob
  <2>2. WalkInv("begin", j)
    BY <2>1 DEF WalkInv, Begun, Walking
  <2>3. SetJob(b, j) /\ Goto(b, "begin") /\ pc[b] = "idle" /\ UNCHANGED <<world, cachedir, lock, mem, used>>
    BY <1>1 DEF Search
  <2>4. lock # b /\ "begin" \in Labels \ Holding
    BY <1>0, <2>3 DEF Local, Holding, Labels, Begun
  <2> HIDE DEF j
  <2> QED BY <1>0, <2>1, <2>2, <2>3, <2>4, FreeStep DEF Local, World
<1>2. CASE Begin(b)
  <2> DEFINE m == [mem[b] EXCEPT !.migrated = @ \/ (~mem[b].migrated /\ disk = NoCache /\ Legacy # {})]
  <2>1. m \in SearchMem /\ m.sig = mem[b].sig /\ m.index = mem[b].index /\ m.dropped = mem[b].dropped
    BY <1>0 DEF Local, SearchMem
  <2>2. PICK l \in {"copy", "load"} : Goto(b, l)
    BY <1>2 DEF Begin
  <2>3. SetMem(b, m) /\ pc[b] = "begin" /\ UNCHANGED <<world, cachedir, lock, job, used>>
    BY <1>2 DEF Begin
  <2>4. lock # b /\ l \in Labels \ Holding
    BY <1>0, <2>3 DEF Local, Holding, Labels, Begun
  <2>5. job[b].sig = stamp => WalkInv(l, job[b])
    BY <1>0, <2>3 DEF Local, WalkInv, Begun, Walking
  <2>6. m.sig <= stamp /\ (m.sig = stamp => m.index \cup m.dropped = Chunks) /\ job[b].sig <= stamp
        /\ job[b] \in SearchJob
    BY <1>0, <2>1 DEF Local
  <2> HIDE DEF m
  <2> QED BY <2>1, <2>2, <2>3, <2>4, <2>5, <2>6, FreeStep
<1>3. CASE MigrateCopy(b)
  <2>1. Goto(b, "load") /\ pc[b] = "copy" /\ UNCHANGED <<world, ages, unseen, lock, mem, job, used>>
    BY <1>3 DEF MigrateCopy
  <2>2. disk' = disk \/ disk' = Legacy
    BY <1>3 DEF MigrateCopy, SaveCache
  <2>3. lock # b /\ "load" \in Labels \ Holding
    BY <1>0, <2>1 DEF Local, Holding, Labels, Begun
  <2>4. job[b].sig = stamp => WalkInv("load", job[b])
    BY <1>0, <2>1 DEF Local, WalkInv, Begun, Walking
  <2> QED BY <1>0, <2>1, <2>2, <2>3, <2>4, FreeStep DEF Local, World
<1> QED BY <1>1, <1>2, <1>3

LEMMA LoadStep ==
  ASSUME IInv, NEW b \in Searchers, Load(b) \/ LoadTimeout(b)
  PROVE  IInv'
<1>0. World /\ Local(b) /\ pc[b] = "load" /\ lock # b
  BY DEF IInv, Load, LoadTimeout, Local, Holding
<1>1. PICK cache \in SUBSET Keys : Walk(b, cache)
  BY <1>0, KeySets DEF Load, LoadTimeout
<1>2. UNCHANGED used \/ Fault
  BY DEF Load, LoadTimeout, TimesOut
<1> DEFINE j == [job[b] EXCEPT !.cache = cache, !.nBefore = Cardinality(cache), !.left = Files]
<1>3. /\ j \in SearchJob /\ j.sig = job[b].sig /\ j.index = job[b].index /\ j.live = job[b].live
      /\ j.dropped = job[b].dropped /\ j.unread = job[b].unread /\ j.todo = job[b].todo /\ j.left = Files
  <2>1. Cardinality(cache) \in Nat
    BY <1>0, KeySets
  <2> QED BY <1>0, <2>1, SearchAssumption DEF Local, SearchJob
<1>4. SetJob(b, j) /\ Goto(b, "walk") /\ UNCHANGED <<world, cachedir, lock, mem>>
  BY <1>1 DEF Walk
<1> HIDE DEF j
<1>5. j.sig = stamp => WalkInv("walk", j)
  <2>1. Ahead(j) = Chunks
    BY <1>3 DEF Ahead, Chunks
  <2> QED BY <1>0, <1>3, <2>1, InFacts DEF Local, WalkInv, Begun, Walking
<1>6. "walk" \in Labels \ Holding
  BY DEF Labels, Walking, Holding
<1> QED BY <1>0, <1>2, <1>3, <1>4, <1>5, <1>6, FreeStep DEF Local, World

LEMMA VisitStep ==
  ASSUME IInv, NEW b \in Searchers, Visit(b)
  PROVE  IInv'
<1>0. World /\ Local(b) /\ pc[b] = "walk" /\ lock # b /\ job[b] \in SearchJob
  BY DEF IInv, Visit, Local, Holding
<1> DEFINE f == Head(job[b].left)
<1>1. /\ job[b].left \in Seq(In(Files)) /\ job[b].left # <<>> /\ job[b].todo = <<>>
  BY <1>0 DEF Visit, SearchJob
<1>2. /\ f \in In(Files) /\ Tail(job[b].left) \in Seq(In(Files))
      /\ In(job[b].left) = {f} \cup In(Tail(job[b].left))
  BY <1>1, InFacts
<1>3. corpus[f] \in Seq(Keys) /\ In(corpus[f]) \subseteq Keys
  BY <1>0, <1>2, InFacts DEF World
<1>4. PICK j \in SearchJob :
        /\ SetJob(b, j) /\ j.sig = job[b].sig /\ j.index = job[b].index
        /\ j.dropped = job[b].dropped /\ j.left = Tail(job[b].left)
        /\ \/ /\ j.todo = corpus[f] /\ j.live = job[b].live \cup In(corpus[f])
              /\ j.unread = job[b].unread
           \/ /\ j.todo = <<>> /\ j.live = job[b].live
              /\ j.unread = job[b].unread \cup In(corpus[f])
  <2> DEFINE read == [job[b] EXCEPT !.left = Tail(@), !.todo = corpus[f], !.live = @ \cup In(corpus[f])]
             skip == [job[b] EXCEPT !.left = Tail(@), !.unread = @ \cup In(corpus[f])]
  <2>1. /\ read \in SearchJob /\ read.sig = job[b].sig /\ read.index = job[b].index
        /\ read.dropped = job[b].dropped /\ read.left = Tail(job[b].left) /\ read.todo = corpus[f]
        /\ read.live = job[b].live \cup In(corpus[f]) /\ read.unread = job[b].unread
    BY <1>0, <1>2, <1>3 DEF SearchJob
  <2>2. /\ skip \in SearchJob /\ skip.sig = job[b].sig /\ skip.index = job[b].index
        /\ skip.dropped = job[b].dropped /\ skip.left = Tail(job[b].left) /\ skip.todo = <<>>
        /\ skip.live = job[b].live /\ skip.unread = job[b].unread \cup In(corpus[f])
    BY <1>0, <1>1, <1>2, <1>3 DEF SearchJob
  <2>3. SetJob(b, read) \/ SetJob(b, skip)
    BY DEF Visit
  <2> HIDE DEF read, skip
  <2> QED BY <2>1, <2>2, <2>3
<1>5. UNCHANGED <<world, cachedir, lock, mem, pc>> /\ (UNCHANGED used \/ Fault)
  BY DEF Visit
<1>6. j.sig = stamp => WalkInv("walk", j)
  <2>1. Ahead(job[b]) = In(corpus[f]) \cup Ahead(j)
    BY <1>2, <1>4 DEF Ahead
  <2> QED BY <1>0, <1>1, <1>4, <2>1, InFacts DEF Local, WalkInv, Begun, Walking
<1>7. "walk" \in Labels \ Holding
  BY DEF Labels, Walking, Holding
<1> QED BY <1>0, <1>4, <1>5, <1>6, <1>7, FreeStep DEF Local, World

LEMMA ChunkStep ==
  ASSUME IInv, NEW b \in Searchers, Known(b) \/ Embed(b) \/ EmbedFails(b)
  PROVE  IInv'
<1>0. World /\ Local(b) /\ pc[b] = "walk" /\ lock # b /\ job[b] \in SearchJob
  BY DEF IInv, Known, Embed, EmbedFails, AtChunk, Local, Holding
<1> DEFINE k == Chunk(b)
           rest == Tail(job[b].todo)
<1>1. k \in Keys /\ rest \in Seq(Keys) /\ In(job[b].todo) = {k} \cup In(rest)
  <2>1. job[b].todo \in Seq(Keys) /\ job[b].todo # <<>>
    BY <1>0 DEF SearchJob, Known, Embed, EmbedFails, AtChunk
  <2> QED BY <2>1, InFacts DEF Chunk
<1>2. PICK j \in SearchJob, l \in {"walk", "checkpoint"} :
        /\ SetJob(b, j) /\ (Goto(b, l) \/ (pc' = pc /\ l = "walk"))
        /\ j.sig = job[b].sig /\ j.left = job[b].left /\ j.live = job[b].live
        /\ j.unread = job[b].unread /\ j.todo = rest
        /\ j.index \cup j.dropped = job[b].index \cup job[b].dropped \cup {k}
  <2>1. CASE Known(b)
    <3> DEFINE j == [job[b] EXCEPT !.todo = Tail(@), !.index = @ \cup {k}]
    <3>1. /\ j \in SearchJob /\ j.sig = job[b].sig /\ j.left = job[b].left /\ j.live = job[b].live
          /\ j.unread = job[b].unread
          /\ j.todo = rest /\ j.index = job[b].index \cup {k} /\ j.dropped = job[b].dropped
      BY <1>0, <1>1 DEF SearchJob
    <3>2. SetJob(b, j) /\ pc' = pc
      BY <2>1 DEF Known
    <3> HIDE DEF j
    <3> QED BY <3>1, <3>2
  <2>2. CASE Embed(b)
    <3> DEFINE new == {k}
               j == [job[b] EXCEPT !.todo = Tail(@), !.index = @ \cup new, !.cache = @ \cup new,
                                   !.pending = @ \cup new, !.embedded = @ \cup new, !.since = @ + 1]
    <3>0. /\ job[b].index \cup new \in SUBSET Keys /\ job[b].cache \cup new \in SUBSET Keys
          /\ job[b].pending \cup new \in SUBSET Keys /\ job[b].embedded \cup new \in SUBSET Keys
          /\ job[b].since + 1 \in Nat
      BY <1>0, <1>1 DEF SearchJob
    <3>1. /\ j \in SearchJob /\ j.sig = job[b].sig /\ j.left = job[b].left /\ j.live = job[b].live
          /\ j.unread = job[b].unread
          /\ j.todo = rest /\ j.index = job[b].index \cup new /\ j.dropped = job[b].dropped
      <4> HIDE DEF new, k
      <4> QED BY <1>0, <1>1, <3>0 DEF SearchJob
    <3>2. SetJob(b, j) /\ (Goto(b, "walk") \/ Goto(b, "checkpoint"))
      BY <2>2, Zenon DEF Embed
    <3> HIDE DEF j
    <3> QED BY <3>1, <3>2
  <2>3. CASE EmbedFails(b)
    <3> DEFINE j == [job[b] EXCEPT !.todo = Tail(@), !.dropped = @ \cup {k}]
    <3>1. /\ j \in SearchJob /\ j.sig = job[b].sig /\ j.left = job[b].left /\ j.live = job[b].live
          /\ j.unread = job[b].unread
          /\ j.todo = rest /\ j.index = job[b].index /\ j.dropped = job[b].dropped \cup {k}
      BY <1>0, <1>1 DEF SearchJob
    <3>2. SetJob(b, j) /\ pc' = pc
      BY <2>3 DEF EmbedFails
    <3> HIDE DEF j
    <3> QED BY <3>1, <3>2
  <2> QED BY <2>1, <2>2, <2>3
<1>3. j.sig = stamp => WalkInv(l, j)
  <2>1. Ahead(j) = Ahead(job[b])
    BY <1>2 DEF Ahead
  <2> QED BY <1>0, <1>1, <1>2, <2>1 DEF Local, WalkInv, Begun, Walking
<1>4. l \in Labels \ Holding
  BY DEF Labels, Walking, Holding
<1>5. UNCHANGED <<world, cachedir, lock, mem>> /\ (UNCHANGED used \/ Fault)
  BY DEF Known, Embed, EmbedFails
<1> QED BY <1>0, <1>2, <1>3, <1>4, <1>5, FreeStep DEF Local, World

LEMMA CheckStep ==
  ASSUME IInv, NEW b \in Searchers, CheckLoad(b) \/ CheckSave(b) \/ CheckTimeout(b)
  PROVE  IInv'
<1>0. World /\ Local(b) /\ b \in Procs /\ job[b] \in SearchJob /\ b # Nobody
  BY SearchAssumption DEF IInv, Local, Procs
<1>1. CASE CheckLoad(b)
  <2>1. Merged(b) \subseteq Keys
    BY <1>0, KeySets DEF Merged, SearchJob
  <2>2. PICK j \in SearchJob :
          /\ SetJob(b, j) /\ j.sig = job[b].sig /\ j.left = job[b].left /\ j.live = job[b].live
          /\ j.unread = job[b].unread
          /\ j.todo = job[b].todo /\ j.index = job[b].index /\ j.dropped = job[b].dropped
          /\ j.fresh = Merged(b)
    <3> DEFINE j == [job[b] EXCEPT !.fresh = Merged(b)]
    <3>1. /\ j \in SearchJob /\ j.sig = job[b].sig /\ j.left = job[b].left /\ j.live = job[b].live
          /\ j.unread = job[b].unread
          /\ j.todo = job[b].todo /\ j.index = job[b].index /\ j.dropped = job[b].dropped
          /\ j.fresh = Merged(b)
      BY <1>0, <2>1 DEF SearchJob
    <3>2. SetJob(b, j)
      BY <1>1 DEF CheckLoad
    <3> HIDE DEF j
    <3> QED BY <3>1, <3>2
  <2>3. /\ Goto(b, "saving") /\ pc[b] = "checkpoint" /\ lock = Nobody /\ lock' = b
        /\ UNCHANGED <<world, cachedir, mem, used>>
    BY <1>1 DEF CheckLoad
  <2>4. Moves(b, "saving", j)
    BY <1>0, <2>2, <2>3, Moving
  <2>5. World'
    BY <1>0, <2>3, <2>4 DEF World, Moves
  <2>6. j.sig = stamp => WalkInv("saving", j)
    BY <1>0, <2>2, <2>3 DEF Local, WalkInv, Begun, Walking, Ahead
  <2>7. Local(b)'
    <3>1. Contents' = Contents /\ Chunks' = Chunks
      BY <2>3 DEF Contents, Chunks
    <3>2. HeldInv(pc[b], job[b])'
      BY <2>2, <2>4, <3>1 DEF HeldInv, Moves, Merged
    <3>3. job'[b].sig = stamp' => WalkInv(pc[b], job[b])'
      <4>1. WalkInv("saving", j)' <=> WalkInv("saving", j)
        BY <2>3 DEF WalkInv, Ahead, Chunks
      <4> QED BY <2>3, <2>4, <2>6, <4>1 DEF Moves
    <3> QED BY <1>0, <2>2, <2>3, <2>4, <3>1, <3>2, <3>3 DEF Local, Moves, Holding, Labels, Walking
  <2> QED BY <2>3, <2>4, <2>5, <2>7, OwnStep
<1>2. CASE CheckSave(b)
  <2> DEFINE j == [job[b] EXCEPT !.cache = job[b].fresh, !.pending = {}, !.since = 0, !.fresh = {}]
  <2>1. /\ j \in SearchJob /\ j.sig = job[b].sig /\ j.left = job[b].left /\ j.live = job[b].live
        /\ j.unread = job[b].unread
        /\ j.todo = job[b].todo /\ j.index = job[b].index /\ j.dropped = job[b].dropped
    BY <1>0 DEF SearchJob
  <2>2. /\ SetJob(b, j) /\ Goto(b, "walk") /\ pc[b] = "saving" /\ lock' = Nobody
        /\ disk' = job[b].fresh /\ UNCHANGED <<world, ages, unseen, mem, used>>
    BY <1>2 DEF CheckSave, SaveCache
  <2> HIDE DEF j
  <2>3. lock = b /\ "walk" \in Labels \ Holding /\ disk' \subseteq Keys
    BY <1>0, <2>2 DEF Local, Holding, Labels, Walking, SearchJob
  <2>4. j.sig = stamp => WalkInv("walk", j)
    BY <1>0, <2>1, <2>2 DEF Local, WalkInv, Begun, Walking, Ahead
  <2> QED BY <1>0, <2>1, <2>2, <2>3, <2>4, FreeStep DEF Local
<1>3. CASE CheckTimeout(b)
  <2> DEFINE j == [job[b] EXCEPT !.pending = {}, !.since = 0]
  <2>1. /\ j \in SearchJob /\ j.sig = job[b].sig /\ j.left = job[b].left /\ j.live = job[b].live
        /\ j.unread = job[b].unread
        /\ j.todo = job[b].todo /\ j.index = job[b].index /\ j.dropped = job[b].dropped
    BY <1>0 DEF SearchJob
  <2>2. /\ SetJob(b, j) /\ Goto(b, "walk") /\ pc[b] = "checkpoint"
        /\ UNCHANGED <<world, cachedir, lock, mem>> /\ Fault
    BY <1>3 DEF CheckTimeout, TimesOut
  <2> HIDE DEF j
  <2>3. lock # b /\ "walk" \in Labels \ Holding
    BY <1>0, <2>2 DEF Local, Holding, Labels, Walking
  <2>4. j.sig = stamp => WalkInv("walk", j)
    BY <1>0, <2>1, <2>2 DEF Local, WalkInv, Begun, Walking, Ahead
  <2> QED BY <1>0, <2>1, <2>2, <2>3, <2>4, FreeStep DEF Local
<1> QED BY <1>1, <1>2, <1>3

\* what _reap keeps of a cache: every live key; and it drops no more of the young orphans
\* than it keeps
ReapOK(kept, sweep, cache, live) ==
  /\ kept \subseteq cache /\ cache \cap live \subseteq kept
  /\ DOMAIN sweep \subseteq cache \ live
  /\ \A k \in DOMAIN sweep : sweep[k] = OrphanFor(k)
  /\ ReapForce \/ \A Y \in SUBSET (cache \ kept) :
       (\A k \in Y : OrphanFor(k) < Decay) => Cardinality(Y) <= Cardinality(kept)

LEMMA ReapFacts ==
  ASSUME World, NEW cache \in SUBSET Keys, NEW live \in SUBSET Keys
  PROVE  ReapOK(Reaped(cache, live).cache, Reaped(cache, live).ages, cache, live)
<1> DEFINE orphans == cache \ live
           decayed == {k \in orphans : OrphanFor(k) >= Decay}
           rest == cache \ decayed
           young == orphans \ decayed
           refuse == Cardinality(young) > Cardinality(rest) \div 2 /\ ~ReapForce
           R == Reaped(cache, live)
<1>1. R.cache = (IF refuse THEN rest ELSE rest \cap live)
      /\ R.ages = IF refuse THEN [k \in young |-> OrphanFor(k)] ELSE <<>>
  BY DEF Reaped
<1>2. DOMAIN <<>> = {}
  OBVIOUS
<1>3. R.cache \subseteq cache /\ cache \cap live \subseteq R.cache
  <2>1. rest \subseteq cache /\ cache \cap live \subseteq rest \cap live
    OBVIOUS
  <2> HIDE DEF rest, refuse, R
  <2> QED BY <1>1, <2>1
<1>4. DOMAIN R.ages \subseteq cache \ live /\ \A k \in DOMAIN R.ages : R.ages[k] = OrphanFor(k)
  <2>1. young \subseteq cache \ live
    OBVIOUS
  <2> HIDE DEF young, refuse, R
  <2> QED BY <1>1, <1>2, <2>1
<1>5. ASSUME ~ReapForce, NEW Y \in SUBSET (cache \ R.cache), \A k \in Y : OrphanFor(k) < Decay
      PROVE  Cardinality(Y) <= Cardinality(R.cache)
  <2>1. \A k \in Y : k \notin decayed
    <3>1. \A k \in Y : ~(OrphanFor(k) >= Decay)
      <4>1. \A k \in Keys : OrphanFor(k) \in Nat
        BY DEF OrphanFor, Get, World
      <4> QED BY <1>5, <4>1, SearchAssumption DEF World
    <3> QED BY <3>1
  <2>2. Y \subseteq rest
    BY <2>1
  <2>3. IsFiniteSet(young) /\ IsFiniteSet(rest \cap live) /\ Cardinality(young) \in Nat
        /\ Cardinality(rest \cap live) \in Nat /\ Cardinality(rest) \in Nat /\ Cardinality(R.cache) \in Nat
    <3>1. young \in SUBSET Keys /\ rest \cap live \in SUBSET Keys /\ rest \in SUBSET Keys
          /\ R.cache \in SUBSET Keys
      BY <1>3
    <3> HIDE DEF young, rest, R
    <3> QED BY <3>1, KeySets
  <2>4. CASE refuse
    <3>1. Y = {}
      BY <1>1, <2>2, <2>4
    <3> QED BY <2>3, <3>1, FS_EmptySet
  <2>5. CASE ~refuse
    <3>1. Y \subseteq young /\ R.cache = rest \cap live
      BY <1>1, <2>1, <2>2, <2>5
    <3>2. Cardinality(Y) <= Cardinality(young) /\ Cardinality(Y) \in Nat
      <4>1. young \in SUBSET Keys /\ Y \in SUBSET Keys
        BY <3>1
      <4> HIDE DEF young
      <4> QED BY <3>1, <4>1, KeySets
    <3>3. Cardinality(rest) = Cardinality(rest \cap live) + Cardinality(young)
      <4>1. rest = (rest \cap live) \cup young /\ (rest \cap live) \cap young = {}
        OBVIOUS
      <4>2. Cardinality((rest \cap live) \cup young)
              = Cardinality(rest \cap live) + Cardinality(young) - Cardinality((rest \cap live) \cap young)
        <5> HIDE DEF rest, young
        <5> QED BY <2>3, FS_Union
      <4>3. Cardinality((rest \cap live) \cap young) = 0
        <5> HIDE DEF rest, young
        <5> QED BY <4>1, FS_EmptySet
      <4>4. Cardinality(rest) = Cardinality((rest \cap live) \cup young)
        <5> HIDE DEF rest, young
        <5> QED BY <4>1, Zenon
      <4> HIDE DEF rest, young
      <4> QED BY <2>3, <4>2, <4>3, <4>4
    <3>4. ~(Cardinality(young) > Cardinality(rest) \div 2)
      BY <1>5, <2>5
    <3> HIDE DEF young, rest, R
    <3> QED BY <2>3, <3>1, <3>2, <3>3, <3>4
  <2> QED BY <2>4, <2>5
<1> QED BY <1>3, <1>4, <1>5 DEF ReapOK

LEMMA ReapStep ==
  ASSUME IInv, NEW b \in Searchers, FinalReap(b)
  PROVE  IInv'
<1>0. World /\ Local(b) /\ b \in Procs /\ job[b] \in SearchJob /\ b # Nobody /\ WalkEnded(b) /\ lock = Nobody
  BY SearchAssumption DEF IInv, Local, Procs, FinalReap
<1>1. Merged(b) \in SUBSET Keys /\ job[b].live \in SUBSET Keys /\ Contents \subseteq Merged(b)
  BY <1>0, KeySets DEF Merged, SearchJob
<1>2. PICK kept, sweep :
        /\ kept = Reaped(Merged(b), job[b].live).cache /\ sweep = Reaped(Merged(b), job[b].live).ages
        /\ ReapOK(kept, sweep, Merged(b), job[b].live)
  BY <1>0, <1>1, ReapFacts
<1>3. kept \subseteq Keys
  BY <1>1, <1>2 DEF ReapOK
<1>4. PICK j \in SearchJob :
        /\ SetJob(b, j) /\ j.sig = job[b].sig /\ j.left = job[b].left /\ j.live = job[b].live
        /\ j.unread = job[b].unread
        /\ j.todo = job[b].todo /\ j.index = job[b].index /\ j.dropped = job[b].dropped /\ j.fresh = kept
  <2> DEFINE j == [job[b] EXCEPT !.fresh = kept]
  <2>1. /\ j \in SearchJob /\ j.sig = job[b].sig /\ j.left = job[b].left /\ j.live = job[b].live
        /\ j.unread = job[b].unread
        /\ j.todo = job[b].todo /\ j.index = job[b].index /\ j.dropped = job[b].dropped /\ j.fresh = kept
    BY <1>0, <1>3 DEF SearchJob
  <2>2. SetJob(b, j)
    BY <1>2 DEF FinalReap
  <2> HIDE DEF j
  <2> QED BY <2>1, <2>2
<1>5. /\ Goto(b, "reaped") /\ lock' = b /\ UNCHANGED <<world, disk, mem>>
      /\ \/ /\ ages' = sweep /\ UNCHANGED used
            /\ unseen' = [k \in Keys |-> IF k \in job[b].live THEN 0 ELSE unseen[k]]
         \/ UNCHANGED <<ages, unseen>> /\ Fault
  BY <1>2 DEF FinalReap
<1>6. Moves(b, "reaped", j)
  BY <1>0, <1>4, <1>5, Moving
<1>7. \A k \in Keys : OrphanFor(k) \in Nat /\ OrphanFor(k) <= unseen[k] /\ unseen[k] \in Nat
  BY <1>0 DEF World, OrphanFor, Get
<1>8. World'
  <2>1. unseen' \in [Keys -> Nat]
    BY <1>0, <1>5 DEF World
  <2>2. \A k \in DOMAIN ages' : ages'[k] \in Nat /\ (k \in Keys => ages'[k] <= unseen'[k])
    <3>1. CASE UNCHANGED <<ages, unseen>>
      BY <1>0, <3>1 DEF World
    <3>2. CASE ages' = sweep /\ unseen' = [k \in Keys |-> IF k \in job[b].live THEN 0 ELSE unseen[k]]
      BY <1>1, <1>2, <1>7, <3>2 DEF ReapOK
    <3> QED BY <1>5, <3>1, <3>2
  <2>3. used' \in [faults : Nat, edits : Nat] /\ used'.edits = used.edits
    BY <1>0, <1>5, Faulting DEF World
  <2> QED BY <1>0, <1>5, <1>6, <2>1, <2>2, <2>3 DEF World, Moves
<1>9. Contents' = Contents /\ Chunks' = Chunks
  BY <1>5 DEF Contents, Chunks
<1>10. Contents \cap job[b].live \subseteq kept
  BY <1>1, <1>2 DEF ReapOK
<1>11. ASSUME ~ReapForce PROVE Cardinality(Young(kept)') <= Cardinality(kept)
  <2>1. Young(kept)' \subseteq Merged(b) \ kept
    BY <1>1, <1>9 DEF Young
  <2>2. ASSUME NEW k \in Young(kept)' PROVE OrphanFor(k) < Decay
    <3>1. k \in Keys /\ k \notin job[b].live
      BY <1>1, <1>2, <2>1, <2>2 DEF ReapOK
    <3>2. unseen'[k] = unseen[k] /\ unseen'[k] < Decay
      BY <1>5, <2>2, <3>1 DEF Young
    <3> QED BY <1>0, <1>7, <3>1, <3>2, SearchAssumption DEF World
  <2> QED BY <1>2, <1>11, <2>1, <2>2 DEF ReapOK
<1>12. HeldInv(pc[b], job[b])'
  BY <1>4, <1>6, <1>9, <1>10, <1>11 DEF HeldInv, Moves
<1>13. job'[b].sig = stamp' => WalkInv(pc[b], job[b])'
  <2>1. job[b].sig = stamp => j.index \cup j.dropped \cup j.unread = Chunks /\ j.live \cup j.unread = Chunks
    <3>1. job[b].todo = <<>> /\ job[b].left = <<>> /\ pc[b] = "walk"
      BY <1>0 DEF WalkEnded
    <3>2. Ahead(job[b]) = {}
      BY <3>1, InFacts DEF Ahead
    <3> QED BY <1>0, <1>4, <3>1, <3>2, InFacts DEF Local, WalkInv, Walking
  <2> QED BY <1>4, <1>5, <1>6, <1>9, <2>1 DEF WalkInv, Moves, Begun, Walking
<1>14. Local(b)'
  BY <1>0, <1>4, <1>5, <1>6, <1>9, <1>12, <1>13 DEF Local, Moves, Holding, Labels
<1> QED BY <1>0, <1>5, <1>6, <1>8, <1>14, OwnStep

LEMMA EndStep ==
  ASSUME IInv, NEW b \in Searchers, FinalSave(b) \/ FinalTimeout(b) \/ Kill(b)
  PROVE  IInv'
<1>0. World /\ Local(b) /\ job[b] \in SearchJob /\ mem[b] \in SearchMem /\ b # Nobody
  BY SearchAssumption DEF IInv, Local
<1>1. "idle" \in Labels \ Holding /\ (NoJob.sig = stamp => WalkInv("idle", NoJob)) /\ NoJob.sig <= stamp
      /\ NoMem.sig <= stamp /\ NoMem.sig # stamp
  BY <1>0, NoJobFacts DEF Labels, Holding, World
<1>2. CASE Kill(b)
  BY <1>0, <1>1, <1>2, NoJobFacts, FreeStep DEF Kill
<1>3. ASSUME Finish(b), job[b].sig = stamp => job[b].index \cup job[b].dropped \cup job[b].unread = Chunks,
             lock' = IF lock = b THEN Nobody ELSE lock, UNCHANGED <<world, ages, unseen>>,
             disk' = disk \/ (lock = b /\ disk' \subseteq Keys), UNCHANGED used \/ Fault
      PROVE  IInv'
  <2>1. PICK m \in SearchMem : SetMem(b, m) /\ m.sig <= stamp
                               /\ (m.sig = stamp => m.index \cup m.dropped = Chunks)
    <3>1. CASE b \in Servers
      <4> DEFINE m == [mem[b] EXCEPT !.sig = FiledUnder(b), !.index = job[b].index,
                               !.dropped = job[b].dropped \cup job[b].unread]
      <4>1. /\ m \in SearchMem /\ m.sig = job[b].sig /\ m.index = job[b].index
            /\ m.dropped = job[b].dropped \cup job[b].unread
        BY <1>0 DEF SearchMem, SearchJob, FiledUnder
      <4>2. SetMem(b, m)
        BY <1>3, <3>1 DEF Finish
      <4> HIDE DEF m
      <4> QED BY <1>0, <1>3, <4>1, <4>2 DEF Local
    <3>2. CASE b \notin Servers
      BY <1>1, <1>3, <3>2, NoJobFacts DEF Finish
    <3> QED BY <3>1, <3>2
  <2>2. SetJob(b, NoJob) /\ Goto(b, "idle")
    BY <1>3 DEF Finish
  <2> QED BY <1>1, <1>3, <2>1, <2>2, NoJobFacts, FreeStep
<1>4. CASE FinalSave(b)
  <2>1. /\ pc[b] = "reaped" /\ lock' = Nobody /\ Finish(b) /\ UNCHANGED <<world, ages, unseen, used>>
        /\ (disk' = job[b].fresh \/ disk' = disk)
    BY <1>4 DEF FinalSave, SaveCache
  <2>2. lock = b /\ job[b].fresh \subseteq Keys
    BY <1>0, <2>1 DEF Local, Holding, SearchJob
  <2>3. job[b].sig = stamp => job[b].index \cup job[b].dropped \cup job[b].unread = Chunks
    BY <1>0, <2>1 DEF Local, WalkInv
  <2> QED BY <1>3, <2>1, <2>2, <2>3
<1>5. CASE FinalTimeout(b)
  <2>1. /\ WalkEnded(b) /\ Finish(b) /\ UNCHANGED <<world, cachedir, lock>> /\ Fault
    BY <1>5 DEF FinalTimeout, TimesOut
  <2>2. job[b].todo = <<>> /\ job[b].left = <<>> /\ pc[b] = "walk"
    BY <2>1 DEF WalkEnded
  <2>3. Ahead(job[b]) = {}
    BY <2>2, InFacts DEF Ahead
  <2>4. job[b].sig = stamp => job[b].index \cup job[b].dropped \cup job[b].unread = Chunks
    BY <1>0, <2>2, <2>3, InFacts DEF Local, WalkInv, Walking
  <2>5. lock # b
    BY <1>0, <2>2 DEF Local, Holding
  <2> QED BY <1>3, <2>1, <2>4, <2>5
<1> QED BY <1>2, <1>4, <1>5

LEMMA WorldStep ==
  ASSUME IInv,
         \/ \E o \in Strangers : SweepLook(o) \/ SweepRemove(o)
         \/ \E f \in In(Files), text \in Texts : Edit(f, text)
         \/ Tick
  PROVE  IInv'
<1>0. World
  BY DEF IInv
<1>1. CASE \E o \in Strangers : SweepLook(o) \/ SweepRemove(o)
  <2>1. PICK o \in Strangers : SweepLook(o) \/ SweepRemove(o)
    BY <1>1
  <2>2. o \in Procs /\ o \notin Searchers
    BY SearchAssumption DEF Procs
  <2>3. PICK l \in {"idle", "remove"} : Goto(o, l)
    BY <2>1 DEF SweepLook, SweepRemove
  <2>10. PICK j : SetJob(o, j)
    BY <2>1 DEF SweepLook, SweepRemove
  <2>4. Moves(o, l, j)
    BY <1>0, <2>2, <2>3, <2>10, Moving
  <2>5. UNCHANGED <<world, unseen, lock, mem, used>> /\ disk' \in {disk, NoCache} /\ ages' \in {ages, <<>>}
    BY <2>1 DEF SweepLook, SweepRemove
  <2>6. World'
    <3>1. DOMAIN <<>> = {}
      OBVIOUS
    <3> QED BY <1>0, <2>4, <2>5, <3>1 DEF World, Moves
  <2>7. Contents' \subseteq Contents
    BY <2>5 DEF Contents
  <2>8. ASSUME NEW u \in Searchers PROVE Local(u)'
    <3>1. pc'[u] = pc[u] /\ job'[u] = job[u] /\ u # o
      BY <2>2, <2>4 DEF Moves, Procs
    <3> QED BY <2>5, <2>7, <3>1, Others
  <2>9. \A q \in Strangers : pc'[q] \in {"idle", "remove"}
    BY <2>3, <2>4 DEF Moves, Procs, IInv
  <2> QED BY <2>6, <2>8, <2>9 DEF IInv
<1>2. CASE \E f \in In(Files), text \in Texts : Edit(f, text)
  <2>1. PICK f \in In(Files), text \in Texts : Edit(f, text)
    BY <1>2
  <2>2. /\ corpus' = [corpus EXCEPT ![f] = text] /\ stamp' = used.edits + 1
        /\ used' = [used EXCEPT !.edits = @ + 1]
        /\ UNCHANGED <<cachedir, lock, mem, pc, job>>
    BY <2>1 DEF Edit
  <2>3. World'
    <3>1. corpus' \in [In(Files) -> Seq(Keys)]
      BY <1>0, <2>2, SearchAssumption DEF World
    <3>2. used' \in [faults : Nat, edits : Nat] /\ stamp' = used'.edits
      <4>1. used \in [faults : Nat, edits : Nat]
        BY <1>0 DEF World
      <4>2. used' \in [faults : Nat, edits : Nat] /\ used'.edits = used.edits + 1
        BY <2>2, <4>1
      <4> QED BY <2>2, <4>2
    <3> QED BY <1>0, <2>2, <3>1, <3>2 DEF World
  <2>4. ASSUME NEW u \in Searchers PROVE Local(u)'
    <3>1. Local(u) /\ stamp' = stamp + 1 /\ stamp \in Nat
      BY <1>0, <2>2 DEF IInv, World
    <3>2. job[u].sig \in Int /\ mem[u].sig \in Int
      BY <3>1 DEF Local, SearchJob, SearchMem
    <3>3. job[u].sig < stamp' /\ mem[u].sig < stamp' /\ job[u].sig # stamp' /\ mem[u].sig # stamp'
      BY <3>1, <3>2 DEF Local
    <3>4. HeldInv(pc[u], job[u])'
      BY <2>2, <3>1 DEF Local, HeldInv, Young, Contents
    <3> QED BY <2>2, <3>1, <3>2, <3>3, <3>4 DEF Local
  <2> QED BY <2>2, <2>3, <2>4 DEF IInv
<1>3. CASE Tick
  <2>1. /\ \A p \in Procs : pc[p] = "idle"
        /\ ages' = [k \in DOMAIN ages |-> Older(ages[k], Decay)]
        /\ unseen' = [k \in Keys |-> Older(unseen[k], Decay)]
        /\ UNCHANGED <<world, disk, lock, mem, pc, job, used>>
    <3>1. DOMAIN pc = Procs
      BY <1>0 DEF World
    <3> QED BY <1>3, <3>1 DEF Tick
  <2>2. World'
    <3>1. \A m, n \in Nat : Older(m, Decay) \in Nat /\ (m <= n => Older(m, Decay) <= Older(n, Decay))
      BY SearchAssumption DEF Older
    <3>2. unseen' \in [Keys -> Nat]
      BY <1>0, <2>1, <3>1 DEF World
    <3>3. \A k \in DOMAIN ages' : ages'[k] \in Nat /\ (k \in Keys => ages'[k] <= unseen'[k])
      BY <1>0, <2>1, <3>1 DEF World
    <3> QED BY <1>0, <2>1, <3>2, <3>3 DEF World
  <2>3. ASSUME NEW u \in Searchers PROVE Local(u)'
    <3>1. Local(u) /\ pc[u] = "idle"
      BY <2>1 DEF IInv, Procs
    <3> QED BY <2>1, <3>1 DEF Local, WalkInv, HeldInv, Chunks, Begun, Walking
  <2> QED BY <2>1, <2>2, <2>3 DEF IInv
<1> QED BY <1>1, <1>2, <1>3

LEMMA SearchStep == IInv /\ [Next]_vars => IInv'
<1> SUFFICES ASSUME IInv, [Next]_vars PROVE IInv'
  OBVIOUS
<1>1. ASSUME NEW b \in Searchers, Search(b, FALSE) \/ Search(b, TRUE) PROVE IInv'
  BY <1>1, BeginStep
<1>2. ASSUME NEW b \in Searchers, Build(b) PROVE IInv'
  BY <1>2, BeginStep, LoadStep, VisitStep, ChunkStep, CheckStep, ReapStep, EndStep DEF Build
<1>3. ASSUME NEW b \in Searchers,
             LoadTimeout(b) \/ CheckTimeout(b) \/ FinalTimeout(b) \/ Kill(b) \/ EmbedFails(b)
      PROVE  IInv'
  BY <1>3, LoadStep, CheckStep, EndStep, ChunkStep
<1>4. CASE UNCHANGED vars
  <2>1. World'
    BY <1>4 DEF vars, World, IInv
  <2>2. ASSUME NEW u \in Searchers PROVE Local(u)'
    <3>1. /\ pc'[u] = pc[u] /\ job'[u] = job[u] /\ mem'[u] = mem[u] /\ u # Nobody /\ lock' = lock
          /\ UNCHANGED <<corpus, stamp, unseen>> /\ Contents' = Contents
      BY <1>4, SearchAssumption DEF vars, Contents
    <3> QED BY <3>1, Others
  <2> QED BY <1>4, <2>1, <2>2 DEF IInv, vars
<1> QED BY <1>1, <1>2, <1>3, <1>4, WorldStep DEF Next

LEMMA SearchAlways == Spec => []IInv
BY SearchInit, SearchStep, PTL DEF Spec

-----------------------------------------------------------------------------

\* A server that answers from memory has in its index what the corpus has now, but for
\* the chunks the embedder failed on and the files that could not be read, however the
\* corpus changed during the build and whatever other searches, sweeps, timeouts and kills
\* did (build_index, _cache_sig).
THEOREM IndexIsFresh == Spec => []ServedIsFresh
<1>1. IInv => ServedIsFresh
  BY SearchAssumption DEF IInv, Local, ServedIsFresh
<1> QED BY <1>1, SearchAlways, PTL

\* the one step in which a search lets the lock go and the disk changes is a save
LEMMA SavingStep ==
  ASSUME IInv, [Next]_vars, lock' = Nobody, lock # Nobody, disk' # disk
  PROVE  \E b \in Searchers : lock = b /\ (CheckSave(b) \/ FinalSave(b)) /\ disk' = job[b].fresh
<1>1. ASSUME NEW b \in Searchers,
             Search(b, FALSE) \/ Search(b, TRUE) \/ LoadTimeout(b) \/ CheckTimeout(b) \/ FinalTimeout(b) \/ Kill(b)
      PROVE  FALSE
  BY <1>1 DEF Search, LoadTimeout, CheckTimeout, FinalTimeout, Kill, Walk
<1>2. ASSUME NEW b \in Searchers, Build(b) \/ EmbedFails(b), ~CheckSave(b), ~FinalSave(b) PROVE FALSE
  BY <1>2 DEF Build, Begin, MigrateCopy, Load, Walk, CheckLoad, FinalReap, Visit, Known, Embed, EmbedFails
<1>3. ASSUME \/ \E o \in Strangers : SweepLook(o) \/ SweepRemove(o)
             \/ \E f \in In(Files), text \in Texts : Edit(f, text)
             \/ Tick
      PROVE  FALSE
  BY <1>3 DEF SweepLook, SweepRemove, Edit, Tick
<1>4. PICK b \in Searchers : CheckSave(b) \/ FinalSave(b)
  BY <1>1, <1>2, <1>3 DEF Next, vars
<1>5. lock = b
  BY <1>4 DEF IInv, Local, CheckSave, FinalSave, Holding
<1> QED BY <1>4, <1>5 DEF CheckSave, FinalSave, SaveCache

\* what a save drops: nothing but migrated keys at a checkpoint, and at the end of a build
\* no key that the build met in the corpus
LEMMA SaveDrops ==
  ASSUME IInv, NEW b \in Searchers, CheckSave(b) \/ FinalSave(b)
  PROVE  \/ CheckSave(b) /\ Contents \subseteq job[b].fresh \cup Legacy
         \/ /\ FinalSave(b) /\ Contents \cap job[b].live \subseteq job[b].fresh \cup Legacy
            /\ job[b].sig = stamp => job[b].live \cup job[b].unread = Chunks
            /\ ReapForce \/ Cardinality(Young(job[b].fresh)) <= Cardinality(job[b].fresh)
BY DEF IInv, Local, HeldInv, WalkInv, CheckSave, FinalSave

\* While the corpus is as it was when the saving build took its signature, that build's
\* save drops no vector of a chunk in the corpus, but those of files it could not read and
\* those the cache from before there were identities holds too: two builds never lose each
\* other's vectors (_checkpoint_locked, _final_save_locked).  Nothing is said of a build the
\* corpus has changed under, nor of chunks that are not in the corpus, whatever their age.
THEOREM OthersKept == Spec => SavesKeepTheOthers
<1>1. ASSUME IInv, [Next]_vars, NEW b \in Searchers, lock = b, lock' = Nobody, disk' # disk, job[b].sig = stamp
      PROVE  (Contents \ disk') \cap Chunks \subseteq Legacy \cup job[b].unread
  <2>1. lock # Nobody
    BY <1>1, SearchAssumption
  <2>2. (CheckSave(b) \/ FinalSave(b)) /\ disk' = job[b].fresh
    BY <1>1, <2>1, SavingStep
  <2> QED BY <1>1, <2>2, SaveDrops
<1>2. IInv /\ [Next]_vars =>
        [\A b \in Searchers :
           lock = b /\ lock' = Nobody /\ disk' # disk /\ job[b].sig = stamp
             => (Contents \ disk') \cap Chunks \subseteq Legacy \cup job[b].unread]_vars
  BY <1>1
<1>3. Spec => [][\A b \in Searchers :
           lock = b /\ lock' = Nobody /\ disk' # disk /\ job[b].sig = stamp
             => (Contents \ disk') \cap Chunks \subseteq Legacy \cup job[b].unread]_vars
  BY <1>2, SearchAlways, PTL DEF Spec
<1> QED BY <1>3 DEF SavesKeepTheOthers

Unforced == ~ReapForce      \* QQ_REAP_FORCE is not set

GuardedSave ==
  disk' # disk /\ lock # Nobody /\ lock' = Nobody =>
    LET young == {k \in Contents \ disk' : unseen[k] < Decay}
    IN Cardinality(young \ Legacy) <= Cardinality(disk')

\* Unless the operator forces the reap, one save drops no more vectors than it leaves, of
\* those that a reap saw in the corpus, and could record it, within ORPHAN_DECAY (_reap).
THEOREM ReapIsGuarded == Unforced /\ Spec => BulkGuard
<1>1. ASSUME Unforced, IInv, [Next]_vars, disk' # disk, lock # Nobody, lock' = Nobody
      PROVE  LET young == {k \in Contents \ disk' : unseen[k] < Decay}
             IN Cardinality(young \ Legacy) <= Cardinality(disk')
  <2> DEFINE young == {k \in Contents \ disk' : unseen[k] < Decay}
  <2>1. PICK b \in Searchers : (CheckSave(b) \/ FinalSave(b)) /\ disk' = job[b].fresh
    BY <1>1, SavingStep
  <2>2. young \ Legacy = Young(job[b].fresh)
    BY <2>1 DEF Young
  <2>3. CASE Contents \subseteq job[b].fresh \cup Legacy
    <3>1. young \ Legacy = {}
      BY <2>1, <2>3
    <3>2. Cardinality(job[b].fresh) \in Nat
      BY <1>1, KeySets DEF IInv, Local, SearchJob
    <3> QED BY <2>1, <3>1, <3>2, FS_EmptySet
  <2> QED BY <1>1, <2>1, <2>2, <2>3, SaveDrops DEF Unforced
<1>2. Unforced /\ IInv /\ [Next]_vars => [GuardedSave]_vars
  BY <1>1 DEF GuardedSave
<1>3. Unforced /\ [Next]_vars => Unforced'
  BY DEF Unforced
<1>4. Unforced /\ Spec => [][GuardedSave]_vars
  BY <1>2, <1>3, SearchAlways, PTL DEF Spec
<1> QED BY <1>4, PTL DEF BulkGuard, GuardedSave
=============================================================================
