----------------------------- MODULE SearchCache -----------------------------
(***************************************************************************)
(* The embedding cache of search (search.py, build_index): one-shot searches *)
(* and a long-lived server build an index of a corpus, and keep the vectors  *)
(* they had to compute in a file per identity - corpus root, model, chunker. *)
(*                                                                           *)
(* A build takes minutes and holds the identity's lock only for three short  *)
(* spans: the load, each checkpoint, the final save, which alone drops what  *)
(* is no longer in the corpus.  Two things change the directory without that *)
(* lock: the copy of a cache from before there were identities, and the      *)
(* sweep, by a search of another identity, of caches not written for long.   *)
(*                                                                           *)
(* Identities share nothing but that sweep: the model is of one of them.     *)
(*                                                                           *)
(* Time is what the code subtracts, ages in days, and each age stops counting *)
(* where the code no longer tells it from a greater one: days pass for ever.  *)
(*                                                                           *)
(* A vector is determined by its key, the hash of model and text, so a cache *)
(* is a set of keys; a file of the corpus is the sequence of its chunks' keys. *)
(***************************************************************************)
EXTENDS Integers, Sequences, FiniteSets, TLC

CONSTANTS
  Searchers,      \* processes: each a one-shot search, or
  Servers,        \* one that keeps its index from one search to the next
  Strangers,      \* searches of other identities
  Nobody, NoCache,
  Files,          \* the corpus files, in the order of the walk
  Texts,          \* the chunks a file can hold
  StartCorpus,    \* what each file holds at the start
  StartCache,     \* what earlier builds left
  Legacy,         \* the keys in the cache from before there were identities; {}: none
  SampleSize,     \* _MIGRATION_SAMPLE_SIZE
  Interval,       \* CHECKPOINT_INTERVAL
  Decay,          \* ORPHAN_DECAY_SECONDS
  GcAge,          \* QQ_CACHE_GC_DAYS
  ReapForce,      \* QQ_REAP_FORCE
  MaxEdits, MaxFaults

In(seq) == {seq[n] : n \in DOMAIN seq}
Keys == (UNION {In(text) : text \in Texts \cup {StartCorpus[f] : f \in In(Files)}}) \cup Legacy
          \cup (IF StartCache = NoCache THEN {} ELSE StartCache)

ASSUME SearchAssumption ==
  /\ Servers \subseteq Searchers /\ Nobody \notin Searchers /\ Searchers \cap Strangers = {}
  /\ Files \in Seq(In(Files)) /\ StartCorpus \in [In(Files) -> Seq(Keys)] /\ Texts \subseteq Seq(Keys)
  /\ IsFiniteSet(Keys)
  /\ SampleSize \in Nat \ {0} /\ Interval \in Nat \ {0} /\ ReapForce \in BOOLEAN
  /\ {Decay, GcAge, MaxEdits, MaxFaults} \subseteq Nat

VARIABLES
  corpus, stamp,      \* the files, and when the newest changed
  disk,               \* the cache file
  ages,               \* its orphan-ages sidecar: for how long a key has been out of the corpus
  old,                \* the days since each of the two was written
  lock,               \* the holder of <cache>.lock
  mem,                \* what a process keeps between searches: index, signature, flags
  pc, job,
  used,
  unseen              \* auxiliary: the days since a reap that could record it saw a key

vars == <<corpus, stamp, disk, ages, old, lock, mem, pc, job, used, unseen>>
world == <<corpus, stamp>>
cachedir == <<disk, ages, old, unseen>>

Contents == IF disk = NoCache THEN {} ELSE disk
Chunks == UNION {In(corpus[f]) : f \in In(Files)}

NoMem == [sig |-> -1, index |-> {}, dropped |-> {}, migrated |-> FALSE]
NoJob == [sig |-> -1, force |-> FALSE, left |-> <<>>, todo |-> <<>>, cache |-> {}, nBefore |-> 0,
          live |-> {}, index |-> {}, dropped |-> {}, pending |-> {}, embedded |-> {},
          since |-> 0, fresh |-> {}, unread |-> {}]

Goto(b, label) == pc' = [pc EXCEPT ![b] = label]
SetJob(b, j) == job' = [job EXCEPT ![b] = j]
SetMem(b, m) == mem' = [mem EXCEPT ![b] = m]
Free == lock = Nobody
Fault == used.faults < MaxFaults /\ used' = [used EXCEPT !.faults = @ + 1]
\* a wait for the lock ends without it
TimesOut(b) == ~Free /\ Fault
SaveCache(cache) == disk' = cache /\ old' = [old EXCEPT !.cache = 0]

-----------------------------------------------------------------------------
(* Before the build *)

\* _gc_stale_identity_caches of a search of another identity: it looks at the age of each
\* of our files, and removes an old one with no lock - a save in between goes with it
SweepLook(o) ==
  LET there == {"ages"} \cup IF disk = NoCache THEN {} ELSE {"cache"}
      stale == {file \in there : GcAge > 0 /\ old[file] > GcAge} IN
  /\ pc[o] = "idle" /\ stale # {}
  /\ SetJob(o, stale)
  /\ Goto(o, "remove")
  /\ UNCHANGED <<world, cachedir, lock, mem, used>>

SweepRemove(o) ==
  /\ pc[o] = "remove"
  /\ disk' = IF "cache" \in job[o] THEN NoCache ELSE disk
  /\ ages' = IF "ages" \in job[o] THEN <<>> ELSE ages
  /\ SetJob(o, {}) /\ Goto(o, "idle")
  /\ UNCHANGED <<world, old, unseen, lock, mem, used>>

\* build_index; `force` is qq-search --reindex.  A server answers from memory while the
\* signature is the same.  The signature is taken before the walk: what changes during
\* it will not match later
Search(b, force) ==
  /\ pc[b] = "idle" /\ (force => b \notin Servers)
  /\ mem[b].sig # stamp \/ force
  /\ SetJob(b, [NoJob EXCEPT !.force = force, !.sig = stamp])
  /\ Goto(b, "begin")
  /\ UNCHANGED <<world, cachedir, lock, mem, used>>

\* _maybe_migrate_legacy_cache: once, and only into an identity that has no cache yet
Begin(b) ==
  LET wanted == ~mem[b].migrated /\ disk = NoCache /\ Legacy # {} IN
  /\ pc[b] = "begin"
  /\ SetMem(b, [mem[b] EXCEPT !.migrated = @ \/ wanted])
  /\ Goto(b, IF wanted THEN "copy" ELSE "load")
  /\ UNCHANGED <<world, cachedir, lock, job, used>>

\* the copy is made when half of a sample of the corpus is in the old cache.  The lock
\* is not taken: it replaces whatever was saved since the look
MigrateCopy(b) ==
  LET size == IF Cardinality(Chunks) < SampleSize THEN Cardinality(Chunks) ELSE SampleSize IN
  /\ pc[b] = "copy"
  /\ \E sample \in {X \in SUBSET Chunks : Cardinality(X) = size} :
       IF sample # {} /\ 2 * Cardinality(sample \cap Legacy) >= Cardinality(sample)
       THEN SaveCache(Legacy)
       ELSE UNCHANGED <<disk, old>>
  /\ Goto(b, "load")
  /\ UNCHANGED <<world, ages, unseen, lock, mem, job, used>>

-----------------------------------------------------------------------------
(* The build *)

Walk(b, cache) ==
  /\ Goto(b, "walk")
  /\ SetJob(b, [job[b] EXCEPT !.cache = cache, !.nBefore = Cardinality(cache),
                              !.left = Files])
  /\ UNCHANGED <<world, cachedir, lock, mem>>

\* _load_cache_locked: an empty view when forced, or when the lock is not to be had
Load(b) ==
  /\ pc[b] = "load" /\ Free
  /\ Walk(b, IF job[b].force THEN {} ELSE Contents)
  /\ UNCHANGED used
LoadTimeout(b) == pc[b] = "load" /\ TimesOut(b) /\ Walk(b, {})

\* chunks: the next file is read as it is now; one that cannot be read is skipped
Visit(b) ==
  LET found == corpus[Head(job[b].left)] IN
  /\ pc[b] = "walk" /\ job[b].todo = <<>> /\ job[b].left # <<>>
  /\ \/ /\ SetJob(b, [job[b] EXCEPT !.left = Tail(@), !.todo = found, !.live = @ \cup In(found)])
        /\ UNCHANGED used
     \/ SetJob(b, [job[b] EXCEPT !.left = Tail(@), !.unread = @ \cup In(found)]) /\ Fault
  /\ UNCHANGED <<world, cachedir, lock, mem, pc>>

AtChunk(b) == pc[b] = "walk" /\ job[b].todo # <<>>
Chunk(b) == Head(job[b].todo)

Known(b) ==
  /\ AtChunk(b) /\ Chunk(b) \in job[b].cache
  /\ SetJob(b, [job[b] EXCEPT !.todo = Tail(@), !.index = @ \cup {Chunk(b)}])
  /\ UNCHANGED <<world, cachedir, lock, mem, pc, used>>

\* the slow step: no lock is held
Embed(b) ==
  LET new == {Chunk(b)} IN
  /\ AtChunk(b) /\ Chunk(b) \notin job[b].cache
  /\ SetJob(b, [job[b] EXCEPT !.todo = Tail(@), !.index = @ \cup new, !.cache = @ \cup new,
                              !.pending = @ \cup new, !.embedded = @ \cup new, !.since = @ + 1])
  /\ Goto(b, IF job[b].since + 1 >= Interval THEN "checkpoint" ELSE "walk")
  /\ UNCHANGED <<world, cachedir, lock, mem, used>>

\* embed gives None twice: the chunk is in the corpus and not in this index
EmbedFails(b) ==
  /\ AtChunk(b) /\ Chunk(b) \notin job[b].cache /\ Fault
  /\ SetJob(b, [job[b] EXCEPT !.todo = Tail(@), !.dropped = @ \cup {Chunk(b)}])
  /\ UNCHANGED <<world, cachedir, lock, mem, pc>>

WalkEnded(b) == pc[b] = "walk" /\ job[b].left = <<>> /\ job[b].todo = <<>>

\* mutation: the checkpoint saves the view loaded at the start of the build
Merged_Snapshot(b) == job[b].cache
\* what a locked span saves: what is on disk by now and what this build added
Merged(b) == Contents \cup job[b].pending

\* _checkpoint_locked: adds, never drops
CheckLoad(b) ==
  /\ pc[b] = "checkpoint" /\ Free
  /\ lock' = b
  /\ SetJob(b, [job[b] EXCEPT !.fresh = Merged(b)])
  /\ Goto(b, "saving")
  /\ UNCHANGED <<world, cachedir, mem, used>>

CheckSave(b) ==
  /\ pc[b] = "saving"
  /\ SaveCache(job[b].fresh)
  /\ SetJob(b, [job[b] EXCEPT !.cache = job[b].fresh, !.pending = {}, !.since = 0, !.fresh = {}])
  /\ Goto(b, "walk")
  /\ lock' = Nobody
  /\ UNCHANGED <<world, ages, unseen, mem, used>>

\* the vectors stay in this build's own view; `pending` is reset all the same
CheckTimeout(b) ==
  /\ pc[b] = "checkpoint" /\ TimesOut(b)
  /\ SetJob(b, [job[b] EXCEPT !.pending = {}, !.since = 0])
  /\ Goto(b, "walk")
  /\ UNCHANGED <<world, cachedir, lock, mem>>

-----------------------------------------------------------------------------
(* The end of the build: _final_save_locked and _reap *)

Get(k, default) == IF k \in DOMAIN ages THEN ages[k] ELSE default
\* mutation: an orphan seen for the first time counts as an old one
OrphanFor_Zero(k) == Get(k, Decay)
\* an orphan seen for the first time is one from now on
OrphanFor(k) == Get(k, 0)

\* an orphan is dropped when it has been one for long; the rest of them only together,
\* and only when they are no more than half of what there is
Reaped(cache, live) ==
  LET orphans == cache \ live
      decayed == {k \in orphans : OrphanFor(k) >= Decay}
      rest == cache \ decayed
      refuse == Cardinality(orphans \ decayed) > Cardinality(rest) \div 2 /\ ~ReapForce
  IN [cache |-> IF refuse THEN rest ELSE rest \cap live,
      ages |-> IF refuse THEN [k \in orphans \ decayed |-> OrphanFor(k)] ELSE <<>>]

\* the new ages are saved before the cache is, and the cache even if they cannot be
FinalReap(b) ==
  LET reaped == Reaped(Merged(b), job[b].live) IN
  /\ WalkEnded(b) /\ Free
  /\ lock' = b
  /\ \/ /\ ages' = reaped.ages
        /\ old' = [old EXCEPT !.ages = 0]
        /\ unseen' = [k \in Keys |-> IF k \in job[b].live THEN 0 ELSE unseen[k]]
        /\ UNCHANGED used
     \/ UNCHANGED <<ages, old, unseen>> /\ Fault
  /\ SetJob(b, [job[b] EXCEPT !.fresh = reaped.cache])
  /\ Goto(b, "reaped")
  /\ UNCHANGED <<world, disk, mem>>

\* mutation: only a change of size is saved
Changed_SizeOnly(b) == Cardinality(job[b].fresh) # job[b].nBefore
Changed(b) ==
  job[b].embedded # {} \/ job[b].pending # {} \/ Cardinality(job[b].fresh) # job[b].nBefore

\* mutation: the index is filed under the signature the corpus has by now
FiledUnder_Now(b) == stamp
FiledUnder(b) == job[b].sig

\* the index is this process's own; a one-shot search ends with it
Finish(b) ==
  /\ SetMem(b, IF b \in Servers
               THEN [mem[b] EXCEPT !.sig = FiledUnder(b), !.index = job[b].index,
                                   !.dropped = job[b].dropped \cup job[b].unread]
               ELSE NoMem)
  /\ SetJob(b, NoJob)
  /\ Goto(b, "idle")

FinalSave(b) ==
  /\ pc[b] = "reaped"
  /\ IF Changed(b) THEN SaveCache(job[b].fresh) ELSE UNCHANGED <<disk, old>>
  /\ Finish(b)
  /\ lock' = Nobody
  /\ UNCHANGED <<world, ages, unseen, used>>

FinalTimeout(b) ==
  /\ WalkEnded(b) /\ TimesOut(b)
  /\ Finish(b)
  /\ UNCHANGED <<world, cachedir, lock>>

-----------------------------------------------------------------------------
(* The environment *)

\* killed, or ended by a disk that refuses a save; the kernel drops the lock
Kill(b) ==
  /\ pc[b] # "idle" /\ Fault
  /\ SetMem(b, NoMem) /\ SetJob(b, NoJob) /\ Goto(b, "idle")
  /\ lock' = IF lock = b THEN Nobody ELSE lock
  /\ UNCHANGED <<world, cachedir>>

\* every change of a file is newer than the signatures taken before it
Edit(f, text) ==
  /\ used.edits < MaxEdits /\ text # corpus[f]
  /\ corpus' = [corpus EXCEPT ![f] = text]
  /\ stamp' = used.edits + 1
  /\ used' = [used EXCEPT !.edits = @ + 1]
  /\ UNCHANGED <<cachedir, lock, mem, pc, job>>

Older(days, most) == IF days < most THEN days + 1 ELSE days

\* a unit of time is days: no build runs that long
Tick ==
  /\ \A p \in DOMAIN pc : pc[p] = "idle"
  /\ old' = [file \in DOMAIN old |-> Older(old[file], GcAge + 1)]
  /\ ages' = [k \in DOMAIN ages |-> Older(ages[k], Decay)]
  /\ unseen' = [k \in Keys |-> Older(unseen[k], Decay)]
  /\ UNCHANGED <<world, disk, lock, mem, pc, job, used>>

Init ==
  /\ corpus = StartCorpus /\ stamp = 0
  /\ disk = StartCache /\ ages = <<>>
  /\ old = [cache |-> 1, ages |-> 1]      \* written on an earlier day
  /\ lock = Nobody
  /\ mem = [b \in Searchers |-> NoMem]
  /\ pc = [p \in Searchers \cup Strangers |-> "idle"]
  /\ job = [p \in Searchers \cup Strangers |-> IF p \in Strangers THEN {} ELSE NoJob]
  /\ used = [faults |-> 0, edits |-> 0]
  /\ unseen = [k \in Keys |-> 0]

Build(b) ==
  \/ Begin(b) \/ MigrateCopy(b)
  \/ Load(b) \/ CheckLoad(b) \/ CheckSave(b) \/ FinalReap(b) \/ FinalSave(b)
  \/ Visit(b) \/ Known(b) \/ Embed(b)

Next ==
  \/ \E b \in Searchers :
       \/ Search(b, FALSE) \/ Search(b, TRUE) \/ Build(b)
       \/ LoadTimeout(b) \/ CheckTimeout(b) \/ FinalTimeout(b) \/ Kill(b)
       \/ EmbedFails(b)
  \/ \E o \in Strangers : SweepLook(o) \/ SweepRemove(o)
  \/ \E f \in In(Files), text \in Texts : Edit(f, text)
  \/ Tick

Spec == Init /\ [][Next]_vars

\* a build that runs goes on, and somebody searches again
Fairness ==
  /\ \A b \in Searchers : WF_vars(Build(b))
  /\ \A o \in Strangers : WF_vars(SweepRemove(o))
  /\ \A b \in Searchers \ Servers : WF_vars(Search(b, FALSE))
FairSpec == Spec /\ Fairness

-----------------------------------------------------------------------------
(* Properties *)

(* A server that answers from memory - its signature still matches - has in  *)
(* its index every chunk the corpus has now and nothing else, but for the    *)
(* chunks the embedder failed on and the files that could not be read, how-  *)
(* ever the corpus changed while the index was built.                        *)
ServedIsFresh ==
  \A b \in Servers : mem[b].sig = stamp =>
    mem[b].index \cup mem[b].dropped = Chunks

(* A save drops the vector of a chunk that is in the corpus only when the    *)
(* corpus changed after the saving build had started: two builds never lose  *)
(* each other's vectors (_checkpoint_locked).  Exempt are the copy of the    *)
(* old cache, made without the lock, and files the build could not read.     *)
SavesKeepTheOthers ==
  [][\A b \in Searchers :
       lock = b /\ lock' = Nobody /\ disk' # disk /\ job[b].sig = stamp
         => (Contents \ disk') \cap Chunks \subseteq Legacy \cup job[b].unread]_vars

(* One save never drops more vectors than it leaves (_reap's bulk guard),    *)
(* unless every one of them was out of the corpus for ORPHAN_DECAY at each   *)
(* reap that could save its sidecar: a source that is gone for an afternoon  *)
(* costs nothing.  The operator's QQ_REAP_FORCE lifts the guard.             *)
BulkGuard ==
  [][disk' # disk /\ lock # Nobody /\ lock' = Nobody =>
       LET young == {k \in Contents \ disk' : unseen[k] < Decay}
       IN Cardinality(young \ Legacy) <= Cardinality(disk')]_vars

\* another identity's sweep removes our files while a build of ours runs
SweptMidBuild == \E o \in Strangers, b \in Searchers : pc[o] = "remove" /\ pc[b] # "idle"

(* However many days pass, the vectors of the whole corpus are on disk again *)
(* and again, where one-shot searches go on: kills, lock timeouts, a stale   *)
(* reap, an unreadable file, an embedder that was away and a swept cache are *)
(* made good.  They need not stay: only a save renews a cache, so every      *)
(* QQ_CACHE_GC_DAYS another identity's search removes one in use but un-     *)
(* changed, and the next search pays for it.  Only if that keeps happening   *)
(* in the middle of builds need they never be there together: a build's save *)
(* then has what it computed itself, and not what it had loaded.             *)
EventuallyCached == <>[]~SweptMidBuild => []<>(Chunks \subseteq Contents)
=============================================================================
