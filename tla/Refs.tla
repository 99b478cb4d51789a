--------------------------------- MODULE Refs ---------------------------------
(***************************************************************************)
(* Reality references (refs.py, refsresolve.py, refsview.py): the claims of  *)
(* a HEAD or of a corpus file are bound to the files, commits, units, ports  *)
(* and probes they name, and marked `suspect` when these move.               *)
(*                                                                           *)
(* Four kinds of process share refs.jsonl under the state lock.  A write     *)
(* verb binds (fingerprints first, then appends under the lock).  A          *)
(* post-commit hook marks the records a commit touches and rebinds the       *)
(* corpus files it changed; a watched directory marks only.  The daily sweep *)
(* probes without the lock and applies what it saw under it.  Reality moves  *)
(* whenever it likes, and a person adjudicates records in the file.          *)
(*                                                                           *)
(* A step that only needs the lock for itself takes and drops it in one      *)
(* step: nobody else can look between.  The marking pass holds it while it   *)
(* looks at reality, so there the lock is a variable.                        *)
(***************************************************************************)
EXTENDS RefsExtract

CONSTANTS
  Binders, Hooks, Sweeper,   \* processes: write verbs, triggers, the daily sweep
  Nobody,
  Worlds,          \* Worlds[r]: what each referent r can be observed to be
  HookRepo,        \* a configured repository whose commits run the hook
  StartWorlds,     \* what they may be at the start
  Tracked,         \* the file referents in it
  Covers,          \* Covers[d]: the file referents a watch of directory d covers
  Corpus,          \* corpus files (*.md of a QQ_BIND_CORPUS repository)
  StartDocs,       \* the text each has at the start
  Aspirational,    \* corpus files matched by QQ_BIND_CORPUS_EXCLUDE
  Texts,           \* the texts a write or a corpus file can have
  Explicits,       \* the sets of --ref arguments a write can carry
  OldRecords,      \* records left by earlier builds
  HooksOverlap,    \* may a commit fall while the hook of another one runs?
  EventsKeep,      \* EVENTS_KEEP_LINES
  MaxBinds, MaxMoves, MaxTriggers, MaxJudged, MaxFaults, MaxEvents

VARIABLES
  world,     \* what each referent is now
  docs,      \* the text of each corpus file
  last,      \* what the newest commit changed
  recs,      \* the readable records of refs.jsonl
  torn,      \* does the file end in a half-written line?
  events,    \* events.jsonl
  lock, pc, job,
  \* auxiliary: bounds, and history for the properties
  used,
  bound,     \* the records some process finished writing
  dropped,   \* those superseded by a rebind of their corpus file
  missed     \* corpus files whose hook died, timed out, saw another commit or could not open them

vars == <<world, docs, last, recs, torn, events, lock, pc, job, used, bound, dropped, missed>>
store == <<recs, torn, bound, dropped>>
reality == <<world, docs, last>>

Processes == Binders \cup Hooks \cup {Sweeper}
Referents == DOMAIN Worlds
HeadLine == <<"head">>  \* the `at` of a record bound by a write verb
Suspectable == {"ok", "waived", "missing"}

ASSUME RefsAssumption ==
  /\ Nobody \notin Processes /\ Sweeper \notin Binders \cup Hooks /\ Binders \cap Hooks = {}
  /\ HeadLine \notin Corpus /\ Aspirational \subseteq Corpus /\ Tracked \subseteq Referents
  /\ HooksOverlap \in BOOLEAN
  /\ DOMAIN StartDocs = Corpus
  /\ \A text \in Texts \cup {StartDocs[f] : f \in Corpus} : IsFiniteSet(text)
  /\ \A rec \in OldRecords :
       DOMAIN rec = {"at", "write", "ref", "fp", "asof", "status", "sfp", "sasof"} /\ rec.asof = 0
  /\ {EventsKeep, MaxBinds, MaxMoves, MaxTriggers, MaxJudged, MaxFaults, MaxEvents} \subseteq Nat

Look(r) == Fingerprint(r, world[r])

\* `at` is Head or a corpus file, `write` the write or rebind that made the record, `fp`
\* the claim, `asof` when its fingerprint was taken, counted in moves of reality; `sfp`
\* and `sasof` are suspect_fp and when it was taken
Record(r, at, write, look) ==
  [at |-> at, write |-> write, ref |-> r, fp |-> look.fp, asof |-> used.moves,
   status |-> look.status, sfp |-> NoFp, sasof |-> 0]
Id(rec) == <<rec.write, rec.ref>>
Ids(R) == {Id(rec) : rec \in R}

NoJob == [changed |-> {}, unread |-> {}, todo |-> {}, seen |-> <<>>, out |-> {}, write |-> 0]
\* the job of a commit that changed c: its records to mark, its corpus files to rebind
Pushed(c) == [NoJob EXCEPT !.changed = c, !.unread = Corpus \cap c]
\* the corpus files whose rebind a hook still has before it
Owes(h) == IF pc[h] = "reading" THEN job[h].changed ELSE job[h].unread

Goto(p, label) == pc' = [pc EXCEPT ![p] = label]
SetJob(p, j) == job' = [job EXCEPT ![p] = j]
Return(p) == Goto(p, "idle") /\ SetJob(p, NoJob)
Count(k) == used' = [used EXCEPT ![k] = @ + 1]
Event == used.moves + used.judged + used.faults < MaxEvents
Fault == Event /\ used.faults < MaxFaults /\ Count("faults")
Free == lock = Nobody

Put(f, x, value) == [y \in DOMAIN f \cup {x} |-> IF y = x THEN value ELSE f[y]]
\* what was looked at, and when
Saw(j, r) == [j EXCEPT !.todo = @ \ {r},
                       !.seen = Put(@, r, [fp |-> Look(r).fp, status |-> Look(r).status, asof |-> used.moves])]

\* new lines after the kept ones: when the file ends in a half-written line the first
\* new one continues it, and nobody can read it
Write(kept, new) ==
  /\ \E lost \in SUBSET new :
       /\ Cardinality(lost) = IF torn /\ new # {} THEN 1 ELSE 0
       /\ recs' = kept \cup (new \ lost)
  /\ bound' = bound \cup Ids(new)
  /\ torn' = (torn /\ new = {})

-----------------------------------------------------------------------------
(* A write verb binds what it wrote: bind_write, after the commit *)

\* explicit refs come first; MAX_REFS cuts what is left
Cut(S, room) == {X \in SUBSET S : Cardinality(X) = IF Cardinality(S) < room THEN Cardinality(S) ELSE room}
Chosen(explicit, auto) ==
  {q[1] \cup q[2] : q \in
     {p \in Cut(explicit, MaxRefs) \X SUBSET (auto \ explicit) :
        p[2] \in Cut(auto \ explicit, MaxRefs - Cardinality(p[1]))}}

BindStart(b) ==
  /\ pc[b] = "idle" /\ used.binds < MaxBinds
  /\ \E text \in Texts, explicit \in Explicits :
       \E refs \in Chosen(explicit, Extract(text)) :
         /\ refs # {}
         /\ SetJob(b, [NoJob EXCEPT !.todo = refs, !.write = used.writes + 1])
  /\ Goto(b, "looking")
  /\ used' = [used EXCEPT !.binds = @ + 1, !.writes = @ + 1]
  /\ UNCHANGED <<reality, store, events, lock, missed>>

\* one fingerprint after another, with no lock held; a driver error is kept for the sweep
BindLook(b, r) ==
  /\ pc[b] = "looking" /\ r \in job[b].todo
  /\ SetJob(b, [job[b] EXCEPT !.todo = @ \ {r},
                              !.out = @ \cup {Record(r, HeadLine, job[b].write, Look(r))}])
  /\ Goto(b, IF job[b].todo = {r} THEN "append" ELSE "looking")
  /\ UNCHANGED <<reality, store, events, lock, used, missed>>

BindAppend(b) ==
  /\ pc[b] = "append" /\ Free
  /\ Write(recs, job[b].out)
  /\ Return(b)
  /\ UNCHANGED <<reality, events, lock, used, dropped, missed>>

\* the disk fills up, or the process dies, inside the write
BindTorn(b) ==
  /\ pc[b] = "append" /\ Free
  /\ Event /\ used.faults < MaxFaults
  /\ used' = [used EXCEPT !.faults = @ + 1, !.tears = @ + 1]
  /\ torn' = TRUE
  /\ Return(b)
  /\ UNCHANGED <<reality, recs, bound, dropped, events, lock, missed>>

-----------------------------------------------------------------------------
(* The trigger: resolve_commit and resolve_pathwatch *)

\* mutation: a suspicion is never cleared mechanically
Transition_NoAutoClear(rec, now, asof) ==
  IF now = rec.fp \/ (rec.status = "suspect" /\ now = rec.sfp) THEN rec
  ELSE [rec EXCEPT !.status = "suspect", !.sfp = now, !.sasof = asof]
\* _transition: an equal fingerprint clears a suspicion, a moved one refreshes it
Transition(rec, now, asof) ==
  IF rec.status = "suspect" /\ now = rec.fp
  THEN [rec EXCEPT !.status = IF now = NoFp THEN "missing" ELSE "ok", !.sfp = NoFp, !.sasof = 0]
  ELSE IF now = rec.fp \/ (rec.status = "suspect" /\ now = rec.sfp) THEN rec
  ELSE [rec EXCEPT !.status = "suspect", !.sfp = now, !.sasof = asof]

\* the records a marking pass looks at again; `retired` is none of these statuses
Candidate(rec, changed) ==
  /\ rec.status \in Suspectable \cup {"suspect"}
  /\ rec.ref \in changed
  /\ rec.ref[1] = "file" => rec.ref[2] \notin UnderExcluded

\* what a commit that changes c can have moved: c, and every commit claim of its repository
Touched(c) == {c} \cup {r \in Referents : r[1] = "git" /\ r[2][1] \in DOMAIN RepoOf
                                           /\ RepoOf[r[2][1]] = HookRepo}

\* append_event: trimmed to its newest lines when it has grown too long
LogEvent(changed) ==
  events' = LET all == Append(events, changed) IN
            SubSeq(all, IF Len(all) > EventsKeep THEN Len(all) - EventsKeep + 1 ELSE 1, Len(all))

\* the hook names no commit: it asks git what HEAD is by now
HookStart(h) ==
  /\ pc[h] = "committed" /\ Free
  /\ SetJob(h, Pushed(last))
  /\ missed' = missed \cup (job[h].unread \ last)
  /\ LogEvent(last)
  /\ Goto(h, "mark")
  /\ UNCHANGED <<reality, store, lock, used>>

\* a watched directory changed: its records are marked, nothing is rebound
WatchStart(h, d) ==
  /\ pc[h] = "idle" /\ Free /\ used.triggers < MaxTriggers
  /\ SetJob(h, [NoJob EXCEPT !.changed = Covers[d]])
  /\ LogEvent(Covers[d])
  /\ Goto(h, "mark")
  /\ Count("triggers")
  /\ UNCHANGED <<reality, store, lock, missed>>

\* mutation: the look comes before the wait for the lock
HookLock_LooksFirst(h) ==
  LET refs == {rec.ref : rec \in {x \in recs : Candidate(x, job[h].changed)}} IN
  /\ pc[h] = "mark"
  /\ \/ /\ job[h].seen = <<>> /\ refs # {}
        /\ SetJob(h, [job[h] EXCEPT !.seen = [r \in refs |-> [fp |-> Look(r).fp, status |-> Look(r).status, asof |-> used.moves]]])
        /\ UNCHANGED <<lock, pc>>
     \/ /\ job[h].seen # <<>> \/ refs = {}
        /\ Free /\ lock' = h /\ Goto(h, "marking")
        /\ SetJob(h, [job[h] EXCEPT !.todo = refs \ DOMAIN job[h].seen])
  /\ UNCHANGED <<reality, store, events, used, missed>>

HookLock(h) ==
  /\ pc[h] = "mark" /\ Free
  /\ lock' = h
  /\ SetJob(h, [job[h] EXCEPT !.todo = {rec.ref : rec \in {x \in recs : Candidate(x, job[h].changed)}}])
  /\ Goto(h, "marking")
  /\ UNCHANGED <<reality, store, events, used, missed>>

\* each candidate is looked at once, with the lock held
HookLook(h, r) ==
  /\ pc[h] = "marking" /\ r \in job[h].todo
  /\ SetJob(h, Saw(job[h], r))
  /\ UNCHANGED <<reality, store, events, lock, pc, used, missed>>

\* mutation: no record to look at, nothing to rebind either
ToRebind_OnlyIfMarked(j) == IF j.seen = <<>> THEN {} ELSE j.unread
\* a commit to a corpus goes on to rebind, whether or not it marked anything
ToRebind(j) == j.unread

\* and the file is rewritten, if a record changes
HookMark(h) ==
  LET seen == job[h].seen
      marked(rec) == IF /\ Candidate(rec, job[h].changed)
                        /\ seen[rec.ref].status # "error"
                     THEN Transition(rec, seen[rec.ref].fp, seen[rec.ref].asof) ELSE rec
      mds == ToRebind(job[h])
  IN
  /\ pc[h] = "marking" /\ job[h].todo = {}
  /\ recs' = {marked(rec) : rec \in recs}
  /\ lock' = Nobody
  /\ IF mds # {}
     THEN Goto(h, "reading") /\ SetJob(h, [NoJob EXCEPT !.changed = mds, !.unread = mds])
     ELSE Return(h)
  /\ UNCHANGED <<reality, torn, bound, dropped, events, used, missed>>

\* corpus_seed: the same rebind, of every corpus file
SeedStart(h) ==
  /\ pc[h] = "idle" /\ used.triggers < MaxTriggers
  /\ HooksOverlap \/ \A g \in Hooks : pc[g] = "idle"
  /\ Goto(h, "reading")
  /\ SetJob(h, [NoJob EXCEPT !.changed = Corpus, !.unread = Corpus])
  /\ Count("triggers")
  /\ UNCHANGED <<reality, store, events, lock, missed>>

\* bind_corpus_files: read and look without the lock, an aspirational file not at all
RebindRead(h, f) ==
  /\ pc[h] = "reading" /\ job[h].todo = {} /\ f \in job[h].unread
  /\ \E refs \in IF f \in Aspirational THEN {{}} ELSE Cut(Extract(docs[f]), MaxRefs) :
       SetJob(h, [job[h] EXCEPT !.unread = @ \ {f}, !.todo = {<<f, r>> : r \in refs},
                                !.write = used.writes + 1])
  /\ used' = [used EXCEPT !.writes = IF job[h].write = 0 THEN @ + 1 ELSE @]
  /\ UNCHANGED <<reality, store, events, lock, pc, missed>>

\* a file that cannot be opened is taken for a deleted one
RebindUnreadable(h, f) ==
  /\ pc[h] = "reading" /\ job[h].todo = {} /\ f \in job[h].unread \ Aspirational
  /\ Fault
  /\ SetJob(h, [job[h] EXCEPT !.unread = @ \ {f}])
  /\ missed' = missed \cup {f}
  /\ UNCHANGED <<reality, store, events, lock, pc>>

RebindLook(h, f, r) ==
  /\ pc[h] = "reading" /\ <<f, r>> \in job[h].todo
  /\ SetJob(h, [job[h] EXCEPT !.todo = @ \ {<<f, r>>},
                              !.out = @ \cup {Record(r, f, job[h].write, Look(r))}])
  /\ UNCHANGED <<reality, store, events, lock, pc, used, missed>>

Superseded(R, files) == {rec \in R : rec.at \in files}

RebindReplace(h) ==
  LET old == Superseded(recs, job[h].changed) IN
  /\ pc[h] = "reading" /\ job[h].unread = {} /\ job[h].todo = {} /\ Free
  /\ Write(recs \ old, job[h].out)
  /\ dropped' = dropped \cup Ids(old)
  /\ Return(h)
  /\ UNCHANGED <<reality, events, lock, used, missed>>

-----------------------------------------------------------------------------
(* The daily sweep *)

\* mutation: a retired record is probed like the others
WantsProbe_Retired(rec) == rec.ref[1] = "file" => rec.at \in Corpus \/ rec.status = "suspect"
\* file claims of a HEAD are compared by its readers: here only to clear a suspicion
WantsProbe(rec) ==
  /\ rec.status # "retired"
  /\ rec.ref[1] = "file" => /\ rec.ref[2] \notin UnderExcluded \cup Containers
                            /\ rec.at \in Corpus \/ rec.status = "suspect"

SweepStart ==
  /\ pc[Sweeper] = "idle"
  /\ SetJob(Sweeper, [NoJob EXCEPT !.todo = {rec.ref : rec \in {x \in recs : WantsProbe(x)}},
                                   !.out = recs])
  /\ Goto(Sweeper, "probing")
  /\ UNCHANGED <<reality, store, events, lock, used, missed>>

SweepLook(r) ==
  /\ pc[Sweeper] = "probing" /\ r \in job[Sweeper].todo
  /\ SetJob(Sweeper, Saw(job[Sweeper], r))
  /\ UNCHANGED <<reality, store, events, lock, pc, used, missed>>

\* what the sweep does to one record, given what it saw of its referent
Swept(rec, saw) ==
  CASE rec.ref[1] = "unit" /\ Legacy(rec.fp) /\ rec.fp = LegacyOf(saw.fp) ->
         [rec EXCEPT !.fp = saw.fp, !.status = IF @ = "suspect" THEN "ok" ELSE @,
                     !.sfp = NoFp, !.sasof = 0]
    [] rec.ref[1] # "unit" /\ rec.status = "error" ->
         IF saw.fp # NoFp THEN [rec EXCEPT !.fp = saw.fp, !.status = "ok"] ELSE rec
    [] OTHER -> Transition(rec, saw.fp, saw.asof)

\* mutation: only the records read before the probes are written back
Reread_Known(j) == {rec \in recs : Id(rec) \in Ids(j.out)}
\* the file is read again under the lock
Reread(j) == recs

SweepApply ==
  LET j == job[Sweeper]
      applied(rec) == IF /\ WantsProbe(rec) /\ rec.ref \in DOMAIN j.seen
                         /\ j.seen[rec.ref].status # "error"
                      THEN Swept(rec, j.seen[rec.ref]) ELSE rec
  IN
  /\ pc[Sweeper] = "probing" /\ j.todo = {} /\ Free
  /\ recs' = {applied(rec) : rec \in Reread(j)}
  /\ Return(Sweeper)
  /\ UNCHANGED <<reality, torn, bound, dropped, events, lock, used, missed>>

-----------------------------------------------------------------------------
(* The environment *)

\* reality moves out of everybody's sight
Move(r, o) ==
  /\ Event /\ used.moves < MaxMoves /\ o \in Worlds[r] \ {world[r]}
  /\ world' = [world EXCEPT ![r] = o]
  /\ Count("moves")
  /\ UNCHANGED <<docs, last, store, events, lock, pc, job, missed>>

\* a commit to the hooked repository changes one file, and starts a hook
Commit(h, c) ==
  /\ pc[h] = "idle" /\ used.triggers < MaxTriggers
  /\ HooksOverlap \/ \A g \in Hooks : pc[g] = "idle"
  /\ \/ /\ c \in Tracked /\ Event
        /\ \E o \in Worlds[c] \ {world[c]} : world' = [world EXCEPT ![c] = o]
        /\ used' = [used EXCEPT !.triggers = @ + 1, !.moves = @ + 1]
        /\ UNCHANGED docs
     \/ /\ c \in Corpus
        /\ \E text \in Texts \ {docs[c]} : docs' = [docs EXCEPT ![c] = text]
        /\ Count("triggers")
        /\ UNCHANGED world
  /\ last' = Touched(c)
  /\ Goto(h, "committed")
  /\ SetJob(h, Pushed(Touched(c)))
  /\ UNCHANGED <<store, events, lock, missed>>

\* adjudication edits the file directly: a referent not worth tracking, or a moved one
\* whose claim still stands; the person does it while no pass holds the lock
Retire(rec) ==
  /\ Free /\ Event /\ used.judged < MaxJudged /\ rec.status # "retired"
  /\ recs' = (recs \ {rec}) \cup {[rec EXCEPT !.status = "retired"]}
  /\ Count("judged")
  /\ UNCHANGED <<reality, torn, bound, dropped, events, lock, pc, job, missed>>

Waive(rec) ==
  /\ Free /\ Event /\ used.judged < MaxJudged /\ rec.status = "suspect" /\ Look(rec.ref).status # "error"
  /\ recs' = (recs \ {rec}) \cup {[rec EXCEPT !.status = "waived", !.fp = Look(rec.ref).fp,
                                              !.asof = used.moves, !.sfp = NoFp, !.sasof = 0]}
  /\ Count("judged")
  /\ UNCHANGED <<reality, torn, bound, dropped, events, lock, pc, job, missed>>

\* a process is killed, or gives up waiting for the lock: the write, the hook and the
\* sweep all end quietly, and the kernel drops the lock
GiveUp(p) ==
  /\ pc[p] # "idle" /\ Fault
  /\ missed' = IF p \in Hooks THEN missed \cup Owes(p) ELSE missed
  /\ lock' = IF lock = p THEN Nobody ELSE lock
  /\ Return(p)
  /\ UNCHANGED <<reality, store, events>>

Init ==
  /\ world \in StartWorlds
  /\ docs = StartDocs /\ last = {}
  /\ recs = OldRecords /\ bound = Ids(OldRecords)
  /\ torn = FALSE /\ dropped = {} /\ missed = {} /\ events = <<>> /\ lock = Nobody
  /\ pc = [p \in Processes |-> "idle"] /\ job = [p \in Processes |-> NoJob]
  /\ used = [k \in {"binds", "writes", "moves", "triggers", "judged", "faults", "tears"} |-> 0]

BinderStep(b) == BindStart(b) \/ (\E r \in job[b].todo : BindLook(b, r)) \/ BindAppend(b)
HookStep(h) ==
  \/ HookStart(h) \/ HookLock(h) \/ HookMark(h) \/ RebindReplace(h)
  \/ \E f \in job[h].unread : RebindRead(h, f) \/ RebindUnreadable(h, f)
  \/ pc[h] = "marking" /\ \E r \in job[h].todo : HookLook(h, r)
  \/ pc[h] = "reading" /\ \E x \in job[h].todo : RebindLook(h, x[1], x[2])
SweepStep == SweepStart \/ (\E r \in job[Sweeper].todo : SweepLook(r)) \/ SweepApply

Next ==
  \/ \E b \in Binders : BinderStep(b) \/ BindTorn(b)
  \/ \E h \in Hooks : \/ HookStep(h) \/ SeedStart(h)
                      \/ \E d \in DOMAIN Covers : WatchStart(h, d)
                      \/ \E c \in Tracked \cup Corpus : Commit(h, c)
  \/ SweepStep
  \/ \E r \in Referents : \E o \in Worlds[r] : Move(r, o)
  \/ \E rec \in recs : Retire(rec) \/ Waive(rec)
  \/ \E p \in Processes : GiveUp(p)

Spec == Init /\ [][Next]_vars

\* a process that runs goes on, and the audit timer starts the sweep again and again
Fairness ==
  /\ \A b \in Binders : WF_vars(pc[b] # "idle" /\ BinderStep(b))
  /\ \A h \in Hooks : WF_vars(HookStep(h))
  /\ WF_vars(SweepStep)
FairSpec == Spec /\ Fairness

-----------------------------------------------------------------------------
(* The reader: RefsView *)

\* _changed: a reader hashes files itself, and repeats what a trigger has found
Annotated(rec) ==
  \/ rec.status = "suspect"
  \/ /\ rec.ref[1] = "file" /\ rec.status \in Suspectable
     /\ Look(rec.ref).status # "error" /\ Look(rec.ref).fp # rec.fp

-----------------------------------------------------------------------------
(* Properties *)

(* A record that was written stays in refs.jsonl until a rebind of its own   *)
(* corpus file supersedes it, whatever the sweep, the hooks and other writes *)
(* do meanwhile (all but bind_write's append rewrite the whole file).  Each  *)
(* half-written line costs at most one record of somebody else.              *)
NoRecordLost == Cardinality(bound \ (Ids(recs) \cup dropped)) <= used.tears

(* When no hook is under way, the records of a corpus file are the referents *)
(* of its text: the rebind a commit starts (resolve_commit) was neither      *)
(* missed nor overtaken, unless a hook died, gave up or could not open it.   *)
CorpusFollowsText ==
  (\A h \in Hooks : pc[h] = "idle") =>
    \A f \in Corpus \ missed :
      LET have == {rec.ref : rec \in {x \in recs : x.at = f}}
          want == IF f \in Aspirational THEN {} ELSE Extract(docs[f])
      IN /\ have \subseteq want
         /\ Cardinality(have) + used.tears >= IF Cardinality(want) < MaxRefs THEN Cardinality(want) ELSE MaxRefs

(* `retired` is terminal: neither a trigger nor a sweep whose snapshot is    *)
(* older than the retirement changes such a record; only a rebind drops it.  *)
RetiredTerminal ==
  [][\A rec \in recs : rec.status = "retired" => rec \in recs' \/ Id(rec) \in dropped']_vars

(* A trigger never raises a suspicion from a look at reality older than the  *)
(* claim: it looks under the lock that the claim was appended under.         *)
TriggersLookAfterClaims ==
  [][lock # Nobody /\ lock' = Nobody =>
       \A new \in recs' : new \notin recs /\ new.status = "suspect" => new.sasof >= new.asof]_vars

(* Once reality rests, what a reader is told about each live claim of a HEAD *)
(* - and what the record of a corpus claim says - is whether its referent    *)
(* still is as claimed, if it can be seen: lost triggers, stale probes and   *)
(* killed sweeps are made good, and reverted referents are cleared.          *)
Right(rec) ==
  LET now == Look(rec.ref) IN
  \/ rec.status \in {"retired", "error"} \/ now.status = "error"
  \/ rec.ref[1] = "file" /\ rec.ref[2] \in UnderExcluded \cup Containers
  \/ (IF rec.at = HeadLine THEN Annotated(rec) ELSE rec.status = "suspect")
       <=> (rec.fp # now.fp /\ ~(Legacy(rec.fp) /\ rec.fp = LegacyOf(now.fp)))
EventuallyRight == <>[](\A rec \in recs : Right(rec))
=============================================================================
