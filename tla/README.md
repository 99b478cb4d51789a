# quintessence: a formal model

quintessence keeps *topics* for people and agents: one Markdown file per topic
(a HEAD) with a stack of update-lines, an essence and a body, in a git work tree
that many sessions write at once. This directory holds TLA+ modules translated
from that code, the TLC configurations that check them, and proofs that TLAPS
checks. Line numbers are those of `src/` and are given per definition in
`PROJECT.json` under `map`.

## Inventory

| Part | State it keeps | Operations | What is hard | Module |
| --- | --- | --- | --- | --- |
| write transaction (`write.py`, `store.py`) | HEAD files, `journal/`, `INDEX.md`, git index and history, `.qq.lock` | update, new, rewrite, essence, finalize, delete, compact, reindex, `check --write` | checks before the lock repeated under it, out-of-band edits, kills, git and disk failures, timeouts | `StoreTxn` |
| authoring gate (`authgate.py`) | queue section of `pending-findings.md` | divert an untrusted write | the target may appear between the check and the lock | `StoreTxn`, `FindingsQueue` |
| HEAD grammar (`heads.py`, `checks.py`) | none | parse, serialize, derive the index, Tier-1 checks | fences, continuation lines, one reader for all | in part, in `StoreTxn` |
| findings queue (`findings.py`, `procprobe.py`, `findings.sh`, `consistency-audit.sh`) | `pending-findings.md`, `.state.lock` | read-modify-write of one section per producer | producers in two languages, failed runs, a person editing the file | `FindingsQueue` |
| reality references (`refs.py`, `refsresolve.py`, `refsview.py`) | `refs.jsonl`, `events.jsonl` | bind after a write, mark after a commit or in a watched directory, rebind the corpus, sweep, read | looks at reality outside the lock, records that change meanwhile, torn appends | `RefsExtract`, `Refs` |
| search cache (`search.py`) | vectors per identity, orphan ages, `<cache>.lock`, a server's index | migrate, load, embed, checkpoint, reap, save, sweep of other identities | minutes of work between three short holds, a corpus that moves | `SearchCache` |
| cross-reference and wave-offs (`xref.py`) | wave-offs, content store | detect, wave off one pair or a HEAD's | an unlocked save, a HEAD read twice | `Xref` |
| atomic file writes (`atomicio.py`) | temporaries beside the target | write, sync, rename, sweep | a crash between two steps, slow writers, privacy | `AtomicWrite` |
| reclaim of old temporaries (`tools/reclaim_legacy_temps.py`) | none | list, remove | names that are an operator's own, writers at work | `ReclaimTemps` |
| composed retrieval and ask (`searchcompose.py`, `ask.py`) | none | search every store, filter, ladder of endpoints | withheld topics, servers that certify and fail | `Ask` |
| reconcile (`reconcile.py`) | snapshot of the configuration | compare, save | saved before its finding is queued; an unlocked read-modify-write | in part, in `FindingsQueue` |
| task runner (`tsk`) | branches, worktrees, stashes | start, finish, abort | a kill between two git steps | - |
| idle autosave (`idle-autosave.sh`) | pidfile per session | arm, supersede, fire | a superseded timer that fires late | - |
| configuration (`config.py`, `admin.py`) | config file | resolve, set | an unlocked read-modify-write | - |
| store paths (`storepath.py`, `slugs.py`) | none | look a topic up in several stores | shadowed names | constants of `Ask` |
| hooks, remote access, command line | none of their own | call the above | - | - |

The parts meet in four places: the verbs take `.qq.lock` around everything that
touches the work tree; the producers of findings, the gate, the reference records
and the wave-offs take `.state.lock`; every file but the HEADs is replaced by
`atomicio`; and a person edits HEAD files with no lock at all, which the
verbs detect by asking git what is dirty and *absorb* in a commit of its own.

What makes each part correct: the transaction never loses, misattributes or
duplicates a line and never leaves half a verb behind; the gate never lets
untrusted text into a gated HEAD; the queue loses no producer's section; a
reference record is lost to nobody's rewrite and is suspect exactly while its
referent is not what was claimed, once reality rests; a search never serves the
index of another corpus, and builds do not lose each other's vectors; a pair waved
off is quiet until its content changes, and fires when it does; a reader sees whole files,
a private file stays private, and clean-ups take litter only; what is withheld is
not sent, and a refusal to answer is honest.

## Plan

In order of importance:

1. `StoreTxn`, `AbstractStore`; `StoreTxnProofs`, `StoreTxnHistory`. **Done.** Left: a
   git child that outlives a killed threaded host.
2. `FindingsQueue`, `AbstractQueue`; `FindingsQueueProofs`. **Done.**
3. `RefsExtract`, `Refs`; `RefsProofs`. **Done.**
4. `SearchCache`; `SearchCacheProofs`. **Done.**
5. `AtomicWrite`, `ReclaimTemps`; `ReclaimTempsProofs`. **Done.**
6. `Xref`; `XrefProofs`. **Done.**
7. `Ask`; `AskProofs`. **Done.**
8. `TaskRunner` (`tsk` with a kill between any two steps), `IdleAutosave`
   (superseding timers), `ConfigSet` and `Reconcile` label by label (unlocked
   read-modify-writes), `HeadGrammar` (the line classifier as a function). **Not
   begun.**

`ReclaimTemps` extends `AtomicWrite` and `Refs` extends `RefsExtract`. Each module of proofs
extends the component it is about, `StoreTxnHistory` by way of `StoreTxnProofs`. The other
components share no state but the HEADs, which `Xref`, `SearchCache` and `Ask`
therefore see as files that change at any moment, the weakest thing `StoreTxn`
gives them. That `pending-findings.md`, `refs.jsonl` and the caches are replaced
in one step there is what `AtomicWrite` is checked and proved to give
(`NeverTorn`).

## `StoreTxn`: the write transaction

A session runs one verb at a time. `pc[s]` is where the verb is and `job[s]`
holds its locals. The steps follow `_execute_write` and its siblings:

| Label | Code | Next |
| --- | --- | --- |
| `gated`, `composing` | unlocked checks of update, text being composed for rewrite | `wait` |
| `wait` | the poll loop of `acquire_flock` | `enter`, or gives up |
| `enter` | the gate and the target again, under the lock | `sweep` |
| `sweep`, `absorb` | `git status`, `git add`, `git commit` of each dirty HEAD | `write`, `menu` or `unlink` |
| `write` | between `open(…, "w")` and `write` of `write_text` | `add` |
| `unlink`, `menu` | the HEAD of delete removed, INDEX.md rewritten | `add` |
| `add`, `commit` | `commit_push` | done, or `rollback` |
| `rollback` | the `except WriteError` branch, with `_unstage` | done |

State: `wt` is the work tree, `idx` the git index and `tree` the commit at git
HEAD, each a function from paths (HEADs, journal snapshots, INDEX.md) to
contents; `lock` is the holder of `.qq.lock`; `queue` the text the gate
diverted. `used` bounds the model; `absorbed`, `foreign`, `owed` and `tip` record
history that the properties speak of and no guard reads.

Data is cut to what the properties distinguish. A HEAD is its update-lines and
one `ess` for essence and body together; a line is a token that knows who
composed it, so "the same text" is "the same token". An index entry is the
newest line and the essence, which is what `head_meta` shows. Stamps, the
shrink guard, path normalisation and the text of messages are left out.

The environment: `EditHead` (a person creates, changes or removes a HEAD),
`StageByHand`, `Kill` at any step (the kernel drops the flock; a write may be half
done), git refusing any add, commit or reset (`Fault`) and the disk refusing any
write (`DiskFails`). `EditsRaceWriters` says whether an edit may fall inside a
lock hold. The code cannot exclude that; the runs about attribution and history
assume it does not happen, those about the lock and failures do not. The rollback of
delete (`write.py:1213-1216`: copy, unlink, index) is one step: a kill between its parts
is not modelled.

`AbstractStore` is what a reader of the history is promised: every commit is one
verb applied at once to what was committed before, or one absorbed edit of one
HEAD. It has no lock, disk, index or failure. `HistoryIsSerial` states that
`StoreTxn` implements it with `heads` and `journal` read from `tree`.

## `FindingsQueue`: the pending findings

`pending-findings.md` is a file of sections. Producers of three kinds write it, each
after a wait for `.state.lock`:

| Process | Label | Code | Next |
| --- | --- | --- | --- |
| `Checkers`: `qq check --write` | `snapshot`, `xref` | `Reconcile.run` saves its snapshot; the cross-reference runs | `wait` |
| `Diverters`: a gated verb | – | the proposal is composed | `wait` |
| `Auditors`: `consistency-audit.sh` | – | `proc-probe.py --write` | `wait` |
| these three | `wait`, `read`, `replace` | `state_lock`, `FindingsFile.parse`, `atomic_write_text` | done; an audit: `gate` |
| `Auditors` | `gate` | baseline and manifest compared | `agent` or done |
| | `agent`, `writing`, `collect` | the agent reads, writes its findings file; the script looks for it | `waitsh` or done |
| | `waitsh`, `init`, `awk`, `mv`, `copying` | `findings_set_section` under `flock -w` | `advance` |
| | `advance` | baseline, manifest; findings file removed | done |

`file` is the queue or `Absent`, `lock` the holder of the flock (one inode for both
languages), `snap`, `baseline` and `tmpf` the small files beside it, `world` the
versions of what the producers look at, `draft` what a person's editor holds.
`reported`, `cleared` and `queued` are history that only properties read.

A finding is the version of the world it was computed from; a proposal has the number
of its own run. That is what the properties tell apart: from which look at the store
a section is, and whether this proposal is there. The order of lines, markers and
rendering are left out. SALIENCE is scaffolded like the other sections but its
producer is not part of the repository. A computed TIER1 or XREF is never empty
here, so that an empty one can only be a loss.

The environment: `Move` (something the producers look at changes), `Kill` at any
step, a person who opens the queue, deletes ratified proposals and saves, which
`authgate.py:62-66` sanctions without a lock. The save may fall into any hold, so that a
producer with an older copy brings back what the person took out; `overtaken` (history)
names these proposals until that producer is done. An editor warns before it saves over
a file that changed since; `EditsRaceWriters` says whether the person may save all the
same. If so, any proposal queued since is lost, and the code can do nothing about it; the
runs about proposals exclude it, the one about the lock does not. A kill of the audit
script ends its agent too: a `timeout 600 claude` that outlives the script
(`consistency-audit.sh:104`), and writes the findings file later, is not modelled. `Faults` are the failures that may occur: `temp_refused` (the
atomic write raises), `unreadable` (opening the queue fails), `tmp_full` (awk cannot write
all of its output), `copied_mv` (the temporary directory is another file system).

`AbstractQueue` knows sections only: one run replaces the sections it owns with its
own output at once, a diverted verb adds one proposal, a person removes some. What a
person removed while a producer was at work is `contested`: that producer may bring it
back, and no later one. `QueueIsAtomic` states that `FindingsQueue` implements it with
the sections of `file`.

## `RefsExtract` and `Refs`: reality references

`RefsExtract` has no state. A text is the set of its *mentions*, each the form of
the pattern that matches, its token and the word before it; `Extract` is
`_extract_uncapped` with its gates (one alias per worktree, exactly one owner,
excluded roots and containers). An observation of a referent becomes a fingerprint and
a status by `Fingerprint`, one driver per kind: what counts as proven absence
(`missing`) and what as a driver that cannot see (`error`) differs by kind.

`Refs` has four kinds of process on `refs.jsonl`:

| Process | Label | Code |
| --- | --- | --- |
| `Binders`: a write verb after its commit | `looking`, `append` | `_bind`: fingerprints without the lock, then the append under it |
| `Hooks`: a commit, a watched directory, a seed | `committed`, `mark`, `marking` | `resolve_commit`, `resolve_pathwatch`; `_mark_suspects` looks and rewrites under the lock |
| | `reading` | `bind_corpus_files`: texts and fingerprints without the lock, then the rewrite under it |
| `Sweeper`: the daily sweep | `probing` | `sweep`: a snapshot, probes without the lock, a re-read and the rewrite under it |

`world` is what each referent is now, `docs` the corpus files, `recs` the readable
records, `torn` whether the file ends in half a line, `events` the event log. `asof`
and `sasof` of a record are history: when the claim and the suspicion were looked at,
counted in moves of reality. A step that takes and drops the lock is one step, as
nobody can look in between; the marking pass alone looks at reality while it
holds it, so there `lock` is a variable. A corpus file that cannot be opened
(`RebindUnreadable`, `refs.py:1003`) loses its records. The environment: `Move`, `Commit` (which
starts a hook), `Retire` and `Waive` (a person adjudicating, while no pass holds the
lock), `BindTorn` (an append cut short), `GiveUp` (a kill, or a wait that times out).
`HooksOverlap` says whether a commit may fall while the hook of another runs.

## `SearchCache`: one identity's embedding cache

A build goes through `begin`, `copy` (`_maybe_migrate_legacy_cache`), `load`
(`_load_cache_locked`), `walk` (one chunk at a time: known, embedded, or refused by
the embedder), `checkpoint` and `saving` (`_checkpoint_locked`), `reaped`
(`_final_save_locked` between the save of the ages and that of the cache). `Searchers`
build; those in `Servers` keep their index and answer from it while the signature of
the corpus is the same. `Strangers` are searches of other identities: all they do to
this one is `SweepLook` and `SweepRemove`. A vector is determined by its key, so a cache
is a set of keys and a file of the corpus a sequence of them. Time is what the code
subtracts: `old` is the age of each file and `ages` that of each orphan, in days, counted
no further than the code can tell apart, so that days pass for ever; none passes during a
build. `Fault` is a kill, a lock timeout, an embedder that fails, a corpus file that
cannot be read (`search.py:405`) or a sidecar that cannot be saved (`search.py:531`).
A sidecar that cannot be read has the effect of one that was swept. `unseen` is history:
the days since a reap that could record it saw a key.

## `Xref`: the cross-reference and its wave-offs

A check goes through `load` and `judge`, where each HEAD is read twice, for its stamp
(`JudgeStamp`) and for its hash (`JudgeHash`), and `Report`, which saves the content
store without a lock. A wave-off goes through `lock` and `wave`, two readings per pair
again, and the two saves: store before rows for one pair, rows before store
(`stored`) for all of a HEAD. Time is counted in quarter seconds: stamps are whole
seconds, modification times are not, and the store rounds what the rows cut off. A
body stands for its hash. `had` (the contents a HEAD has had), `moved` (when a verb last gave
it one it never had) and `ver` are history; `shaky` names the HEADs about which a race or a
fault made the files disagree: each way of becoming so is a clause of `Reads`, `SaveStore`,
`Torn`, `Ahead` or `WaveUnsaved`. `Reads` is `load_waveoffs` and `load_content_store`, of
which a file that cannot be opened is an empty one (`xref.py:158`, `:197`); `blind`
(history) marks a verb that read the table so and will replace it. A HEAD that
cannot be opened at one of its readings is modelled only as one that is not there.

## `AtomicWrite` and `ReclaimTemps`: files

One write goes through `open` (`_open_unique_temp`), `chmod`, `body`, `sync`,
`replace` and `sweep` (`_reclaim_stale_temps`, a look and a removal for each name). A
file is whether it is whole, whether it is durable, its mode and its age up to one
more than the grace period; a name is the sequence of its parts between `.tmp.`, since
that is all the code looks at. `Fail` is an error or an interrupt at any step, `Kill` a
death, `PowerLoss` the death of everybody with what was not synced cut short, `Wait`
time, in which a writer may stall. `left` is history: the temporaries of the dead.

`ReclaimTemps` adds the clean-up tool in the same directory: `ToolStart` lists and
decides, `ToolUnlink` removes one name after another, at any time later.

## `Ask`: retrieval and the ladder

`SearchStore` is the search of one store with its filter, `Filter` the merge, the second
filter and the floor, then `Certify`, `Skip`, `Complete`, `CompleteFails` go down the
ladder, and `Exhausted` gives raw retrieval. A list of hits is a set of blocks together with
the order of the sort, which is stable: the rank for the question, then the `Place` of the
block on the path and in its corpus. `Ahead` is what comes before a block, `Best` the K
first, `UpTo` what `build_evidence` takes before it breaks off. The redaction list is read in each
`SearchStore` and again in `Filter`; one that cannot be opened withholds nothing
(`ReadAs`, `ask.py:267`). `Servers` names what an endpoint can be; it can
change between any two steps, and so can HEADs and the list. Ranks and lengths are
natural numbers, small ones in the run. `steady` (endpoints that would have served throughout) and `listed` (what
the last filter read on it) are history.

## Runs

Sessions, and producers of one kind, are symmetric in the safety runs.

| Run | Bounds | Shows |
| --- | --- | --- |
| `writers` | 2 sessions, 2 topics, 3 verbs out of update, essence, finalize, delete; an edit, a git failure | hand edits are attributed, no landed line is lost, snapshots are committed HEADs, a committed index is fresh |
| `history` | a trusted and an untrusted session, all nine verbs, 2 of them, a topic that is there and a gated one that is not; an edit, a kill, a failure of git and of the disk | `StoreTxn` implements `AbstractStore`; untrusted text never lands, whatever the file's existence did; a rewrite lands on its base only |
| `hung_holder` | all nine verbs, 2 of them, 1 topic; edits inside the holds, a kill, a failure of each kind; only the poll loop is fair | the lock is held exactly inside transactions; a failed verb leaves the HEADs as committed; a waiter stops waiting even if the holder hangs; if none hangs, the lock is always released |
| `producers` | a check, two diverted verbs and an audit, 4 runs of them; a commit, a save of a person, a kill, a refused write | no reported proposal is lost, and one taken out comes back at most with the producer that held the lock at the save; a failed run is not taken for a complete one; `FindingsQueue` implements `AbstractQueue` |
| `queue_hung` | one producer of each kind, every fault, edits at any moment; only the poll loops are fair | the lock is held exactly inside the holds; a waiter stops waiting |
| `records` | a write, a hook and the sweep on a tracked file, a unit and a corpus file, with old records; two events out of a move, an adjudication and a fault (a death, an unreadable file) | no record is lost, a corpus file's records follow its text, `retired` is terminal, triggers look after claims, and once reality rests every suspicion is right |
| `builds` | a search, a server and a stranger; checkpoints every 2 chunks; an edit, a fault, any number of days | a served index is the corpus's, saves keep each other's vectors, a reap drops no more than half at once unless it is old, and the whole corpus is cached again and again |
| `waveoffs` | a check and two wave-offs on a HEAD near two memories, a row of the old format; 2 writes, a fault (a death, a file that cannot be opened or saved) | quiet until the content changes; firing once it is content the HEAD never had; no wave-off is lost but to a table that could not be opened |
| `files` | 2 writers of a private cache, a private copy, a name without room and a link to itself, the tool, files of an operator spelled like litter; grace 0, one fault | targets are whole, private files stay private, live temporaries and the operator's files stay, litter goes |
| `ladder` | two stores, two endpoints of six conditions, three questions, K = 3; three changes of servers, HEADs or the list, or reads of it that fail | a topic the last filter read on the list is not sent, the best hits of all stores count, refusals are honest, an endpoint that serves is not passed over |

Two sessions suffice for the races the code guards against: each has one session
between its check and its lock, or between two lock holds, and another that
runs a whole verb there. Two topics are needed where an index or a staged file crosses
from one HEAD to another. One edit, one kill and one failure of each kind reach every
recovery path.
In the queue one process of each kind and a second diverted verb put every writer of a
section beside every other, and four runs let the audit wait twice with a
verb before, between and after; the one save falls into any of their holds, with up to
three runs after it; the audit's threshold is 1, as a larger one only
delays the same steps.
In `records` every pair of the four writers of the file overlaps, and two events are a
move and its reverse, a move and a kill, or a move and an adjudication. In `builds` the
orphans of an earlier corpus are half of the first build's cache, which its reap may drop, and
after the edit more than half, so that the bulk guard is reached;
Decay and the sweep's age are one day, so that both sides of each occur, and days go on, so
that a cache is swept, rebuilt and swept again. In `waveoffs` one
write changes the body and another stamps it, in every order with two wave-offs. In `files`
a grace period of 0 makes one tick the age at which a temporary is litter: it is
longer than no step, so every stall is possible. In `ladder` the budgets let the first
endpoint take all the evidence and the second only a part.
`CHECK_DEADLOCK FALSE`, in all but the ask, which can always begin again,
because a bounded run ends when its calls are used up.

Two runs are expected to find a counterexample; each is a statement of the
repository that the code does not keep (`findings` in `PROJECT.json`):

| Run | What happens |
| --- | --- |
| `new_race` | `new` checks existence before the lock only; the second of two replaces the first's HEAD |
| `hatch` | `QQ_ASK_UNREDACTED` is set on the composed index, which does not filter; the indexes of the stores still do |

## What the properties do not promise

Each of these follows from the code as modelled, and the runs above assume it away,
by a named constant, by an exemption in the property or by leaving the step out.

Store:

- a writer killed between the truncation and the write of a HEAD leaves it empty, and
  the next verb absorbs and commits the empty file (`writers` with `MaxKills = 1` breaks
  `NothingLost`; `write.py:838`);
- an edit between the absorption and the verb's own read rides the verb's commit
  (`writers` with `EditsRaceWriters = TRUE` breaks `HandEditsAttributed`; `write.py:819`);
- `qq check --write` derives the index before it waits for the lock and commits it as it
  was, although other verbs landed while it waited; the comment at `write.py:1319-1322` says
  the text is still right;
- the lock is free between the snapshot and the trim of `compact`: enough updates
  landing there push lines out of the HEAD that the snapshot has not, which `write.py:1271`
  says cannot be;
- a rewrite drops an update-line that landed between the caller's `qq show` and its
  call: the base is taken when the verb starts (`write.py:1012`);
- `qq reindex` takes no lock (`write.py:1160`), the index autofix has no rollback
  (`write.py:1324`).

For the first four reasons the run `writers` leaves autofix, compact, new and rewrite
out; `history` and `hung_holder` have every verb.

Queue:

- a proposal that a person takes out while a producer has its copy of the file is back when
  that producer replaces it, as the person takes no lock (`authgate.py:62-66`, `:241-249`);
  taken out again while no producer has a copy, it stays out (`ClearedStaysCleared`);
- of an editor that saves over a file changed since it was opened, the proposals queued in
  between are lost (`producers` with `EditsRaceWriters = TRUE` breaks `ProposalsKept`);
- a queue that cannot be opened for once is read as empty and replaced
  (`authgate.py:246`), awk's truncated output replaces it (`findings.sh:111`), and mv
  from another file system unlinks it before it copies (`findings.sh:117`):
  `producers` with `unreadable`, `tmp_full` or `copied_mv` among the `Faults` breaks
  `ProposalsKept`;
- of two overlapping audits one may take the other's findings file for its own
  (`producers` with two auditors breaks `CompletionIsOwn`; `consistency-audit.sh:107`);
- a commit made while the agent runs is in the next baseline though nothing read it
  (`consistency-audit.sh:113`), and when the lock wait of `findings_set_section` runs out the
  baseline advances all the same (`consistency-audit.sh:108-113`, whose comment says "ONLY on a
  completed run");
- the second check after a drift finds the snapshot up to date and drops the finding,
  whether or not the documents were corrected (`findings.sh:24` says that an unfixed one
  presents itself again);
- of two overlapping checks the one that looked first may write last, and a fixed
  finding is back until the next run (`qq:165`, `qq:195`).

References: with `HooksOverlap` two rebinds of a file may land in the wrong order, and
the older text's records stay until the next commit (`refs.py:1002`); a unit that could not
be seen at the write becomes suspect at the first look (`refsresolve.py:362-381`), while
other kinds are filled in; a HEAD's file claim that could not be seen is never filled in,
since the sweep looks at suspects only (`refsresolve.py:311`); an edit of `refs.jsonl` by
a person while a pass holds the lock is lost to the pass; and a corpus file that cannot be
opened at its rebind counts as deleted, so that its records are gone until the next commit of
it (`refs.py:1003`), which `CorpusFollowsText` exempts.

Search: the sweep by another identity removes a cache that is in use but unchanged every
`QQ_CACHE_GC_DAYS`, because only a save renews its time (`search.py:690-692`), and the next
search computes it again; a file that cannot be read is skipped without a word
(`search.py:405`), and a server serves without it until the corpus changes;
a checkpoint whose lock wait times out says that the save is deferred to the next
span (`search.py:761`), but its vectors are dropped from `pending` (`search.py:837`) and only
reach the disk through another build; the copy of the old cache takes no lock and
replaces what was saved since its look (`search.py:511`); a change within the tick of
the newest modification time leaves the signature as it was (`search.py:735`), which the
model excludes: every edit has a newer time.

Cross-reference: a table of wave-offs that cannot be opened for once is read as empty and
replaced by what the verb waves off, so that every earlier wave-off is lost (`xref.py:158`);
`WaveoffsKept` exempts the verb to which that happened, and no other. A content store that
cannot be opened is read as empty too (`xref.py:197`). A save of the store without the lock (`xref.py:268`) can put back an
older entry of a HEAD that was written meanwhile; a HEAD written between its two readings
is remembered with an older epoch (`xref.py:212`); the store rounds an epoch up that the
row cut off (`xref.py:209`), so that a pair waved off on a HEAD without a stamp fires again;
and a wave-off of all pairs that dies between its saves leaves rows ahead of the
store (`xref.py:338-341`). `QuietUntilContentChanges` and `ContentChangeFires` exempt these,
by `shaky` and by `whole`. And a HEAD that leaves its content and
goes back to it before anybody looks keeps the epoch of the first time (`xref.py:217`), so
that a wave-off made then still holds; `ContentChangeFires` is about content the HEAD never
had.

Files: a rename that power loss undoes leaves the old file, whole; a writer silent for longer
than the grace period loses its temporary and fails; a temporary whose tail has no
letter is never swept (`atomicio.py:148-176`).

Ask: a redaction list that cannot be opened by the last filter withholds nothing
(`ask.py:267`); a topic added to the list after the last filter is sent; an answer refused because
nothing matched does not say that retrieval was degraded (`ask.py:504`), as that is read off
the first hit; an endpoint whose budget is more than its context takes is passed over.

## Fairness

`HungHolderSpec` is as weak as the code's own guarantee: only the poll loop of
`acquire_flock`, which has a deadline, keeps going, and the holder may hang in git or
in a hook for ever. `NobodyHangs`, weak fairness of every step of a verb under way, is
the premise of `LockReleased` alone. Whether a caller starts a verb, kills a process or
edits a file is its own affair and is never fair. The
`HungHolderSpec` of `FindingsQueue` is the same for `acquire_flock` and `flock -w`.

`Refs`: a process under way goes on, and the sweep is started again and again, as the
daily timer of the audit does. `SearchCache`: a build under way and a stranger's removal
go on, and one-shot searches are made again; a server need never be asked. `ReclaimTemps`:
writers go on, time passes, every path that can be written is written again and again -
strongly fair, since a writer is not always free - and the tool is run with `--delete`:
these are the premises under which the sweep's documentation promises that litter goes.
`Xref` and `Ask` have safety properties only, and no fairness.

## What is proved

Every invariant and action property that a passing run checks is a theorem, for every
value of the constants that satisfies the assumptions of the module: any number of
sessions, topics, producers, records, builds, stores, writers, kills, edits and failures.

| Module | Theorem | Statement |
| --- | --- | --- |
| `StoreTxnProofs` | `TypeCorrect` | `Spec => []TypeOK` |
| | `LockSafety` | `Spec => []LockInv` |
| | `GateSafety` | `Spec => []GateHolds` |
| | `FailureIsUndone` | `Spec => []FailureLeavesNoTrace` |
| `StoreTxnHistory` | `RewriteOnBase` | `Spec => RewriteLandsOnBase` |
| | `JournalKept` | `Spec` changes no committed snapshot |
| | `HistorySerial` | `Quiet` and `Spec` imply `HistoryIsSerial` |
| | `JournalSafety` | `Quiet` and `Spec` imply `JournalGrowsByCommittedHeads` |
| | `HandEditsNamed` | `Quiet` and `Spec` imply `[]HandEditsAttributed` |
| | `LandedLinesStay` | `Gentle` and `Spec` imply `[]NothingLost` |
| | `MenuIsFresh` | `Derived` and `Spec` imply `MenuCommittedFresh` |
| `FindingsQueueProofs` | `QueueTypes` | `Spec => []TypeOK` |
| | `QueueLock` | `Spec => []LockInv` |
| | `ProposalsSafe` | `Sound` implies `Spec => []ProposalsKept` |
| | `AdjudicationHolds` | `Sound` implies `Spec => []ClearedStaysCleared` |
| | `QueueRefines` | `Sound` implies `Spec => QueueIsAtomic` |
| | `AuditTakesItsOwn` | `Alone` and `Spec` imply `CompletionIsOwn` |
| `RefsProofs` | `LooksAreLater` | `Spec => TriggersLookAfterClaims` |
| | `RetiredIsTerminal` | `Spec => RetiredTerminal` |
| | `RecordsAreKept` | `Spec => []NoRecordLost` |
| | `CorpusIsFollowed` | `~HooksOverlap`, `Seeded` and `Spec` imply `[]CorpusFollowsText` |
| `SearchCacheProofs` | `IndexIsFresh` | `Spec => []ServedIsFresh` |
| | `OthersKept` | `Spec => SavesKeepTheOthers` |
| | `ReapIsGuarded` | `Unforced` and `Spec` imply `BulkGuard` |
| `XrefProofs` | `NoWaveoffLost` | `Spec => WaveoffsKept` |
| | `WavedOffIsQuiet` | `Spec => []QuietUntilContentChanges` |
| | `NewContentFires` | `Spec => []ContentChangeFires` |
| `ReclaimTempsProofs` | `TargetsWhole` | `Spec => []NeverTorn` |
| | `WholeFiles` | `ReclaimSpec => []NeverTorn` |
| | `PrivateFiles` | `ReclaimSpec => []PrivateStaysPrivate` |
| | `LiveTemps` | `ReclaimSpec => []LiveTempKept` |
| | `NoLitterOfFailures` | `ReclaimSpec => []FailureLeavesNothing` |
| | `OperatorsKept` | `OperatorNames` implies `ReclaimSpec => []OperatorFilesKept` |
| `AskProofs` | `WithheldStaysOut` | `Spec => []WithheldNeverSent` |
| | `PerStoreBestIsEnough` | `Spec => []BestHitsReachTheLadder` |
| | `RefusesHonestly` | `Spec => []RefusalIsHonest` |
| | `LadderFindsItsRung` | `Spec => []ServingRungAnswers` |

### The conditions

Where a property needs more than the code can give by itself, the theorem has a premise
that names what is needed:

| Premise | Says | Without it |
| --- | --- | --- |
| `Quiet` | nobody edits a HEAD inside a lock hold | the edit rides the verb's commit (`write.py:819`) |
| `Gentle` | `Quiet`, no kill, no full disk, and none of new, rewrite, compact | each of these drops lines, see "What the properties do not promise" |
| `Derived` | `Quiet`, neither autofix nor reindex | both write an index computed before they could have the lock |
| `Sound` | the queue can be opened, mv renames a whole source, no editor saves over a changed file (between the holds and inside them it may save) | each breaks `ProposalsKept` |
| `Alone` | audits do not overlap | the findings file has one name, and they share it |
| `~HooksOverlap` | no commit during the hook of another | two rebinds read in one order and replace in the other |
| `Seeded` | the records of earlier builds follow the texts of the start | nothing repairs them before the next commit of the file |
| `Unforced` | `QQ_REAP_FORCE` is not set | that is what it is for |
| `OperatorNames` | no file of an operator is spelled like what is claimed | it is removed, by design |

The runs `writers`, `producers`, `records`, `builds` and `files` satisfy these premises;
everything without one is proved with `EditsRaceWriters`, `HooksOverlap` and every fault
either way.

### The arguments

Few of the properties are inductive alone. What is added is this.

`StoreTxn`:

- Types and lock: `IndInv` adds `JobInv`, which verb can be at which label and which
  of its locals are set there (a rewrite has read a HEAD, a verb that needs a HEAD
  has its original at `write`, an archiver has a snapshot name from `unlink` on).
  One lemma per group of actions shows the control half through a frame lemma
  (`MoveWithin`, `ReturnControl`, …) and the data half through the typing lemmas
  of the operators it uses (`NewTextType`, `MenuType`, `CommitType`, …).
- The gate: `GateInv` says of every session inside a transaction on a gated HEAD
  that it passed the gate (`GateLocal`: `new`, `essence` and `rewrite` before they
  wait, `update` once it is past `enter`), and of every text it might write back,
  the original of a rollback and the snapshot of a failed delete (`SnapClean`), that
  no untrusted session composed a line of it. That is why the re-check of `update`
  matters: without it `GateLocal` fails at the step from `enter` to `sweep`.
- Failures: `TraceInv` says that a HEAD differs from the committed one only while a
  session is changing it (`Working`), and that this session still has the committed
  text at hand (`Remembers`), a writer in `orig`, a delete in its snapshot. It uses
  `LockInv`: nobody else is inside a transaction, so nobody commits or changes
  that HEAD or snapshot in between.
- The history: `HistInv` has two halves. `Kept` holds whatever is edited: a rewrite past
  `sweep` is on its base, a composed line names its session, the snapshot in hand is
  new; with `JournalOnDisk` it gives `RewriteOnBase` and `JournalKept`. `HoldOf` needs
  `Quiet`: what the sweep has passed is on disk as committed, a writer's original is the
  committed text and an archiver's snapshot is the committed HEAD. Then each commit is the
  step of `AbstractStore` that its verb names, and everything else stutters
  (`HistorySerial`, one lemma per verb).
- Hand edits: `AttrInv` adds that no line of the editor is an update-line, on disk, committed
  or in what a rewrite has seen, so that a composed text never carries one.
- Lost lines: `LostInv` says where a line that landed is: in a committed snapshot, or in a
  committed HEAD that is on disk too or is being worked on by the holder of the lock.
- The index: `MenuInv` says that an archiver at `add` or `commit` has on disk the index
  derived from the HEADs on disk, which are, by `HoldOf`, those it is about to commit.

`FindingsQueue`:

- Types and lock: `IndInv` adds `CopyInv`, that a writer about to replace the file has a
  copy and one inside awk has a file. `MoveControl` and its two corollaries are the
  frame lemmas.
- Proposals: `SafeInv` says that whoever is about to replace the file holds every
  proposal in it (`CopiesCurrent`), which `LockInv` keeps true, and of those taken out
  only `overtaken` ones, which is why one hold can undo a removal and no later hold can; and
  that a pending proposal is neither in the queue nor cleared nor another's (`PendingFresh`), without
  which a report could be true of a line a person had already removed.
- The refinement: `RunInv` says that what a producer will set is of one run of it, that its
  copy of every other section is the file's, and that awk's output differs from the file in
  the one section. Each replacement is then `OneRun` or `Append`, and a person's save
  `Adjudicate`.
- Completion: `OwnInv` says that there is no findings file while an agent runs that has not
  written it, which the removal in the gate gives and, with `Alone`, nobody disturbs.

`Refs`:

- Triggers: `DatedInv`, that every record, and everything about to become one, was looked
  at before now; `MarkInv`, that a marking pass holds the lock, that it has seen or will
  see each of its candidates, and that each look is younger than all records - which stays
  true only because appends, rebinds and sweeps wait for that lock.
- Lost records: `LedgerInv` counts. Each half line costs at most one record: it is paid for
  when it is appended to (`torn`), and every rewrite drops only what it supersedes. The
  lemmas are about the cardinality of `Lost`.
- The corpus: `FollowInv` says of every file that no hook died in, gave up or could not open
  that its records follow its text, or that some hook under way has still to bind it (`Duty`); and of a hook that
  reads, that what it has bound and what is left to look at make up what the text named
  when it read it (`Rebinding`), which is still the text, as no commit falls into it.

`SearchCache`: `WalkInv` says of a build whose signature is still that of the corpus that
what it has indexed, dropped, could not read and not yet walked is the corpus, which holds because the signature
is taken before the walk; `HeldInv` says that what a holder of the lock is about to save has
everything on disk, but for what its reap took out, and that this passed the guard; no age in
the sidecar is greater than the days the key has been `unseen`, whichever sidecar was saved. A
reap alone is `ReapOK`, a lemma on `_reap` for every cache.

`Xref`: for the wave-offs `LockInv` and `RowsInv`, that what the holder of the lock
is about to save covers what is saved (`Covers`) or it is `blind`; without the lock two verbs
read the same table and the second to save covers less, which is the mutant of `WaveoffsKept`. For the other two `WInv`: when a row
names the present content of a HEAD that is not shaky, the store remembers that content under the
row's time (`Says`, for the saved files and for every process's copies), and every process
about to save the store leaves that entry as it is or makes the HEAD shaky (`KeepsBase`,
`Holds`). `ContentChangeFires` is about content the HEAD never had: for content it goes back to
the store may still have the epoch of the first time.

`AtomicWrite` and `ReclaimTemps`: the invariant has six parts. `TypeInv`; `OwnInv`: the
temporary of a write under way is a name of its target's form that no other writer has in
hand - what O_EXCL and the random tail give;
`TornInv`: a target is whole and durable, and so is a temporary at `replace` - hence the
sync before the rename; `SlowInv`: a temporary that is old or gone belongs to a writer
that was silent, which a fresh look of the sweep preserves; `LitterInv`: what is there was
there, is a target, is in hand or was left by the dead; `ModeInv`: a private target's
temporary is created as private as the target. The step of the tool preserves all six because
no name it claims is a temporary or a target (`ReclaimAssumption`). `OperatorsKept` adds
`KeptInv`, that nobody has an operator's file in hand.

`Ask`: `IndInv` says what each stage has: of every store searched its K best that may be shown
are among the hits (`Searched`); past the filter nothing on the list it read is among the
hits (`Clear`); an endpoint that served throughout is ahead on the ladder or excused
(`StillAhead`); a pack is no longer than the budget or than its first block. Under it are
two groups of lemmas about the operators: the order of the hits is strict and total, so the
best K of a union are among the best K of its parts (`BestOfPart`); and `Total` is a number
and a pack fits (`TotalType`, `PackFits`). `Total` is a recursive function and these facts are
inductions over the hits; the induction theorems of the library cannot be used, as they take
an operator as a parameter, and the lemmas argue by a least counterexample instead (`Least`).

### What is only model-checked

The properties that need fairness: `WaitEnds` (of both locks), `LockReleased`,
`EventuallyRight`, `EventuallyCached`, `EventuallyClean`. Their proofs need ENABLED, which
this prover has not. They are shown for the bounds of their runs.

`Fingerprint`, `Extract` and the other functions of a text or an observation occur in the
proofs as what they are; no theorem is about their values alone.

## What is not modelled

- `tsk`: a bash script around git worktrees, branches and stashes; its state is git's own
  and a model would be one of git. Planned.
- `idle-autosave.sh`: timers of a session and the pidfile they share. Planned.
- `qq config set` and the reconcile snapshot: read-modify-writes without a lock, of which
  the later of two wins. The comparison and its save are steps of `qq check --write` in
  `FindingsQueue`; two at once are not.
- the line grammar of a HEAD beyond its newest line and its essence, the shrink guard
  and stamp normalisation, which refuse or change data and no order of events; staged
  renames (`write.py:624`; a rename is a deletion and a creation here); the activity log.
- a git child that outlives a killed threaded host (`write.py:164`) and commits after
  the lock is free. Planned.
- the regular expressions of the extraction, the similarity of `xref.py`, chunking and
  embedding, the text of an answer: functions of data with no step to interleave, constants
  here.
- store discovery, path guards, the policy table of the remote server, argument parsing,
  rendering: pure functions in front of the verbs; HTTP and git are external.
- the producer of SALIENCE (not shipped) and sections only a private extension writes.
- the hooks installed in `.git/hooks`, which only refuse raw commits, so that a person can
  stage but not commit.
