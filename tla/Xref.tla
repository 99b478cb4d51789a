-------------------------------- MODULE Xref --------------------------------
(***************************************************************************)
(* Superseded memories (xref.py): a memory fact near a HEAD whose content    *)
(* moved days after the fact was written is reported, until a person waves   *)
(* the pair off - then not again before the HEAD's content changes.          *)
(*                                                                           *)
(* When a HEAD's content moved is remembered: the content store keeps, per   *)
(* HEAD, a hash of it without its update lines and the epoch at which that   *)
(* hash was first seen.  A check reads both files, judges and saves the      *)
(* store without a lock; a wave-off changes both under the state lock.  The  *)
(* HEAD itself is read twice, for its newest stamp and for its hash, and     *)
(* anybody may write it in between.                                          *)
(*                                                                           *)
(* Time is counted in quarter seconds, because stamps are whole seconds and  *)
(* modification times are not.  A body stands for its hash.                  *)
(***************************************************************************)
EXTENDS Integers, FiniteSets

CONSTANTS
  Checkers, Wavers, Nobody,
  Heads, Memories, Bodies,
  NoBody,         \* the body of a HEAD that is not there
  NoStamp,        \* the stamp of a HEAD without an update line
  StartHeads,     \* what the HEADs can be at the start: each [body, stamp, mtime]
  Near,           \* the pairs <<memory, HEAD>> at least QQ_XREF_SIM similar
  Generic,        \* memories of a QQ_XREF_GENERIC_TYPES type, or marked `xref: skip`
  OldRows,        \* wave-offs left by earlier builds, as days
  Gate,           \* QQ_XREF_DAYS
  DayLength, Step, MaxWrites, MaxWaves, MaxFaults, MaxEvents

Second == 4

ASSUME XrefAssumption ==
  /\ Nobody \notin Checkers \cup Wavers /\ Checkers \cap Wavers = {}
  /\ Near \subseteq Memories \X Heads /\ DOMAIN OldRows \subseteq Near
  /\ \A x \in DOMAIN OldRows : OldRows[x].day
  /\ StartHeads \subseteq [Heads -> [body : Bodies \cup {NoBody}, stamp : Nat \cup {NoStamp}, mtime : Nat]]
  /\ NoStamp \notin Nat
  /\ {Gate, DayLength, Step, MaxWrites, MaxWaves, MaxFaults, MaxEvents} \subseteq Nat

VARIABLES
  heads, mems,      \* each HEAD; each memory's modification time
  store, rows,      \* QQ_XREF_CONTENT and QQ_XREF_WAVEOFFS
  lock, pc, job,
  clock, used,
  \* auxiliary, for the properties
  ver,              \* how often the body of each HEAD has changed
  had,              \* the bodies each HEAD has had
  moved,            \* the stamp under which a verb last gave it a new one; 0 otherwise
  writes,           \* how often each HEAD was written at all
  shaky             \* the HEADs about which a race or a fault made the files disagree

vars == <<heads, mems, store, rows, lock, pc, job, clock, used, ver, had, moved, writes, shaky>>
world == <<heads, mems, clock, ver, had, moved, writes>>

Floor(e) == (e \div Second) * Second                     \* strftime
Round(e) == ((e + Second \div 2) \div Second) * Second   \* "{e:.0f}"

\* `todo` are HEADs to judge or pairs to wave off, `at` the one whose stamp was read;
\* history: `blind`, the rows to be replaced could not be read
NoJob == [head |-> "", rows |-> <<>>, store |-> <<>>, base |-> <<>>, todo |-> {}, at |-> <<>>,
          epoch |-> 0, before |-> 0, dirty |-> FALSE, fire |-> {}, held |-> {}, blind |-> FALSE]

Put(f, x, value) == [y \in DOMAIN f \cup {x} |-> IF y = x THEN value ELSE f[y]]

Goto(p, label) == pc' = [pc EXCEPT ![p] = label]
SetJob(p, j) == job' = [job EXCEPT ![p] = j]
Return(p) == Goto(p, "idle") /\ SetJob(p, NoJob)
Event == used.waves + used.writes + used.faults < MaxEvents
Fault == Event /\ used.faults < MaxFaults /\ used' = [used EXCEPT !.faults = @ + 1]
\* load_waveoffs and load_content_store: of the rows R seen and the store S, one that cannot
\* be opened is read as empty
Reads(seen, R, S) ==
  /\ R \in {seen, <<>>} /\ S \in {store, <<>>}
  /\ shaky' = shaky \cup (IF S = store THEN {} ELSE DOMAIN store)
  /\ IF R = seen /\ S = store THEN UNCHANGED used ELSE Fault

-----------------------------------------------------------------------------
(* When a HEAD moved: head_moved_epoch, in two readings *)

\* head_updated_epoch: the newest update line, else the file's own time
Epoch(h) == IF heads[h].stamp # NoStamp THEN heads[h].stamp ELSE heads[h].mtime

ReadStamp(p, x, h) ==
  SetJob(p, [job[p] EXCEPT !.at = x, !.before = writes[h],
                           !.epoch = IF heads[h].body = NoBody THEN 0 ELSE Epoch(h)])

\* mutation: every stamp counts as a move
MovedEpoch_Stamp(st, h, body, epoch) == epoch
\* the remembered epoch holds as long as the hash does
MovedEpoch(st, h, body, epoch) ==
  IF body # NoBody /\ h \in DOMAIN st /\ st[h].body = body THEN st[h].me ELSE epoch

Remember(st, h, body, me) ==
  IF body = NoBody THEN st ELSE Put(st, h, [body |-> body, me |-> me])

\* save_content_store.  It makes a HEAD shaky to replace its entry when that has changed
\* since it was read, when the HEAD has changed since, or between a wave-off's two saves
SaveStore(p, st) ==
  LET replaced == {h \in DOMAIN store : h \notin DOMAIN store' \/ store'[h] # store[h]}
      asRead(h) == h \in DOMAIN job[p].base /\ job[p].base[h] = store[h]
      current(h) == h \in DOMAIN st /\ st[h].body = heads[h].body
  IN
  /\ store' = [h \in DOMAIN st |-> [st[h] EXCEPT !.me = Round(@)]]
  /\ shaky' = shaky
       \cup {h \in replaced : ~asRead(h) \/ ~current(h)}
       \cup {h \in Heads : \E w \in Wavers \ {p} : pc[w] = "stored" /\ h \in DOMAIN job[w].store}

\* a HEAD written between the two readings has a hash under an older stamp
Torn(p, h) == IF writes[h] # job[p].before THEN {h} ELSE {}

-----------------------------------------------------------------------------
(* A check, or the first half of `waveoff --head`: candidates *)

\* pair_sims builds the index; without it the run fails and nothing is touched
Start(p, label, head) ==
  /\ pc[p] = "idle"
  /\ SetJob(p, [NoJob EXCEPT !.head = head, !.rows = rows])
  /\ Goto(p, label)
  /\ UNCHANGED <<world, store, rows, lock, shaky>>

CheckStart(c) == Start(c, "load", "") /\ UNCHANGED used

\* the pairs the index has, without generic memories
Tracked == {x \in Near : x[1] \notin Generic /\ mems[x[1]] # 0 /\ heads[x[2]].body # NoBody}

LoadStore(p) ==
  /\ pc[p] = "load"
  /\ \E R \in {job[p].rows, <<>>}, S \in {store, <<>>} :
       /\ Reads(job[p].rows, R, S)
       /\ SetJob(p, [job[p] EXCEPT !.rows = R, !.store = S, !.base = S,
                                    !.todo = {x[2] : x \in Tracked}])
  /\ Goto(p, "judge")
  /\ UNCHANGED <<world, store, rows, lock>>

JudgeStamp(p, h) ==
  /\ pc[p] = "judge" /\ h \in job[p].todo /\ job[p].at = <<>>
  /\ ReadStamp(p, <<h>>, h)
  /\ UNCHANGED <<world, store, rows, lock, pc, used, shaky>>

\* mutation: quiet means waved off at all
StillQuiet_Forever(row, me) == TRUE
\* _waved_still_quiet, day rows compared as days
StillQuiet(row, me) ==
  IF row.day THEN row.t >= Floor(me) \div DayLength ELSE row.t >= me

\* one HEAD's pairs: past the date gate each fires, or is held by its wave-off
Judgement(j, h) ==
  LET body == heads[h].body
      me == MovedEpoch(j.store, h, body, j.epoch)
      known == body # NoBody /\ h \in DOMAIN j.store /\ j.store[h].body = body
      tracked == {x \in Near : x[2] = h /\ x[1] \notin Generic /\ mems[x[1]] # 0}
      gated(x) == me - mems[x[1]] < Gate
      waved(x) == x \in DOMAIN j.rows /\ StillQuiet(j.rows[x], me)
      facts(X) == {<<x, ver[h]>> : x \in X}
  IN [j EXCEPT !.todo = @ \ {h}, !.at = <<>>,
               !.store = IF known THEN @ ELSE Remember(@, h, body, me),
               !.dirty = @ \/ (~known /\ body # NoBody),
               !.fire = @ \cup facts({x \in tracked : ~gated(x) /\ ~waved(x)}),
               !.held = @ \cup facts({x \in tracked : ~gated(x) /\ waved(x)})]
JudgeHash(p, h) ==
  /\ pc[p] = "judge" /\ h \in job[p].todo /\ job[p].at = <<h>>
  /\ SetJob(p, Judgement(job[p], h))
  /\ shaky' = shaky \cup Torn(p, h)
  /\ UNCHANGED <<world, store, rows, lock, pc, used>>

Judged(p) == pc[p] = "judge" /\ job[p].todo = {}
\* a check ends with its report; `waveoff --head` goes on when one of its pairs fires
GoOn(p) ==
  LET pairs == {f[1] : f \in {g \in job[p].fire : g[1][2] = job[p].head}} IN
  IF p \in Wavers /\ pairs # {}
  THEN Goto(p, "lock") /\ SetJob(p, [NoJob EXCEPT !.head = job[p].head, !.todo = pairs])
  ELSE Return(p)

\* the store is saved without the state lock
Report(p) ==
  /\ Judged(p)
  /\ GoOn(p)
  /\ IF job[p].dirty THEN SaveStore(p, job[p].store) ELSE UNCHANGED <<store, shaky>>
  /\ UNCHANGED <<world, rows, lock, used>>

\* best_effort_write: a failed save of the store is not an error
ReportUnsaved(p) ==
  /\ Judged(p) /\ job[p].dirty /\ Fault
  /\ GoOn(p)
  /\ UNCHANGED <<world, store, rows, lock, shaky>>

-----------------------------------------------------------------------------
(* The wave-offs, under the state lock *)

MayWave == Event /\ used.waves < MaxWaves /\ used' = [used EXCEPT !.waves = @ + 1]
\* waveoff of one pair
WaveStart(w, x) ==
  /\ pc[w] = "idle" /\ MayWave
  /\ SetJob(w, [NoJob EXCEPT !.todo = {x}])
  /\ Goto(w, "lock")
  /\ UNCHANGED <<world, store, rows, lock, shaky>>

\* waveoff_head_all: of every pair of a HEAD that fires
WaveAllStart(w, h) == Start(w, "load", h) /\ MayWave

\* mutation: the files are read, changed and saved without the state lock
LockFree_Ignored == TRUE
LockFree == lock = Nobody
\* both files are read again; rows that could not be read are replaced all the same
WaveLock(w) ==
  /\ pc[w] = "lock" /\ LockFree
  /\ lock' = w
  /\ \E R \in {rows, <<>>}, S \in {store, <<>>} :
       /\ Reads(rows, R, S)
       /\ SetJob(w, [job[w] EXCEPT !.store = S, !.base = S, !.rows = R, !.blind = R # rows])
  /\ Goto(w, "wave")
  /\ UNCHANGED <<world, store, rows>>

Pending(w, x) == pc[w] = "wave" /\ x \in job[w].todo
WaveStamp(w, x) ==
  /\ Pending(w, x) /\ job[w].at = <<>> /\ mems[x[1]] # 0 /\ heads[x[2]].body # NoBody
  /\ ReadStamp(w, x, x[2])
  /\ UNCHANGED <<world, store, rows, lock, pc, used, shaky>>

\* no such memory or no such HEAD: the verb ends, and nothing of it is kept
WaveRefused(w, x) ==
  /\ Pending(w, x) /\ job[w].at = <<>> /\ (mems[x[1]] = 0 \/ heads[x[2]].body = NoBody)
  /\ lock' = Nobody
  /\ Return(w)
  /\ UNCHANGED <<world, store, rows, used, shaky>>

\* the row names the second in which the HEAD moved
WaveHash(w, x) ==
  LET j == job[w]
      h == x[2]
      body == heads[h].body
      me == MovedEpoch(j.store, h, body, j.epoch)
      known == body # NoBody /\ h \in DOMAIN j.store /\ j.store[h].body = body
  IN
  /\ Pending(w, x) /\ j.at = x
  /\ SetJob(w, [j EXCEPT !.todo = @ \ {x}, !.at = <<>>,
        !.store = IF known THEN @ ELSE Remember(@, h, body, me),
        !.dirty = @ \/ (~known /\ body # NoBody),
        !.rows = Put(@, x, [day |-> FALSE, t |-> Floor(me), whole |-> me % Second = 0,
                            ver |-> ver[h]])])
  /\ shaky' = shaky \cup Torn(w, h)
  /\ UNCHANGED <<world, store, rows, lock, pc, used>>

Waved(w) == pc[w] = "wave" /\ job[w].todo = {}
\* the rows say what the store does not: it is not saved yet, or was overwritten meanwhile
Ahead(w) == {h \in DOMAIN job[w].store : h \notin DOMAIN store \/ store[h] # job[w].store[h]}

\* one pair: the store, when it has changed, before the rows ...
WaveSaveStore(w) ==
  /\ Waved(w) /\ job[w].head = "" /\ job[w].dirty
  /\ SaveStore(w, job[w].store)
  /\ SetJob(w, [job[w] EXCEPT !.dirty = FALSE, !.base = store', !.store = store'])
  /\ UNCHANGED <<world, rows, lock, pc, used>>
WaveSaveRows(w) ==
  /\ Waved(w) /\ job[w].head = "" /\ ~job[w].dirty
  /\ rows' = job[w].rows
  /\ shaky' = shaky \cup Ahead(w)
  /\ lock' = Nobody
  /\ Return(w)
  /\ UNCHANGED <<world, store, used>>
\* ... of all: the rows before the store
WaveAllSaveRows(w) ==
  /\ Waved(w) /\ job[w].head # ""
  /\ rows' = job[w].rows
  /\ shaky' = shaky \cup Ahead(w)
  /\ Goto(w, "stored")
  /\ UNCHANGED <<world, store, lock, job, used>>
WaveAllSaveStore(w) ==
  /\ pc[w] = "stored"
  /\ SaveStore(w, job[w].store)
  /\ lock' = Nobody
  /\ Return(w)
  /\ UNCHANGED <<world, rows, used>>

\* the store's save fails, and the verb goes on without it
WaveUnsaved(w) ==
  /\ Fault
  /\ \/ Waved(w) /\ job[w].head = "" /\ job[w].dirty
        /\ SetJob(w, [job[w] EXCEPT !.dirty = FALSE]) /\ UNCHANGED <<pc, lock>>
     \/ pc[w] = "stored" /\ Return(w) /\ lock' = Nobody
  /\ shaky' = shaky \cup DOMAIN job[w].store
  /\ UNCHANGED <<world, store, rows>>

-----------------------------------------------------------------------------
(* The environment *)

\* killed, out of patience for the lock, or without an index
GiveUp(p) ==
  /\ pc[p] # "idle" /\ Fault
  /\ lock' = IF lock = p THEN Nobody ELSE lock
  /\ Return(p)
  /\ UNCHANGED <<world, store, rows, shaky>>

\* time passes before every write, not always a whole second
MayWrite ==
  /\ Event /\ used.writes < MaxWrites /\ used' = [used EXCEPT !.writes = @ + 1]
  /\ clock' = clock + Step

\* a HEAD is written by a verb, which stamps it, or by hand, which does not
WriteHead(h, body, stamp) ==
  /\ MayWrite
  /\ heads' = [heads EXCEPT ![h] = [body |-> body, stamp |-> stamp, mtime |-> clock']]
  /\ writes' = [writes EXCEPT ![h] = @ + 1]
  /\ ver' = IF body = heads[h].body THEN ver ELSE [ver EXCEPT ![h] = @ + 1]
  /\ moved' = IF body = heads[h].body THEN moved
              ELSE [moved EXCEPT ![h] = IF stamp = heads[h].stamp \/ body \in had[h] THEN 0 ELSE stamp]
  /\ had' = [had EXCEPT ![h] = @ \cup {body}]
  /\ UNCHANGED <<mems, store, rows, lock, pc, job, shaky>>

EditMemory(m, there) ==
  /\ MayWrite
  /\ mems' = [mems EXCEPT ![m] = IF there THEN clock' ELSE 0]
  /\ UNCHANGED <<heads, store, rows, lock, pc, job, ver, had, moved, writes, shaky>>

Init ==
  /\ heads \in StartHeads /\ mems = [m \in Memories |-> 1]
  /\ store = <<>> /\ rows = OldRows
  /\ lock = Nobody
  /\ pc = [p \in Checkers \cup Wavers |-> "idle"]
  /\ job = [p \in Checkers \cup Wavers |-> NoJob]
  /\ clock = Second + 1 /\ used = [waves |-> 0, writes |-> 0, faults |-> 0]
  /\ ver = [h \in Heads |-> 0] /\ moved = [h \in Heads |-> 0]
  /\ had = [h \in Heads |-> {heads[h].body}]
  /\ writes = [h \in Heads |-> 0] /\ shaky = {}

Judge(p) == LoadStore(p) \/ Report(p) \/ \E h \in job[p].todo : JudgeStamp(p, h) \/ JudgeHash(p, h)
Wave(w) ==
  \/ WaveLock(w) \/ WaveSaveStore(w) \/ WaveSaveRows(w) \/ WaveAllSaveRows(w) \/ WaveAllSaveStore(w)
  \/ pc[w] = "wave" /\ \E x \in job[w].todo : WaveStamp(w, x) \/ WaveRefused(w, x) \/ WaveHash(w, x)

Next ==
  \/ \E c \in Checkers : CheckStart(c)
  \/ \E p \in Checkers \cup Wavers : (pc[p] \in {"load", "judge"} /\ Judge(p)) \/ ReportUnsaved(p) \/ GiveUp(p)
  \/ \E w \in Wavers : \/ Wave(w) \/ WaveUnsaved(w)
                       \/ \E x \in Near : WaveStart(w, x)
                       \/ \E h \in Heads : WaveAllStart(w, h)
  \/ \E h \in Heads : \E body \in Bodies \cup {NoBody}, stamp \in {heads[h].stamp, Floor(clock + Step)} :
       WriteHead(h, body, stamp)
  \/ \E m \in Memories, there \in BOOLEAN : EditMemory(m, there)

Spec == Init /\ [][Next]_vars

-----------------------------------------------------------------------------
(* Properties *)

(* A pair waved off does not fire again before the HEAD's content changes,   *)
(* however often the HEAD is stamped - when it had moved at a whole second,  *)
(* as every stamp is, and unless the HEAD was written between the two        *)
(* readings, or an unlocked, late or failed save cost the store its entry,   *)
(* or a store that could not be opened was taken for an empty one.           *)
QuietUntilContentChanges ==
  \A p \in Checkers \cup Wavers : \A f \in job[p].fire :
    LET x == f[1] IN
    x \in DOMAIN job[p].rows /\ ~job[p].rows[x].day /\ job[p].rows[x].whole /\ job[p].rows[x].ver = f[2]
      => x[2] \in shaky

(* A pair waved off stays quiet no longer than that: once a verb has given   *)
(* the HEAD content it never had before, in a later second and past the date *)
(* gate, a check fires.  Content the HEAD had before is exempt: a check may  *)
(* have seen it then, and its hash keeps the epoch of that time.             *)
ContentChangeFires ==
  \A p \in Checkers \cup Wavers : \A f \in job[p].held :
    LET x == f[1]  row == job[p].rows[x] IN
    ~row.day /\ ver[x[2]] = f[2] /\ moved[x[2]] > row.t => x[2] \in shaky

(* A wave-off that was made is never lost and never goes back in time, with  *)
(* other wave-offs and checks under way - unless a verb could not open the   *)
(* table: load_waveoffs takes that for an empty one, and the verb saves what *)
(* it waves off as all there is.                                             *)
WaveoffsKept ==
  [][\A x \in DOMAIN rows :
       \/ x \in DOMAIN rows' /\ (~rows[x].day => ~rows'[x].day /\ rows'[x].ver >= rows[x].ver)
       \/ lock \in Wavers /\ job[lock].blind]_vars

=============================================================================
