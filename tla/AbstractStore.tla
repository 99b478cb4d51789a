---------------------------- MODULE AbstractStore ----------------------------
(***************************************************************************)
(* What the store promises its readers: a history of commits, each of which *)
(* is exactly one verb applied to the committed HEADs, or one out-of-band    *)
(* change absorbed under its own name.  No locks, no disk, no git index, no  *)
(* failures: a verb happens at once or not at all.                           *)
(***************************************************************************)
EXTENDS Integers, Sequences

CONSTANTS Topics, Snaps, Absent, Authors, KeepN

VARIABLES heads,    \* the committed HEAD of each topic, or Absent
          journal,  \* the committed snapshots
          tip       \* verb and topic of the last commit

history == <<heads, journal, tip>>

Says(op, t) == tip' = [op |-> op, topic |-> t]
Others(t) == \A u \in Topics \ {t} : heads'[u] = heads[u]
Live(t) == heads[t] # Absent

\* one new line by a session on top, the rest untouched
Prepend(t) ==
  /\ Says("update", t) /\ Live(t) /\ Others(t) /\ UNCHANGED journal
  /\ heads'[t].upd # <<>> /\ heads'[t].upd[1].by \in Authors
  /\ heads'[t] = [heads[t] EXCEPT !.upd = <<heads'[t].upd[1]>> \o @]

SetEssence(t) ==
  /\ Says("essence", t) /\ Live(t) /\ Others(t) /\ UNCHANGED journal
  /\ heads'[t].ess.by \in Authors
  /\ heads'[t] = [heads[t] EXCEPT !.ess = heads'[t].ess]

\* a whole file composed by a session
Compose(t) ==
  /\ Says("new", t) \/ Says("rewrite", t)
  /\ heads'[t] # Absent /\ heads'[t].ess.by \in Authors
  /\ Others(t) /\ UNCHANGED journal

\* the newest KeepN update-lines stay
TrimTo(t) ==
  /\ Says("trim", t) /\ Live(t) /\ Others(t) /\ UNCHANGED journal
  /\ heads'[t].ess = heads[t].ess
  /\ Len(heads'[t].upd) <= KeepN
  /\ \A i \in 1..KeepN : i \in DOMAIN heads[t].upd => heads'[t].upd[i] = heads[t].upd[i]

\* the committed HEAD is copied under a name never used before
Archive(t) ==
  /\ Live(t)
  /\ \E j \in Snaps : journal[j] = Absent /\ journal' = [journal EXCEPT ![j] = heads[t]]

Finalize(t) == (Says("finalize", t) \/ Says("compact", t)) /\ Archive(t) /\ UNCHANGED heads
Delete(t) == Says("delete", t) /\ Archive(t) /\ heads' = [heads EXCEPT ![t] = Absent]

\* what somebody did behind the tool's back, one HEAD per commit
Absorb(t) == Says("absorb", t) /\ heads'[t] # heads[t] /\ Others(t) /\ UNCHANGED journal

RefreshMenu == tip'.op = "autofix" /\ UNCHANGED <<heads, journal>>

AbsInit == \A j \in Snaps : journal[j] = Absent

AbsNext ==
  \/ \E t \in Topics :
       \/ Prepend(t) \/ SetEssence(t) \/ Compose(t) \/ TrimTo(t)
       \/ Finalize(t) \/ Delete(t) \/ Absorb(t)
  \/ RefreshMenu

AbsSpec == AbsInit /\ [][AbsNext]_history
=============================================================================
