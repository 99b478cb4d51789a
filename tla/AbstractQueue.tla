--------------------------- MODULE AbstractQueue ---------------------------
(***************************************************************************)
(* What the pending-findings queue promises the person who reads it: named  *)
(* sections, each the whole output of one run of the producer that owns it, *)
(* and one section of proposals that grows until a person decides on them.  *)
(* A decision is final, except one taken while a producer was at work: that *)
(* producer, and no later one, may bring the proposal back.  There is no    *)
(* file, no lock, no failure here.                                          *)
(***************************************************************************)
CONSTANTS
  Tags,       \* the sections
  Proposed,   \* the section no producer resolves
  Owned       \* sets of sections that one run of a producer replaces together

VARIABLES
  sections,
  contested   \* proposals whose removal the producer at work may undo

Others(P) == \A t \in Tags \ P : sections'[t] = sections[t]

\* the output of one run: at most one report of each kind, never two merged
OneRun(S) == \A f, g \in S : f.tag = g.tag => f = g

\* the proposals after a producer: all there were, `new`, and perhaps contested ones
Proposals(new) ==
  /\ sections[Proposed] \cup new \subseteq sections'[Proposed]
  /\ sections'[Proposed] \subseteq sections[Proposed] \cup new \cup contested

\* the producer is done: what it did not bring back is out for good
Settled == contested' = contested \cap sections'[Proposed]

Resolve(P) ==
  /\ P \in Owned
  /\ Others(P \cup {Proposed}) /\ Proposals({}) /\ Settled
  /\ \A t \in P : OneRun(sections'[t])

Append ==
  /\ Others({Proposed}) /\ Settled
  /\ \E x \in sections'[Proposed] \ sections[Proposed] : Proposals({x})

\* a producer that fails, or is killed, changes nothing
Fail == UNCHANGED sections /\ Settled

\* a person ratifies or discards proposals, with a producer at work or not
Adjudicate ==
  LET out == sections[Proposed] \ sections'[Proposed] IN
  /\ Others({Proposed})
  /\ sections'[Proposed] \subseteq sections[Proposed]
  /\ contested' = contested \cup out \/ contested' = contested \ out

AbsInit == sections = [t \in Tags |-> {}] /\ contested = {}
AbsNext == (\E P \in Owned : Resolve(P)) \/ Append \/ Fail \/ Adjudicate
AbsSpec == AbsInit /\ [][AbsNext]_<<sections, contested>>
=============================================================================
