---------------------------------- MODULE Ask ----------------------------------
(***************************************************************************)
(* Answers from the store (ask.py over search.py and searchcompose.py): the  *)
(* question is embedded once, every store on the search path gives its best  *)
(* blocks, withheld topics are filtered out, and what clears the floor goes  *)
(* as numbered evidence to the first endpoint of a ladder that certifies and *)
(* completes.  Endpoints come and go, HEADs are written and the list of      *)
(* withheld topics is edited between any two steps.                          *)
(*                                                                           *)
(* A block is a chunk of an index; what an index holds is constant here (the *)
(* module SearchCache is about that).  Ranks and sizes are small numbers.  A *)
(* list of hits is a set of blocks: how they rank for the question, and where *)
(* they stand among equals, give its order at any time.                      *)
(***************************************************************************)
EXTENDS Integers, Sequences, FiniteSets

CONSTANTS
  Stores,            \* the search path, most specific first
  Index,             \* the blocks of each store
  Place,             \* where a block stands: its store on the path, then in its corpus
  Topic, Text,       \* the HEAD a block is of, and the length of its text
  LineInText,        \* the newest update line that is in the text
  HeaderLine,        \* the length of a `newest-update:` line
  Questions,         \* each [score, terms]: similarities, and query terms found, per block
  K, MinSim,         \* QQ_ASK_MIN_SIM
  Endpoints,         \* QQ_ASK_ENDPOINTS, the ladder
  Named,             \* those that QQ_ASK_MODELS names a model for
  Budget,            \* QQ_ASK_BUDGETS or the default
  Window,            \* what an endpoint's context takes
  Withholds,         \* the topics each entry of QQ_REDACT_FILE stands for
  StartList,         \* the entries in it at the start
  Unredacted,        \* QQ_ASK_UNREDACTED
  SearchUnredacted,  \* QQ_SEARCH_UNREDACTED
  NoOne, MaxEvents

Rungs == {Endpoints[n] : n \in DOMAIN Endpoints}
Blocks == UNION {Index[s] : s \in DOMAIN Index}
Topics == {Topic[b] : b \in Blocks}
Composed == Len(Stores) > 1
\* ready: serves; loading: only by name; other: up, without the model named here;
\* slow: certifies and times out; mute: certifies and its message has no answer in it
Servers == {"ready", "loading", "other", "slow", "mute", "down"}

ASSUME AskAssumption ==
  /\ Stores \in Seq(DOMAIN Index) /\ DOMAIN Index = {Stores[n] : n \in DOMAIN Stores}
  /\ Stores # <<>> /\ IsFiniteSet(Blocks)
  /\ Place \in [Blocks -> Nat] /\ \A a, b \in Blocks : Place[a] = Place[b] => a = b
  /\ \A m, n \in DOMAIN Stores : m < n =>
       \A a \in Index[Stores[m]], b \in Index[Stores[n]] : Place[a] < Place[b]
  /\ \A q \in Questions : {q.score, q.terms} \subseteq [Blocks -> Nat]
  /\ {Text, LineInText} \subseteq [Blocks -> Nat] /\ HeaderLine \in Nat
  /\ Endpoints \in Seq(Rungs) /\ {Budget, Window} \subseteq [Rungs -> Nat]
  /\ K \in Nat \ {0} /\ MinSim \in Nat /\ MaxEvents \in Nat
  /\ Named \subseteq Rungs /\ NoOne \notin Rungs /\ StartList \subseteq DOMAIN Withholds
  /\ Unredacted \in BOOLEAN /\ SearchUnredacted \in BOOLEAN

VARIABLES
  server, heads,   \* each endpoint; the newest update line of each HEAD
  redact,          \* the entries of the redaction list
  pc, job, result,
  used,
  steady,          \* auxiliary: the endpoints that would have served throughout this ask
  listed           \* auxiliary: the entries the last filter of the hits read on it

vars == <<server, heads, redact, pc, job, result, used, steady, listed>>
around == <<server, heads, redact>>
world == <<around, used>>

NoJob == [question |-> [score |-> <<>>, terms |-> <<>>], keyword |-> FALSE, left |-> <<>>,
          hits |-> {}, rungs |-> <<>>, failed |-> FALSE, pack |-> {}, size |-> 0]
NoResult == [kind |-> "none", endpoint |-> NoOne, sources |-> {},
             question |-> NoJob.question, keyword |-> FALSE, reported |-> FALSE, why |-> ""]

Withheld(list) == UNION {Withholds[e] : e \in list}
Visible(hits, list) == {b \in hits : Topic[b] \notin Withheld(list)}

\* a completion sent to it is answered
Serves(e) ==
  \/ server[e] = "ready"
  \/ server[e] = "loading" /\ e \in Named
  \/ server[e] = "other" /\ e \notin Named
ServersNow == {e \in Rungs : Serves(e)}

-----------------------------------------------------------------------------
(* Retrieval *)

Rank(j, b) == IF j.keyword THEN j.question.terms[b] ELSE j.question.score[b]
\* a keyword search finds what has a term of the question in it
Candidates(j, s) == {b \in Index[s] : ~j.keyword \/ Rank(j, b) > 0}

\* Python's sorts are stable: what comes first stays first among equals
Before(j, a, b) == Rank(j, a) > Rank(j, b) \/ (Rank(j, a) = Rank(j, b) /\ Place[a] < Place[b])
Ahead(j, hits, b) == {a \in hits : Before(j, a, b)}
Best(j, hits) == {b \in hits : Cardinality(Ahead(j, hits, b)) < K}
Top(j, hits) == CHOOSE b \in hits : Ahead(j, hits, b) = {}

\* the hatch of ask is set on the index it was given: on a composed one that is not the
\* index that filters
Lifted == SearchUnredacted \/ (Unredacted /\ ~Composed)
\* search, grep_fallback: of one store the best K, and of these what is not withheld
Retrieved(j, s, list) ==
  LET best == Best(j, Candidates(j, s)) IN
  IF Lifted THEN best ELSE Visible(best, list)

Event == used < MaxEvents /\ used' = used + 1
\* _redact_entries, read anew for each filter: a list that cannot be opened withholds nothing
ReadAs(list) == \/ list = redact /\ UNCHANGED used
                \/ list = {} /\ Event

\* a new ask; the embedder is there or not, once for all stores
AskStart ==
  /\ pc = "idle"
  /\ \E q \in Questions, keyword \in BOOLEAN :
       job' = [NoJob EXCEPT !.question = q, !.keyword = keyword, !.left = Stores]
  /\ pc' = "search" /\ result' = NoResult /\ listed' = {}
  /\ steady' = ServersNow
  /\ UNCHANGED world

\* build_index may take minutes in each store, and the list is read after it
SearchStore ==
  /\ pc = "search" /\ job.left # <<>>
  /\ \E list \in {redact, {}} :
       /\ ReadAs(list)
       /\ job' = [job EXCEPT !.left = Tail(@), !.hits = @ \cup Retrieved(job, Head(job.left), list)]
  /\ UNCHANGED <<around, pc, result, steady, listed>>

\* mutation: the stores' hits one after another, without the sort
Merged_PathOrder(j) == {b \in j.hits : Cardinality({a \in j.hits : Place[a] < Place[b]}) < K}
\* composed_search: the best K of what the stores gave
Merged(j) == Best(j, j.hits)

\* mutation: what search has filtered is not filtered again
Shown_AsSearched(hits, list) == hits
\* filter_redacted
Shown(hits, list) == IF Unredacted THEN hits ELSE Visible(hits, list)

\* mutation: the floor is for keyword hits too
Weak_AnyScale(j, hits) == hits = {} \/ Rank(j, Top(j, hits)) < MinSim
\* the best hit speaks for all; a count of words is not a similarity
Weak(j, hits) == hits = {} \/ (~j.keyword /\ Rank(j, Top(j, hits)) < MinSim)

\* `reported` is retrieval_degraded, read off the first hit
Return(kind, endpoint, hits, sources, why) ==
  /\ result' = [kind |-> kind, endpoint |-> endpoint, sources |-> sources,
                question |-> job.question, keyword |-> job.keyword,
                reported |-> hits # {} /\ job.keyword, why |-> why]
  /\ pc' = "idle" /\ job' = NoJob

\* _no_evidence refuses before any endpoint is asked
Filter ==
  /\ pc = "search" /\ job.left = <<>>
  /\ \E list \in {redact, {}} :
       LET hits == Shown(Merged(job), list) IN
       /\ ReadAs(list) /\ listed' = list
       /\ IF Weak(job, hits)
          THEN Return("refused", NoOne, hits, hits, IF hits = {} THEN "no match" ELSE "below the floor")
          ELSE /\ job' = [job EXCEPT !.hits = hits, !.rungs = Endpoints]
               /\ pc' = "ladder"
               /\ UNCHANGED result
  /\ UNCHANGED <<around, steady>>

-----------------------------------------------------------------------------
(* The ladder *)

\* probe_endpoint: /health, which is 503 while the model is loading - or, where the request
\* names a model, the list of the models that can be loaded
Certifies(e) ==
  \/ server[e] \in {"ready", "slow", "mute"}
  \/ server[e] = "loading" /\ e \in Named
  \/ server[e] = "other" /\ e \notin Named

\* a block whose HEAD has a newer update line than its text has carries that line
Length(b) == Text[b] + IF heads[Topic[b]] > LineInText[b] THEN HeaderLine ELSE 0
Total(hits) ==
  LET sum[S \in SUBSET hits] ==
        IF S = {} THEN 0 ELSE LET b == CHOOSE b \in S : TRUE IN Length(b) + sum[S \ {b}]
  IN  sum[hits]

\* the first block in any case, a later one while the budget lasts
Fits(j, budget, b) ==
  LET ahead == Ahead(j, j.hits, b) IN ahead = {} \/ Total(ahead \cup {b}) <= budget
UpTo(j, budget) == {b \in j.hits : \A a \in Ahead(j, j.hits, b) \cup {b} : Fits(j, budget, a)}
\* mutation: one pack for the whole ladder
PackFor_FirstRung(e, j) == UpTo(j, Budget[Endpoints[1]])
\* build_evidence breaks off at the first block that is too much
PackFor(e, j) == UpTo(j, Budget[e])

Rung == Head(job.rungs)
AtRung(label) == pc = label /\ job.rungs # <<>>

\* a rung is probed when the ladder reaches it, and the pack is built for it
Certify ==
  /\ AtRung("ladder") /\ Certifies(Rung)
  /\ job' = [job EXCEPT !.pack = PackFor(Rung, job), !.size = Total(PackFor(Rung, job))]
  /\ pc' = "complete"
  /\ UNCHANGED <<world, result, steady, listed>>
Skip ==
  /\ AtRung("ladder") /\ ~Certifies(Rung)
  /\ job' = [job EXCEPT !.rungs = Tail(@)]
  /\ UNCHANGED <<world, pc, result, steady, listed>>

Completes == Serves(Rung) /\ job.size <= Window[Rung]

\* _complete and _answer_text
Complete ==
  /\ AtRung("complete") /\ Completes
  /\ Return("answer", Rung, job.hits, job.pack, "")
  /\ UNCHANGED <<world, steady, listed>>

\* a timeout, a pack that overflows the context or an empty answer is about this rung only
CompleteFails ==
  /\ AtRung("complete") /\ ~Completes
  /\ job' = [job EXCEPT !.rungs = Tail(@), !.failed = TRUE,
                      !.pack = {}, !.size = 0]
  /\ pc' = "ladder"
  /\ UNCHANGED <<world, result, steady, listed>>

\* _degraded: raw retrieval
Exhausted ==
  /\ pc = "ladder" /\ job.rungs = <<>>
  /\ Return("degraded", NoOne, job.hits, job.hits,
            IF job.failed THEN "every rung failed" ELSE IF Endpoints = <<>> THEN "no endpoint" ELSE "none certified")
  /\ UNCHANGED <<world, steady, listed>>

-----------------------------------------------------------------------------
(* The environment *)

ServerChanges(e, s) ==
  /\ Event /\ s # server[e]
  /\ server' = [server EXCEPT ![e] = s]
  /\ steady' = steady \cap ServersNow'
  /\ UNCHANGED <<heads, redact, pc, job, result, listed>>

HeadWritten(t) ==
  /\ Event /\ heads' = [heads EXCEPT ![t] = @ + 1]
  /\ UNCHANGED <<server, redact, pc, job, result, steady, listed>>

ListEdited(e) ==
  /\ Event /\ redact' = IF e \in redact THEN redact \ {e} ELSE redact \cup {e}
  /\ UNCHANGED <<server, heads, pc, job, result, steady, listed>>

Init ==
  /\ server \in [Rungs -> Servers] /\ heads = [t \in Topics |-> 0] /\ redact = StartList
  /\ pc = "idle" /\ job = NoJob /\ result = NoResult /\ used = 0
  /\ steady = ServersNow /\ listed = {}

AskStep == SearchStore \/ Filter \/ Certify \/ Skip \/ Complete \/ CompleteFails \/ Exhausted

Next ==
  \/ AskStart \/ AskStep
  \/ \E e \in Rungs, s \in Servers : ServerChanges(e, s)
  \/ \E t \in Topics : HeadWritten(t)
  \/ \E e \in DOMAIN Withholds : ListEdited(e)

Spec == Init /\ [][Next]_vars

-----------------------------------------------------------------------------
(* Properties *)

(* A topic that the last filter of the hits reads on the list is in no       *)
(* evidence pack and in no result, though the stores were searched under an  *)
(* older list, or when it could not be opened.  Nothing is said of an ask    *)
(* whose last filter cannot open the list: it withholds nothing.             *)
WithheldNeverSent ==
  Unredacted \/ \A b \in job.pack \cup result.sources :
                  Topic[b] \notin Withheld(listed)

(* "taking each store's own top-k first is still globally correct"           *)
(* (searchcompose.py): what is not withheld among the K best of all stores   *)
(* reaches the ladder.                                                       *)
KBest(j) == Best(j, UNION {Candidates(j, s) : s \in DOMAIN Index})
MayBeWithheld(b) == Topic[b] \in Withheld(DOMAIN Withholds)
BestHitsReachTheLadder ==
  pc = "ladder" => \A b \in KBest(job) : b \in job.hits \/ MayBeWithheld(b)

(* A refusal is honest: none of the K best blocks of all stores that may be  *)
(* shown clears the floor, and when words were counted there is none at all. *)
RefusalIsHonest ==
  result.kind = "refused" =>
    \A b \in KBest(result) : \/ MayBeWithheld(b)
                             \/ ~result.keyword /\ Rank(result, b) < MinSim

(* Raw retrieval is reserved for every rung failing: an endpoint that would  *)
(* have served throughout an ask has not been passed over - unless not even  *)
(* the first block fits its context, or its budget is more than that.        *)
ServingRungAnswers ==
  result.kind = "degraded" =>
    \A e \in steady : \/ Budget[e] > Window[e]
                      \/ Text[Top(result, result.sources)] + HeaderLine > Window[e]

(* "Lift the search-side filter for this instance so one variable means one  *)
(* thing" (ask.py:129): with the hatch of ask set, nothing that is among the *)
(* K best of all stores is missing from what the ladder gets.                *)
HatchMeansOneThing ==
  Unredacted /\ pc = "ladder" => KBest(job) \subseteq job.hits
=============================================================================
