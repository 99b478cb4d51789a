-------------------------------- MODULE MCRefs --------------------------------
(* Constants with which TLC checks Refs: one repository under two aliases and *)
(* a second one, a tracked file and a unit, and one corpus file.              *)
EXTENDS Refs, TLC

CONSTANTS b1, h1, h2, sweep, none

MCAliases == <<"app", "kernel", "docs">>
MCRepoOf == [app |-> "R", kernel |-> "R", docs |-> "D"]
MCHasFile == "R" :> ("x.py" :> "/r/x.py") @@ "D" :> <<>>
MCHasCommit == [R |-> {"c0ffee1"}, D |-> {}]

X == <<"file", "/r/x.py">>
U == <<"unit", "a.service">>
G == <<"git", <<"app", "c0ffee1">>>>

File(at, v) == [at |-> at, v |-> v]
Unit(s, u, v) == [system |-> s, user |-> u, v |-> v]

MCWorlds ==
  (X :> {File("there", 1), File("there", 2), File("absent", 0)}) @@
  (U :> {Unit("none", "found", 1), Unit("none", "none", 0), Unit("error", "none", 0)})

MCStartWorlds == {[r \in {X, U} |-> IF r = X THEN File("there", 1) ELSE Unit("none", "found", 1)]}
MCTracked == {X}
MCCovers == [src |-> {X}]
Mention(form, tok, by) == [form |-> form, tok |-> tok, by |-> by]
MCTexts == { {Mention("relative", "x.py", ""), Mention("rooted", "/tmp", "")},
             {Mention("unit", "a.service", ""), Mention("remote", "/y", "nas")} }
MCCorpus == {<<"file", "/r/notes.md">>}
MCStartDocs == [f \in MCCorpus |-> {Mention("relative", "x.py", "")}]
MCExplicits == {{}}
Old(at, r, fp) == [at |-> at, write |-> 0, ref |-> r, fp |-> fp, asof |-> 0,
                   status |-> "ok", sfp |-> NoFp, sasof |-> 0]
\* a unit claim in the old encoding, and a corpus claim whose file moved and came back
MCOldRecords ==
  { Old(HeadLine, U, <<"legacy", 1>>),
    [Old(<<"file", "/r/notes.md">>, X, <<"now", 1>>) EXCEPT !.status = "suspect", !.sfp = <<"now", 2>>] }
=============================================================================
