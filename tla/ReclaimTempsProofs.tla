-------------------------- MODULE ReclaimTempsProofs --------------------------
(* Proofs about writers, and about writers and the clean-up tool in one          *)
(* directory, for any number of writers, targets, settings and files.           *)
EXTENDS ReclaimTemps, SequenceTheorems, TLAPS

Busy == {"chmod", "body", "sync", "replace"}
Labels == Busy \cup {"idle", "open", "sweep"}
TempsOf(t) == {Append(t, tail) : tail \in Tails}
TempNames == UNION {TempsOf(t) : t \in Targets}
Names == DOMAIN StartFiles \cup Targets \cup TempNames

WriteType == [target : Targets \cup {<<>>}, carry : (SUBSET Bits) \cup {NoMode},
              temp : TempNames \cup {<<>>}, slow : BOOLEAN,
              found : Names \cup {<<>>}, unseen : SUBSET Names]

TypeInv ==
  /\ files \in [DOMAIN files -> FileType] /\ DOMAIN files \subseteq Names
  /\ wpc \in [Writers -> Labels] /\ write \in [Writers -> WriteType]
  /\ left \subseteq TempNames

\* who is busy has a temporary of its own, beside its target
OwnInv ==
  /\ \A w \in Writers :
       /\ wpc[w] # "idle" => write[w].target \in Targets
       /\ wpc[w] \in Busy => write[w].temp \in TempsOf(write[w].target)
       /\ wpc[w] \notin Busy => write[w].temp = <<>>
  /\ \A v, w \in Writers : v # w /\ write[v].temp # <<>> => write[v].temp # write[w].temp

\* what is about to be renamed is whole and on the platter, and so is every target
TornInv ==
  /\ \A t \in Targets \cap DOMAIN files : files[t].whole /\ files[t].durable
  /\ \A w \in Writers : Has(w) /\ wpc[w] \in {"sync", "replace"} => files[write[w].temp].whole
  /\ \A w \in Writers : Has(w) /\ wpc[w] = "replace" => files[write[w].temp].durable

\* no sweep has taken, nor found, the temporary of a writer that is not slow
SlowInv ==
  \A w \in Writers : wpc[w] \in Busy /\ ~write[w].slow =>
    /\ Has(w) /\ files[write[w].temp].age <= Grace
    /\ \A v \in Writers : write[v].found # write[w].temp

LitterInv ==
  /\ DOMAIN files \subseteq DOMAIN StartFiles \cup Targets \cup Temps \cup left
  /\ Targets \cap DOMAIN StartFiles \subseteq DOMAIN files
  /\ \A w \in Writers : write[w].found \notin Targets /\ write[w].unseen \cap Targets = {}

\* from the first look at the destination on, a private file's mode is nobody else's
ModeInv ==
  /\ \A t \in Private \cap DOMAIN files : files[t].mode = {}
  /\ \A n \in left \cap DOMAIN files : Front(n) \in Private => files[n].mode = {}
  /\ \A w \in Writers : write[w].target \in Private =>
       /\ wpc[w] = "open" => write[w].carry = {}
       /\ wpc[w] = "chmod" => write[w].carry \in {{}, NoMode}
       /\ wpc[w] \in Busy /\ Has(w) => files[write[w].temp].mode = {}

IInv == TypeInv /\ OwnInv /\ TornInv /\ SlowInv /\ LitterInv /\ ModeInv

-----------------------------------------------------------------------------
(* Names *)

LEMMA ConstantFacts ==
  /\ Targets \subseteq Seq(STRING) /\ <<>> \notin Names \ TempNames
  /\ \A t \in Targets : Len(t) > 0
BY NamesAssumption, EmptySeq, LenProperties DEF Targets, Names

LEMMA AppendFacts ==
  ASSUME NEW S, NEW s \in Seq(S), NEW e \in S
  PROVE  /\ Append(s, e) \in Seq(S) /\ Len(s) \in Nat /\ Len(Append(s, e)) = Len(s) + 1
         /\ Append(s, e)[Len(s) + 1] = e /\ \A i \in 1 .. Len(s) : Append(s, e)[i] = s[i]
OBVIOUS

LEMMA TempFacts ==
  ASSUME NEW t \in Targets, NEW n \in TempsOf(t)
  PROVE  n \in TempNames /\ n \notin Targets /\ n # <<>> /\ Front(n) = t
<1>1. PICK tail \in Tails : n = Append(t, tail)
  BY DEF TempsOf
<1>2. t \in Seq(STRING) /\ tail \in STRING
  BY ConstantFacts, NamesAssumption
<1>3. n \in Seq(STRING) /\ Len(n) = Len(t) + 1 /\ Len(t) \in Nat /\ n[Len(t) + 1] = tail
  BY <1>1, <1>2, AppendFacts
<1>4. n \notin Targets
  BY <1>3, NamesAssumption
<1>5. n # <<>>
  BY <1>3, LenProperties
<1>6. Front(n) = t
  <2>1. SubSeq(n, 1, Len(t)) \in Seq(STRING) /\ Len(SubSeq(n, 1, Len(t))) = Len(t)
    BY <1>1, <1>2, <1>3
  <2>2. \A i \in 1 .. Len(t) : SubSeq(n, 1, Len(t))[i] = t[i]
    BY <1>1, <1>2, <1>3, AppendFacts
  <2>3. SubSeq(n, 1, Len(t)) = t
    BY <1>2, <2>1, <2>2, SeqEqual
  <2> QED BY <1>3, <2>3 DEF Front
<1> QED BY <1>4, <1>5, <1>6 DEF TempNames

LEMMA TempNamesFacts ==
  /\ TempNames \cap Targets = {} /\ TempNames \subseteq Names /\ <<>> \notin Names
  /\ \A n \in TempNames : Front(n) \in Targets
BY TempFacts, ConstantFacts DEF TempNames, Names

LEMMA LitterFacts == \A t, n : Litter(t, n) => n \notin Targets
BY NamesAssumption DEF Litter, IsGenerated, Tails

LEMMA DrawnFacts == ASSUME NEW t, NEW n \in Drawn(t) PROVE n \in TempsOf(t) /\ Free(n)
BY DEF Drawn, TempsOf, Tails

-----------------------------------------------------------------------------
(* One step each *)

\* w goes on to label l with job j, and every other writer stays as it is
Moves(w, l, j) ==
  /\ wpc' \in [Writers -> Labels] /\ write' \in [Writers -> WriteType]
  /\ wpc'[w] = l /\ write'[w] = j
  /\ \A v \in Writers \ {w} : wpc'[v] = wpc[v] /\ write'[v] = write[v]

LEMMA Moving ==
  ASSUME TypeInv, NEW w \in Writers, NEW l \in Labels, NEW j \in WriteType, GotoW(w, l),
         SetWrite(w, j)
  PROVE  Moves(w, l, j)
BY DEF TypeInv, GotoW, SetWrite, Moves

LEMMA Staying ==
  ASSUME TypeInv, NEW w \in Writers, NEW l \in Labels, GotoW(w, l), write' = write
  PROVE  Moves(w, l, write[w])
BY DEF TypeInv, GotoW, Moves

LEMMA Changing ==
  ASSUME TypeInv, NEW n \in DOMAIN files, NEW f \in FileType, files' = [files EXCEPT ![n] = f]
  PROVE  /\ DOMAIN files' = DOMAIN files /\ files' \in [DOMAIN files -> FileType] /\ files'[n] = f
         /\ \A m \in DOMAIN files \ {n} : files'[m] = files[m]
BY DEF TypeInv

LEMMA NoWriteFacts ==
  /\ NoWrite \in WriteType /\ NoWrite.target = <<>> /\ NoWrite.temp = <<>> /\ NoWrite.found = <<>>
  /\ NoWrite.unseen = {}
BY DEF NoWrite, WriteType

LEMMA Ending == ASSUME TypeInv, NEW w \in Writers, Ended(w) PROVE Moves(w, "idle", NoWrite)
BY Moving, NoWriteFacts DEF Ended, Labels

LEMMA EmptyTarget == <<>> \notin Targets
BY DEF Targets

LEMMA Removing ==
  ASSUME TypeInv, NEW n, files' = Without(n)
  PROVE  /\ DOMAIN files' = DOMAIN files \ {n} /\ files' \in [DOMAIN files' -> FileType]
         /\ \A m \in DOMAIN files \ {n} : files'[m] = files[m]
BY DEF TypeInv, Without

LEMMA Sweeping ==
  ASSUME TypeInv, NEW w \in Writers, write[w].target \in Targets,
         NEW unseen \in SUBSET Names, NEW found \in Names \cup {<<>>}, Sweep(w, unseen, found)
  PROVE  \E l \in {"idle", "sweep"}, j \in WriteType :
           /\ Moves(w, l, j) /\ j.temp = <<>> /\ j.found = found /\ j.unseen = unseen
           /\ j.target = IF l = "idle" THEN <<>> ELSE write[w].target
<1>1. CASE unseen = {} /\ found = <<>>
  <2>1. Moves(w, "idle", NoWrite)
    BY <1>1, Ending DEF Sweep
  <2> QED BY <1>1, <2>1, NoWriteFacts
<1>2. CASE ~(unseen = {} /\ found = <<>>)
  <2> DEFINE j == [NoWrite EXCEPT !.target = write[w].target, !.unseen = unseen, !.found = found]
  <2>1. /\ j \in WriteType /\ j.temp = <<>> /\ j.found = found /\ j.unseen = unseen
        /\ j.target = write[w].target
    BY NoWriteFacts DEF NoWrite, WriteType
  <2>2. SetWrite(w, j) /\ GotoW(w, "sweep") /\ "sweep" \in Labels
    BY <1>2 DEF Sweep, Labels
  <2> HIDE DEF j
  <2>3. Moves(w, "sweep", j)
    BY <2>1, <2>2, Moving
  <2> QED BY <2>1, <2>3
<1> QED BY <1>1, <1>2

LEMMA PrivateFacts == Private \subseteq Targets /\ <<>> \notin Private
BY DEF Private, Targets

LEMMA BeginInv ==
  ASSUME IInv, NEW w \in Writers, NEW p \in Paths, Begin(w, p)
  PROVE  IInv'
<1> DEFINE j == [NoWrite EXCEPT !.target = Target[p], !.carry = Carry(p)]
<1>1. TypeInv /\ OwnInv /\ TornInv /\ SlowInv /\ LitterInv /\ ModeInv
  BY DEF IInv
<1>2. wpc[w] = "idle" /\ Target[p] \in Targets /\ files' = files /\ left' = left
  BY DEF Begin, Targets
<1>3. Carry(p) \in (SUBSET Bits) \cup {NoMode}
  BY <1>1, <1>2, StartAssumption DEF TypeInv, FileType, Carry
<1>4. /\ j \in WriteType /\ j.target = Target[p] /\ j.carry = Carry(p)
      /\ j.temp = <<>> /\ j.found = <<>> /\ j.unseen = {}
  BY <1>2, <1>3 DEF NoWrite, WriteType
<1>5. Moves(w, "open", j)
  BY <1>1, <1>4, Moving DEF Begin, Labels
<1> HIDE DEF j
<1>6. write[w].temp = <<>>
  BY <1>1, <1>2 DEF OwnInv, Busy
<1>7. TypeInv'
  BY <1>1, <1>2, <1>5 DEF TypeInv, Moves
<1>8. OwnInv'
  BY <1>1, <1>2, <1>4, <1>5 DEF OwnInv, Moves, Busy
<1>9. TornInv'
  BY <1>1, <1>2, <1>5 DEF TornInv, Moves, Has
<1>10. SlowInv'
  BY <1>1, <1>2, <1>4, <1>5, TempFacts DEF SlowInv, OwnInv, Moves, Has, Busy
<1>11. LitterInv'
  <2>1. Temps \subseteq Temps'
    BY <1>5, <1>6 DEF Temps, Moves
  <2> QED BY <1>1, <1>2, <1>4, <1>5, <2>1, EmptyTarget DEF LitterInv, Moves
<1>12. ModeInv'
  <2>1. Target[p] \in Private => Carry(p) = {}
    BY <1>1, <1>2 DEF Carry, Private, ModeInv, LitterInv
  <2> QED BY <1>1, <1>2, <1>4, <1>5, <2>1 DEF ModeInv, Moves, Has, Busy
<1> QED BY <1>7, <1>8, <1>9, <1>10, <1>11, <1>12 DEF IInv

LEMMA OpenTempInv ==
  ASSUME IInv, NEW w \in Writers, OpenTemp(w)
  PROVE  IInv'
<1>1. TypeInv /\ OwnInv /\ TornInv /\ SlowInv /\ LitterInv /\ ModeInv
  BY DEF IInv

<1> DEFINE t == write[w].target
<1>2. wpc[w] = "open" /\ left' = left /\ t \in Targets
  BY <1>1 DEF OpenTemp, OwnInv
<1>3. PICK n \in Drawn(t) : /\ files' = Created(n, CreateMode(write[w].carry) \ Umask)
                            /\ SetWrite(w, [write[w] EXCEPT !.temp = n])
  BY DEF OpenTemp
<1> DEFINE j == [write[w] EXCEPT !.temp = n]
           mode == CreateMode(write[w].carry) \ Umask
<1>4. /\ n \in TempsOf(t) /\ n \in TempNames /\ n \notin Targets /\ n # <<>> /\ Front(n) = t
      /\ n \notin DOMAIN files /\ \A v \in Writers : n # write[v].temp /\ n # write[v].found
  BY <1>2, DrawnFacts, TempFacts DEF Free
<1>5. mode \in SUBSET Bits /\ (t \in Private => mode = {})
  BY <1>1, <1>2, AtomicAssumption DEF TypeInv, WriteType, CreateMode, ModeInv, Bits
<1>6. /\ j \in WriteType /\ j.target = t /\ j.carry = write[w].carry /\ j.temp = n
      /\ j.slow = write[w].slow /\ j.found = write[w].found /\ j.unseen = write[w].unseen
  BY <1>1, <1>4 DEF TypeInv, WriteType
<1>7. Moves(w, "chmod", j)
  <2>1. SetWrite(w, j) /\ GotoW(w, "chmod")
    BY <1>3 DEF OpenTemp
  <2>2. "chmod" \in Labels
    BY DEF Labels, Busy
  <2> HIDE DEF j
  <2> QED BY <1>1, <1>6, <2>1, <2>2, Moving
<1>8. /\ DOMAIN files' = DOMAIN files \cup {n}
      /\ files'[n] = [whole |-> FALSE, durable |-> FALSE, mode |-> mode, age |-> 0]
      /\ \A m \in DOMAIN files : files'[m] = files[m]
      /\ files' \in [DOMAIN files' -> FileType]
  <2>1. [whole |-> FALSE, durable |-> FALSE, mode |-> mode, age |-> 0] \in FileType
    BY <1>5, AtomicAssumption DEF FileType
  <2> QED BY <1>1, <1>3, <1>4, <2>1 DEF Created, TypeInv
<1> HIDE DEF j, mode
<1>9. TypeInv'
  BY <1>1, <1>2, <1>4, <1>7, <1>8, TempNamesFacts DEF TypeInv, Moves
<1>10. OwnInv'
  BY <1>1, <1>2, <1>4, <1>6, <1>7 DEF OwnInv, Moves, Busy
<1>11. TornInv'
  BY <1>1, <1>4, <1>6, <1>7, <1>8 DEF TornInv, OwnInv, Moves, Has, Busy
<1>12. SlowInv'
  BY <1>1, <1>4, <1>6, <1>7, <1>8, AtomicAssumption DEF SlowInv, OwnInv, Moves, Has, Busy
<1>13. LitterInv'
  <2>1. Temps \cup {n} \subseteq Temps'
    BY <1>1, <1>2, <1>4, <1>6, <1>7 DEF Temps, Moves, OwnInv, Busy
  <2> QED BY <1>1, <1>2, <1>4, <1>6, <1>7, <1>8, <2>1 DEF LitterInv, Moves
<1>14. ModeInv'
  BY <1>1, <1>2, <1>4, <1>5, <1>6, <1>7, <1>8, PrivateFacts DEF ModeInv, OwnInv, Moves, Has, Busy
<1> QED BY <1>9, <1>10, <1>11, <1>12, <1>13, <1>14 DEF IInv

LEMMA RefusedInv ==
  ASSUME IInv, NEW w \in Writers, Refused(w)
  PROVE  IInv'
<1>1. TypeInv /\ OwnInv /\ TornInv /\ SlowInv /\ LitterInv /\ ModeInv
  BY DEF IInv

<1>2. wpc[w] = "open" /\ files' = files /\ left' = left /\ Moves(w, "idle", NoWrite)
  BY <1>1, Ending DEF Refused
<1>3. write[w].temp = <<>>
  BY <1>1, <1>2 DEF OwnInv, Busy
<1>4. TypeInv'
  BY <1>1, <1>2 DEF TypeInv, Moves
<1>5. OwnInv'
  BY <1>1, <1>2, NoWriteFacts DEF OwnInv, Moves, Busy
<1>6. TornInv'
  BY <1>1, <1>2 DEF TornInv, Moves, Has
<1>7. SlowInv'
  BY <1>1, <1>2, NoWriteFacts, TempFacts DEF SlowInv, OwnInv, Moves, Has, Busy
<1>8. LitterInv'
  <2>1. Temps \subseteq Temps'
    BY <1>2, <1>3 DEF Temps, Moves
  <2> QED BY <1>1, <1>2, <2>1, NoWriteFacts, EmptyTarget DEF LitterInv, Moves
<1>9. ModeInv'
  BY <1>1, <1>2, NoWriteFacts, PrivateFacts DEF ModeInv, Moves, Has, Busy
<1> QED BY <1>4, <1>5, <1>6, <1>7, <1>8, <1>9 DEF IInv

LEMMA ChmodInv ==
  ASSUME IInv, NEW w \in Writers, Chmod(w)
  PROVE  IInv'
<1>1. TypeInv /\ OwnInv /\ TornInv /\ SlowInv /\ LitterInv /\ ModeInv
  BY DEF IInv

<1> DEFINE n == write[w].temp
<1>2. /\ wpc[w] = "chmod" /\ left' = left /\ n \in TempNames /\ n \notin Targets /\ n # <<>>
      /\ Front(n) = write[w].target /\ \A v \in Writers \ {w} : write[v].temp # n
  BY <1>1, TempFacts DEF Chmod, OwnInv, Busy
<1> DEFINE j == [write[w] EXCEPT !.carry = NoMode]
<1>3. /\ Moves(w, "body", j) /\ j.target = write[w].target /\ j.temp = n /\ j.slow = write[w].slow
      /\ j.found = write[w].found /\ j.unseen = write[w].unseen
  <2>1. /\ j \in WriteType /\ j.target = write[w].target /\ j.temp = n /\ j.slow = write[w].slow
        /\ j.found = write[w].found /\ j.unseen = write[w].unseen
    BY <1>1 DEF TypeInv, WriteType
  <2>2. SetWrite(w, j) /\ GotoW(w, "body") /\ "body" \in Labels
    BY DEF Chmod, Labels, Busy
  <2> HIDE DEF j
  <2> QED BY <1>1, <2>1, <2>2, Moving
<1>4. /\ DOMAIN files' = DOMAIN files /\ files' \in [DOMAIN files -> FileType]
      /\ \A m \in DOMAIN files \ {n} : files'[m] = files[m]
      /\ Has(w) => /\ files'[n].whole = files[n].whole /\ files'[n].durable = files[n].durable
                   /\ files'[n].age = files[n].age
                   /\ files'[n].mode \in {files[n].mode, write[w].carry} \ {NoMode}
  <2>1. CASE Has(w) /\ write[w].carry # NoMode /\ files' = [files EXCEPT ![n].mode = write[w].carry]
    <3>1. write[w].carry \in SUBSET Bits /\ files[n] \in FileType
      BY <1>1, <2>1 DEF TypeInv, WriteType, Has
    <3> QED BY <1>1, <2>1, <3>1 DEF TypeInv, FileType, Has
  <2>2. CASE files' = files
    <3>1. Has(w) => files[n].mode # NoMode
      BY <1>1, AtomicAssumption DEF TypeInv, FileType, Has
    <3> QED BY <1>1, <2>2, <3>1 DEF TypeInv
  <2> QED BY <2>1, <2>2 DEF Chmod
<1> HIDE DEF n, j
<1>5. TypeInv'
  BY <1>1, <1>2, <1>3, <1>4 DEF TypeInv, Moves
<1>6. OwnInv'
  BY <1>1, <1>2, <1>3, <1>4 DEF OwnInv, Moves, Busy, n
<1>7. TornInv'
  BY <1>1, <1>2, <1>3, <1>4 DEF TornInv, Moves, Has, Busy, n
<1>8. SlowInv'
  BY <1>1, <1>2, <1>3, <1>4, AtomicAssumption DEF SlowInv, Moves, Has, Busy, n
<1>9. LitterInv'
  <2>1. Temps' = Temps
    BY <1>2, <1>3 DEF Temps, Moves, n
  <2> QED BY <1>1, <1>2, <1>3, <1>4, <2>1 DEF LitterInv, Moves
<1>10. ModeInv'
  BY <1>1, <1>2, <1>3, <1>4, PrivateFacts DEF ModeInv, OwnInv, Moves, Has, Busy, n
<1> QED BY <1>5, <1>6, <1>7, <1>8, <1>9, <1>10 DEF IInv

LEMMA StreamInv ==
  ASSUME IInv, NEW w \in Writers, Stream(w)
  PROVE  IInv'
<1>1. TypeInv /\ OwnInv /\ TornInv /\ SlowInv /\ LitterInv /\ ModeInv
  BY DEF IInv

<1> DEFINE n == write[w].temp
<1>2. /\ wpc[w] = "body" /\ left' = left /\ n \in TempNames /\ n \notin Targets /\ n # <<>>
      /\ Front(n) = write[w].target /\ \A v \in Writers \ {w} : write[v].temp # n
  BY <1>1, TempFacts DEF Stream, OwnInv, Busy
<1>3. Moves(w, "sync", write[w])
  BY <1>1, Staying DEF Stream, Labels, Busy
<1>4. /\ DOMAIN files' = DOMAIN files /\ files' \in [DOMAIN files -> FileType]
      /\ \A m \in DOMAIN files \ {n} : files'[m] = files[m]
      /\ Has(w) => files'[n].whole /\ files'[n].mode = files[n].mode /\ files'[n].age = 0
  <2>1. CASE Has(w)
    <3> DEFINE f == [files[n] EXCEPT !.whole = TRUE, !.age = 0]
    <3>0. files[n] \in FileType /\ 0 \in 0 .. Grace + 1
      BY <1>1, <2>1, AtomicAssumption DEF Has, TypeInv
    <3>1. f \in FileType /\ f.whole /\ f.mode = files[n].mode /\ f.age = 0
      BY <3>0 DEF FileType
    <3>2. files' = [files EXCEPT ![n] = f]
      BY <2>1 DEF Stream, Change
    <3> HIDE DEF f
    <3> QED BY <1>1, <2>1, <3>1, <3>2, Changing DEF Has
  <2>2. CASE ~Has(w)
    BY <1>1, <2>2 DEF Stream, TypeInv
  <2> QED BY <2>1, <2>2
<1> HIDE DEF n
<1>5. TypeInv'
  BY <1>1, <1>2, <1>3, <1>4 DEF TypeInv, Moves
<1>6. OwnInv'
  BY <1>1, <1>2, <1>3, <1>4 DEF OwnInv, Moves, Busy, n
<1>7. TornInv'
  BY <1>1, <1>2, <1>3, <1>4 DEF TornInv, Moves, Has, Busy, n
<1>8. SlowInv'
  BY <1>1, <1>2, <1>3, <1>4, AtomicAssumption DEF SlowInv, Moves, Has, Busy, n
<1>9. LitterInv'
  <2>1. Temps' = Temps
    BY <1>2, <1>3 DEF Temps, Moves, n
  <2> QED BY <1>1, <1>2, <1>3, <1>4, <2>1 DEF LitterInv, Moves
<1>10. ModeInv'
  BY <1>1, <1>2, <1>3, <1>4, PrivateFacts DEF ModeInv, OwnInv, Moves, Has, Busy, n
<1> QED BY <1>5, <1>6, <1>7, <1>8, <1>9, <1>10 DEF IInv

LEMMA SyncInv ==
  ASSUME IInv, NEW w \in Writers, Sync(w)
  PROVE  IInv'
<1>1. TypeInv /\ OwnInv /\ TornInv /\ SlowInv /\ LitterInv /\ ModeInv
  BY DEF IInv

<1> DEFINE n == write[w].temp
<1>2. /\ wpc[w] = "sync" /\ left' = left /\ n \in TempNames /\ n \notin Targets /\ n # <<>>
      /\ Front(n) = write[w].target /\ \A v \in Writers \ {w} : write[v].temp # n
  BY <1>1, TempFacts DEF Sync, OwnInv, Busy
<1>3. Moves(w, "replace", write[w])
  BY <1>1, Staying DEF Sync, Labels, Busy
<1>4. /\ DOMAIN files' = DOMAIN files /\ files' \in [DOMAIN files -> FileType]
      /\ \A m \in DOMAIN files \ {n} : files'[m] = files[m]
      /\ Has(w) => /\ files'[n].whole = files[n].whole /\ files'[n].durable
                   /\ files'[n].mode = files[n].mode /\ files'[n].age = files[n].age
  <2>1. CASE Has(w)
    <3> DEFINE f == [files[n] EXCEPT !.durable = TRUE]
    <3>1. /\ f \in FileType /\ f.durable /\ f.whole = files[n].whole
          /\ f.mode = files[n].mode /\ f.age = files[n].age
      BY <1>1, <2>1 DEF Has, TypeInv, FileType
    <3>2. files' = [files EXCEPT ![n] = f]
      BY <2>1 DEF Sync, Synced, Change
    <3> HIDE DEF f
    <3> QED BY <1>1, <2>1, <3>1, <3>2, Changing DEF Has
  <2>2. CASE ~Has(w)
    BY <1>1, <2>2 DEF Sync, TypeInv
  <2> QED BY <2>1, <2>2
<1> HIDE DEF n
<1>5. TypeInv'
  BY <1>1, <1>2, <1>3, <1>4 DEF TypeInv, Moves
<1>6. OwnInv'
  BY <1>1, <1>2, <1>3, <1>4 DEF OwnInv, Moves, Busy, n
<1>7. TornInv'
  BY <1>1, <1>2, <1>3, <1>4 DEF TornInv, Moves, Has, Busy, n
<1>8. SlowInv'
  BY <1>1, <1>2, <1>3, <1>4, AtomicAssumption DEF SlowInv, Moves, Has, Busy, n
<1>9. LitterInv'
  <2>1. Temps' = Temps
    BY <1>2, <1>3 DEF Temps, Moves, n
  <2> QED BY <1>1, <1>2, <1>3, <1>4, <2>1 DEF LitterInv, Moves
<1>10. ModeInv'
  BY <1>1, <1>2, <1>3, <1>4, PrivateFacts DEF ModeInv, OwnInv, Moves, Has, Busy, n
<1> QED BY <1>5, <1>6, <1>7, <1>8, <1>9, <1>10 DEF IInv

LEMMA ReplaceInv ==
  ASSUME IInv, NEW w \in Writers, Replace(w)
  PROVE  IInv'
<1>1. TypeInv /\ OwnInv /\ TornInv /\ SlowInv /\ LitterInv /\ ModeInv
  BY DEF IInv

<1> DEFINE n == write[w].temp
           t == write[w].target
           U == {m \in DOMAIN files' : Litter(t, m)}
<1>2. /\ wpc[w] = "replace" /\ left' = left /\ t \in Targets /\ n \in DOMAIN files
      /\ n \in TempNames /\ n \notin Targets /\ n # <<>> /\ Front(n) = t
      /\ \A v \in Writers \ {w} : write[v].temp # n
  BY <1>1, TempFacts DEF Replace, OwnInv, Busy, Has
<1>3. files[n].whole /\ files[n].durable /\ (t \in Private => files[n].mode = {})
  BY <1>1, <1>2 DEF TornInv, ModeInv, Has, Busy
<1> DEFINE f == [files[n] EXCEPT !.age = Grace + 1]
<1>4. f \in FileType /\ f.whole /\ f.durable /\ (t \in Private => f.mode = {})
  <2>1. files[n] \in FileType /\ Grace + 1 \in 0 .. Grace + 1
    BY <1>1, <1>2, AtomicAssumption DEF TypeInv
  <2> QED BY <1>3, <2>1 DEF FileType
<1>5. /\ DOMAIN files' = (DOMAIN files \ {n}) \cup {t} /\ files'[t] = f
      /\ \A m \in DOMAIN files \ {n, t} : files'[m] = files[m]
      /\ files' \in [DOMAIN files' -> FileType]
  <2> HIDE DEF f
  <2>1. files' = [m \in (DOMAIN files \ {n}) \cup {t} |-> IF m = t THEN f ELSE files[m]]
    BY DEF Replace, Renamed, f
  <2> QED BY <1>1, <1>4, <2>1 DEF TypeInv
<1> HIDE DEF f
<1>6. U \in SUBSET Names /\ U \cap Targets = {} /\ Sweep(w, U, <<>>)
  BY <1>1, <1>2, <1>5, LitterFacts DEF Replace, TypeInv, Names
<1> HIDE DEF n, t, U
<1>7. PICK l \in {"idle", "sweep"}, j \in WriteType :
        /\ Moves(w, l, j) /\ j.temp = <<>> /\ j.found = <<>> /\ j.unseen = U
        /\ j.target = IF l = "idle" THEN <<>> ELSE t
  BY <1>1, <1>2, <1>6, Sweeping DEF t
<1>8. TypeInv'
  BY <1>1, <1>2, <1>5, <1>7 DEF TypeInv, Moves, Names
<1>9. OwnInv'
  BY <1>1, <1>2, <1>7 DEF OwnInv, Moves, Busy
<1>10. TornInv'
  <2>1. \A v \in Writers \ {w} : wpc[v] \in Busy => write[v].temp \notin Targets /\ write[v].temp # n
    BY <1>1, <1>2, TempFacts DEF OwnInv, Busy
  <2> QED BY <1>1, <1>2, <1>4, <1>5, <1>7, <2>1 DEF TornInv, Moves, Has, Busy
<1>11. SlowInv'
  <2>1. \A v \in Writers \ {w} : wpc[v] \in Busy =>
          write[v].temp \notin Targets /\ write[v].temp # n /\ write[v].temp # <<>>
    BY <1>1, <1>2, TempFacts DEF OwnInv, Busy
  <2> QED BY <1>1, <1>2, <1>5, <1>7, <2>1 DEF SlowInv, Moves, Has, Busy
<1>12. LitterInv'
  <2>1. Temps \subseteq Temps' \cup {n}
    BY <1>7 DEF Temps, Moves, n
  <2> QED BY <1>1, <1>2, <1>5, <1>6, <1>7, <2>1, EmptyTarget DEF LitterInv, Moves
<1>13. ModeInv'
  <2>1. \A v \in Writers \ {w} : wpc[v] \in Busy => write[v].temp \notin Targets /\ write[v].temp # n
    BY <1>1, <1>2, TempFacts DEF OwnInv, Busy
  <2>2. t \notin left
    BY <1>1, <1>2, TempNamesFacts DEF TypeInv
  <2> QED BY <1>1, <1>2, <1>4, <1>5, <1>7, <2>1, <2>2, PrivateFacts DEF ModeInv, Moves, Has, Busy
<1> QED BY <1>8, <1>9, <1>10, <1>11, <1>12, <1>13 DEF IInv

LEMMA FailInv ==
  ASSUME IInv, NEW w \in Writers, Fail(w)
  PROVE  IInv'
<1>1. TypeInv /\ OwnInv /\ TornInv /\ SlowInv /\ LitterInv /\ ModeInv
  BY DEF IInv

<1> DEFINE n == write[w].temp
<1>2. /\ left' = left /\ n \notin Targets /\ \A v \in Writers \ {w} : write[v].temp # n
  BY <1>1, TempFacts DEF Fail, OwnInv, Busy
<1>3. Moves(w, "idle", NoWrite)
  BY <1>1, Ending DEF Fail
<1>4. /\ DOMAIN files' = DOMAIN files \ {n} /\ files' \in [DOMAIN files' -> FileType]
      /\ \A m \in DOMAIN files \ {n} : files'[m] = files[m]
  <2>1. CASE Has(w)
    BY <1>1, <2>1, Removing DEF Fail, Clean
  <2>2. CASE ~Has(w)
    BY <1>1, <2>2 DEF Fail, Clean, Has, TypeInv
  <2> QED BY <2>1, <2>2
<1> HIDE DEF n
<1>5. TypeInv'
  BY <1>1, <1>2, <1>3, <1>4 DEF TypeInv, Moves
<1>6. OwnInv'
  BY <1>1, <1>2, <1>3, NoWriteFacts DEF OwnInv, Moves, Busy
<1>7. TornInv'
  BY <1>1, <1>2, <1>3, <1>4 DEF TornInv, Moves, Has, Busy
<1>8. SlowInv'
  <2>1. \A v \in Writers : wpc[v] \in Busy => write[v].temp # <<>>
    BY <1>1, TempFacts DEF OwnInv, Busy
  <2> QED BY <1>1, <1>2, <1>3, <1>4, <2>1, NoWriteFacts DEF SlowInv, Moves, Has, Busy
<1>9. LitterInv'
  <2>1. Temps \subseteq Temps' \cup {n}
    BY <1>3 DEF Temps, Moves, n
  <2> QED BY <1>1, <1>2, <1>3, <1>4, <2>1, NoWriteFacts, EmptyTarget DEF LitterInv, Moves
<1>10. ModeInv'
  BY <1>1, <1>2, <1>3, <1>4, NoWriteFacts, PrivateFacts DEF ModeInv, Moves, Has, Busy
<1> QED BY <1>5, <1>6, <1>7, <1>8, <1>9, <1>10 DEF IInv

LEMMA SweepStatInv ==
  ASSUME IInv, NEW w \in Writers, NEW n \in write[w].unseen, SweepStat(w, n)
  PROVE  IInv'
<1>1. TypeInv /\ OwnInv /\ TornInv /\ SlowInv /\ LitterInv /\ ModeInv
  BY DEF IInv

<1> DEFINE t == write[w].target
           seen == IF n \in DOMAIN files /\ Stale(n) THEN n ELSE <<>>
<1>2. /\ wpc[w] = "sweep" /\ files' = files /\ left' = left /\ t \in Targets /\ write[w].temp = <<>>
      /\ Sweep(w, write[w].unseen \ {n}, seen)
  BY <1>1 DEF SweepStat, OwnInv, Busy
<1>3. /\ write[w].unseen \ {n} \in SUBSET Names /\ seen \in Names \cup {<<>>} /\ seen \notin Targets
      /\ (seen # <<>> => seen \in DOMAIN files /\ files[seen].age > Grace)
  BY <1>1, EmptyTarget DEF TypeInv, WriteType, LitterInv, Stale
<1> HIDE DEF seen, t
<1>4. PICK l \in {"idle", "sweep"}, j \in WriteType :
        /\ Moves(w, l, j) /\ j.temp = <<>> /\ j.found = seen /\ j.unseen = write[w].unseen \ {n}
        /\ j.target = IF l = "idle" THEN <<>> ELSE t
  BY <1>1, <1>2, <1>3, Sweeping DEF t
<1>5. TypeInv'
  BY <1>1, <1>2, <1>4 DEF TypeInv, Moves
<1>6. OwnInv'
  BY <1>1, <1>2, <1>4 DEF OwnInv, Moves, Busy
<1>7. TornInv'
  BY <1>1, <1>2, <1>4 DEF TornInv, Moves, Has
<1>8. SlowInv'
  <2>1. ASSUME NEW v \in Writers, wpc'[v] \in Busy, ~write'[v].slow
        PROVE  /\ Has(v)' /\ files'[write'[v].temp].age <= Grace
               /\ \A u \in Writers : write'[u].found # write'[v].temp
    <3>1. v # w /\ wpc[v] \in Busy /\ ~write[v].slow /\ write'[v] = write[v]
      BY <1>4, <2>1 DEF Moves, Busy
    <3>2. write[v].temp # <<>> /\ write[v].temp \in DOMAIN files /\ files[write[v].temp].age <= Grace
      BY <1>1, <3>1, TempFacts DEF SlowInv, OwnInv, Has, Busy
    <3>3. files[write[v].temp].age \in 0 .. Grace + 1
      BY <1>1, <3>2 DEF TypeInv, FileType
    <3>4. seen # write[v].temp
      BY <1>3, <3>2, <3>3, AtomicAssumption
    <3> QED BY <1>1, <1>2, <1>4, <3>1, <3>2, <3>4 DEF SlowInv, Moves, Has
  <2> QED BY <2>1 DEF SlowInv
<1>9. LitterInv'
  <2>1. Temps \subseteq Temps'
    BY <1>2, <1>4 DEF Temps, Moves
  <2> QED BY <1>1, <1>2, <1>3, <1>4, <2>1 DEF LitterInv, Moves
<1>10. ModeInv'
  BY <1>1, <1>2, <1>4, PrivateFacts DEF ModeInv, Moves, Has, Busy
<1> QED BY <1>5, <1>6, <1>7, <1>8, <1>9, <1>10 DEF IInv

LEMMA SweepUnlinkInv ==
  ASSUME IInv, NEW w \in Writers, SweepUnlink(w)
  PROVE  IInv'
<1>1. TypeInv /\ OwnInv /\ TornInv /\ SlowInv /\ LitterInv /\ ModeInv
  BY DEF IInv

<1> DEFINE t == write[w].target
           n == write[w].found
<1>2. /\ wpc[w] = "sweep" /\ files' = Without(n) /\ left' = left \ {n} /\ t \in Targets
      /\ write[w].temp = <<>> /\ n \notin Targets /\ Sweep(w, write[w].unseen, <<>>)
  BY <1>1 DEF SweepUnlink, OwnInv, LitterInv, Busy
<1>3. write[w].unseen \in SUBSET Names /\ write[w].unseen \cap Targets = {}
  BY <1>1 DEF TypeInv, WriteType, LitterInv
<1>4. /\ DOMAIN files' = DOMAIN files \ {n} /\ files' \in [DOMAIN files' -> FileType]
      /\ \A m \in DOMAIN files \ {n} : files'[m] = files[m]
  BY <1>1, <1>2, Removing
<1>5. PICK l \in {"idle", "sweep"}, j \in WriteType :
        /\ Moves(w, l, j) /\ j.temp = <<>> /\ j.found = <<>> /\ j.unseen = write[w].unseen
        /\ j.target = IF l = "idle" THEN <<>> ELSE t
  BY <1>1, <1>2, <1>3, Sweeping
<1> HIDE DEF n, t
<1>6. TypeInv'
  BY <1>1, <1>2, <1>4, <1>5 DEF TypeInv, Moves
<1>7. OwnInv'
  BY <1>1, <1>2, <1>5 DEF OwnInv, Moves, Busy
<1>8. TornInv'
  BY <1>1, <1>2, <1>4, <1>5 DEF TornInv, Moves, Has
<1>9. SlowInv'
  <2>1. \A v \in Writers : wpc[v] \in Busy => write[v].temp # <<>>
    BY <1>1, TempFacts DEF OwnInv, Busy
  <2>2. \A v \in Writers : wpc[v] \in Busy /\ ~write[v].slow => write[v].temp # n
    BY <1>1 DEF SlowInv, n
  <2> QED BY <1>1, <1>2, <1>4, <1>5, <2>1, <2>2 DEF SlowInv, Moves, Has, Busy
<1>10. LitterInv'
  <2>1. Temps \subseteq Temps'
    BY <1>2, <1>5 DEF Temps, Moves
  <2> QED BY <1>1, <1>2, <1>3, <1>4, <1>5, <2>1, EmptyTarget DEF LitterInv, Moves
<1>11. ModeInv'
  BY <1>1, <1>2, <1>4, <1>5, PrivateFacts DEF ModeInv, Moves, Has, Busy
<1> QED BY <1>6, <1>7, <1>8, <1>9, <1>10, <1>11 DEF IInv

LEMMA KillInv ==
  ASSUME IInv, NEW w \in Writers, Kill(w)
  PROVE  IInv'
<1>1. TypeInv /\ OwnInv /\ TornInv /\ SlowInv /\ LitterInv /\ ModeInv
  BY DEF IInv

<1> DEFINE n == write[w].temp
<1>2. /\ n \notin Targets /\ (n \in DOMAIN files => n \in TempNames /\ Front(n) = write[w].target /\ wpc[w] \in Busy)
      /\ \A v \in Writers \ {w} : write[v].temp # n \/ n = <<>>
  <2>1. CASE wpc[w] \in Busy
    BY <1>1, <2>1, TempFacts DEF OwnInv, Busy
  <2>2. CASE wpc[w] \notin Busy
    BY <1>1, <2>2, TempNamesFacts, EmptyTarget DEF TypeInv, OwnInv
  <2> QED BY <2>1, <2>2
<1>3. Moves(w, "idle", NoWrite)
  BY <1>1, Ending DEF Kill
<1>4. /\ DOMAIN files' = DOMAIN files /\ files' \in [DOMAIN files -> FileType]
      /\ \A m \in DOMAIN files : files'[m].mode = files[m].mode /\ files'[m].age = files[m].age
      /\ \A m \in DOMAIN files \ {n} : files'[m] = files[m]
      /\ left' = left \cup ({n} \cap DOMAIN files)
  <2>1. \A m \in DOMAIN files : files[m] \in FileType
    BY <1>1 DEF TypeInv
  <2>2. \A m \in DOMAIN files : /\ Unread(m) \in FileType /\ Unread(m).mode = files[m].mode
                                /\ Unread(m).age = files[m].age
    BY <2>1 DEF Unread, FileType
  <2>3. /\ files' = [m \in DOMAIN files |-> IF m = n THEN Unread(m) ELSE files[m]]
        /\ left' = left \cup ({n} \cap DOMAIN files)
    BY DEF Kill, Abandoned
  <2> QED BY <2>1, <2>2, <2>3
<1> HIDE DEF n
<1>5. TypeInv'
  BY <1>1, <1>2, <1>3, <1>4 DEF TypeInv, Moves
<1>6. OwnInv'
  BY <1>1, <1>3, NoWriteFacts DEF OwnInv, Moves, Busy
<1>7. \A v \in Writers \ {w} : wpc[v] \in Busy => write[v].temp # n /\ write[v].temp # <<>>
  BY <1>1, <1>2, TempFacts DEF OwnInv, Busy
<1>8. TornInv'
  BY <1>1, <1>2, <1>3, <1>4, <1>7 DEF TornInv, Moves, Has, Busy
<1>9. SlowInv'
  BY <1>1, <1>3, <1>4, <1>7, NoWriteFacts DEF SlowInv, Moves, Has, Busy
<1>10. LitterInv'
  <2>1. Temps \subseteq Temps' \cup {n}
    BY <1>3 DEF Temps, Moves, n
  <2> QED BY <1>1, <1>3, <1>4, <2>1, NoWriteFacts, EmptyTarget DEF LitterInv, Moves
<1>11. ModeInv'
  <2>1. n \in DOMAIN files /\ Front(n) \in Private => files[n].mode = {}
    BY <1>1, <1>2 DEF ModeInv, Has, n
  <2> QED BY <1>1, <1>3, <1>4, <2>1, NoWriteFacts, PrivateFacts DEF ModeInv, Moves, Has, Busy
<1> QED BY <1>5, <1>6, <1>8, <1>9, <1>10, <1>11 DEF IInv

LEMMA PowerLossInv ==
  ASSUME IInv, PowerLoss
  PROVE  IInv'
<1>1. TypeInv /\ OwnInv /\ TornInv /\ SlowInv /\ LitterInv /\ ModeInv
  BY DEF IInv

<1>2. /\ wpc' = [w \in Writers |-> "idle"] /\ write' = [w \in Writers |-> NoWrite]
      /\ left' = left \cup Abandoned(Writers)
  BY DEF PowerLoss
<1>3. /\ Abandoned(Writers) \subseteq TempNames \cap DOMAIN files
      /\ \A n \in Abandoned(Writers) : Front(n) \in Private => files[n].mode = {}
  <2>1. ASSUME NEW w \in Writers, write[w].temp \in DOMAIN files
        PROVE  /\ write[w].temp \in TempNames
               /\ Front(write[w].temp) \in Private => files[write[w].temp].mode = {}
    <3>1. wpc[w] \in Busy
      BY <1>1, <2>1, TempNamesFacts DEF OwnInv, TypeInv
    <3> QED BY <1>1, <2>1, <3>1, TempFacts DEF OwnInv, ModeInv, Has, Busy
  <2> QED BY <2>1 DEF Abandoned
<1>4. /\ DOMAIN files' = DOMAIN files /\ files' \in [DOMAIN files -> FileType]
      /\ \A m \in DOMAIN files : files'[m].mode = files[m].mode
      /\ \A m \in DOMAIN files : files[m].durable /\ m \notin Abandoned(Writers) => files'[m] = files[m]
  <2>1. \A m \in DOMAIN files : files[m] \in FileType
    BY <1>1 DEF TypeInv
  <2>2. \A m \in DOMAIN files : Unread(m) \in FileType /\ Unread(m).mode = files[m].mode
    BY <2>1 DEF Unread, FileType
  <2>3. files' = [m \in DOMAIN files |-> IF files[m].durable /\ m \notin Abandoned(Writers) THEN files[m] ELSE Unread(m)]
    BY DEF PowerLoss
  <2> QED BY <2>1, <2>2, <2>3
<1>5. \A w \in Writers : wpc'[w] = "idle" /\ write'[w] = NoWrite
  BY <1>2
<1>6. TypeInv'
  BY <1>1, <1>2, <1>3, <1>4, NoWriteFacts DEF TypeInv, Labels
<1>7. OwnInv'
  BY <1>5, NoWriteFacts DEF OwnInv, Busy
<1>8. TornInv'
  BY <1>1, <1>3, <1>4, <1>5, TempNamesFacts DEF TornInv
<1>9. SlowInv'
  BY <1>5 DEF SlowInv, Busy
<1>10. LitterInv'
  <2>1. Temps \cap DOMAIN files \subseteq left'
    BY <1>2 DEF Temps, Abandoned
  <2> QED BY <1>1, <1>2, <1>4, <1>5, <2>1, NoWriteFacts, EmptyTarget DEF LitterInv
<1>11. ModeInv'
  BY <1>1, <1>2, <1>3, <1>4, <1>5, NoWriteFacts, PrivateFacts DEF ModeInv
<1> QED BY <1>6, <1>7, <1>8, <1>9, <1>10, <1>11 DEF IInv

LEMMA WaitInv ==
  ASSUME IInv, Wait
  PROVE  IInv'
<1>1. TypeInv /\ OwnInv /\ TornInv /\ SlowInv /\ LitterInv /\ ModeInv
  BY DEF IInv

<1>2. wpc' = wpc /\ left' = left
  BY DEF Wait
<1>3. /\ DOMAIN files' = DOMAIN files /\ files' \in [DOMAIN files -> FileType]
      /\ \A m \in DOMAIN files : /\ files'[m].mode = files[m].mode /\ files'[m].whole = files[m].whole
                                 /\ files'[m].durable = files[m].durable /\ files'[m].age = Older(m)
  <2>1. \A m \in DOMAIN files : files[m] \in FileType /\ Older(m) \in 0 .. Grace + 1
    BY <1>1, AtomicAssumption DEF TypeInv, FileType, Older
  <2>2. files' = [m \in DOMAIN files |-> [files[m] EXCEPT !.age = Older(m)]]
    BY DEF Wait
  <2> HIDE DEF Older
  <2> QED BY <2>1, <2>2 DEF FileType
<1>4. /\ write' \in [Writers -> WriteType]
      /\ \A w \in Writers : /\ write'[w].target = write[w].target /\ write'[w].carry = write[w].carry
                            /\ write'[w].temp = write[w].temp /\ write'[w].found = write[w].found
                            /\ write'[w].unseen = write[w].unseen
                            /\ ~write'[w].slow => ~write[w].slow /\ ~(Has(w) /\ Older(write[w].temp) > Grace)
  <2> DEFINE late(w) == write[w].slow \/ (Has(w) /\ Older(write[w].temp) > Grace)
             j(w) == [write[w] EXCEPT !.slow = late(w)]
  <2>1. write' = [w \in Writers |-> j(w)]
    BY DEF Wait
  <2>2. ASSUME NEW w \in Writers
        PROVE  /\ j(w) \in WriteType
               /\ j(w).target = write[w].target /\ j(w).carry = write[w].carry
               /\ j(w).temp = write[w].temp /\ j(w).found = write[w].found
               /\ j(w).unseen = write[w].unseen /\ j(w).slow = late(w)
    <3>1. write[w] \in WriteType /\ late(w) \in BOOLEAN
      BY <1>1 DEF TypeInv
    <3> HIDE DEF late
    <3> QED BY <3>1 DEF WriteType
  <2>3. \A w \in Writers : write'[w] = j(w)
    BY <2>1
  <2>4. \A w \in Writers : ~write'[w].slow => ~late(w)
    BY <2>2, <2>3
  <2> HIDE DEF j
  <2> QED BY <2>1, <2>2, <2>3, <2>4
<1>5. TypeInv'
  BY <1>1, <1>2, <1>3, <1>4 DEF TypeInv
<1>6. OwnInv'
  BY <1>1, <1>2, <1>4 DEF OwnInv
<1>7. TornInv'
  BY <1>1, <1>2, <1>3, <1>4 DEF TornInv, Has
<1>8. SlowInv'
  <2>1. \A m \in DOMAIN files : Older(m) \in Int
    BY <1>1, AtomicAssumption DEF TypeInv, FileType, Older
  <2> QED BY <1>1, <1>2, <1>3, <1>4, <2>1, AtomicAssumption DEF SlowInv, Has
<1>9. LitterInv'
  BY <1>1, <1>2, <1>3, <1>4 DEF LitterInv, Temps
<1>10. ModeInv'
  BY <1>1, <1>2, <1>3, <1>4 DEF ModeInv, Has
<1> QED BY <1>5, <1>6, <1>7, <1>8, <1>9, <1>10 DEF IInv

LEMMA IdleInv == ASSUME IInv, UNCHANGED avars PROVE IInv'
BY DEF avars, IInv, TypeInv, OwnInv, TornInv, SlowInv, LitterInv, ModeInv, Has, Temps

LEMMA StartInv == InitFiles => IInv
<1> SUFFICES ASSUME InitFiles PROVE IInv
  OBVIOUS
<1>1. /\ files = StartFiles /\ left = {} /\ wpc \in [Writers -> Labels] /\ write \in [Writers -> WriteType]
      /\ \A w \in Writers : wpc[w] = "idle" /\ write[w] = NoWrite
  BY NoWriteFacts DEF InitFiles, Labels
<1>2. TypeInv
  BY <1>1, StartAssumption DEF TypeInv, Names
<1>3. OwnInv /\ SlowInv
  BY <1>1, NoWriteFacts DEF OwnInv, SlowInv, Busy
<1>4. TornInv
  BY <1>1, StartAssumption DEF TornInv
<1>5. LitterInv
  BY <1>1, NoWriteFacts, EmptyTarget DEF LitterInv
<1>6. ModeInv
  BY <1>1, NoWriteFacts, PrivateFacts DEF ModeInv, Private, Busy
<1> QED BY <1>2, <1>3, <1>4, <1>5, <1>6 DEF IInv

LEMMA StepInv == IInv /\ [FileStep]_avars => IInv'
<1> SUFFICES ASSUME IInv, [FileStep]_avars PROVE IInv'
  OBVIOUS
<1>1. ASSUME NEW w \in Writers, WriteStep(w) \/ Fail(w) \/ Kill(w) PROVE IInv'
  <2>1. CASE OpenTemp(w) \/ Refused(w) \/ Chmod(w) \/ Stream(w) \/ Sync(w) \/ Replace(w)
    BY <2>1, OpenTempInv, RefusedInv, ChmodInv, StreamInv, SyncInv, ReplaceInv
  <2>2. CASE Fail(w) \/ Kill(w)
    BY <2>2, FailInv, KillInv
  <2>3. CASE SweepUnlink(w) \/ \E n \in write[w].unseen : SweepStat(w, n)
    BY <2>3, SweepUnlinkInv, SweepStatInv
  <2> QED BY <1>1, <2>1, <2>2, <2>3 DEF WriteStep
<1>2. ASSUME NEW w \in Writers, NEW p \in Paths, Begin(w, p) PROVE IInv'
  BY <1>2, BeginInv
<1>3. CASE PowerLoss \/ Wait
  BY <1>3, PowerLossInv, WaitInv
<1>4. CASE UNCHANGED avars
  BY <1>4, IdleInv
<1> QED BY <1>1, <1>2, <1>3, <1>4 DEF FileStep

-----------------------------------------------------------------------------
(* What it implies *)

LEMMA Implied == IInv => NeverTorn /\ LiveTempKept /\ PrivateStaysPrivate /\ FailureLeavesNothing
<1> SUFFICES ASSUME IInv PROVE NeverTorn /\ LiveTempKept /\ PrivateStaysPrivate /\ FailureLeavesNothing
  OBVIOUS
<1>1. TypeInv /\ OwnInv /\ TornInv /\ SlowInv /\ LitterInv /\ ModeInv
  BY DEF IInv
<1>2. NeverTorn
  BY <1>1 DEF NeverTorn, TornInv
<1>3. LiveTempKept
  BY <1>1 DEF LiveTempKept, SlowInv, OwnInv
<1>4. PrivateStaysPrivate
  <2> SUFFICES ASSUME NEW t \in Private, NEW n \in DOMAIN files,
                      n = t \/ (n \in Temps \cup left /\ Front(n) = t)
               PROVE  files[n].mode = {}
    BY DEF PrivateStaysPrivate
  <2>1. CASE n = t \/ n \in left
    BY <1>1, <2>1 DEF ModeInv
  <2>2. CASE n \in Temps /\ Front(n) = t
    <3>1. PICK w \in Writers : n = write[w].temp /\ wpc[w] \in Busy
      BY <1>1, <2>2 DEF Temps, OwnInv
    <3>2. write[w].target = t
      BY <1>1, <2>2, <3>1, TempFacts DEF OwnInv, Busy
    <3> QED BY <1>1, <3>1, <3>2 DEF ModeInv, Has
  <2> QED BY <2>1, <2>2
<1>5. FailureLeavesNothing
  BY <1>1 DEF FailureLeavesNothing, LitterInv
<1> QED BY <1>2, <1>3, <1>4, <1>5

(* Any number of writers of any targets at once, errors, kills, stalls and   *)
(* losses of power: a target that is there is whole.                         *)
THEOREM TargetsWhole == Spec => []NeverTorn
BY StartInv, StepInv, Implied, PTL DEF Spec

-----------------------------------------------------------------------------
(* The clean-up of old temporary files *)

\* the clean-up is about to remove names that the old builds could have written
DoomedInv == doomed \subseteq DOMAIN Legacy

LEMMA LegacyFacts == DOMAIN Legacy \cap (Targets \cup TempNames) = {} /\ <<>> \notin DOMAIN Legacy
<1>1. ASSUME NEW n \in TempNames PROVE n \notin DOMAIN Legacy
  <2>1. PICK t \in Targets, tail \in Tails : n = Append(t, tail)
    BY DEF TempNames, TempsOf
  <2>2. t \in Seq(STRING) /\ tail \in STRING
    BY NamesAssumption
  <2>3. Len(n) = Len(t) + 1 /\ n[Len(t) + 1] = tail
    BY <2>1, <2>2, AppendFacts
  <2> QED BY <2>3, ReclaimAssumption
<1> QED BY <1>1, ReclaimAssumption

\* a name that nobody writes, finds or has left goes: nothing else changes
LEMMA UnlinkInv ==
  ASSUME IInv, NEW n, n \notin Targets, n \notin TempNames, n # <<>>, files' = Without(n),
         UNCHANGED <<wpc, write, left>>
  PROVE  IInv'
<1>1. TypeInv /\ OwnInv /\ TornInv /\ SlowInv /\ LitterInv /\ ModeInv
  BY DEF IInv
<1>2. /\ DOMAIN files' = DOMAIN files \ {n} /\ files' \in [DOMAIN files' -> FileType]
      /\ \A m \in DOMAIN files \ {n} : files'[m] = files[m]
  BY <1>1, Removing
<1>3. \A w \in Writers : write[w].temp # n
  BY <1>1 DEF TypeInv, WriteType
<1>4. TypeInv'
  BY <1>1, <1>2 DEF TypeInv
<1>5. OwnInv'
  BY <1>1 DEF OwnInv
<1>6. TornInv'
  BY <1>1, <1>2, <1>3 DEF TornInv, Has
<1>7. SlowInv'
  BY <1>1, <1>2, <1>3 DEF SlowInv, Has
<1>8. LitterInv'
  BY <1>1, <1>2 DEF LitterInv, Temps
<1>9. ModeInv'
  BY <1>1, <1>2, <1>3 DEF ModeInv, Has
<1> QED BY <1>4, <1>5, <1>6, <1>7, <1>8, <1>9 DEF IInv

LEMMA ReclaimInit == Init => IInv /\ DoomedInv
BY StartInv DEF Init, DoomedInv

LEMMA ReclaimStep == IInv /\ DoomedInv /\ [Next]_vars => (IInv /\ DoomedInv)'
<1> SUFFICES ASSUME IInv, DoomedInv, [Next]_vars PROVE (IInv /\ DoomedInv)'
  OBVIOUS
<1>1. CASE FileStep /\ UNCHANGED doomed
  BY <1>1, StepInv DEF DoomedInv
<1>2. ASSUME NEW n \in doomed, ToolUnlink(n) PROVE (IInv /\ DoomedInv)'
  <2>1. n \notin Targets /\ n \notin TempNames /\ n # <<>>
    BY LegacyFacts DEF DoomedInv
  <2>2. UNCHANGED <<wpc, write, left>> /\ doomed' = doomed \ {n} /\ (files' = Without(n) \/ files' = files)
    BY <1>2 DEF ToolUnlink
  <2>3. CASE files' = Without(n)
    BY <2>1, <2>2, <2>3, UnlinkInv DEF DoomedInv
  <2>4. CASE files' = files
    BY <2>2, <2>4 DEF DoomedInv, IInv, TypeInv, OwnInv, TornInv, SlowInv, LitterInv, ModeInv, Has, Temps
  <2> QED BY <2>2, <2>3, <2>4
<1>3. ASSUME NEW delete, NEW orphans, ToolStart(delete, orphans) PROVE (IInv /\ DoomedInv)'
  BY <1>3, IdleInv DEF ToolStart, Doomed, Listed, DoomedInv
<1>4. CASE UNCHANGED vars
  BY <1>4, IdleInv DEF vars, DoomedInv
<1> QED BY <1>1, <1>2, <1>3, <1>4 DEF Next, ToolStep

LEMMA ReclaimIInv == ReclaimSpec => []IInv
BY ReclaimInit, ReclaimStep, PTL DEF ReclaimSpec

(* A target that is there is whole, with the clean-up tool at work too.       *)
THEOREM WholeFiles == ReclaimSpec => []NeverTorn
BY ReclaimIInv, Implied, PTL

(* Neither a private target nor a temporary of it is ever open to others.     *)
THEOREM PrivateFiles == ReclaimSpec => []PrivateStaysPrivate
BY ReclaimIInv, Implied, PTL

(* No sweep and no clean-up takes the temporary of a writer that is not slow. *)
THEOREM LiveTemps == ReclaimSpec => []LiveTempKept
BY ReclaimIInv, Implied, PTL

(* What lies in the directory was there, is a target, is being written or was *)
(* left by a writer that died: a write that fails leaves nothing.             *)
THEOREM NoLitterOfFailures == ReclaimSpec => []FailureLeavesNothing
BY ReclaimIInv, Implied, PTL

-----------------------------------------------------------------------------
(* The operator's files *)

Operators == DOMAIN StartFiles \ OldLitter

\* they are not spelled like temporaries with a letter in the tail, nor like what the
\* old builds wrote where a setting leads
OperatorNames ==
  \A n \in Operators :
    /\ ~IsGenerated(n)
    /\ n \in DOMAIN Legacy =>
         \/ n \in Directories \/ Legacy[n] \in NoNames
         \/ /\ Legacy[n] \notin CacheShaped
            /\ \A s \in Searched : s.names # AnyName /\ Legacy[n] \notin s.names

\* nobody has one of them in hand
KeptInv ==
  /\ Operators \subseteq DOMAIN files /\ doomed \cap Operators = {}
  /\ \A w \in Writers : /\ write[w].temp \notin Operators /\ write[w].found \notin Operators
                        /\ write[w].unseen \cap Operators = {}

LEMMA NotLitter == ASSUME OperatorNames, NEW t, NEW n, Litter(t, n) PROVE n \notin Operators
BY DEF OperatorNames, Litter

LEMMA NotDoomed ==
  ASSUME OperatorNames, NEW delete, NEW orphans PROVE Doomed(delete, orphans) \cap Operators = {}
BY DEF OperatorNames, Doomed, Listed, Claimed

LEMMA KeptByWriter ==
  ASSUME OperatorNames, IInv, KeptInv, NEW w \in Writers, WriteStep(w) \/ Fail(w) \/ Kill(w), UNCHANGED doomed
  PROVE  KeptInv'
<1>1. TypeInv /\ OwnInv
  BY DEF IInv
<1>2. <<>> \notin Operators
  BY TempNamesFacts DEF Operators, Names
<1>3. write \in [Writers -> WriteType] /\ write[w] \in WriteType
  BY <1>1 DEF TypeInv
<1>4. /\ \A v \in Writers \ {w} : write'[v] = write[v]
      /\ write'[w].temp \notin Operators /\ write'[w].found \notin Operators
      /\ write'[w].unseen \cap Operators = {}
      /\ Operators \subseteq DOMAIN files'
  <2>1. CASE OpenTemp(w)
    <3>1. PICK n \in Drawn(write[w].target) : write' = [write EXCEPT ![w] = [write[w] EXCEPT !.temp = n]]
                                              /\ \E mode : files' = Created(n, mode)
      BY <2>1 DEF OpenTemp, SetWrite
    <3>2. n \notin DOMAIN files
      BY DrawnFacts DEF Free
    <3>3. DOMAIN files \subseteq DOMAIN files'
      BY <3>1 DEF Created
    <3>4. write'[w] = [write[w] EXCEPT !.temp = n] /\ \A v \in Writers \ {w} : write'[v] = write[v]
      BY <1>3, <3>1
    <3>5. write'[w].temp = n /\ write'[w].found = write[w].found /\ write'[w].unseen = write[w].unseen
      BY <1>3, <3>4 DEF WriteType
    <3> QED BY <3>2, <3>3, <3>4, <3>5 DEF KeptInv
  <2>2. CASE Refused(w) \/ Fail(w) \/ Kill(w)
    <3>1. Moves(w, "idle", NoWrite)
      BY <1>1, <2>2, Ending DEF Refused, Fail, Kill
    <3>2. DOMAIN files \ {write[w].temp} \subseteq DOMAIN files'
      BY <2>2 DEF Refused, Fail, Clean, Without, Kill
    <3> QED BY <1>2, <3>1, <3>2, NoWriteFacts DEF KeptInv, Moves
  <2>3. CASE Chmod(w) \/ Stream(w) \/ Sync(w)
    <3>1. DOMAIN files' = DOMAIN files
      BY <1>1, <2>3 DEF Chmod, Stream, Sync, Change, TypeInv
    <3>2. write' = write \/ write' = [write EXCEPT ![w] = [write[w] EXCEPT !.carry = NoMode]]
      BY <2>3 DEF Chmod, Stream, Sync, SetWrite
    <3>3. /\ \A v \in Writers \ {w} : write'[v] = write[v]
          /\ write'[w].temp = write[w].temp /\ write'[w].found = write[w].found
          /\ write'[w].unseen = write[w].unseen
      BY <1>3, <3>2 DEF WriteType
    <3> QED BY <3>1, <3>3 DEF KeptInv
  <2>4. CASE Replace(w) \/ SweepUnlink(w) \/ \E n \in write[w].unseen : SweepStat(w, n)
    <3>1. /\ DOMAIN files \ {write[w].temp, write[w].found} \subseteq DOMAIN files'
          /\ write[w].target \in Targets
      BY <1>1, <2>4 DEF Replace, Renamed, SweepUnlink, Without, SweepStat, OwnInv
    <3>2. PICK unseen, found : /\ Sweep(w, unseen, found) /\ unseen \cap Operators = {} /\ found \notin Operators
      <4>1. CASE Replace(w)
        BY <1>2, <4>1, NotLitter DEF Replace
      <4>2. CASE SweepUnlink(w)
        BY <1>2, <4>2 DEF SweepUnlink, KeptInv
      <4>3. CASE \E n \in write[w].unseen : SweepStat(w, n)
        BY <1>2, <4>3 DEF SweepStat, KeptInv
      <4> QED BY <2>4, <4>1, <4>2, <4>3
    <3>3. CASE unseen = {} /\ found = <<>>
      <4>1. Moves(w, "idle", NoWrite)
        BY <1>1, <3>2, <3>3, Ending DEF Sweep
      <4> QED BY <1>2, <3>1, <4>1, NoWriteFacts DEF KeptInv, Moves
    <3>4. CASE ~(unseen = {} /\ found = <<>>)
      <4> DEFINE j == [NoWrite EXCEPT !.target = write[w].target, !.unseen = unseen, !.found = found]
      <4>1. j.temp = <<>> /\ j.found = found /\ j.unseen = unseen
        BY DEF NoWrite
      <4>2. write' = [write EXCEPT ![w] = j]
        BY <3>2, <3>4 DEF Sweep, SetWrite
      <4> HIDE DEF j
      <4> QED BY <1>2, <1>3, <3>1, <3>2, <4>1, <4>2 DEF KeptInv
    <3> QED BY <3>3, <3>4
  <2> QED BY <2>1, <2>2, <2>3, <2>4 DEF WriteStep
<1> QED BY <1>4 DEF KeptInv

LEMMA KeptStep == OperatorNames /\ IInv /\ KeptInv /\ [Next]_vars => KeptInv'
<1> SUFFICES ASSUME OperatorNames, IInv, KeptInv, [Next]_vars PROVE KeptInv'
  OBVIOUS
<1>1. TypeInv /\ <<>> \notin Operators
  BY TempNamesFacts DEF IInv, Operators, Names
<1>2. ASSUME NEW w \in Writers, WriteStep(w) \/ Fail(w) \/ Kill(w), UNCHANGED doomed PROVE KeptInv'
  BY <1>2, KeptByWriter
<1>3. ASSUME NEW w \in Writers, NEW p \in Paths, Begin(w, p), UNCHANGED doomed PROVE KeptInv'
  <2> DEFINE j == [NoWrite EXCEPT !.target = Target[p], !.carry = Carry(p)]
  <2>1. j.temp = <<>> /\ j.found = <<>> /\ j.unseen = {}
    BY DEF NoWrite
  <2>2. write' = [write EXCEPT ![w] = j] /\ files' = files
    BY <1>3 DEF Begin, SetWrite
  <2> HIDE DEF j
  <2> QED BY <1>1, <1>3, <2>1, <2>2 DEF KeptInv, TypeInv
<1>4. CASE PowerLoss /\ UNCHANGED doomed
  <2>1. write' = [w \in Writers |-> NoWrite] /\ DOMAIN files' = DOMAIN files
    BY <1>4 DEF PowerLoss
  <2> QED BY <1>1, <1>4, <2>1, NoWriteFacts DEF KeptInv
<1>5. CASE Wait /\ UNCHANGED doomed
  <2>1. DOMAIN files' = DOMAIN files
    BY <1>5 DEF Wait
  <2>2. \A w \in Writers : /\ write'[w].temp = write[w].temp /\ write'[w].found = write[w].found
                           /\ write'[w].unseen = write[w].unseen
    BY <1>1, <1>5 DEF Wait, TypeInv, WriteType
  <2> QED BY <1>5, <2>1, <2>2 DEF KeptInv
<1>6. ASSUME NEW n \in doomed, ToolUnlink(n) PROVE KeptInv'
  BY <1>6 DEF ToolUnlink, Without, KeptInv
<1>7. ASSUME NEW delete, NEW orphans, ToolStart(delete, orphans) PROVE KeptInv'
  BY <1>7, NotDoomed DEF ToolStart, KeptInv, avars
<1>8. CASE UNCHANGED vars
  BY <1>8 DEF vars, avars, KeptInv
<1> QED BY <1>2, <1>3, <1>4, <1>5, <1>6, <1>7, <1>8 DEF Next, ToolStep, FileStep

(* Whoever sweeps and whatever fails, the operator's files stay, as long as   *)
(* they are not spelled like what the program or its old builds leave.        *)
THEOREM OperatorsKept == OperatorNames /\ ReclaimSpec => []OperatorFilesKept
<1> SUFFICES ASSUME OperatorNames PROVE ReclaimSpec => []OperatorFilesKept
  OBVIOUS
<1>1. Init => KeptInv
  <2>1. <<>> \notin Operators
    BY TempNamesFacts DEF Operators, Names
  <2> QED BY <2>1, NoWriteFacts DEF Init, InitFiles, KeptInv, Operators
<1>2. KeptInv => OperatorFilesKept
  BY DEF KeptInv, OperatorFilesKept, Operators
<1>3. IInv /\ KeptInv /\ [Next]_vars => KeptInv'
  BY KeptStep
<1> QED BY <1>1, <1>2, <1>3, ReclaimIInv, PTL DEF ReclaimSpec
=============================================================================
