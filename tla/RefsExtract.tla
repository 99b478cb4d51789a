----------------------------- MODULE RefsExtract -----------------------------
(***************************************************************************)
(* What a text refers to, and what a referent looks like (refs.py): the      *)
(* extraction of referents with its gates, and the fingerprint drivers.      *)
(*                                                                           *)
(* A text is a set of mentions.  A mention is a token that one of the        *)
(* patterns of refs.py matches: its `form` says which, `tok` is the token    *)
(* and `by` the alias or host word written before it.  A referent is         *)
(* <<kind, name>>.  What is outside the text - directories, repositories,    *)
(* configuration - is constant here; what a referent is now is not.          *)
(***************************************************************************)
EXTENDS Integers, Sequences, FiniteSets

CONSTANTS
  MaxRefs,        \* MAX_REFS, per write
  NoFp,           \* the fingerprint of an absent or unseen referent
  Aliases,        \* the aliases of QQ_BIND_REPOS, in configuration order
  RepoOf,         \* the worktree (by real path) each alias names
  HasFile,        \* each worktree's files: a relative token gives an absolute path
  HasCommit,      \* the abbreviated commits each worktree knows
  BindHosts,      \* the host words of QQ_BIND_HOSTS
  NotAPath,       \* rooted or remote tokens that are globs, fragments or bare roots
  NoSuchRoot,     \* rooted tokens whose first component is no directory
  UnderExcluded,  \* paths under QQ_BIND_EXCLUDE_ROOTS
  Containers      \* HOME, the worktrees and the corpus roots themselves

Kinds == {"file", "git", "unit", "probe", "port", "rfile"}

ASSUME ExtractAssumption ==
  /\ MaxRefs \in Nat
  /\ Aliases \in Seq({Aliases[i] : i \in DOMAIN Aliases})
  /\ Cardinality({Aliases[i] : i \in DOMAIN Aliases}) = Len(Aliases)
  /\ DOMAIN RepoOf = {Aliases[i] : i \in DOMAIN Aliases}
  /\ \A i \in DOMAIN Aliases : RepoOf[Aliases[i]] \in DOMAIN HasFile \cap DOMAIN HasCommit

-----------------------------------------------------------------------------
(* The gates *)

\* _unique_repos: one alias per worktree, the first configured
UniqueRepos ==
  {Aliases[i] : i \in {i \in DOMAIN Aliases :
     \A k \in 1 .. i - 1 : RepoOf[Aliases[k]] # RepoOf[Aliases[i]]}}

\* a token binds only when exactly one repository owns it; held[r] is what worktree r holds
SoleOwner(held, tok) ==
  LET owners == {a \in UniqueRepos : tok \in held[RepoOf[a]]} IN
  IF Cardinality(owners) = 1 THEN owners ELSE {}

\* _resolve_relpaths gives the path in the owner's worktree, _resolve_bare_shas the alias
ResolveRelpath(tok) ==
  LET files == [r \in DOMAIN HasFile |-> DOMAIN HasFile[r]] IN
  {<<"file", HasFile[RepoOf[a]][tok]>> : a \in SoleOwner(files, tok)}
ResolveBareSha(tok) == {<<"git", <<a, tok>>>> : a \in SoleOwner(HasCommit, tok)}

\* a path that is a container or under an excluded root is not bound by extraction
Hygienic(r) == r[2] \notin UnderExcluded /\ r[2] \notin Containers

Rooted(m) ==
  IF m.tok \in NotAPath \cup NoSuchRoot THEN {} ELSE {<<"file", m.tok>>}
Remote(m) ==
  IF m.by \in BindHosts /\ m.tok \notin NotAPath THEN {<<"rfile", <<m.by, m.tok>>>>} ELSE {}
Aliased(m) == IF m.by \in DOMAIN RepoOf THEN {<<"git", <<m.by, m.tok>>>>} ELSE {}

\* extract_referents without the cap: a commit written after a known alias belongs to
\* that alias and is not resolved a second time as a bare one
Extract(text) ==
  LET of(form) == {m \in text : m.form = form}
      owned == {m.tok : m \in {m \in of("aliased") : m.by \in DOMAIN RepoOf}}
  IN UNION ( {{r \in Rooted(m) : Hygienic(r)} : m \in of("rooted")}
        \cup {Remote(m) : m \in of("remote")}
        \cup {{r \in ResolveRelpath(m.tok) : Hygienic(r)} : m \in of("relative")}
        \cup {Aliased(m) : m \in of("aliased")}
        \cup {ResolveBareSha(m.tok) : m \in {m \in of("bare") \cup of("aliased") : m.tok \notin owned}}
        \cup {{<<"unit", m.tok>>} : m \in of("unit")}
        \cup {{<<"port", m.tok>>} : m \in of("port")} )

-----------------------------------------------------------------------------
(* The drivers: an observation of a referent to a fingerprint and a status.  *)
(* Absence must be proven; a driver that cannot see says `error`.            *)

Seen(v) == [fp |-> <<"now", v>>, status |-> "ok"]
Gone == [fp |-> NoFp, status |-> "missing"]
Blind == [fp |-> NoFp, status |-> "error"]
Driver(o, absence) ==
  IF o.at \in absence THEN Gone ELSE IF o.at = "there" THEN Seen(o.v) ELSE Blind

\* a link to nothing is absence; a parent or a target that may not be looked at is not
FpFile(o) == Driver(o, {"absent", "dangling"})
FpGit(o) == Driver(o, {"unknown-commit"})
FpPort(o) == Driver(o, {"not-listening"})
FpRfile(o) == Driver(o, {"MISSING"})
FpProbe(o) == Driver(o, {"nonzero-exit"})

\* the first scope that finds the unit answers for it; absence needs both to have looked
FpUnit(o) ==
  IF o.system = "found" \/ o.user = "found" THEN Seen(o.v)
  ELSE IF o.system = "none" /\ o.user = "none" THEN Gone ELSE Blind

Fingerprint(r, o) ==
  CASE r[1] = "file" -> FpFile(o)
    [] r[1] = "git" -> FpGit(o)
    [] r[1] = "unit" -> FpUnit(o)
    [] r[1] = "probe" -> FpProbe(o)
    [] r[1] = "port" -> FpPort(o)
    [] r[1] = "rfile" -> FpRfile(o)

\* the encoding of a unit's fingerprint before enablement was folded in
Legacy(fp) == fp # NoFp /\ fp[1] = "legacy"
LegacyOf(fp) == IF fp = NoFp THEN NoFp ELSE <<"legacy", fp[2]>>
=============================================================================
