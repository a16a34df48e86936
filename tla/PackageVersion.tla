--------------------------- MODULE PackageVersion ---------------------------
(***************************************************************************)
(* The version the package says it has (__init__.py, _version.py).  In an  *)
(* archive git has written the refs of the commit into _version.py; in a   *)
(* checkout git is asked; otherwise the name of a directory may tell.      *)
(* Texts are sequences of their parts: "0.4+1.gabc" is                     *)
(* <<"0.4", "+", "1", ".g", "abc">>.                                       *)
(***************************************************************************)
EXTENDS Integers, Sequences, FiniteSets, SequencesExt

CONSTANTS
    NameOrder,      \* the names of tags and branches, in the order of their text
    VersionNames,   \* those that start with a digit
    DigitNames,     \* those that have one
    Commits,        \* abbreviated hashes
    Distances,      \* numbers of commits since a tag
    Directories,    \* names of directories, after parentdir_prefix
    Garbled,        \* output of git describe that cannot be parsed
    NoVersion,      \* NotThisMethod is raised, or there is none
    Raised          \* an exception nobody catches

ASSUME NamesAssumption ==
    /\ VersionNames \subseteq DigitNames
    /\ DigitNames \subseteq ToSet(NameOrder)

\* Texts are ordered as sorted() does it: what is cut short comes first.
ASSUME OrderOfNames ==
    \A i, j \in DOMAIN NameOrder : IsStrictPrefix(NameOrder[i], NameOrder[j]) => i < j

\* What texts are made of; exceptions and "nothing" are not texts.
Parts ==
    {"0", "+", ".", "unknown", "untagged.", ".g", ".dirty"}
        \union Commits \union {ToString(d) : d \in Distances}
        \union UNION {ToSet(name) : name \in ToSet(NameOrder) \union Directories}

ASSUME TextsAssumption ==
    /\ NameOrder \in Seq(Seq(Parts))
    /\ Directories \subseteq Seq(Parts)
    /\ {Garbled, NoVersion, Raised} \intersect Seq(Parts) = {}
    /\ Distances \subseteq Nat
    /\ "+" \notin Commits \union {ToString(d) : d \in Distances}

\* Releases are named by their numbers (update-version.py:40-45): no name of one
\* is that of a commit, and the archive of one unpacks into a directory that has a
\* "-" before it.
ASSUME ReleasesAssumption ==
    /\ \A v \in VersionNames : ToSet(v) \intersect Commits = {}
    /\ VersionNames \intersect (Directories \union {<<"unknown">>, <<"0", "+", "unknown">>}) = {}
    /\ \A v \in VersionNames \union Directories : Cardinality({i \in DOMAIN v : v[i] = "+"}) <= 1

Refs == [name : ToSet(NameOrder), tag : BOOLEAN]

GitCommands == {"git-dir", "describe", "head", "branch", "branches", "rev-list", "date"}

\* What there is to tell the version from.  refs: NoVersion in a checkout, whose
\* keywords are not expanded; hasFile: __file__ is known; failing: the git
\* commands that fail; tag: the closest one, NoVersion if there is none; parents:
\* what follows the project's name in the names of the three directories above.
IsTree(t) ==
    /\ t.refs = NoVersion \/ t.refs \subseteq Refs
    /\ {t.hasFile, t.detached, t.dirty} \subseteq BOOLEAN
    /\ t.failing \subseteq GitCommands
    /\ t.tag \in VersionNames \union {NoVersion, Garbled}
    /\ t.distance \in Distances
    /\ t.short \in Commits
    /\ t.parents \in [1..3 -> Directories \union {NoVersion}]

Unknown == <<"0", "+", "unknown">>

\* Git before 1.8.3 does not mark the tags: then whatever has a digit.
LikelyTags(refs) ==
    IF \E r \in refs : r.tag
      THEN {r.name : r \in {x \in refs : x.tag}}
      ELSE {r.name : r \in refs} \intersect DigitNames

Place(name) == CHOOSE i \in DOMAIN NameOrder : NameOrder[i] = name

FirstOf(names) == CHOOSE n \in names : \A m \in names : Place(n) <= Place(m)

\* git_versions_from_keywords
KeywordVersion(refs) ==
    LET suitable == LikelyTags(refs) \intersect VersionNames
    IN IF suitable = {} THEN Unknown ELSE FirstOf(suitable)

\* plus_or_dot
PlusOrDot(tag) == IF \E i \in DOMAIN tag : tag[i] = "+" THEN <<".">> ELSE <<"+">>

\* render_pep440
RenderPep440(tag, distance, short, dirty) ==
    LET since == <<ToString(distance), ".g", short>> \o (IF dirty THEN <<".dirty">> ELSE <<>>)
    IN CASE tag = NoVersion -> <<"0", "+", "untagged.">> \o since
         [] tag # NoVersion /\ (distance > 0 \/ dirty) -> tag \o PlusOrDot(tag) \o since
         [] tag # NoVersion /\ distance = 0 /\ ~dirty  -> tag

\* The commands without which git_pieces_from_vcs raises NotThisMethod.
Needed(t) == {"git-dir", "describe", "head", "branch"} \union (IF t.detached THEN {"branches"} ELSE {})

\* render: the configuration names no style, so it is pep440.
Rendered(t) ==
    IF t.tag = Garbled THEN <<"unknown">> ELSE RenderPep440(t.tag, t.distance, t.short, t.dirty)

\* git_pieces_from_vcs.  The branch is for styles this package does not use.
\* After the parsing no command's failure is looked at: there is no output then,
\* and taking it apart raises.
GitVersion(t) ==
    LET after == {"date"} \union (IF t.tag = NoVersion THEN {"rev-list"} ELSE {})
    IN IF t.failing \intersect Needed(t) # {} THEN NoVersion
       ELSE IF t.tag # Garbled /\ t.failing \intersect after # {} THEN Raised
       ELSE Rendered(t)

\* versions_from_parentdir: the nearest one.
ParentVersion(t) ==
    LET named == {i \in DOMAIN t.parents : t.parents[i] # NoVersion}
    IN IF named = {} THEN NoVersion
       ELSE t.parents[CHOOSE i \in named : \A j \in named : i <= j]

\* get_versions
Version(t) ==
    CASE t.refs # NoVersion -> KeywordVersion(t.refs)
      [] t.refs = NoVersion /\ ~t.hasFile -> Unknown
      [] t.refs = NoVersion /\ t.hasFile ->
            IF GitVersion(t) # NoVersion THEN GitVersion(t)
            ELSE IF ParentVersion(t) # NoVersion THEN ParentVersion(t) ELSE Unknown

-----------------------------------------------------------------------------
\* _version.py:229 "sorting will prefer e.g. "2.0" over "2.0rc1"" and :398 "if you
\* get a tagged build and then dirty it, you'll get TAG+0.gHEX.dirty": an archive
\* of a released commit has a version it was released as, and not that of a
\* candidate; a checkout has that of a release exactly if it is that release,
\* unchanged, and else names its commit; one "+" at most, as PEP 440 demands.
VersionIsRight(t, version) ==
    LET released  == {r.name : r \in {x \in t.refs : x.tag}} \intersect VersionNames
        unchanged == t.distance = 0 /\ ~t.dirty
        told      == t.hasFile /\ t.failing = {} /\ t.tag # Garbled
    IN /\ t.refs # NoVersion /\ released # {} =>
             /\ version \in released
             /\ \A v \in released : ~IsStrictPrefix(v, version)
       /\ t.refs # NoVersion /\ (\A r \in t.refs : r.name \notin VersionNames) =>
             version = Unknown
       /\ t.refs = NoVersion /\ told =>
             /\ \A v \in VersionNames : version = v <=> t.tag = v /\ unchanged
             /\ t.tag = NoVersion \/ ~unchanged <=> \E i \in DOMAIN version : version[i] = t.short
       /\ t.refs = NoVersion /\ version \in VersionNames => t.tag = version /\ unchanged
       /\ version # Raised =>
             Cardinality({i \in DOMAIN version : version[i] = "+"}) <= 1
=============================================================================
