--------------------------- MODULE ReleaseVersion ---------------------------
(***************************************************************************)
(* The release script (update-version.py): the next version is made from   *)
(* the tags there are, and tagged unless the checkout is unclean, an       *)
(* argument is unknown, or --no-tag is given.  A version is a triple of    *)
(* numbers; the tags are text.                                             *)
(***************************************************************************)
EXTENDS Integers, FiniteSets

CONSTANT MaxNumber  \* bound on the numbers of a version

ASSUME MaxNumberAssumption == MaxNumber \in Nat

Versions == [major : 0..MaxNumber, minor : 0..MaxNumber, patch : 0..MaxNumber]

\* Fault: numbers of one or two digits in the order of their text.
TextLess(m, n) ==
    LET Leading(k) == IF k < 10 THEN k ELSE k \div 10
    IN Leading(m) < Leading(n) \/ (Leading(m) = Leading(n) /\ m < n)

NumberLess(m, n) == m < n

\* The order of tuples.
Older(v, w) ==
    \/ NumberLess(v.major, w.major)
    \/ v.major = w.major /\ NumberLess(v.minor, w.minor)
    \/ v.major = w.major /\ v.minor = w.minor /\ NumberLess(v.patch, w.patch)

\* sorted(versions)[-1]
Latest(tags) == CHOOSE v \in tags : \A w \in tags : w = v \/ Older(w, v)

\* create_new_version
NewVersion(tags, onlyPatch) ==
    LET v == Latest(tags)
    IN IF onlyPatch THEN [v EXCEPT !.patch = @ + 1]
                    ELSE [v EXCEPT !.minor = @ + 1, !.patch = 0]

Known == {"--no-tag", "--patch"}

ExitCode(clean, args) ==
    IF ~clean THEN 1 ELSE IF args \subseteq Known THEN 0 ELSE 2

\* main: the tags afterwards.
Tagged(tags, clean, args) ==
    IF ExitCode(clean, args) # 0 \/ "--no-tag" \in args
      THEN tags
      ELSE tags \union {NewVersion(tags, "--patch" \in args)}

-----------------------------------------------------------------------------
\* From a clean checkout a release adds one tag, newer than all the others by the
\* numbers, and tells a patch from a minor release; otherwise no tag is made.
ReleasesGoUp(tags, clean, args, tagged) ==
    IF clean /\ args \subseteq {"--patch"}
      THEN \E v \in tagged \ tags :
             /\ tagged = tags \union {v}
             /\ \A w \in tags :
                   \/ v.major > w.major
                   \/ v.major = w.major /\ v.minor > w.minor
                   \/ v.major = w.major /\ v.minor = w.minor /\ v.patch > w.patch
             /\ \/ args = {} /\ v.patch = 0
                \/ args = {"--patch"} /\ \E w \in tags : [w EXCEPT !.patch = @ + 1] = v
      ELSE tagged = tags
=============================================================================
