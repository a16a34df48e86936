--------------------------- MODULE ProcessLimits ---------------------------
(***************************************************************************)
(* The limit on open files, raised at startup (increase_rlimits.py): of a  *)
(* few values the first one the platform takes.  A platform is a soft and  *)
(* a hard limit and what setrlimit does with a new soft limit: it takes    *)
(* one up to a cap, refuses a higher one with ValueError, or fails in some *)
(* other way.                                                              *)
(***************************************************************************)
EXTENDS Naturals, Sequences

CONSTANTS
    Unlimited,  \* RLIM_INFINITY, above all numbers
    Limits      \* the limits platforms have

ASSUME LimitsAssumption == Limits \subseteq Nat /\ Unlimited \in Nat /\ \A n \in Limits : n < Unlimited

Platforms ==
    {p \in [soft : Limits, hard : Limits \union {Unlimited}, cap : Limits \union {Unlimited},
            broken : BOOLEAN] : p.soft <= p.hard /\ p.soft <= p.cap}

Takes(p, limit) == ~p.broken /\ limit <= p.hard /\ limit <= p.cap

Enough == 10000

\* Fault: from the lowest value up.
CandidatesUpward(hard) == <<1024, 3200, 10000, hard>>

Candidates(hard) == <<hard, 10000, 3200, 1024>>

\* The soft limit the process goes on with.
Increased(p) ==
    LET tries == Candidates(p.hard)
        first == {i \in DOMAIN tries : Takes(p, tries[i])
                    /\ \A j \in 1..(i - 1) : ~Takes(p, tries[j])}
    IN IF p.soft >= Enough \/ first = {}
         THEN p.soft
         ELSE tries[CHOOSE i \in first : TRUE]

-----------------------------------------------------------------------------
\* The platforms increase_rlimits.py:16-20 tells of: "OS-X defaults to soft=7168,
\* and reports a huge number for 'hard', but won't accept anything more than
\* soft=10240", "Linux returns (1024, 1048576) and is fine with soft=hard",
\* "Cygwin is reported to return (256,-1) and accepts up to soft=3200".
Documented(p) ==
    \/ p.hard = Unlimited /\ p.cap = 10240
    \/ p.hard = p.cap
    \/ p.hard = Unlimited /\ p.cap = 3200

\* No process starts with fewer files than it was given, and none is left with
\* less than the best value the platform takes of those tried.
LimitIsRaised(p, limit) ==
    Documented(p) =>
        /\ limit >= p.soft
        /\ p.soft < Enough =>
              \A l \in {p.hard, 10000, 3200, 1024} : Takes(p, l) => limit >= l
=============================================================================
