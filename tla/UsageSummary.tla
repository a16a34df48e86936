---------------------------- MODULE UsageSummary ----------------------------
(***************************************************************************)
(* What a usage row says of a retired nameplate or mailbox                 *)
(* (server.py:353-370, 430-462): when it started, rounded down to the blur *)
(* interval, how long it waited for the second side, how long it lasted,   *)
(* and one word for how it went.  A side's row is its time of arrival and, *)
(* for a mailbox, the mood it closed with.                                 *)
(***************************************************************************)
EXTENDS Integers, Sequences, SequencesExt

CONSTANTS
    None,       \* no second side, no mood, no blurring
    Moods       \* the moods clients report

ASSUME NoneAssumption  == None \notin Int \union Moods
ASSUME MoodsAssumption == {"happy", "lonely", "errory", "scary"} \subseteq Moods

Rows == UNION {[1..n -> [added : Nat, mood : Moods \union {None}]] : n \in 1..4}

\* Fault: in order of the rows, which is that of the table.
Times(rows) == [i \in DOMAIN rows |-> rows[i].added]

Sorted(rows) ==
    LET order == CHOOSE p \in Bijection(DOMAIN rows, DOMAIN rows) :
                    \A i, j \in DOMAIN rows : i < j => rows[p[i]].added <= rows[p[j]].added
    IN [i \in DOMAIN rows |-> rows[order[i]].added]

\* Fault: to the nearest multiple.
RoundedNear(time, blur) ==
    IF blur \in {None, 0} THEN time ELSE blur * ((time + blur \div 2) \div blur)

Rounded(time, blur) ==
    IF blur \in {None, 0} THEN time ELSE blur * (time \div blur)

\* log_client_version: the connect_time of a row of client_versions.
ConnectTime(server_rx, blur) == Rounded(server_rx, blur)

Waited(times) == IF Len(times) > 1 THEN times[2] - times[1] ELSE None

\* Every later assignment of the function overrides the earlier ones.
NameplateResult(rows, pruned) ==
    CASE Len(rows) > 2             -> "crowded"
      [] Len(rows) <= 2 /\ pruned  -> "pruney"
      [] Len(rows) = 2 /\ ~pruned  -> "happy"
      [] Len(rows) <= 1 /\ ~pruned -> "lonely"

Complaint(rows) == {"scary", "errory", "lonely"} \intersect {rows[i].mood : i \in DOMAIN rows}

\* Fault: the complaint that comes first in the code wins.
FirstComplaint(complaints) ==
    CHOOSE w \in complaints : w = "lonely" \/ "lonely" \notin complaints

WorstComplaint(complaints) ==
    CHOOSE w \in complaints :
        \/ w = "scary"
        \/ w = "errory" /\ "scary" \notin complaints
        \/ w = "lonely" /\ complaints = {"lonely"}

\* The "quiet" of a mailbox without sides is never reached: see UsageServer.
MailboxResult(rows, pruned) ==
    CASE Len(rows) > 2            -> "crowded"
      [] Len(rows) <= 2 /\ pruned -> "pruney"
      [] Len(rows) <= 2 /\ ~pruned /\ Complaint(rows) # {} -> WorstComplaint(Complaint(rows))
      [] Len(rows) = 2 /\ ~pruned /\ Complaint(rows) = {}  -> "happy"
      [] Len(rows) = 1 /\ ~pruned /\ Complaint(rows) = {}  -> "lonely"

Summary(rows, deleted, blur, result) ==
    LET times == Sorted(rows)
    IN [started |-> Rounded(times[1], blur), waited |-> Waited(times),
        total |-> deleted - times[1], result |-> result]

SummarizeNameplate(rows, deleted, pruned, blur) ==
    Summary(rows, deleted, blur, NameplateResult(rows, pruned))

SummarizeMailbox(rows, deleted, pruned, blur) ==
    Summary(rows, deleted, blur, MailboxResult(rows, pruned))

-----------------------------------------------------------------------------
\* docs/operations.md:42-44 "waiting_time: interval from start to the second side
\* appearing", "total_time: interval from start to retirement": in whatever
\* order the sides' rows come, the times are those of the earliest and of the
\* next side to arrive.
TimesTell(rows, deleted, blur, row) ==
    \E i \in DOMAIN rows :
        /\ \A j \in DOMAIN rows : rows[i].added <= rows[j].added
        /\ row.total = deleted - rows[i].added
        /\ \/ row.waited = None /\ DOMAIN rows = {i}
           \/ \E j \in DOMAIN rows \ {i} :
                 /\ row.waited = rows[j].added - rows[i].added
                 /\ \A k \in DOMAIN rows \ {i} : rows[j].added <= rows[k].added

\* usage-v2.sql:18 "rounded to blur time": a rounded time is a multiple of the
\* interval, not later than the exact one and within an interval of it, so that
\* times within one interval cannot be told apart.
IsBlurred(time, blur, rounded) ==
    IF blur \in {None, 0}
      THEN rounded = time
      ELSE /\ \E k \in 0..rounded : rounded = k * blur
           /\ rounded <= time
           /\ time < rounded + blur

\* The start of a row is the first arrival, rounded.
StartIsBlurred(rows, blur, row) ==
    \A i \in DOMAIN rows :
        (\A j \in DOMAIN rows : rows[i].added <= rows[j].added) =>
            IsBlurred(rows[i].added, blur, row.started)

\* docs/operations.md:62 "the server records the most severe mood in the record",
\* with the severities of usage-v2.sql:39-45: what a side reports is not hidden
\* by what the other one does, and a happy mailbox has two sides of which
\* neither complained.
MoodTells(rows, pruned, row) ==
    LET Says(w) == \E i \in DOMAIN rows : rows[i].mood = w
        plain   == ~pruned /\ Len(rows) <= 2
    IN /\ row.result = "crowded" <=> Len(rows) > 2
       /\ row.result = "pruney"  <=> pruned /\ Len(rows) <= 2
       /\ row.result = "scary"   <=> plain /\ Says("scary")
       /\ row.result = "errory"  <=> plain /\ Says("errory") /\ ~Says("scary")
       /\ row.result = "happy"   <=> /\ plain
                                     /\ Len(rows) = 2
                                     /\ ~\E w \in {"scary", "errory", "lonely"} : Says(w)
=============================================================================
