------------------------- MODULE ComputationProofs -------------------------
(***************************************************************************)
(* What the parts of the program that only compute return, for every input *)
(* they can get.  Each result is stated twice: of the functions, whatever  *)
(* the size of the input, and as an invariant of MCFunctions, which calls  *)
(* them.                                                                   *)
(***************************************************************************)
EXTENDS MCFunctions, FiniteSetTheorems, SequenceTheorems, TLAPS

-----------------------------------------------------------------------------
(* Sorting the times at which the sides of a nameplate or mailbox came. *)

\* A side's place in the order of arrival is the number of those that do not
\* come after it: two that came in the same second keep their order.
NotAfter(t, n, i) == {j \in 1..n : t[j] < t[i] \/ (t[j] = t[i] /\ j <= i)}

LEMMA PlaceOf ==
    ASSUME NEW n \in Nat, NEW t \in [1..n -> Int], NEW i \in 1..n
    PROVE  /\ IsFiniteSet(NotAfter(t, n, i))
           /\ Cardinality(NotAfter(t, n, i)) \in 1..n
<1>1. IsFiniteSet(1..n) /\ Cardinality(1..n) = n
  BY FS_Interval
<1>2. NotAfter(t, n, i) \subseteq 1..n /\ i \in NotAfter(t, n, i)
  BY DEF NotAfter
<1>3. IsFiniteSet(NotAfter(t, n, i)) /\ Cardinality(NotAfter(t, n, i)) <= n
  BY <1>1, <1>2, FS_Subset
<1>4. Cardinality(NotAfter(t, n, i)) \in Nat
  BY <1>3, FS_CardinalityType
<1>5. Cardinality(NotAfter(t, n, i)) # 0
  BY <1>2, <1>3, FS_EmptySet
<1> QED BY <1>3, <1>4, <1>5

LEMMA PlacesDiffer ==
    ASSUME NEW n \in Nat, NEW t \in [1..n -> Int], NEW i \in 1..n, NEW j \in 1..n,
           t[i] < t[j] \/ (t[i] = t[j] /\ i < j)
    PROVE  Cardinality(NotAfter(t, n, i)) < Cardinality(NotAfter(t, n, j))
<1>1. NotAfter(t, n, i) \subseteq NotAfter(t, n, j)
  BY DEF NotAfter
<1>2. j \in NotAfter(t, n, j) /\ j \notin NotAfter(t, n, i)
  BY DEF NotAfter
<1>3. IsFiniteSet(NotAfter(t, n, j)) /\ Cardinality(NotAfter(t, n, j)) \in 1..n
  BY PlaceOf
<1>4. Cardinality(NotAfter(t, n, i)) \in 1..n
  BY PlaceOf
<1>5. /\ Cardinality(NotAfter(t, n, i)) <= Cardinality(NotAfter(t, n, j))
      /\ Cardinality(NotAfter(t, n, i)) # Cardinality(NotAfter(t, n, j))
  BY <1>1, <1>2, <1>3, FS_Subset
<1> QED BY <1>3, <1>4, <1>5

\* Python's sorted: whatever the times, they can be put in order.
LEMMA CanBeSorted ==
    ASSUME NEW n \in Nat, NEW t \in [1..n -> Int]
    PROVE  \E p \in Bijection(1..n, 1..n) :
              \A i, j \in 1..n : i < j => t[p[i]] <= t[p[j]]
<1> DEFINE place == [i \in 1..n |-> Cardinality(NotAfter(t, n, i))]
           p     == [k \in 1..n |-> CHOOSE i \in 1..n : place[i] = k]
<1>1. place \in [1..n -> 1..n]
  BY PlaceOf
<1>2. ASSUME NEW i \in 1..n, NEW j \in 1..n, place[i] = place[j]
      PROVE  i = j
  <2>1. t[i] \in Int /\ t[j] \in Int
    OBVIOUS
  <2>2. place[i] \in 1..n /\ place[i] = Cardinality(NotAfter(t, n, i))
                          /\ place[j] = Cardinality(NotAfter(t, n, j))
    BY <1>1
  <2>3. ~(t[i] < t[j] \/ (t[i] = t[j] /\ i < j))
    BY <1>2, <2>2, PlacesDiffer
  <2>4. ~(t[j] < t[i] \/ (t[j] = t[i] /\ j < i))
    BY <1>2, <2>2, PlacesDiffer
  <2> QED BY <2>1, <2>3, <2>4
<1>3. place \in Injection(1..n, 1..n)
  BY <1>1, <1>2 DEF Injection, IsInjective
<1>4. place \in Surjection(1..n, 1..n)
  BY <1>3, FS_Interval, FS_Injection
<1>5. \A k \in 1..n : \E i \in 1..n : place[i] = k
  BY <1>4 DEF Surjection
<1>6. ASSUME NEW k \in 1..n
      PROVE  p[k] \in 1..n /\ place[p[k]] = k
  BY <1>5
<1> HIDE DEF p
<1>7. p \in [1..n -> 1..n]
  BY <1>6 DEF p
<1>8. p \in Injection(1..n, 1..n)
  <2>1. \A a, b \in 1..n : p[a] = p[b] => a = b
    BY <1>6
  <2> QED BY <1>7, <2>1 DEF Injection, IsInjective
<1>9. p \in Surjection(1..n, 1..n)
  BY <1>8, FS_Interval, FS_Injection
<1>10. ASSUME NEW i \in 1..n, NEW j \in 1..n, i < j
       PROVE  t[p[i]] <= t[p[j]]
  <2>1. p[i] \in 1..n /\ p[j] \in 1..n /\ place[p[i]] = i /\ place[p[j]] = j
    BY <1>6
  <2>2. Cardinality(NotAfter(t, n, p[i])) = i /\ Cardinality(NotAfter(t, n, p[j])) = j
    BY <2>1
  <2>3. ~(t[p[j]] < t[p[i]])
    <3>1. SUFFICES ASSUME t[p[j]] < t[p[i]] PROVE FALSE
      OBVIOUS
    <3>2. Cardinality(NotAfter(t, n, p[j])) < Cardinality(NotAfter(t, n, p[i]))
      BY <2>1, <3>1, PlacesDiffer
    <3> QED BY <1>10, <2>2, <3>2
  <2>4. t[p[i]] \in Int /\ t[p[j]] \in Int
    BY <2>1
  <2> QED BY <2>3, <2>4
<1>11. p \in Bijection(1..n, 1..n)
  BY <1>8, <1>9 DEF Bijection
<1> QED BY <1>10, <1>11

-----------------------------------------------------------------------------
(* What a usage row says. *)

\* A table with a row for each of n sides.
Table(n) == [1..n -> [added : Nat, mood : Moods \union {None}]]

Intervals == Nat \union {None}

LEMMA ArrivalOrder ==
    ASSUME NEW n \in Nat \ {0}, NEW rows \in Table(n)
    PROVE  \E p \in Bijection(1..n, 1..n) :
              /\ \A i, j \in 1..n : i < j => rows[p[i]].added <= rows[p[j]].added
              /\ Sorted(rows) = [i \in 1..n |-> rows[p[i]].added]
<1> DEFINE t == [i \in 1..n |-> rows[i].added]
<1>1. t \in [1..n -> Int] /\ DOMAIN rows = 1..n
  BY DEF Table
<1>2. PICK q \in Bijection(1..n, 1..n) : \A i, j \in 1..n : i < j => t[q[i]] <= t[q[j]]
  BY <1>1, CanBeSorted
<1>3. \A p \in Bijection(1..n, 1..n) : \A i \in 1..n : p[i] \in 1..n
  BY DEF Bijection, Injection
<1> DEFINE InOrder(p) == \A i, j \in 1..n : i < j => rows[p[i]].added <= rows[p[j]].added
           order == CHOOSE p \in Bijection(1..n, 1..n) : InOrder(p)
<1>4. InOrder(q)
  BY <1>2, <1>3
<1>5. order \in Bijection(1..n, 1..n) /\ InOrder(order)
  BY <1>4
<1>6. Sorted(rows) = [i \in 1..n |-> rows[order[i]].added]
  BY <1>1 DEF Sorted
<1> QED BY <1>5, <1>6

\* The first of the times is that of a side nobody came before, and the second, of
\* more than one, that of a side only that one came before.
LEMMA FirstAndSecond ==
    ASSUME NEW n \in Nat \ {0}, NEW rows \in Table(n)
    PROVE  \E i \in 1..n :
              /\ Sorted(rows)[1] = rows[i].added
              /\ \A j \in 1..n : rows[i].added <= rows[j].added
              /\ n > 1 => \E j \in (1..n) \ {i} :
                             /\ Sorted(rows)[2] = rows[j].added
                             /\ \A k \in (1..n) \ {i} : rows[j].added <= rows[k].added
<1>1. PICK p \in Bijection(1..n, 1..n) :
              /\ \A i, j \in 1..n : i < j => rows[p[i]].added <= rows[p[j]].added
              /\ Sorted(rows) = [i \in 1..n |-> rows[p[i]].added]
  BY ArrivalOrder
<1>2. /\ \A i \in 1..n : p[i] \in 1..n
      /\ \A i, j \in 1..n : p[i] = p[j] => i = j
      /\ \A k \in 1..n : \E i \in 1..n : p[i] = k
  BY DEF Bijection, Injection, IsInjective, Surjection
<1>3. \A i \in 1..n : rows[i].added \in Nat
  BY DEF Table
<1>4. 1 \in 1..n /\ p[1] \in 1..n /\ Sorted(rows)[1] = rows[p[1]].added
  BY <1>1, <1>2
<1>5. ASSUME NEW j \in 1..n
      PROVE  rows[p[1]].added <= rows[j].added
  <2>1. PICK i \in 1..n : p[i] = j
    BY <1>2
  <2>2. CASE i = 1
    BY <2>1, <2>2, <1>3
  <2>3. CASE 1 < i
    BY <2>1, <2>3, <1>1, <1>4
  <2> QED BY <2>2, <2>3
<1>6. ASSUME n > 1
      PROVE  /\ p[2] \in (1..n) \ {p[1]}
             /\ Sorted(rows)[2] = rows[p[2]].added
             /\ \A k \in (1..n) \ {p[1]} : rows[p[2]].added <= rows[k].added
  <2>0. 1 \in 1..n /\ 2 \in 1..n /\ 1 # 2
    BY <1>6
  <2>1. 2 \in 1..n /\ p[2] \in 1..n /\ p[2] # p[1]
    BY <1>2, <2>0
  <2>2. ASSUME NEW k \in (1..n) \ {p[1]}
        PROVE  rows[p[2]].added <= rows[k].added
    <3>1. PICK i \in 1..n : p[i] = k /\ i # 1
      BY <1>2
    <3>2. CASE i = 2
      BY <3>1, <3>2, <1>3
    <3>3. CASE 2 < i
      BY <3>1, <3>3, <2>1, <1>1
    <3> QED BY <3>1, <3>2, <3>3
  <2> QED BY <1>1, <2>1, <2>2
<1>7. n > 1 => \E j \in (1..n) \ {p[1]} :
                  /\ Sorted(rows)[2] = rows[j].added
                  /\ \A k \in (1..n) \ {p[1]} : rows[j].added <= rows[k].added
  BY <1>6
<1> QED BY <1>4, <1>5, <1>7

\* docs/operations.md:42-44, of a nameplate or mailbox with any number of sides, in
\* whatever order their rows are read: what the usage row says of the first and
\* of the second arrival and of the end is so.
THEOREM TimesAreRight ==
    ASSUME NEW n \in Nat \ {0}, NEW rows \in Table(n), NEW deleted, NEW blur, NEW result
    PROVE  TimesTell(rows, deleted, blur, Summary(rows, deleted, blur, result))
<1> DEFINE row == Summary(rows, deleted, blur, result)
<1>1. DOMAIN rows = 1..n
  BY DEF Table
<1>2. PICK i \in 1..n :
              /\ Sorted(rows)[1] = rows[i].added
              /\ \A j \in 1..n : rows[i].added <= rows[j].added
              /\ n > 1 => \E j \in (1..n) \ {i} :
                             /\ Sorted(rows)[2] = rows[j].added
                             /\ \A k \in (1..n) \ {i} : rows[j].added <= rows[k].added
  BY FirstAndSecond
<1>3. Len(Sorted(rows)) = n
  BY ArrivalOrder
<1>4. /\ row.total = deleted - rows[i].added
      /\ row.waited = IF n > 1 THEN Sorted(rows)[2] - rows[i].added ELSE None
  BY <1>2, <1>3 DEF Summary, Waited
<1> HIDE DEF row
<1>5. CASE n = 1
  <2>1. row.waited = None /\ DOMAIN rows = {i}
    BY <1>1, <1>4, <1>5
  <2> QED BY <1>1, <1>2, <1>4, <2>1 DEF TimesTell, row
<1>6. CASE n > 1
  <2>1. PICK j \in (1..n) \ {i} :
            /\ Sorted(rows)[2] = rows[j].added
            /\ \A k \in (1..n) \ {i} : rows[j].added <= rows[k].added
    BY <1>2, <1>6
  <2>2. row.waited = rows[j].added - rows[i].added
    BY <1>4, <1>6, <2>1
  <2> QED BY <1>1, <1>2, <1>4, <2>1, <2>2 DEF TimesTell, row
<1> QED BY <1>5, <1>6

\* usage-v2.sql:18: rounding down by --blur-usage loses less than one interval, and
\* leaves only multiples of it.
LEMMA RoundedIsBlurred ==
    ASSUME NEW time \in Nat, NEW blur \in Intervals
    PROVE  IsBlurred(time, blur, Rounded(time, blur))
<1>1. CASE blur \in {None, 0}
  BY <1>1 DEF IsBlurred, Rounded
<1>2. CASE blur \notin {None, 0}
  <2>1. blur \in Nat \ {0}
    BY <1>2 DEF Intervals
  <2> DEFINE k == time \div blur
  <2>2. k \in Nat
    BY <2>1
  <2>3. blur * k <= time /\ time < blur * k + blur
    BY <2>1
  <2> HIDE DEF k
  <2>4. k <= blur * k /\ blur * k = k * blur
    BY <2>1, <2>2
  <2>5. Rounded(time, blur) = blur * k
    BY <1>2 DEF Rounded, k
  <2> QED BY <1>2, <2>2, <2>3, <2>4, <2>5 DEF IsBlurred
<1> QED BY <1>1, <1>2

\* No usage row tells the second in which the first side came.
THEOREM StartsAreBlurred ==
    ASSUME NEW n \in Nat \ {0}, NEW rows \in Table(n), NEW deleted, NEW blur \in Intervals, NEW result
    PROVE  StartIsBlurred(rows, blur, Summary(rows, deleted, blur, result))
<1>1. DOMAIN rows = 1..n /\ \A j \in 1..n : rows[j].added \in Nat
  BY DEF Table
<1>2. PICK first \in 1..n :
              /\ Sorted(rows)[1] = rows[first].added
              /\ \A j \in 1..n : rows[first].added <= rows[j].added
  BY FirstAndSecond
<1>3. Summary(rows, deleted, blur, result).started = Rounded(rows[first].added, blur)
  BY <1>2 DEF Summary
<1>4. ASSUME NEW i \in 1..n, \A j \in 1..n : rows[i].added <= rows[j].added
      PROVE  rows[i].added = rows[first].added
  BY <1>1, <1>2, <1>4
<1> QED BY <1>1, <1>3, <1>4, RoundedIsBlurred DEF StartIsBlurred

\* docs/operations.md:62: the mood recorded of a mailbox is the most severe one.
THEOREM MoodIsWorst ==
    ASSUME NEW n \in Nat \ {0}, NEW rows \in Table(n), NEW deleted, NEW pruned \in BOOLEAN, NEW blur
    PROVE  MoodTells(rows, pruned, SummarizeMailbox(rows, deleted, pruned, blur))
<1> DEFINE Says(w) == \E i \in DOMAIN rows : rows[i].mood = w
           result == MailboxResult(rows, pruned)
<1>1. Len(rows) = n
  BY DEF Table
<1>2. SummarizeMailbox(rows, deleted, pruned, blur).result = result
  BY DEF SummarizeMailbox, Summary
<1>3. \A w \in {"scary", "errory", "lonely"} : w \in Complaint(rows) <=> Says(w)
  BY DEF Complaint
<1>4. Complaint(rows) \subseteq {"scary", "errory", "lonely"}
  BY DEF Complaint
<1>5. ASSUME Complaint(rows) # {}
      PROVE  /\ WorstComplaint(Complaint(rows)) \in Complaint(rows)
             /\ WorstComplaint(Complaint(rows)) = "scary" <=> "scary" \in Complaint(rows)
             /\ WorstComplaint(Complaint(rows)) = "errory"
                   <=> "errory" \in Complaint(rows) /\ "scary" \notin Complaint(rows)
  <2> DEFINE c == Complaint(rows)
             IsWorst(w) == \/ w = "scary"
                           \/ w = "errory" /\ "scary" \notin c
                           \/ w = "lonely" /\ c = {"lonely"}
  <2>1. \E w \in c : IsWorst(w)
    BY <1>4, <1>5
  <2>2. WorstComplaint(c) \in c /\ IsWorst(WorstComplaint(c))
    BY <2>1 DEF WorstComplaint
  <2> HIDE DEF c
  <2> QED BY <2>2 DEF c
<1>6. CASE n > 2
  <2>1. result = "crowded"
    BY <1>1, <1>6 DEF MailboxResult
  <2> HIDE DEF result
  <2> QED BY <1>1, <1>2, <1>6, <2>1 DEF MoodTells
<1>7. CASE n <= 2 /\ pruned
  <2>1. result = "pruney"
    BY <1>1, <1>7 DEF MailboxResult
  <2> HIDE DEF result
  <2> QED BY <1>1, <1>2, <1>7, <2>1 DEF MoodTells
<1>8. CASE n <= 2 /\ ~pruned /\ Complaint(rows) # {}
  <2>1. result = WorstComplaint(Complaint(rows))
    BY <1>1, <1>8 DEF MailboxResult
  <2>2. result \in {"scary", "errory", "lonely"}
    BY <1>4, <1>5, <1>8, <2>1
  <2> HIDE DEF result
  <2>3. /\ result = "scary" <=> Says("scary")
        /\ result = "errory" <=> Says("errory") /\ ~Says("scary")
        /\ \E w \in {"scary", "errory", "lonely"} : Says(w)
    BY <1>3, <1>4, <1>5, <1>8, <2>1
  <2> QED BY <1>1, <1>2, <1>8, <2>2, <2>3 DEF MoodTells
<1>9. CASE n <= 2 /\ ~pruned /\ Complaint(rows) = {}
  <2>1. result = IF n = 2 THEN "happy" ELSE "lonely"
    BY <1>1, <1>9 DEF MailboxResult
  <2> HIDE DEF result
  <2>2. ~Says("scary") /\ ~Says("errory") /\ ~Says("lonely")
    BY <1>3, <1>9
  <2> QED BY <1>1, <1>2, <1>9, <2>1, <2>2 DEF MoodTells
<1> QED BY <1>6, <1>7, <1>8, <1>9

-----------------------------------------------------------------------------
(* The limit on open files. *)

\* increase_rlimits.py:16-20: whatever limits a platform has, if it is one of those
\* told of there, the process starts with no fewer files than it was given, and
\* with the best of the values tried.
THEOREM LimitGoesUp ==
    ASSUME NEW p \in Platforms
    PROVE  LimitIsRaised(p, Increased(p))
<1> DEFINE tries == Candidates(p.hard)
           first == {i \in 1..4 : Takes(p, tries[i]) /\ \A j \in 1..(i - 1) : ~Takes(p, tries[j])}
<1>1. /\ p.soft \in Nat /\ p.hard \in Nat /\ p.cap \in Nat /\ p.broken \in BOOLEAN
      /\ p.soft <= p.hard /\ p.soft <= p.cap
      /\ p.cap = Unlimited \/ p.cap < Unlimited
      /\ p.hard = Unlimited \/ p.hard < Unlimited
  BY LimitsAssumption DEF Platforms
<1>2. /\ DOMAIN tries = 1..4 /\ tries[1] = p.hard /\ tries[2] = 10000
      /\ tries[3] = 3200 /\ tries[4] = 1024
  BY DEF Candidates
<1>3. Increased(p) = IF p.soft >= Enough \/ first = {} THEN p.soft ELSE tries[CHOOSE i \in first : TRUE]
  BY <1>2 DEF Increased
<1> HIDE DEF tries
<1>4. CASE p.soft >= Enough
  BY <1>1, <1>3, <1>4 DEF LimitIsRaised, Enough
<1>5. CASE p.soft < Enough /\ first = {}
  <2>1. \A i \in 1..4 : ~Takes(p, tries[i])
    <3>1. 1 \in 1..4 /\ 2 \in 1..4 /\ 3 \in 1..4 /\ 4 \in 1..4
      OBVIOUS
    <3>2. ~Takes(p, tries[1])
      BY <1>5
    <3>3. ~Takes(p, tries[2])
      BY <1>5, <3>2
    <3>4. ~Takes(p, tries[3])
      BY <1>5, <3>2, <3>3
    <3>5. ~Takes(p, tries[4])
      BY <1>5, <3>2, <3>3, <3>4
    <3> QED BY <3>2, <3>3, <3>4, <3>5
  <2>2. \A l \in {p.hard, 10000, 3200, 1024} : ~Takes(p, l)
    BY <1>2, <2>1
  <2> QED BY <1>1, <1>3, <1>5, <2>2 DEF LimitIsRaised
<1>6. CASE p.soft < Enough /\ first # {}
  <2> DEFINE i == CHOOSE k \in first : TRUE
  <2>1. i \in first
    BY <1>6
  <2> HIDE DEF i
  <2>2. i \in 1..4 /\ Takes(p, tries[i]) /\ \A j \in 1..(i - 1) : ~Takes(p, tries[j])
    BY <2>1
  <2> HIDE DEF first
  <2>3. Increased(p) = tries[i]
    BY <1>1, <1>3, <1>6 DEF Enough, i
  <2>4. \A l \in {p.hard, 10000, 3200, 1024} : Takes(p, l) => tries[i] >= l
    <3>1. CASE i = 1
      BY <1>1, <1>2, <2>2, <3>1 DEF Takes
    <3>2. CASE i = 2
      BY <1>1, <1>2, <2>2, <3>2
    <3>3. CASE i = 3
      BY <1>1, <1>2, <2>2, <3>3
    <3>4. CASE i = 4
      BY <1>1, <1>2, <2>2, <3>4
    <3> QED BY <2>2, <3>1, <3>2, <3>3, <3>4
  <2>5. ASSUME Documented(p)
        PROVE  tries[i] >= p.soft
    <3>1. ~p.broken /\ tries[i] \in Nat
      BY <1>1, <1>2, <2>2 DEF Takes
    <3>2. CASE p.hard = p.cap
      <4>1. Takes(p, p.hard)
        BY <1>1, <3>1, <3>2 DEF Takes
      <4> QED BY <1>1, <2>4, <3>1, <4>1
    <3>3. CASE p.hard = Unlimited /\ p.cap = 10240
      <4>1. Takes(p, 10000)
        BY <1>1, <3>1, <3>3 DEF Takes
      <4> QED BY <1>1, <1>6, <2>4, <3>1, <4>1 DEF Enough
    <3>4. CASE p.hard = Unlimited /\ p.cap = 3200
      <4>1. Takes(p, 3200)
        BY <1>1, <3>1, <3>4 DEF Takes
      <4> QED BY <1>1, <2>4, <3>1, <3>4, <4>1
    <3> QED BY <2>5, <3>2, <3>3, <3>4 DEF Documented
  <2> QED BY <2>3, <2>4, <2>5 DEF LimitIsRaised
<1> QED BY <1>1, <1>4, <1>5, <1>6 DEF Enough

-----------------------------------------------------------------------------
(* Where a connection comes from. *)

LEMMA OneField ==
    ASSUME NEW S, NEW a \in S
    PROVE  <<a>> \in Seq(S) /\ Len(<<a>>) = 1 /\ <<a>>[1] = a
OBVIOUS

LEMMA ThreeFields ==
    ASSUME NEW S, NEW a \in S, NEW b \in S, NEW c \in S
    PROVE  /\ <<a, b, c>> \in Seq(S)
           /\ Len(<<a, b, c>>) = 3 /\ Len(<<a, b, c>>) > 1 /\ ~(Len(<<a, b, c>>) > 3)
           /\ <<a, b, c>>[1] = a /\ <<a, b, c>>[2] = b /\ <<a, b, c>>[3] = c
OBVIOUS

LEMMA FourFields ==
    ASSUME NEW S, NEW a \in S, NEW b \in S, NEW c \in S, NEW d \in S
    PROVE  /\ <<a, b, c, d>> \in Seq(S)
           /\ Len(<<a, b, c, d>>) = 4 /\ Len(<<a, b, c, d>>) > 1 /\ Len(<<a, b, c, d>>) > 3
           /\ <<a, b, c, d>>[1] = a /\ <<a, b, c, d>>[2] = b
           /\ <<a, b, c, d>>[3] = c /\ <<a, b, c, d>>[4] = d
           /\ LastField(<<a, b, c, d>>) = d
BY DEF LastField

LEMMA FiveFields ==
    ASSUME NEW S, NEW a \in S, NEW b \in S, NEW c \in S, NEW d \in S, NEW e \in S
    PROVE  /\ <<a, b, c, d, e>> \in Seq(S)
           /\ Len(<<a, b, c, d, e>>) > 1
           /\ <<a, b, c, d, e>>[3] = c
OBVIOUS

\* The same text, parted after the fourth field and after the first.
LEMMA PartedTwice ==
    ASSUME NEW S, NEW a \in S, NEW b \in S, NEW c \in S, NEW d \in S, NEW e \in S
    PROVE  <<a, b, c, d>> \o <<e>> = <<a>> \o <<b, c, d, e>>
<1> DEFINE l == <<a, b, c, d>>
           r == <<b, c, d, e>>
<1>1. l \in Seq(S) /\ Len(l) = 4 /\ l[1] = a /\ l[2] = b /\ l[3] = c /\ l[4] = d
  BY FourFields
<1>2. r \in Seq(S) /\ Len(r) = 4 /\ r[1] = b /\ r[2] = c /\ r[3] = d /\ r[4] = e
  BY FourFields
<1>3. /\ <<a>> \in Seq(S) /\ Len(<<a>>) = 1 /\ <<a>>[1] = a
      /\ <<e>> \in Seq(S) /\ Len(<<e>>) = 1 /\ <<e>>[1] = e
  OBVIOUS
<1> HIDE DEF l, r
<1>4. /\ l \o <<e>> \in Seq(S) /\ Len(l \o <<e>>) = Len(l) + Len(<<e>>)
      /\ \A i \in 1..(Len(l) + Len(<<e>>)) :
            (l \o <<e>>)[i] = IF i <= Len(l) THEN l[i] ELSE <<e>>[i - Len(l)]
  BY <1>1, <1>3, ConcatProperties, Zenon
<1>5. /\ <<a>> \o r \in Seq(S) /\ Len(<<a>> \o r) = Len(<<a>>) + Len(r)
      /\ \A i \in 1..(Len(<<a>>) + Len(r)) :
            (<<a>> \o r)[i] = IF i <= Len(<<a>>) THEN <<a>>[i] ELSE r[i - Len(<<a>>)]
  BY <1>2, <1>3, ConcatProperties, Zenon
<1>6. ASSUME NEW i \in 1..5
      PROVE  (l \o <<e>>)[i] = (<<a>> \o r)[i]
  <2>1. i = 1 \/ i = 2 \/ i = 3 \/ i = 4 \/ i = 5
    OBVIOUS
  <2> QED BY <1>1, <1>2, <1>3, <1>4, <1>5, <2>1
<1>7. Len(l \o <<e>>) = 5 /\ Len(<<a>> \o r) = 5
  BY <1>1, <1>2, <1>3, <1>4, <1>5
<1>8. l \o <<e>> = <<a>> \o r
  BY <1>4, <1>5, <1>6, <1>7, SeqEqual
<1> QED BY <1>8 DEF l, r

\* What is cut out of "tcp6:host:port" is the host and the port.
LEMMA CutOut ==
    ASSUME NEW S, NEW host \in Seq(S), NEW x \in S, NEW y \in S
    PROVE  LET peer == <<x>> \o host \o <<y>>
           IN  HostPart(peer) = host /\ LastField(peer) = y /\ peer[1] = x
<1> DEFINE peer == <<x>> \o host \o <<y>>
<1>1. <<x>> \in Seq(S) /\ <<y>> \in Seq(S) /\ Len(<<x>>) = 1 /\ Len(<<y>>) = 1 /\ Len(host) \in Nat
  BY LenProperties
<1>2. /\ <<x>> \o host \in Seq(S)
      /\ Len(<<x>> \o host) = 1 + Len(host)
      /\ \A i \in 1..(1 + Len(host)) : (<<x>> \o host)[i] = IF i <= 1 THEN <<x>>[i] ELSE host[i - 1]
  BY <1>1, ConcatProperties
<1>3. /\ peer \in Seq(S)
      /\ Len(peer) = 2 + Len(host)
      /\ \A i \in 1..(2 + Len(host)) :
            peer[i] = IF i <= 1 + Len(host) THEN (<<x>> \o host)[i] ELSE <<y>>[i - (1 + Len(host))]
  BY <1>1, <1>2, ConcatProperties
<1> HIDE DEF peer
<1>4. peer[1] = x /\ peer[2 + Len(host)] = y
  BY <1>1, <1>2, <1>3
<1>5. \A i \in 1..Len(host) : peer[i + 1] = host[i]
  BY <1>1, <1>2, <1>3
<1>6. \A i \in 2..(Len(peer) - 1) : peer[i] \in S
  BY <1>1, <1>3, ElementOfSeq
<1>7. /\ HostPart(peer) \in Seq(S)
      /\ Len(HostPart(peer)) = Len(host)
      /\ \A i \in 1..Len(host) : HostPart(peer)[i] = peer[i + 1]
  <2>1. 2 \in Int /\ Len(peer) - 1 \in Int
    BY <1>1, <1>3
  <2>2. /\ SubSeq(peer, 2, Len(peer) - 1) \in Seq(S)
        /\ Len(SubSeq(peer, 2, Len(peer) - 1)) =
              IF 2 <= Len(peer) - 1 THEN (Len(peer) - 1) - 2 + 1 ELSE 0
        /\ \A i \in 1..((Len(peer) - 1) - 2 + 1) : SubSeq(peer, 2, Len(peer) - 1)[i] = peer[2 + i - 1]
    BY <1>6, <2>1, SubSeqProperties
  <2> QED BY <1>1, <1>3, <2>2 DEF HostPart
<1>8. HostPart(peer) = host
  BY <1>5, <1>7, SeqEqual
<1> QED BY <1>3, <1>4, <1>8 DEF LastField, peer

LEMMA StartOf ==
    ASSUME NEW S, NEW host \in Seq(S), Len(host) > 3, NEW a, NEW b, NEW c
    PROVE  SubSeq(host, 1, 3) = <<a, b, c>> <=> host[1] = a /\ host[2] = b /\ host[3] = c
<1> DEFINE start == SubSeq(host, 1, 3)
<1>1. \A i \in 1..3 : host[i] \in S
  BY ElementOfSeq, LenProperties
<1>2. start \in Seq(S) /\ Len(start) = 3 /\ \A i \in 1..3 : start[i] = host[1 + i - 1]
  BY <1>1, SubSeqProperties
<1> HIDE DEF start
<1>3. start[1] = host[1] /\ start[2] = host[2] /\ start[3] = host[3]
  BY <1>2
<1>4. ASSUME host[1] = a, host[2] = b, host[3] = c
      PROVE  start = <<a, b, c>>
  <2>1. a \in S /\ b \in S /\ c \in S
    BY <1>1, <1>4
  <2>2. /\ <<a, b, c>> \in Seq(S) /\ Len(<<a, b, c>>) = 3
        /\ <<a, b, c>>[1] = a /\ <<a, b, c>>[2] = b /\ <<a, b, c>>[3] = c
    BY <2>1, ThreeFields
  <2>3. ASSUME NEW i \in 1..3 PROVE start[i] = <<a, b, c>>[i]
    <3>1. i = 1 \/ i = 2 \/ i = 3
      OBVIOUS
    <3> QED BY <1>3, <1>4, <2>2, <3>1
  <2> QED BY <1>2, <2>2, <2>3, SeqEqual
<1>5. ASSUME start = <<a, b, c>>
      PROVE  host[1] = a /\ host[2] = b /\ host[3] = c
  BY <1>3, <1>5
<1> QED BY <1>4, <1>5 DEF start

\* host.startswith("::ffff:")
LEMMA MappedStart ==
    ASSUME NEW S, NEW host \in Seq(S)
    PROVE  IsMapped(host) <=> Len(host) > 3 /\ host[1] = "" /\ host[2] = "" /\ host[3] = "ffff"
<1>1. ASSUME Len(host) > 3
      PROVE  SubSeq(host, 1, 3) = <<"", "", "ffff">>
                <=> host[1] = "" /\ host[2] = "" /\ host[3] = "ffff"
  BY <1>1, StartOf, Zenon
<1> QED BY <1>1, Zenon DEF IsMapped

\* A client that comes straight, and not by IPv4.
LEMMA DirectPlace ==
    ASSUME NEW S, NEW host \in Seq(S), NEW port \in S, NEW proto \in S, NEW request,
           proto # "tcp6" \/ ~IsMapped(host),
           request = Direct(<<proto>> \o host \o <<port>>)
    PROVE  PeerAddrPort(request) =
              [type |-> IF proto = "tcp6" THEN "ipv6" ELSE "ipv4", host |-> host, port |-> port]
<1> DEFINE peer == <<proto>> \o host \o <<port>>
<1>1. HostPart(peer) = host /\ LastField(peer) = port /\ peer[1] = proto
  BY CutOut
<1>2. request.real = FALSE /\ request.peer = peer
  BY DEF Direct
<1> HIDE DEF peer
<1> QED BY <1>1, <1>2 DEF PeerAddrPort, TypeOfPeer, Unmapped

\* A client that comes by IPv4 to a socket for IPv6.
LEMMA MappedPlace ==
    ASSUME NEW S, NEW host \in Seq(S), NEW port \in S, "tcp6" \in S, NEW request,
           IsMapped(host),
           request = Direct(<<"tcp6">> \o host \o <<port>>)
    PROVE  PeerAddrPort(request) = [type |-> "ipv4", host |-> <<LastField(host)>>, port |-> port]
<1> DEFINE peer == <<"tcp6">> \o host \o <<port>>
<1>1. HostPart(peer) = host /\ LastField(peer) = port /\ peer[1] = "tcp6"
  BY CutOut
<1>2. request.real = FALSE /\ request.peer = peer
  BY DEF Direct
<1> HIDE DEF peer
<1> QED BY <1>1, <1>2 DEF PeerAddrPort, TypeOfPeer, Unmapped

LEMMA PlaceTold ==
    ASSUME NEW client, NEW port, NEW request, client.type \in {"ipv4", "ipv6"},
           PeerAddrPort(request) = [type |-> client.type, host |-> client.host, port |-> port]
    PROVE  SamePlace(client, port, request)
<1> DEFINE a == PeerAddrPort(request)
<1>1. YourAddress(a) = [key \in {"port", client.type} |-> IF key = "port" THEN port ELSE client.host]
  BY DEF YourAddress
<1>2. client.type # "port"
  OBVIOUS
<1> QED BY <1>1, <1>2 DEF SamePlace

LEMMA V4Place ==
    ASSUME NEW client \in V4Clients, NEW port, NEW request \in Requests(client, port)
    PROVE  SamePlace(client, port, request)
<1>1. PICK h \in V4Hosts : client = [type |-> "ipv4", host |-> <<h>>]
  BY DEF V4Clients
<1>2. PICK empty : empty = ""
  OBVIOUS
<1>3. PICK S : {empty, "ffff", "tcp4", "tcp6", h, port} = S
  OBVIOUS
<1>4. empty \in S /\ "ffff" \in S /\ "tcp4" \in S /\ "tcp6" \in S /\ h \in S /\ port \in S
  BY <1>3
<1>5. <<h>> \in Seq(S)
  BY <1>4, OneField
<1>6. PICK mapped : mapped = <<empty, empty, "ffff", h>>
  OBVIOUS
<1>7. mapped \in Seq(S) /\ IsMapped(mapped) /\ LastField(mapped) = h
  <2>1. mapped \in Seq(S) /\ Len(mapped) > 3 /\ LastField(mapped) = h
    BY <1>4, <1>6, FourFields
  <2>2. mapped[1] = empty /\ mapped[2] = empty /\ mapped[3] = "ffff"
    BY <1>6
  <2> QED BY <1>2, <2>1, <2>2, MappedStart, Zenon
<1>8. <<"tcp6", empty, empty, "ffff">> \o <<h>> = <<"tcp6">> \o mapped
  BY <1>4, <1>6, PartedTwice
<1>9. CASE request = Proxied(client, port)
  <2>1. PeerAddrPort(request) = [type |-> "ipv4", host |-> <<h>>, port |-> port]
    BY <1>1, <1>9 DEF Proxied, PeerAddrPort, TypeOfRealIP
  <2> QED BY <1>1, <2>1, PlaceTold
<1>10. CASE request = Direct(<<"tcp4">> \o client.host \o <<port>>)
  <2>1. request = Direct(<<"tcp4">> \o <<h>> \o <<port>>) /\ "tcp4" # "tcp6"
    BY <1>1, <1>10
  <2>2. PeerAddrPort(request) = [type |-> "ipv4", host |-> <<h>>, port |-> port]
    BY <1>4, <1>5, <2>1, DirectPlace
  <2> QED BY <1>1, <2>2, PlaceTold
<1>11. CASE request = Direct(<<"tcp6", "", "", "ffff">> \o client.host \o <<port>>)
  <2>1. request = Direct(<<"tcp6", empty, empty, "ffff">> \o client.host \o <<port>>)
    BY <1>2, <1>11, Zenon
  <2>2. request = Direct(<<"tcp6">> \o mapped \o <<port>>)
    BY <1>1, <1>8, <2>1
  <2>3. PeerAddrPort(request) = [type |-> "ipv4", host |-> <<h>>, port |-> port]
    BY <1>4, <1>7, <2>2, MappedPlace
  <2> QED BY <1>1, <2>3, PlaceTold
<1> QED BY <1>1, <1>9, <1>10, <1>11, Zenon DEF Requests

\* V6Clients, with its two fixed fields as parameters.
V6With(empty, ffff) ==
    {[type |-> "ipv6", host |-> <<empty, empty, f>>] : f \in V6Fields \union {ffff}}
        \union {[type |-> "ipv6", host |-> <<f, empty, ffff, g>>] : f, g \in V6Fields}
        \union {[type |-> "ipv6", host |-> <<empty, empty, f, ffff, g>>] : f, g \in V6Fields}

\* The three ways such an address may be written.
V6Written(client, empty, ffff) ==
    \/ \E f \in V6Fields \union {ffff} : client = [type |-> "ipv6", host |-> <<empty, empty, f>>]
    \/ \E f, g \in V6Fields : client = [type |-> "ipv6", host |-> <<f, empty, ffff, g>>]
    \/ \E f, g \in V6Fields : client = [type |-> "ipv6", host |-> <<empty, empty, f, ffff, g>>]

LEMMA V6ClientsAre == V6Clients = V6With("", "ffff")
BY DEF V6Clients, V6With

LEMMA V6IsWritten ==
    ASSUME NEW empty, NEW ffff, NEW client \in V6With(empty, ffff)
    PROVE  V6Written(client, empty, ffff)
BY DEF V6With, V6Written

\* None of the addresses that are IPv6 is taken for a mapped one.
LEMMA V6Host ==
    ASSUME NEW client \in V6Clients, NEW S, V6Fields \union {"", "ffff"} \subseteq S
    PROVE  \E host \in Seq(S) :
              client = [type |-> "ipv6", host |-> host] /\ Len(host) > 1 /\ ~IsMapped(host)
<1>1. "" \in S /\ "ffff" \in S /\ \A f \in V6Fields : f \in S /\ f # "" /\ f # "ffff"
  BY FieldsAssumption
<1>2. ASSUME NEW f \in V6Fields \union {"ffff"}, NEW host, host = <<"", "", f>>
      PROVE  host \in Seq(S) /\ Len(host) > 1 /\ ~IsMapped(host)
  <2>1. f \in S
    BY <1>1
  <2>2. host \in Seq(S) /\ Len(host) > 1 /\ ~(Len(host) > 3)
    BY <1>1, <1>2, <2>1, ThreeFields, Zenon
  <2> QED BY <2>2, Zenon DEF IsMapped
<1>3. ASSUME NEW f \in V6Fields, NEW g \in V6Fields, NEW host, host = <<f, "", "ffff", g>>
      PROVE  host \in Seq(S) /\ Len(host) > 1 /\ ~IsMapped(host)
  <2>1. host \in Seq(S) /\ Len(host) > 1 /\ host[1] = f
    BY <1>1, <1>3, FourFields, Zenon
  <2> QED BY <1>1, <2>1, MappedStart, Zenon
<1>4. ASSUME NEW f \in V6Fields, NEW g \in V6Fields, NEW host, host = <<"", "", f, "ffff", g>>
      PROVE  host \in Seq(S) /\ Len(host) > 1 /\ ~IsMapped(host)
  <2>1. host \in Seq(S) /\ Len(host) > 1 /\ host[3] = f
    BY <1>1, <1>4, FiveFields, Zenon
  <2> QED BY <1>1, <2>1, MappedStart, Zenon
<1>5. V6Written(client, "", "ffff")
  BY V6ClientsAre, V6IsWritten, Zenon
<1> QED BY <1>2, <1>3, <1>4, <1>5, Zenon DEF V6Written

LEMMA V6Place ==
    ASSUME NEW client \in V6Clients, NEW port, NEW request \in Requests(client, port)
    PROVE  SamePlace(client, port, request)
<1> DEFINE S == V6Fields \union {"", "ffff"} \union {"tcp6", port}
<1>1. V6Fields \union {"", "ffff"} \subseteq S /\ "tcp6" \in S /\ port \in S
  OBVIOUS
<1> HIDE DEF S
<1>2. PICK host \in Seq(S) :
              client = [type |-> "ipv6", host |-> host] /\ Len(host) > 1 /\ ~IsMapped(host)
  BY <1>1, V6Host
<1>3. CASE request = Proxied(client, port)
  <2>1. PeerAddrPort(request) = [type |-> "ipv6", host |-> host, port |-> port]
    BY <1>2, <1>3 DEF Proxied, PeerAddrPort, TypeOfRealIP
  <2> QED BY <1>2, <2>1, PlaceTold
<1>4. CASE request = Direct(<<"tcp6">> \o client.host \o <<port>>)
  <2>1. request = Direct(<<"tcp6">> \o host \o <<port>>)
    BY <1>2, <1>4
  <2>2. PeerAddrPort(request) = [type |-> "ipv6", host |-> host, port |-> port]
    BY <1>1, <1>2, <2>1, DirectPlace
  <2> QED BY <1>2, <2>2, PlaceTold
<1> QED BY <1>2, <1>3, <1>4 DEF Requests

\* docs/operations.md:15: behind a proxy or not, by IPv4 or by IPv6, mapped or not,
\* a client is recorded, and told of, under its own address.
THEOREM AddressIsTheClients ==
    ASSUME NEW client \in V4Clients \union V6Clients, NEW port, NEW request \in Requests(client, port)
    PROVE  SamePlace(client, port, request)
BY V4Place, V6Place

-----------------------------------------------------------------------------
(* Names of nameplates, and releases. *)

\* server.py:11-19: whatever a client sends as a nameplate, what is accepted are
\* digits, of whatever scripts, but for a line feed at the end.
THEOREM AcceptedNamesAreDigits ==
    ASSUME NEW S, NEW text \in Seq(S)
    PROVE  AcceptedAreDigits(text)
<1>1. CASE text # <<>> /\ text[Len(text)] = LineFeed
  <2> DEFINE short == SubSeq(text, 1, Len(text) - 1)
  <2>1. Len(text) \in Nat \ {0}
    BY <1>1, EmptySeq
  <2>2. \A i \in 1..(Len(text) - 1) : text[i] \in S
    BY <2>1, ElementOfSeq
  <2>3. /\ short \in Seq(S)
        /\ Len(short) = Len(text) - 1
        /\ \A i \in 1..(Len(text) - 1) : short[i] = text[i]
    <3>1. 1 \in Int /\ Len(text) - 1 \in Int /\ (Len(text) - 1) - 1 + 1 = Len(text) - 1
      BY <2>1
    <3>2. /\ short \in Seq(S)
          /\ Len(short) = IF 1 <= Len(text) - 1 THEN (Len(text) - 1) - 1 + 1 ELSE 0
          /\ \A i \in 1..((Len(text) - 1) - 1 + 1) : short[i] = text[1 + i - 1]
      BY <2>2, <3>1, SubSeqProperties
    <3>3. \A i \in 1..(Len(text) - 1) : short[i] = text[i]
      BY <2>1, <3>1, <3>2
    <3>4. Len(short) = Len(text) - 1
      BY <2>1, <3>1, <3>2
    <3> QED BY <3>2, <3>3, <3>4
  <2> HIDE DEF short
  <2>4. WithoutLineFeed(text) = short
    BY <1>1 DEF WithoutLineFeed, short
  <2>5. ASSUME ValidNameplate(text), NEW i \in 1..Len(text)
        PROVE  text[i] \in DecimalDigits \/ (text[i] = LineFeed /\ i = Len(text) /\ i > 1)
    <3>1. short # <<>> /\ \A j \in DOMAIN short : text[j] \in DecimalDigits
      BY <2>4, <2>5 DEF ValidNameplate, OnlyDigits
    <3>2. DOMAIN short = 1..(Len(text) - 1) /\ Len(short) # 0
      BY <2>3, <3>1, EmptySeq, LenProperties
    <3>3. CASE i < Len(text)
      BY <2>1, <3>1, <3>2, <3>3
    <3>4. CASE i = Len(text)
      BY <1>1, <2>1, <2>3, <3>2, <3>4
    <3> QED BY <2>1, <3>3, <3>4
  <2> QED BY <2>5, LenProperties DEF AcceptedAreDigits
<1>2. CASE ~(text # <<>> /\ text[Len(text)] = LineFeed)
  <2>1. WithoutLineFeed(text) = text
    BY <1>2 DEF WithoutLineFeed
  <2> QED BY <2>1 DEF AcceptedAreDigits, ValidNameplate, OnlyDigits
<1> QED BY <1>1, <1>2

\* Python's sorted(...)[-1] by one of the numbers.
LEMMA LargestNumber ==
    ASSUME NEW T, IsFiniteSet(T), T # {}, NEW f, \A t \in T : f[t] \in Int
    PROVE  \E x \in T : \A y \in T : f[y] <= f[x]
<1> DEFINE n == Cardinality(T)
<1>1. n \in Nat /\ n # 0 /\ ExistsBijection(1..n, T)
  BY FS_CardinalityType, FS_EmptySet
<1> HIDE DEF n
<1>2. PICK g \in Bijection(1..n, T) : TRUE
  BY <1>1 DEF ExistsBijection
<1>3. (\A i \in 1..n : g[i] \in T) /\ (\A y \in T : \E i \in 1..n : g[i] = y)
  BY DEF Bijection, Injection, Surjection
<1> DEFINE t == [i \in 1..n |-> f[g[i]]]
<1>4. t \in [1..n -> Int]
  BY <1>3
<1>5. PICK p \in Bijection(1..n, 1..n) : \A i, j \in 1..n : i < j => t[p[i]] <= t[p[j]]
  BY <1>1, <1>4, CanBeSorted
<1>6. (\A i \in 1..n : p[i] \in 1..n) /\ (\A k \in 1..n : \E i \in 1..n : p[i] = k)
  BY DEF Bijection, Injection, Surjection
<1>7. n \in 1..n /\ p[n] \in 1..n /\ g[p[n]] \in T
  <2>1. n \in 1..n
    BY <1>1
  <2>2. p[n] \in 1..n
    BY <1>6, <2>1
  <2> QED BY <1>3, <2>1, <2>2
<1>8. ASSUME NEW y \in T
      PROVE  f[y] <= f[g[p[n]]]
  <2>1. PICK k \in 1..n : g[k] = y
    BY <1>3
  <2>2. PICK i \in 1..n : p[i] = k
    BY <1>6
  <2>3. t[p[i]] = f[y] /\ t[p[n]] = f[g[p[n]]]
    BY <1>7, <2>1, <2>2
  <2>4. t[p[i]] <= t[p[n]]
    <3>1. CASE i = n
      BY <1>4, <1>7, <3>1
    <3>2. CASE i < n
      BY <1>5, <1>7, <3>2
    <3>3. i <= n /\ i \in Int /\ n \in Int
      BY <1>1
    <3> QED BY <3>1, <3>2, <3>3
  <2> QED BY <2>3, <2>4
<1> QED BY <1>7, <1>8

LEMMA LatestExists ==
    ASSUME NEW tags, tags \subseteq Versions, IsFiniteSet(tags), tags # {}
    PROVE  Latest(tags) \in tags /\ \A w \in tags : w = Latest(tags) \/ Older(w, Latest(tags))
<1>0. \A v \in tags : /\ v.major \in 0..MaxNumber /\ v.minor \in 0..MaxNumber /\ v.patch \in 0..MaxNumber
                      /\ v = [major |-> v.major, minor |-> v.minor, patch |-> v.patch]
  BY DEF Versions
<1> DEFINE major == [v \in tags |-> v.major]
           minor == [v \in tags |-> v.minor]
           patch == [v \in tags |-> v.patch]
<1>1. \A v \in tags : major[v] \in Int
  BY <1>0
<1>2. PICK a \in tags : \A w \in tags : w.major <= a.major
  <2>1. \E v \in tags : \A w \in tags : major[w] <= major[v]
    <3> HIDE DEF major
    <3> QED BY <1>1, LargestNumber
  <2> QED BY <2>1
<1> DEFINE A == {v \in tags : v.major = a.major}
<1>3. a \in A /\ IsFiniteSet(A) /\ \A v \in A : minor[v] \in Int
  BY <1>0, FS_Subset
<1>5. PICK b \in A : \A w \in A : w.minor <= b.minor
  <2>1. \E v \in A : \A w \in A : minor[w] <= minor[v]
    <3> HIDE DEF A, minor
    <3> QED BY <1>3, LargestNumber
  <2> QED BY <2>1
<1> DEFINE B == {v \in A : v.minor = b.minor}
<1>6. b \in B /\ IsFiniteSet(B) /\ \A v \in B : patch[v] \in Int
  BY <1>0, <1>3, FS_Subset
<1>8. PICK c \in B : \A w \in B : w.patch <= c.patch
  <2>1. \E v \in B : \A w \in B : patch[w] <= patch[v]
    <3> HIDE DEF B, patch
    <3> QED BY <1>6, LargestNumber
  <2> QED BY <2>1
<1>9. ASSUME NEW w \in tags
      PROVE  w = c \/ Older(w, c)
  <2>1. c \in tags /\ c.major = a.major /\ c.minor = b.minor
    OBVIOUS
  <2>2. CASE w.major # a.major
    BY <1>0, <1>2, <2>1, <2>2 DEF Older, NumberLess
  <2>3. CASE w.major = a.major /\ w.minor # b.minor
    <3>1. w.minor <= b.minor
      BY <1>5, <2>3
    <3> QED BY <1>0, <2>1, <2>3, <3>1 DEF Older, NumberLess
  <2>4. CASE w.major = a.major /\ w.minor = b.minor
    <3>1. w.patch <= c.patch
      BY <1>8, <2>4
    <3>2. CASE w.patch = c.patch
      BY <1>0, <2>1, <2>4, <3>2
    <3>3. CASE w.patch # c.patch
      BY <1>0, <2>1, <2>4, <3>1, <3>3 DEF Older, NumberLess
    <3> QED BY <3>2, <3>3
  <2> QED BY <2>2, <2>3, <2>4
<1>10. \E v \in tags : \A w \in tags : w = v \/ Older(w, v)
  BY <1>9
<1> QED BY <1>10 DEF Latest

\* update-version.py: whatever tags there are and whatever the arguments, a release
\* is one new tag, newer than all of them, or none.
THEOREM ReleaseIsNewest ==
    ASSUME NEW tags, tags \subseteq Versions, IsFiniteSet(tags), tags # {},
           NEW clean \in BOOLEAN, NEW args
    PROVE  ReleasesGoUp(tags, clean, args, Tagged(tags, clean, args))
<1> DEFINE v == Latest(tags)
           new == NewVersion(tags, "--patch" \in args)
<1>1. v \in tags /\ \A w \in tags : w = v \/ Older(w, v)
  BY LatestExists
<1> HIDE DEF v
<1>2. \A w \in tags : w.major \in Nat /\ w.minor \in Nat /\ w.patch \in Nat
  BY MaxNumberAssumption DEF Versions
<1>3. v \in [major : 0..MaxNumber, minor : 0..MaxNumber, patch : 0..MaxNumber]
  BY <1>1 DEF Versions
<1>4. new = IF "--patch" \in args THEN [v EXCEPT !.patch = @ + 1]
                                  ELSE [v EXCEPT !.minor = @ + 1, !.patch = 0]
  BY DEF NewVersion, v
<1> HIDE DEF new
<1>5. CASE clean /\ args \subseteq {"--patch"}
  <2>1. Tagged(tags, clean, args) = tags \union {new}
    <3>1. ExitCode(clean, args) = 0 /\ "--no-tag" \notin args
      BY <1>5 DEF ExitCode, Known
    <3> QED BY <3>1 DEF Tagged, new
  <2>2. \A w \in tags : \/ new.major > w.major
                        \/ new.major = w.major /\ new.minor > w.minor
                        \/ new.major = w.major /\ new.minor = w.minor /\ new.patch > w.patch
    <3>1. \/ new.major = v.major /\ new.minor = v.minor + 1
          \/ new.major = v.major /\ new.minor = v.minor /\ new.patch = v.patch + 1
      BY <1>3, <1>4
    <3> QED BY <1>1, <1>2, <3>1 DEF Older, NumberLess
  <2>3. new \notin tags
    BY <1>2, <2>2
  <2>4. \/ args = {} /\ new.patch = 0
        \/ args = {"--patch"} /\ \E w \in tags : [w EXCEPT !.patch = @ + 1] = new
    <3>1. CASE args = {}
      BY <1>3, <1>4, <3>1
    <3>2. CASE args = {"--patch"}
      BY <1>1, <1>4, <3>2
    <3> QED BY <1>5, <3>1, <3>2
  <2> QED BY <1>5, <2>1, <2>2, <2>3, <2>4 DEF ReleasesGoUp
<1>6. CASE ~(clean /\ args \subseteq {"--patch"})
  <2>1. Tagged(tags, clean, args) = tags
    BY <1>6 DEF Tagged, ExitCode, Known
  <2> QED BY <1>6, <2>1 DEF ReleasesGoUp
<1> QED BY <1>5, <1>6

-----------------------------------------------------------------------------
(* The version of the package. *)

Pluses(text) == {i \in DOMAIN text : text[i] = "+"}

LEMMA PlusesAre ==
    ASSUME NEW text \in Seq(Parts)
    PROVE  Cardinality(Pluses(text)) <= 1 <=> \A i, j \in Pluses(text) : i = j
<1>1. IsFiniteSet(Pluses(text))
  <2>1. IsFiniteSet(1..Len(text))
    BY FS_Interval
  <2>2. Pluses(text) \subseteq 1..Len(text)
    BY DEF Pluses
  <2> QED BY <2>1, <2>2, FS_Subset
<1>2. ASSUME NEW i \in Pluses(text), NEW j \in Pluses(text), i # j
      PROVE  ~(Cardinality(Pluses(text)) <= 1)
  <2>1. IsFiniteSet({i}) /\ Cardinality({i}) = 1
    BY FS_Singleton
  <2>2. Cardinality({i} \union {j}) = Cardinality({i}) + 1
    BY <1>2, <2>1, FS_AddElement
  <2>3. Cardinality({i} \union {j}) <= Cardinality(Pluses(text))
    <3>1. {i} \union {j} \subseteq Pluses(text)
      BY <1>2
    <3> QED BY <1>1, <3>1, FS_Subset
  <2>4. Cardinality(Pluses(text)) \in Nat
    BY <1>1, FS_CardinalityType
  <2> QED BY <2>1, <2>2, <2>3, <2>4
<1>3. ASSUME \A i, j \in Pluses(text) : i = j
      PROVE  Cardinality(Pluses(text)) <= 1
  <2>1. CASE Pluses(text) = {}
    BY <2>1, FS_EmptySet
  <2>2. CASE Pluses(text) # {}
    <3>1. PICK i : Pluses(text) = {i}
      BY <1>3, <2>2
    <3>2. Cardinality({i}) = 1
      BY FS_Singleton
    <3> QED BY <3>1, <3>2
  <2> QED BY <2>1, <2>2
<1> QED BY <1>2, <1>3

OnePlus(text) == \A i, j \in Pluses(text) : i = j

NoPlus(text) == Pluses(text) = {}

LEMMA InOneText ==
    ASSUME NEW S, NEW a \in Seq(S), NEW b \in Seq(S)
    PROVE  /\ a \o b \in Seq(S)
           /\ DOMAIN (a \o b) = 1..(Len(a) + Len(b))
           /\ \A i \in 1..Len(a) : (a \o b)[i] = a[i]
           /\ \A i \in 1..Len(b) : (a \o b)[Len(a) + i] = b[i]
OBVIOUS

LEMMA Joined ==
    ASSUME NEW a \in Seq(Parts), NEW b \in Seq(Parts)
    PROVE  /\ a \o b \in Seq(Parts)
           /\ \A i \in DOMAIN b : \E j \in DOMAIN (a \o b) : (a \o b)[j] = b[i]
           /\ OnePlus(a) /\ NoPlus(b) => OnePlus(a \o b)
           /\ NoPlus(a) /\ OnePlus(b) => OnePlus(a \o b)
<1> DEFINE ab == a \o b
<1>1. /\ ab \in Seq(Parts)
      /\ Len(a) \in Nat /\ Len(b) \in Nat
      /\ DOMAIN a = 1..Len(a) /\ DOMAIN b = 1..Len(b)
      /\ DOMAIN ab = 1..(Len(a) + Len(b))
      /\ \A i \in 1..Len(a) : ab[i] = a[i]
      /\ \A i \in 1..Len(b) : ab[Len(a) + i] = b[i]
  BY InOneText
<1> HIDE DEF ab
<1>2. \A i \in DOMAIN b : \E j \in DOMAIN ab : ab[j] = b[i]
  <2>1. \A i \in 1..Len(b) : Len(a) + i \in 1..(Len(a) + Len(b))
    BY <1>1
  <2> QED BY <1>1, <2>1
<1>3. ASSUME NEW i \in DOMAIN ab
      PROVE  \/ i \in DOMAIN a /\ ab[i] = a[i]
             \/ i - Len(a) \in DOMAIN b /\ ab[i] = b[i - Len(a)]
  <2>1. CASE i <= Len(a)
    BY <1>1, <2>1
  <2>2. CASE i > Len(a)
    <3>1. i - Len(a) \in 1..Len(b) /\ Len(a) + (i - Len(a)) = i
      BY <1>1, <2>2
    <3> QED BY <1>1, <3>1
  <2> QED BY <1>1, <2>1, <2>2
<1>4. ASSUME NEW i \in Pluses(ab)
      PROVE  \/ i \in Pluses(a)
             \/ i - Len(a) \in Pluses(b)
  BY <1>3 DEF Pluses
<1>5. \A i \in Pluses(ab) : i \in Int
  BY <1>1 DEF Pluses
<1>6. OnePlus(a) /\ NoPlus(b) => OnePlus(ab)
  BY <1>4 DEF OnePlus, NoPlus
<1>7. NoPlus(a) /\ OnePlus(b) => OnePlus(ab)
  <2>1. SUFFICES ASSUME NoPlus(a), OnePlus(b), NEW i \in Pluses(ab), NEW j \in Pluses(ab)
                 PROVE  i = j
    BY DEF OnePlus
  <2>2. i - Len(a) = j - Len(a)
    BY <1>4, <2>1 DEF OnePlus, NoPlus
  <2> QED BY <1>1, <1>5, <2>2
<1> QED BY <1>1, <1>2, <1>6, <1>7 DEF ab

LEMMA MadeOf ==
    /\ {"0", "+", ".", "unknown", "untagged.", ".g", ".dirty"} \subseteq Parts
    /\ Commits \subseteq Parts /\ "+" \notin Commits
    /\ \A d \in Distances : ToString(d) \in Parts /\ ToString(d) # "+"
<1>1. "+" \notin Commits /\ \A d \in Distances : ToString(d) # "+"
  BY TextsAssumption
<1>2. \A d \in Distances : ToString(d) \in Parts
  BY Zenon DEF Parts
<1>3. /\ {"0", "+", ".", "unknown", "untagged.", ".g", ".dirty"} \subseteq Parts
      /\ Commits \subseteq Parts
  BY Zenon DEF Parts
<1> QED BY <1>1, <1>2, <1>3

LEMMA NamesAre == /\ \A v \in VersionNames : v \in Seq(Parts) /\ OnePlus(v)
                  /\ \A d \in Directories : d \in Seq(Parts) /\ OnePlus(d)
<1>1. ASSUME NEW v \in VersionNames
      PROVE  v \in Seq(Parts)
  <2>1. v \in ToSet(NameOrder)
    BY NamesAssumption
  <2> QED BY <2>1, TextsAssumption DEF ToSet
<1>2. Directories \subseteq Seq(Parts)
  BY TextsAssumption
<1>3. \A v \in VersionNames \union Directories : Cardinality(Pluses(v)) <= 1
  BY ReleasesAssumption DEF Pluses
<1> QED BY <1>1, <1>2, <1>3, PlusesAre DEF OnePlus

LEMMA OneAdded ==
    ASSUME NEW S, NEW a \in Seq(S), NEW b \in Seq(S)
    PROVE  Len(a) = 3 /\ Len(b) = 1 =>
             /\ a \o b \in Seq(S)
             /\ DOMAIN (a \o b) = 1..4
             /\ (a \o b)[1] = a[1] /\ (a \o b)[2] = a[2] /\ (a \o b)[3] = a[3]
             /\ (a \o b)[4] = b[1]
<1> DEFINE ab == a \o b
<1>1. /\ ab \in Seq(S) /\ DOMAIN ab = 1..(Len(a) + Len(b))
      /\ \A i \in 1..Len(a) : ab[i] = a[i]
      /\ \A i \in 1..Len(b) : ab[Len(a) + i] = b[i]
  BY InOneText
<1> HIDE DEF ab
<1>2. ASSUME Len(a) = 3, Len(b) = 1
      PROVE  /\ ab[1] = a[1] /\ ab[2] = a[2] /\ ab[3] = a[3] /\ ab[4] = b[1]
             /\ DOMAIN ab = 1..4
  <2>1. /\ Len(a) + Len(b) = 4 /\ Len(a) + 1 = 4
        /\ {1, 2, 3} \subseteq 1..Len(a) /\ 1 \in 1..Len(b)
    BY <1>2
  <2> QED BY <1>1, <2>1
<1> QED BY <1>1, <1>2 DEF ab

\* What is added to a tag names the commit and has no "+".
LEMMA Since ==
    ASSUME NEW distance \in Distances, NEW short \in Commits, NEW dirty \in BOOLEAN
    PROVE  LET since == <<ToString(distance), ".g", short>>
                           \o (IF dirty THEN <<".dirty">> ELSE <<>>)
           IN /\ since \in Seq(Parts)
              /\ NoPlus(since)
              /\ \E i \in DOMAIN since : since[i] = short
<1> DEFINE number == ToString(distance)
           first == <<number, ".g", short>>
           since == first \o (IF dirty THEN <<".dirty">> ELSE <<>>)
<1>1. /\ ToString(distance) \in Parts /\ ToString(distance) # "+"
      /\ short \in Parts /\ short # "+"
  BY MadeOf
<1>2. /\ first \in Seq(Parts)
      /\ Len(first) = 3
      /\ first[1] = number /\ first[2] = ".g" /\ first[3] = short
      /\ number \in Parts /\ number # "+"
  <2>1. number \in Parts /\ number # "+" /\ ".g" \in Parts /\ short \in Parts
    BY <1>1, MadeOf
  <2> HIDE DEF number
  <2> QED BY <2>1, ThreeFields
<1> HIDE DEF first, number
<1>3. CASE dirty
  <2>1. since = first \o <<".dirty">>
    BY <1>3
  <2> DEFINE last == <<".dirty">>
  <2>2. last \in Seq(Parts) /\ Len(last) = 1 /\ last[1] = ".dirty"
    BY MadeOf, OneField
  <2> HIDE DEF last
  <2>3. /\ since \in Seq(Parts) /\ DOMAIN since = 1..4
        /\ since[1] = number /\ since[2] = ".g" /\ since[3] = short /\ since[4] = ".dirty"
    <3>1. since = first \o last
      BY <2>1 DEF last
    <3> HIDE DEF since
    <3> QED BY <1>2, <2>2, <3>1, OneAdded
  <2>4. \A i \in 1..4 : since[i] # "+"
    BY <1>1, <1>2, <2>3
  <2>5. 3 \in DOMAIN since
    BY <2>3
  <2> HIDE DEF since
  <2> QED BY <2>3, <2>4, <2>5 DEF NoPlus, Pluses, since, first, number
<1>4. CASE ~dirty
  <2>1. since = first \o <<>>
    BY <1>4
  <2>2. since = first
    BY <1>2, <2>1
  <2>3. \A i \in 1..3 : first[i] # "+"
    BY <1>1, <1>2
  <2>4. 3 \in DOMAIN first /\ DOMAIN first = 1..3
    BY <1>2
  <2>5. NoPlus(first)
    BY <2>3, <2>4 DEF NoPlus, Pluses
  <2> HIDE DEF since
  <2> QED BY <1>2, <2>2, <2>4, <2>5 DEF since, first, number
<1> QED BY <1>3, <1>4

\* render_pep440: the tag of a release that is unchanged, or a text that names the
\* commit, with one "+" at most.
WellRendered(version, tag, unchanged, short) ==
    /\ version \in Seq(Parts)
    /\ OnePlus(version)
    /\ tag # NoVersion /\ unchanged => version = tag
    /\ tag = NoVersion \/ ~unchanged => \E i \in DOMAIN version : version[i] = short

LEMMA RenderedRight ==
    ASSUME NEW tag \in VersionNames \union {NoVersion}, NEW distance \in Distances,
           NEW short \in Commits, NEW dirty \in BOOLEAN
    PROVE  WellRendered(RenderPep440(tag, distance, short, dirty), tag,
                        distance = 0 /\ ~dirty, short)
<1> DEFINE since == <<ToString(distance), ".g", short>>
                       \o (IF dirty THEN <<".dirty">> ELSE <<>>)
           version == RenderPep440(tag, distance, short, dirty)
<1>1. /\ since \in Seq(Parts) /\ NoPlus(since)
      /\ \E i \in DOMAIN since : since[i] = short
  BY Since
<1>2. distance \in Nat
  BY TextsAssumption
<1>3. /\ tag = NoVersion => version = <<"0", "+", "untagged.">> \o since
      /\ tag # NoVersion /\ (distance > 0 \/ dirty) =>
            version = tag \o PlusOrDot(tag) \o since
      /\ tag # NoVersion /\ distance = 0 /\ ~dirty => version = tag
  <2> DEFINE added == since
  <2>1. version = CASE tag = NoVersion -> <<"0", "+", "untagged.">> \o added
                    [] tag # NoVersion /\ (distance > 0 \/ dirty) ->
                          tag \o PlusOrDot(tag) \o added
                    [] tag # NoVersion /\ distance = 0 /\ ~dirty -> tag
    BY Zenon DEF RenderPep440
  <2> HIDE DEF added, version
  <2>2. added = since
    BY DEF added
  <2> HIDE DEF since
  <2> QED BY <1>2, <2>1, <2>2
<1> HIDE DEF since, version
<1>4. CASE tag = NoVersion
  <2> DEFINE start == <<"0", "+", "untagged.">>
  <2>1. start \in Seq(Parts) /\ OnePlus(start)
    <3>1. /\ start \in Seq(Parts) /\ Len(start) = 3
          /\ start[1] # "+" /\ start[3] # "+"
      BY MadeOf, ThreeFields
    <3> HIDE DEF start
    <3>2. \A i \in Pluses(start) : i = 2
      BY <3>1 DEF Pluses
    <3> QED BY <3>1, <3>2 DEF OnePlus
  <2>2. version = start \o since
    BY <1>3, <1>4
  <2> HIDE DEF start
  <2>3. /\ version \in Seq(Parts) /\ OnePlus(version)
        /\ \E i \in DOMAIN version : version[i] = short
    <3>1. /\ start \o since \in Seq(Parts) /\ OnePlus(start \o since)
          /\ \A i \in DOMAIN since : \E j \in DOMAIN (start \o since) :
                (start \o since)[j] = since[i]
      BY <1>1, <2>1, Joined
    <3> QED BY <1>1, <2>2, <3>1
  <2> QED BY <1>4, <2>3, Zenon DEF version, WellRendered
<1>5. CASE tag # NoVersion /\ (distance > 0 \/ dirty)
  <2>1. tag \in Seq(Parts) /\ OnePlus(tag)
    BY <1>5, NamesAre
  <2> DEFINE start == tag \o PlusOrDot(tag)
  <2>2. start \in Seq(Parts) /\ OnePlus(start)
    <3>1. CASE NoPlus(tag)
      <4>1. PlusOrDot(tag) = <<"+">>
        BY <3>1 DEF PlusOrDot, NoPlus, Pluses
      <4>2. <<"+">> \in Seq(Parts) /\ OnePlus(<<"+">>)
        <5> DEFINE plus == <<"+">>
        <5>1. plus \in Seq(Parts) /\ Len(plus) = 1
          BY MadeOf, OneField
        <5> HIDE DEF plus
        <5>2. OnePlus(plus)
          BY <5>1 DEF OnePlus, Pluses
        <5> QED BY <5>1, <5>2 DEF plus
      <4> QED BY <2>1, <3>1, <4>1, <4>2, Joined
    <3>2. CASE ~NoPlus(tag)
      <4>1. PlusOrDot(tag) = <<".">>
        BY <3>2 DEF PlusOrDot, NoPlus, Pluses
      <4>2. <<".">> \in Seq(Parts) /\ NoPlus(<<".">>)
        <5> DEFINE dot == <<".">>
        <5>1. dot \in Seq(Parts) /\ Len(dot) = 1 /\ dot[1] = "."
          BY MadeOf, OneField
        <5> HIDE DEF dot
        <5>2. NoPlus(dot)
          BY <5>1 DEF NoPlus, Pluses
        <5> QED BY <5>1, <5>2 DEF dot
      <4> QED BY <2>1, <4>1, <4>2, Joined
    <3> QED BY <3>1, <3>2
  <2>3. version = start \o since
    BY <1>3, <1>5
  <2> HIDE DEF start
  <2>4. /\ start \o since \in Seq(Parts) /\ OnePlus(start \o since)
        /\ \A i \in DOMAIN since : \E j \in DOMAIN (start \o since) :
              (start \o since)[j] = since[i]
    BY <1>1, <2>2, Joined
  <2>5. /\ version \in Seq(Parts) /\ OnePlus(version)
        /\ \E i \in DOMAIN version : version[i] = short
    BY <1>1, <2>3, <2>4
  <2>6. ~(distance = 0 /\ ~dirty)
    BY <1>2, <1>5
  <2> QED BY <2>5, <2>6, Zenon DEF version, WellRendered
<1>6. CASE tag # NoVersion /\ distance = 0 /\ ~dirty
  <2>1. tag \in Seq(Parts) /\ OnePlus(tag)
    BY <1>6, NamesAre
  <2>2. version = tag
    BY <1>3, <1>6
  <2> QED BY <1>6, <2>1, <2>2, Zenon DEF version, WellRendered
<1> QED BY <1>2, <1>4, <1>5, <1>6

\* sorted(tags): what is cut short comes before the whole.
LEMMA FirstIsShortest ==
    ASSUME NEW names, names \subseteq VersionNames, names # {}
    PROVE  /\ FirstOf(names) \in names
           /\ \A v \in names : ~IsStrictPrefix(v, FirstOf(names))
<1>1. ASSUME NEW v \in names
      PROVE  Place(v) \in DOMAIN NameOrder /\ NameOrder[Place(v)] = v
  <2>1. v \in ToSet(NameOrder)
    BY NamesAssumption
  <2>2. \E i \in DOMAIN NameOrder : NameOrder[i] = v
    BY <2>1, Zenon DEF ToSet
  <2> QED BY <2>2, Zenon DEF Place
<1>2. DOMAIN NameOrder = 1..Len(NameOrder) /\ Len(NameOrder) \in Nat
  BY TextsAssumption
<1> DEFINE places == {Place(v) : v \in names}
           up == [i \in places |-> -i]
<1>3. IsFiniteSet(places) /\ places # {} /\ \A i \in places : i \in Int /\ up[i] \in Int
  <2>1. IsFiniteSet(1..Len(NameOrder))
    BY <1>2, FS_Interval
  <2>2. places \subseteq 1..Len(NameOrder)
    BY <1>1, <1>2
  <2>3. IsFiniteSet(places)
    BY <2>1, <2>2, FS_Subset
  <2> QED BY <2>2, <2>3
<1>4. PICK i \in places : \A j \in places : i <= j
  <2>1. \E i \in places : \A j \in places : up[j] <= up[i]
    <3> HIDE DEF places, up
    <3> QED BY <1>3, LargestNumber
  <2>2. ASSUME NEW i \in places, NEW j \in places, up[j] <= up[i]
        PROVE  i <= j
    <3>1. up[i] = -i /\ up[j] = -j /\ i \in Int /\ j \in Int
      BY <1>3
    <3> QED BY <2>2, <3>1
  <2> HIDE DEF places, up
  <2> QED BY <2>1, <2>2
<1>5. \E n \in names : \A m \in names : Place(n) <= Place(m)
  BY <1>4
<1>6. FirstOf(names) \in names /\ \A m \in names : Place(FirstOf(names)) <= Place(m)
  BY <1>5, Zenon DEF FirstOf
<1>7. ASSUME NEW v \in names, IsStrictPrefix(v, FirstOf(names))
      PROVE  FALSE
  <2> DEFINE first == FirstOf(names)
  <2>1. IsStrictPrefix(NameOrder[Place(v)], NameOrder[Place(first)])
    BY <1>1, <1>6, <1>7
  <2>2. Place(v) < Place(first)
    BY <1>1, <1>6, <2>1, OrderOfNames, Zenon
  <2> QED BY <1>1, <1>2, <1>6, <2>2
<1> QED BY <1>6, <1>7

\* versions_from_parentdir: there is a nearest one.
LEMMA ParentIs ==
    ASSUME NEW t, t.parents \in [1..3 -> Directories \union {NoVersion}]
    PROVE  ParentVersion(t) \in Directories \union {NoVersion}
<1> DEFINE named == {i \in DOMAIN t.parents : t.parents[i] # NoVersion}
<1>1. DOMAIN t.parents = 1..3
  OBVIOUS
<1>2. CASE named = {}
  BY <1>2, Zenon DEF ParentVersion
<1>3. CASE named # {}
  <2> DEFINE nearest == CHOOSE i \in named : \A j \in named : i <= j
  <2>1. named \subseteq {1, 2, 3}
    BY <1>1
  <2>2. \E i \in named : \A j \in named : i <= j
    <3> HIDE DEF named
    <3>1. CASE 1 \in named
      BY <2>1, <3>1
    <3>2. CASE 1 \notin named /\ 2 \in named
      BY <2>1, <3>2
    <3>3. CASE 1 \notin named /\ 2 \notin named
      <4>1. named = {3}
        BY <1>3, <2>1, <3>3
      <4> QED BY <4>1
    <3> QED BY <3>1, <3>2, <3>3
  <2>3. nearest \in named
    <3> HIDE DEF named
    <3> QED BY <2>2, Zenon
  <2>4. ParentVersion(t) = t.parents[nearest]
    BY <1>3, Zenon DEF ParentVersion
  <2>5. nearest \in 1..3
    BY <1>1, <2>3
  <2> HIDE DEF nearest
  <2> QED BY <2>4, <2>5
<1> QED BY <1>2, <1>3

LEMMA UnknownIs == Unknown \in Seq(Parts) /\ OnePlus(Unknown) /\ Unknown \notin VersionNames
<1>1. Unknown \in Seq(Parts) /\ Len(Unknown) = 3 /\ Unknown[1] = "0" /\ Unknown[3] = "unknown"
  BY MadeOf, ThreeFields DEF Unknown
<1>2. \A i \in Pluses(Unknown) : i = 2
  BY <1>1 DEF Pluses
<1>3. Unknown \notin VersionNames
  BY ReleasesAssumption DEF Unknown
<1> QED BY <1>1, <1>2, <1>3 DEF OnePlus

\* get_versions of an archive.
LEMMA ArchiveVersion ==
    ASSUME NEW refs, refs \subseteq Refs
    PROVE  LET released == {r.name : r \in {x \in refs : x.tag}} \intersect VersionNames
               version  == KeywordVersion(refs)
           IN /\ released # {} => /\ version \in released
                                  /\ \A v \in released : ~IsStrictPrefix(v, version)
              /\ (\A r \in refs : r.name \notin VersionNames) => version = Unknown
              /\ version \in Seq(Parts) /\ OnePlus(version)
<1> DEFINE tagged   == {r.name : r \in {x \in refs : x.tag}}
           released == tagged \intersect VersionNames
           likely   == LikelyTags(refs)
           suitable == likely \intersect VersionNames
           version  == KeywordVersion(refs)
<1>1. version = IF suitable = {} THEN Unknown ELSE FirstOf(suitable)
  BY Zenon DEF KeywordVersion
<1>2. released # {} => suitable = released
  <2>1. ASSUME released # {}
        PROVE  \E r \in refs : r.tag
    BY <2>1
  <2>2. (\E r \in refs : r.tag) => likely = tagged
    BY Zenon DEF LikelyTags
  <2> HIDE DEF tagged, likely
  <2> QED BY <2>1, <2>2 DEF released
<1>3. ASSUME \A r \in refs : r.name \notin VersionNames
      PROVE  suitable = {}
  <2>1. \A n \in likely : \E r \in refs : r.name = n
    <3>1. CASE \E r \in refs : r.tag
      BY <3>1 DEF LikelyTags
    <3>2. CASE ~\E r \in refs : r.tag
      BY <3>2 DEF LikelyTags
    <3> QED BY <3>1, <3>2
  <2> HIDE DEF likely
  <2> QED BY <1>3, <2>1
<1> HIDE DEF suitable, version
<1>4. suitable # {} => /\ FirstOf(suitable) \in suitable
                       /\ \A v \in suitable : ~IsStrictPrefix(v, FirstOf(suitable))
  <2>1. suitable \subseteq VersionNames
    BY DEF suitable
  <2> QED BY <2>1, FirstIsShortest
<1>5. version \in Seq(Parts) /\ OnePlus(version)
  <2>1. CASE suitable = {}
    BY <1>1, <2>1, UnknownIs
  <2>2. CASE suitable # {}
    <3>1. version \in VersionNames
      BY <1>1, <1>4, <2>2 DEF suitable
    <3> QED BY <3>1, NamesAre
  <2> QED BY <2>1, <2>2
<1> HIDE DEF released, tagged
<1>6. released # {} => version \in released /\ \A v \in released : ~IsStrictPrefix(v, version)
  BY <1>1, <1>2, <1>4
<1>7. (\A r \in refs : r.name \notin VersionNames) => version = Unknown
  BY <1>1, <1>3
<1> QED BY <1>5, <1>6, <1>7 DEF released, tagged, version

\* What git_pieces_from_vcs and render make of a checkout.
LEMMA CheckoutVersion ==
    ASSUME NEW t, IsTree(t)
    PROVE  \/ GitVersion(t) \in {NoVersion, Raised} /\ t.failing # {}
           \/ GitVersion(t) = <<"unknown">> /\ t.tag = Garbled
           \/ /\ GitVersion(t) = RenderPep440(t.tag, t.distance, t.short, t.dirty)
              /\ t.tag \in VersionNames \union {NoVersion}
<1> DEFINE after == {"date"} \union (IF t.tag = NoVersion THEN {"rev-list"} ELSE {})
           rendered == Rendered(t)
<1>1. GitVersion(t) = IF t.failing \intersect Needed(t) # {} THEN NoVersion
                      ELSE IF t.tag # Garbled /\ t.failing \intersect after # {} THEN Raised
                      ELSE rendered
  BY Zenon DEF GitVersion
<1>2. rendered = IF t.tag = Garbled THEN <<"unknown">>
                 ELSE RenderPep440(t.tag, t.distance, t.short, t.dirty)
  BY Zenon DEF Rendered
<1>3. t.tag # Garbled => t.tag \in VersionNames \union {NoVersion}
  BY DEF IsTree
<1> HIDE DEF after, rendered
<1>4. CASE t.failing \intersect Needed(t) # {}
  BY <1>1, <1>4
<1>5. CASE t.failing \intersect Needed(t) = {} /\ t.tag # Garbled /\ t.failing \intersect after # {}
  BY <1>1, <1>5
<1>6. CASE rendered = GitVersion(t)
  BY <1>2, <1>3, <1>6
<1> QED BY <1>1, <1>4, <1>5, <1>6

\* _version.py, get_versions: for any refs, tags and directories, whatever fails.
THEOREM VersionIsTold ==
    ASSUME NEW t, IsTree(t)
    PROVE  VersionIsRight(t, Version(t))
<1> DEFINE version   == Version(t)
           released  == {r.name : r \in {x \in t.refs : x.tag}} \intersect VersionNames
           unchanged == t.distance = 0 /\ ~t.dirty
           told      == t.hasFile /\ t.failing = {} /\ t.tag # Garbled
           Names     == \E i \in DOMAIN version : version[i] = t.short
           pep440    == RenderPep440(t.tag, t.distance, t.short, t.dirty)
<1>1. /\ t.hasFile \in BOOLEAN /\ t.dirty \in BOOLEAN
      /\ t.distance \in Distances /\ t.short \in Commits
      /\ t.parents \in [1..3 -> Directories \union {NoVersion}]
      /\ t.refs = NoVersion \/ t.refs \subseteq Refs
  BY DEF IsTree
<1>2. ASSUME version \in Seq(Parts), OnePlus(version)
      PROVE  Cardinality({i \in DOMAIN version : version[i] = "+"}) <= 1
  <2> HIDE DEF version
  <2>1. Cardinality(Pluses(version)) <= 1
    BY <1>2, PlusesAre DEF OnePlus
  <2> QED BY <2>1 DEF Pluses
<1>3. CASE t.refs # NoVersion
  <2>1. version = KeywordVersion(t.refs)
    BY <1>3, Zenon DEF Version
  <2>2. /\ released # {} => /\ version \in released
                            /\ \A v \in released : ~IsStrictPrefix(v, version)
        /\ (\A r \in t.refs : r.name \notin VersionNames) => version = Unknown
        /\ version \in Seq(Parts) /\ OnePlus(version)
    <3> HIDE DEF version
    <3> QED BY <1>1, <1>3, <2>1, ArchiveVersion, Zenon
  <2>3. Cardinality({i \in DOMAIN version : version[i] = "+"}) <= 1
    BY <1>2, <2>2
  <2> HIDE DEF version
  <2> QED BY <1>3, <2>2, <2>3, Zenon DEF VersionIsRight, version
<1>4. CASE t.refs = NoVersion
  <2>1. VersionNames \subseteq Seq(Parts) /\ NoVersion \notin VersionNames
           /\ Raised \notin VersionNames
    BY NamesAre, TextsAssumption
  <2>2. ASSUME NEW v \in VersionNames, NEW i \in DOMAIN v
        PROVE  v[i] # t.short
    BY <1>1, ReleasesAssumption DEF ToSet
  <2>3. CASE /\ version = pep440
             /\ t.tag \in VersionNames \union {NoVersion}
    <3>1. /\ version \in Seq(Parts)
          /\ OnePlus(version)
          /\ t.tag # NoVersion /\ unchanged => version = t.tag
          /\ t.tag = NoVersion \/ ~unchanged => Names
      <4>1. /\ pep440 \in Seq(Parts)
            /\ OnePlus(pep440)
            /\ t.tag # NoVersion /\ unchanged => pep440 = t.tag
            /\ t.tag = NoVersion \/ ~unchanged => \E i \in DOMAIN pep440 : pep440[i] = t.short
        <5>1. /\ t.tag \in VersionNames \union {NoVersion} /\ t.distance \in Distances
              /\ t.short \in Commits /\ t.dirty \in BOOLEAN
          BY <1>1, <2>3
        <5>2. WellRendered(pep440, t.tag, unchanged, t.short)
          BY <5>1, RenderedRight, Zenon
        <5> HIDE DEF pep440, unchanged
        <5> QED BY <5>2 DEF WellRendered
      <4> HIDE DEF pep440, version, unchanged
      <4> QED BY <2>3, <4>1
    <3> HIDE DEF version
    <3>2. ASSUME NEW v \in VersionNames
          PROVE  version = v <=> t.tag = v /\ unchanged
      BY <2>1, <2>2, <3>1
    <3>3. t.tag = NoVersion \/ ~unchanged <=> Names
      BY <2>2, <2>3, <3>1
    <3>4. Cardinality({i \in DOMAIN version : version[i] = "+"}) <= 1
      BY <1>2, <3>1
    <3> HIDE DEF unchanged
    <3> QED BY <1>4, <3>2, <3>3, <3>4, Zenon DEF VersionIsRight, version, unchanged
  <2>4. CASE /\ ~told
             /\ version \notin VersionNames
             /\ version # Raised => version \in Seq(Parts) /\ OnePlus(version)
    <3>1. version # Raised => Cardinality({i \in DOMAIN version : version[i] = "+"}) <= 1
      BY <1>2, <2>4
    <3> QED BY <1>4, <2>4, <3>1, Zenon DEF VersionIsRight
  <2>5. CASE ~t.hasFile
    <3>1. version = Unknown
      BY <1>1, <1>4, <2>5, Zenon DEF Version
    <3> HIDE DEF version
    <3> QED BY <2>4, <2>5, <3>1, UnknownIs
  <2>6. CASE t.hasFile
    <3>1. version = IF GitVersion(t) # NoVersion THEN GitVersion(t)
                    ELSE IF ParentVersion(t) # NoVersion THEN ParentVersion(t) ELSE Unknown
      BY <1>4, <2>6, Zenon DEF Version
    <3> HIDE DEF version
    <3>2. CASE GitVersion(t) = NoVersion /\ t.failing # {}
      <4>1. version \in Directories \union {Unknown}
        BY <1>1, <3>1, <3>2, ParentIs
      <4>2. version \in Seq(Parts) /\ OnePlus(version) /\ version \notin VersionNames
        BY <4>1, UnknownIs, NamesAre, ReleasesAssumption
      <4> QED BY <2>4, <3>2, <4>2
    <3>3. CASE GitVersion(t) = Raised /\ GitVersion(t) # NoVersion /\ t.failing # {}
      BY <2>1, <2>4, <3>1, <3>3
    <3>4. CASE GitVersion(t) = <<"unknown">> /\ t.tag = Garbled
      <4> DEFINE unknown == <<"unknown">>
      <4>1. unknown \in Seq(Parts) /\ Len(unknown) = 1
        BY MadeOf, OneField
      <4>2. unknown \notin VersionNames
        BY ReleasesAssumption
      <4> HIDE DEF unknown
      <4>3. GitVersion(t) = unknown
        BY <3>4 DEF unknown
      <4>4. unknown # NoVersion /\ OnePlus(unknown)
        BY <4>1, TextsAssumption DEF OnePlus, Pluses
      <4> QED BY <2>4, <3>1, <3>4, <4>1, <4>2, <4>3, <4>4
    <3>5. CASE /\ GitVersion(t) = pep440
               /\ t.tag \in VersionNames \union {NoVersion}
      <4>1. pep440 \in Seq(Parts)
        BY <1>1, <3>5, RenderedRight, Zenon DEF WellRendered
      <4> HIDE DEF pep440
      <4>2. version = pep440
        BY <3>1, <3>5, <4>1, TextsAssumption
      <4> QED BY <2>3, <3>5, <4>2
    <3> QED BY <3>2, <3>3, <3>4, <3>5, CheckoutVersion
  <2> QED BY <1>1, <2>5, <2>6
<1> QED BY <1>3, <1>4

-----------------------------------------------------------------------------
(* The names the server makes. *)

\* Counting up to a bound: a set of numbers that has the first and with each one
\* the next has all of them.
LEMMA UpTo ==
    ASSUME NEW N \in Nat, NEW T, 0 \in T, \A k \in 0..(N - 1) : k \in T => k + 1 \in T
    PROVE  0..N \subseteq T
<1> DEFINE rest == (0..N) \ T
           down == [k \in rest |-> -k]
<1>1. SUFFICES ASSUME rest # {} PROVE FALSE
  OBVIOUS
<1>2. IsFiniteSet(rest) /\ \A k \in rest : down[k] \in Int
  <2>1. IsFiniteSet(0..N) /\ rest \subseteq 0..N
    BY FS_Interval
  <2> QED BY <2>1, FS_Subset
<1>3. PICK k \in rest : \A j \in rest : down[j] <= down[k]
  <2> HIDE DEF rest, down
  <2> QED BY <1>1, <1>2, LargestNumber
<1>4. \A j \in rest : k <= j
  BY <1>3
<1>5. k # 0 /\ k - 1 \in 0..(N - 1) /\ k - 1 \in T
  BY <1>4
<1> QED BY <1>5

LEMMA PowersArePositive == \A k \in 0..LongSizes : Radix^k \in Nat \ {0}
<1> DEFINE T == {k \in Nat : Radix^k \in Nat \ {0}}
<1>1. 0 \in T
  BY PowerAssumption
<1>2. ASSUME NEW k \in 0..(LongSizes - 1), k \in T
      PROVE  k + 1 \in T
  <2>1. Radix^k \in Nat \ {0} /\ Radix^(k + 1) = Radix * Radix^k
    BY <1>2, PowerAssumption
  <2>2. \A p \in Nat \ {0} : Radix * p \in Nat \ {0}
    BY RadixAssumption
  <2> QED BY <2>1, <2>2
<1> HIDE DEF T
<1>3. 0..LongSizes \subseteq T
  BY <1>1, <1>2, SizesAssumption, UpTo
<1> QED BY <1>3 DEF T

LEMMA NextPower == \A k \in 0..(LongSizes - 1) : Radix^k < Radix^(k + 1)
<1> SUFFICES ASSUME NEW k \in 0..(LongSizes - 1) PROVE Radix^k < Radix^(k + 1)
  OBVIOUS
<1>1. Radix^k \in Nat \ {0} /\ Radix^(k + 1) = Radix * Radix^k
  BY PowersArePositive, PowerAssumption, SizesAssumption
<1>2. \A p \in Nat \ {0} : p < Radix * p
  BY RadixAssumption
<1> QED BY <1>1, <1>2

LEMMA PowersGrow ==
    ASSUME NEW i \in 0..LongSizes, NEW j \in 0..LongSizes, i <= j
    PROVE  Radix^i <= Radix^j
<1> DEFINE T == {k \in 0..LongSizes : i <= k => Radix^i <= Radix^k}
<1>1. 0 \in T
  BY PowersArePositive, SizesAssumption
<1>2. ASSUME NEW k \in 0..(LongSizes - 1), k \in T
      PROVE  k + 1 \in T
  <2>1. Radix^i \in Nat /\ Radix^k \in Nat /\ Radix^(k + 1) \in Nat /\ Radix^k < Radix^(k + 1)
    BY PowersArePositive, NextPower, SizesAssumption
  <2>2. CASE i <= k
    BY <1>2, <2>1, <2>2, SizesAssumption
  <2>3. CASE i > k
    <3>1. i >= k + 1
      BY <2>3
    <3>2. i = k + 1 \/ ~(i <= k + 1)
      BY <3>1
    <3> QED BY <2>1, <3>2, SizesAssumption
  <2> QED BY <2>2, <2>3
<1> HIDE DEF T
<1>3. 0..LongSizes \subseteq T
  BY <1>1, <1>2, SizesAssumption, UpTo
<1> QED BY <1>3 DEF T

\* The number of a name's digits is the one size it is in the range of.
LEMMA DigitsOf ==
    ASSUME NEW n \in Nat, NEW k \in 1..LongSizes, Radix^(k-1) <= n, n < Radix^k
    PROVE  NumDigits(n) = k
<1>1. ASSUME NEW j \in 1..LongSizes, Radix^(j-1) <= n, n < Radix^j
      PROVE  j = k
  <2>1. ASSUME NEW a \in 1..LongSizes, NEW b \in 1..LongSizes, a < b,
               n < Radix^a, Radix^(b-1) <= n
        PROVE  FALSE
    <3>1. a \in 0..LongSizes /\ b - 1 \in 0..LongSizes /\ a <= b - 1
      BY <2>1, SizesAssumption
    <3>2. Radix^a <= Radix^(b-1) /\ Radix^a \in Nat /\ Radix^(b-1) \in Nat
      BY <3>1, PowersGrow, PowersArePositive
    <3> QED BY <2>1, <3>2
  <2>2. ~(j < k)
    BY <1>1, <2>1
  <2>3. ~(k < j)
    BY <1>1, <2>1
  <2> QED BY <2>2, <2>3, SizesAssumption
<1> QED BY <1>1 DEF NumDigits

LEMMA HasSize ==
    ASSUME NEW N \in 1..LongSizes, NEW n \in 1..(Radix^N - 1)
    PROVE  /\ NumDigits(n) \in 1..N
           /\ n \in OfSize(NumDigits(n))
<1>0. Radix^N \in Nat
  BY PowersArePositive, SizesAssumption
<1> DEFINE T == {k \in 0..N : Radix^k <= n}
<1>1. \E k \in 0..(N - 1) : k \in T /\ k + 1 \notin T
  <2>1. SUFFICES ASSUME \A k \in 0..(N - 1) : k \in T => k + 1 \in T PROVE FALSE
    BY Zenon
  <2>2. 0 \in T /\ N \in Nat
    BY PowerAssumption, SizesAssumption
  <2> HIDE DEF T
  <2>3. 0..N \subseteq T
    BY <2>1, <2>2, UpTo
  <2>4. N \in T
    BY <2>2, <2>3
  <2> QED BY <1>0, <2>4 DEF T
<1>2. PICK k \in 0..(N - 1) : k \in T /\ k + 1 \notin T
  BY <1>1
<1>3. k + 1 \in 1..N /\ k + 1 \in 1..LongSizes /\ (k + 1) - 1 = k
  BY SizesAssumption
<1>4. Radix^k \in Nat /\ Radix^(k + 1) \in Nat
  BY <1>3, PowersArePositive, SizesAssumption
<1>5. n \in Nat /\ Radix^k <= n /\ n < Radix^(k + 1)
  BY <1>2, <1>3, <1>4
<1>6. NumDigits(n) = k + 1
  <2>1. Radix^((k + 1) - 1) <= n
    BY <1>3, <1>5
  <2> QED BY <1>3, <1>5, <2>1, DigitsOf
<1>7. n \in OfSize(k + 1)
  BY <1>3, <1>4, <1>5 DEF OfSize
<1> QED BY <1>3, <1>6, <1>7

\* The names of a size are numbers of that many digits, and no others are.
LEMMA SizeOf ==
    ASSUME NEW size \in 1..LongSizes, NEW n \in OfSize(size)
    PROVE  n \in Nat /\ NumDigits(n) = size /\ n \in 1..(Radix^LongSizes - 1)
<1>1. /\ Radix^(size-1) \in Nat \ {0} /\ Radix^size \in Nat /\ Radix^LongSizes \in Nat
      /\ Radix^size <= Radix^LongSizes
  BY PowersArePositive, PowersGrow, SizesAssumption
<1>2. n \in Nat /\ Radix^(size-1) <= n /\ n < Radix^size
  BY <1>1 DEF OfSize
<1>3. NumDigits(n) = size
  BY <1>2, DigitsOf
<1> QED BY <1>1, <1>2, <1>3

\* "%d": a number is written with as many digits as it has.
LEMMA WrittenDigits ==
    ASSUME NEW n \in 1..(Radix^LongSizes - 1)
    PROVE  /\ Written(n) \in Seq(Digits)
           /\ Len(Written(n)) = NumDigits(n)
           /\ NumDigits(n) \in 1..LongSizes
<1>1. NumDigits(n) \in 1..LongSizes
  BY HasSize, SizesAssumption
<1> DEFINE k == NumDigits(n)
<1>2. ASSUME NEW i \in 1..k
      PROVE  (n \div Radix^(k - i)) % Radix \in Digits
  <2>1. k - i \in 0..LongSizes
    <3> HIDE DEF k
    <3> QED BY <1>1, SizesAssumption DEF k
  <2>2. Radix^(k - i) \in Nat \ {0} /\ n \in Nat
    BY <2>1, PowersArePositive
  <2>3. \A d \in Nat \ {0} : n \div d \in Nat
    BY <2>2
  <2>4. n \div Radix^(k - i) \in Nat
    BY <2>2, <2>3
  <2> QED BY <2>4, RadixAssumption DEF Digits
<1>3. Written(n) = [i \in 1..k |-> (n \div Radix^(k - i)) % Radix]
  BY DEF Written
<1> HIDE DEF k
<1>4. k \in Nat
  BY <1>1 DEF k
<1>5. Written(n) \in [1..k -> Digits]
  BY <1>2, <1>3
<1> QED BY <1>1, <1>4, <1>5 DEF k

\* What the server makes, it would take from a client.
LEMMA WrittenIsValid ==
    ASSUME NEW n \in 1..(Radix^LongSizes - 1)
    PROVE  ValidNameplate(Written(n))
<1> DEFINE text == Written(n)
<1>1. text \in Seq(Digits) /\ Len(text) \in 1..LongSizes
  BY WrittenDigits
<1> HIDE DEF text
<1>2. text # <<>> /\ Len(text) \in 1..Len(text) /\ Len(text) <= MaxLength
  BY <1>1, EmptySeq, SizesAssumption
<1>3. \A i \in DOMAIN text : text[i] \in Digits
  BY <1>1, ElementOfSeq, LenProperties
<1>4. text[Len(text)] # LineFeed
  <2>1. text[Len(text)] \in Nat
    BY <1>1, <1>2, ElementOfSeq, RadixAssumption DEF Digits
  <2> QED BY <2>1, OthersAssumption
<1>5. WithoutLineFeed(text) = text
  BY <1>4 DEF WithoutLineFeed
<1> QED BY <1>2, <1>3, <1>5 DEF ValidNameplate, OnlyDigits, DecimalDigits, text

\* The first size that has a free name is the one the name is drawn from.
LEMMA ShortestIsTried ==
    ASSUME NEW claimed, NEW size \in SizesTried, Free(OfSize(size), claimed) # {}
    PROVE  ShortestFree(claimed) # {}
<1> DEFINE sizes == {s \in SizesTried : Free(OfSize(s), claimed) # {}}
           down == [s \in sizes |-> -s]
<1>1. IsFiniteSet(sizes) /\ sizes # {} /\ \A s \in sizes : down[s] \in Int
  <2>1. IsFiniteSet(SizesTried) /\ \A s \in SizesTried : s \in Int
    BY FS_Interval, SizesAssumption DEF SizesTried
  <2>2. sizes \subseteq SizesTried
    OBVIOUS
  <2> QED BY <2>1, <2>2, FS_Subset
<1>2. PICK s \in sizes : \A t \in sizes : down[t] <= down[s]
  <2> HIDE DEF sizes, down
  <2> QED BY <1>1, LargestNumber
<1>3. \A t \in SizesTried : t < s => Free(OfSize(t), claimed) = {}
  <2>1. \A t \in SizesTried : t \in Int
    BY DEF SizesTried
  <2>2. ASSUME NEW t \in sizes PROVE s <= t
    <3>1. down[t] = -t /\ down[s] = -s /\ t \in SizesTried /\ s \in SizesTried
      OBVIOUS
    <3>2. -t <= -s
      BY <1>2, <3>1
    <3> QED BY <2>1, <3>1, <3>2
  <2> QED BY <2>1, <2>2
<1>4. PICK n \in Free(OfSize(s), claimed) : TRUE
  OBVIOUS
<1>5. n \in ShortestFree(claimed)
  BY <1>3, <1>4 DEF ShortestFree
<1> QED BY <1>5

LEMMA ShortNames ==
    ASSUME NEW n \in 1..(Radix^ShortSizes - 1)
    PROVE  /\ n \in 1..(Radix^LongSizes - 1)
           /\ NumDigits(n) \in SizesTried
           /\ n \in OfSize(NumDigits(n))
<1>1. ShortSizes \in 1..LongSizes
  BY SizesAssumption
<1>2. Radix^ShortSizes <= Radix^LongSizes /\ Radix^ShortSizes \in Nat /\ Radix^LongSizes \in Nat
  BY <1>1, PowersGrow, PowersArePositive, SizesAssumption
<1>3. n \in 1..(Radix^LongSizes - 1)
  BY <1>2
<1> QED BY <1>1, <1>3, HasSize DEF SizesTried

\* docs/server-protocol.md:129-130, whichever names are claimed: what an allocation
\* returns is free and valid, and no free name of up to three digits is shorter; it
\* fails only when all of those are taken.  Longer names are drawn at random from
\* all of four to six digits, and nothing is said of how short they are.
THEOREM AllocationKeepsShort ==
    ASSUME NEW claimed, NEW name \in Outcomes(claimed)
    PROVE  AllocationIsSound(claimed, name)
<1>1. \A s \in SizesTried : s \in 1..LongSizes
  BY SizesAssumption DEF SizesTried
<1>2. ASSUME NEW n \in 1..(Radix^LongSizes - 1), name = Written(n), Written(n) \notin claimed,
             \A m \in 1..(Radix^ShortSizes - 1) :
                Written(m) \in claimed \/ NumDigits(m) >= NumDigits(n)
      PROVE  AllocationIsSound(claimed, name)
  <2>1. name # Exhausted
    BY <1>2, ExhaustedAssumption
  <2>2. ValidNameplate(name) /\ Len(name) = NumDigits(n)
    BY <1>2, WrittenIsValid, WrittenDigits
  <2> QED BY <1>2, <2>1, <2>2 DEF AllocationIsSound
<1>3. CASE ShortestFree(claimed) # {}
  <2>1. PICK n \in ShortestFree(claimed) : name = Written(n)
    BY <1>3 DEF Outcomes
  <2>2. PICK s \in SizesTried : /\ n \in Free(OfSize(s), claimed)
                                /\ \A t \in SizesTried : t < s => Free(OfSize(t), claimed) = {}
    BY DEF ShortestFree
  <2>3. n \in OfSize(s) /\ Written(n) \notin claimed
    BY <2>2 DEF Free
  <2>4. NumDigits(n) = s /\ n \in 1..(Radix^LongSizes - 1)
    BY <1>1, <2>3, SizeOf
  <2>5. ASSUME NEW m \in 1..(Radix^ShortSizes - 1), Written(m) \notin claimed
        PROVE  NumDigits(m) >= s
    <3>1. NumDigits(m) \in SizesTried /\ m \in Free(OfSize(NumDigits(m)), claimed)
      BY <2>5, ShortNames DEF Free
    <3>2. ~(NumDigits(m) < s)
      BY <2>2, <3>1
    <3> QED BY <3>1, <3>2 DEF SizesTried
  <2> QED BY <1>2, <2>1, <2>3, <2>4, <2>5
<1>4. CASE ShortestFree(claimed) = {}
  <2>1. ASSUME NEW m \in 1..(Radix^ShortSizes - 1)
        PROVE  Written(m) \in claimed
    <3>1. NumDigits(m) \in SizesTried /\ m \in OfSize(NumDigits(m))
      BY ShortNames
    <3>2. Free(OfSize(NumDigits(m)), claimed) = {}
      BY <1>4, <3>1, ShortestIsTried
    <3> QED BY <3>1, <3>2 DEF Free
  <2>2. CASE name = Exhausted
    BY <2>1, <2>2 DEF AllocationIsSound
  <2>3. CASE name # Exhausted
    <3>1. PICK n \in Free(Long, claimed) : name = Written(n)
      BY <1>4, <2>3 DEF Outcomes
    <3>2. n \in Long /\ Written(n) \notin claimed
      BY DEF Free
    <3>3. n \in 1..(Radix^LongSizes - 1)
      <4>1. Radix^ShortSizes \in Nat \ {0} /\ Radix^LongSizes \in Nat
        BY PowersArePositive, SizesAssumption
      <4> QED BY <3>2, <4>1 DEF Long
    <3> QED BY <1>2, <2>1, <3>1, <3>2, <3>3
  <2> QED BY <2>2, <2>3
<1> QED BY <1>3, <1>4

-----------------------------------------------------------------------------
(* The options of the command line. *)

LEMMA GreatestOf ==
    ASSUME NEW N \in Nat, NEW s \in SUBSET (1..N), s # {}
    PROVE  /\ Max(s) \in s
           /\ \A k \in s : k <= Max(s)
<1> DEFINE same == [k \in s |-> k]
<1>1. IsFiniteSet(s) /\ \A k \in s : same[k] \in Int
  <2>1. IsFiniteSet(1..N)
    BY FS_Interval
  <2>2. IsFiniteSet(s)
    BY <2>1, FS_Subset
  <2> QED BY <2>2
<1>2. PICK m \in s : \A k \in s : same[k] <= same[m]
  <2> HIDE DEF same
  <2> QED BY <1>1, LargestNumber
<1>3. \A k \in s : m >= k
  BY <1>2
<1> QED BY <1>3 DEF Max

\* A fold over the positions of a sequence is a recursive function on the sets of
\* positions: there is such a function, set size by set size.
LEMMA FoldExists ==
    ASSUME NEW args \in Seq(Arguments)
    PROVE  \E f : f = [s \in SUBSET (DOMAIN args) |->
                         IF s = {} THEN DefaultConfig
                         ELSE WithArgument(f[s \ {Max(s)}], args[Max(s)])]
<1> DEFINE N == Len(args)
           Step(f, s) == IF s = {} THEN DefaultConfig
                         ELSE WithArgument(f[s \ {Max(s)}], args[Max(s)])
           Small(k) == {s \in SUBSET (1..N) : Cardinality(s) <= k}
           IsFold(f, k) == f = [s \in Small(k) |-> Step(f, s)]
           T == {k \in 0..N : \E f : IsFold(f, k)}
<1>1. N \in Nat /\ DOMAIN args = 1..N
  OBVIOUS
<1>2. ASSUME NEW s \in SUBSET (1..N)
      PROVE  IsFiniteSet(s) /\ Cardinality(s) \in 0..N
  <2>1. IsFiniteSet(1..N) /\ Cardinality(1..N) = N
    <3>1. Cardinality(1..N) = IF 1 > N THEN 0 ELSE N - 1 + 1
      BY <1>1, FS_Interval
    <3> QED BY <1>1, <3>1, FS_Interval
  <2>2. IsFiniteSet(s) /\ Cardinality(s) <= N
    BY <2>1, FS_Subset
  <2>3. Cardinality(s) \in Nat
    BY <2>2, FS_CardinalityType
  <2> QED BY <1>1, <2>2, <2>3
<1>3. 0 \in T
  <2> DEFINE f == [s \in Small(0) |-> DefaultConfig]
  <2>1. ASSUME NEW s \in Small(0) PROVE s = {}
    <3>1. IsFiniteSet(s) /\ Cardinality(s) = 0
      BY <1>2, <2>1
    <3> QED BY <3>1, FS_EmptySet
  <2>2. ASSUME NEW s \in Small(0) PROVE Step(f, s) = DefaultConfig
    BY <2>1
  <2>3. IsFold(f, 0)
    <3> DEFINE none == Small(0)
    <3>1. \A s \in none : Step(f, s) = DefaultConfig
      BY <2>2, Zenon
    <3>2. f = [s \in none |-> DefaultConfig]
      OBVIOUS
    <3> HIDE DEF Step, none, f
    <3>3. f = [s \in none |-> Step(f, s)]
      BY <3>1, <3>2
    <3> QED BY <3>3, Zenon DEF none
  <2>4. 0 \in 0..N
    BY <1>1
  <2> HIDE DEF f, IsFold
  <2> QED BY <2>3, <2>4
<1>4. ASSUME NEW k \in 0..(N - 1), k \in T
      PROVE  k + 1 \in T
  <2>1. PICK f : IsFold(f, k)
    BY <1>4
  <2> DEFINE g == [s \in Small(k + 1) |-> Step(f, s)]
  <2>2. ASSUME NEW s \in Small(k + 1)
        PROVE  Step(f, s) = Step(g, s)
    <3>1. CASE s = {}
      BY <3>1
    <3>2. CASE s # {}
      <4> DEFINE rest == s \ {Max(s)}
      <4>1. Max(s) \in s
        BY <1>1, <3>2, GreatestOf
      <4>2. IsFiniteSet(s) /\ Cardinality(rest) = Cardinality(s) - 1 /\ Cardinality(s) \in Int
        BY <1>1, <1>2, <4>1, FS_RemoveElement
      <4>3. rest \in Small(k) /\ rest \in Small(k + 1)
        <5>1. rest \in SUBSET (1..N) /\ Cardinality(s) <= k + 1
          OBVIOUS
        <5> HIDE DEF rest
        <5> QED BY <1>1, <4>2, <5>1
      <4>4. f[rest] = Step(f, rest)
        <5> HIDE DEF rest, Step, Small
        <5> QED BY <2>1, <4>3, Zenon
      <4>5. g[rest] = Step(f, rest)
        <5> HIDE DEF rest, Step, Small
        <5> QED BY <4>3, Zenon
      <4> QED BY <3>2, <4>4, <4>5, Zenon
    <3> QED BY <3>1, <3>2
  <2>3. IsFold(g, k + 1)
    <3> HIDE DEF Step, Small
    <3> QED BY <2>2, Zenon
  <2>4. k + 1 \in 0..N
    BY <1>1, <1>4
  <2> QED BY <2>3, <2>4
<1>5. N \in T
  <2> HIDE DEF T
  <2>1. 0..N \subseteq T
    BY <1>1, <1>3, <1>4, UpTo
  <2> QED BY <1>1, <2>1
<1>6. PICK f : IsFold(f, N)
  BY <1>5
<1>7. Small(N) = SUBSET (1..N)
  BY <1>1, <1>2
<1> QED BY <1>1, <1>6, <1>7, Zenon

\* The configuration after each of the arguments.
LEMMA ParsedInOrder ==
    ASSUME NEW args \in Seq(Arguments)
    PROVE  \E after : /\ after[0] = DefaultConfig
                      /\ \A k \in 0..(Len(args) - 1) :
                            after[k + 1] = WithArgument(after[k], args[k + 1])
                      /\ Parsed(args) = after[Len(args)]
<1> DEFINE N == Len(args)
           IsFold(f) == f = [s \in SUBSET (DOMAIN args) |->
                               IF s = {} THEN DefaultConfig
                               ELSE WithArgument(f[s \ {Max(s)}], args[Max(s)])]
           fold == CHOOSE f : IsFold(f)
           after == [k \in 0..N |-> fold[1..k]]
<1>1. N \in Nat /\ DOMAIN args = 1..N
  OBVIOUS
<1>2. IsFold(fold)
  <2>1. \E f : IsFold(f)
    BY FoldExists, Zenon
  <2> QED BY <2>1, Zenon
<1>3. Parsed(args) = fold[DOMAIN args]
  BY Zenon DEF Parsed, FoldLeft, MapThenFoldSet
<1>4. after[0] = DefaultConfig
  <2>1. 1..0 = {} /\ 0 \in 0..N
    BY <1>1
  <2> HIDE DEF fold
  <2> QED BY <1>2, <2>1, Zenon
<1>5. ASSUME NEW k \in 0..(N - 1)
      PROVE  after[k + 1] = WithArgument(after[k], args[k + 1])
  <2> DEFINE s == 1..(k + 1)
  <2>1. s \in SUBSET (DOMAIN args) /\ s # {} /\ k \in 0..N /\ k + 1 \in 0..N
    <3>1. k + 1 \in s
      OBVIOUS
    <3>2. s \subseteq 1..N
      BY <1>1
    <3> QED BY <1>1, <3>1, <3>2
  <2>2. Max(s) = k + 1
    <3>1. Max(s) \in s /\ \A i \in s : i <= Max(s)
      <4> HIDE DEF s
      <4> QED BY <1>1, <2>1, GreatestOf
    <3> QED BY <3>1
  <2>3. s \ {k + 1} = 1..k
    OBVIOUS
  <2>4. fold[s] = WithArgument(fold[s \ {Max(s)}], args[Max(s)])
    <3> HIDE DEF fold, s
    <3> QED BY <1>2, <2>1, Zenon
  <2>5. after[k + 1] = fold[s] /\ after[k] = fold[1..k]
    BY <2>1, Zenon
  <2> HIDE DEF fold, after, s
  <2> QED BY <2>2, <2>3, <2>4, <2>5, Zenon
<1>6. after[N] = fold[DOMAIN args]
  BY <1>1
<1> HIDE DEF after, fold
<1> QED BY <1>3, <1>4, <1>5, <1>6

LEMMA ArgumentForms ==
    ASSUME NEW arg \in Arguments
    PROVE  \/ arg.option \in TextOptions /\ arg.value \in Text
           \/ arg.option = "blur-usage" /\ arg.value \in Number
           \/ arg.option = "disallow-list"
           \/ /\ arg.option = "websocket-protocol-option"
              /\ arg.key \in Text
              /\ arg.value \in Text
BY DEF Arguments

\* What each option does to the configuration, and that it leaves the rest alone.
LEMMA ArgumentEffects ==
    ASSUME NEW config \in Config, NEW arg \in Arguments
    PROVE  LET next == WithArgument(config, arg)
           IN /\ next \in Config
              /\ next.motd = IF arg.option = "motd" THEN arg.value ELSE config.motd
              /\ next.error = IF arg.option = "signal-error" THEN arg.value ELSE config.error
              /\ next.allowList = (config.allowList /\ arg.option # "disallow-list")
              /\ next.websocket = IF arg.option = "websocket-protocol-option"
                                    THEN Append(config.websocket, <<arg.key, arg.value>>)
                                    ELSE config.websocket
<1>1. CASE arg.option = "motd"
  BY <1>1, ArgumentForms DEF WithArgument, Config, TextOptions
<1>2. CASE arg.option = "advertise-version"
  BY <1>2, ArgumentForms DEF WithArgument, Config, TextOptions
<1>3. CASE arg.option = "signal-error"
  BY <1>3, ArgumentForms DEF WithArgument, Config, TextOptions
<1>4. CASE arg.option = "blur-usage"
  BY <1>4, ArgumentForms DEF WithArgument, Config, TextOptions
<1>5. CASE arg.option = "disallow-list"
  BY <1>5, ArgumentForms DEF WithArgument, Config, TextOptions
<1>6. CASE arg.option = "websocket-protocol-option"
  <2>1. <<arg.key, arg.value>> \in Text \X Text /\ config.websocket \in Seq(Text \X Text)
    BY <1>6, ArgumentForms DEF TextOptions, Config
  <2>2. Append(config.websocket, <<arg.key, arg.value>>) \in Seq(Text \X Text)
    BY <2>1
  <2>3. WithArgument(config, arg) =
          [config EXCEPT !.websocket = Append(@, <<arg.key, arg.value>>)]
    BY <1>6 DEF WithArgument
  <2> DEFINE longer == Append(config.websocket, <<arg.key, arg.value>>)
  <2> HIDE DEF longer
  <2>4. WithArgument(config, arg) = [config EXCEPT !.websocket = longer]
    BY <2>3 DEF longer
  <2>5. longer \in Seq(Text \X Text)
    BY <2>2 DEF longer
  <2>6. longer = Append(config.websocket, <<arg.key, arg.value>>)
    BY DEF longer
  <2> QED BY <1>6, <2>4, <2>5, <2>6 DEF Config
<1> QED BY <1>1, <1>2, <1>3, <1>4, <1>5, <1>6, ArgumentForms DEF TextOptions

\* "value" is what the last of the first k arguments with this option gave it.
LastAmong(args, k, opt, value) ==
    \/ /\ value = NotGiven
       /\ \A i \in 1..k : args[i].option # opt
    \/ \E i \in 1..k : /\ args[i].option = opt
                       /\ args[i].value = value
                       /\ \A j \in (i + 1)..k : args[j].option # opt

LastPair(pairs, key, value) ==
    \E p \in DOMAIN pairs : /\ pairs[p] = <<key, value>>
                            /\ \A q \in DOMAIN pairs : pairs[q][1] = key => q <= p

Repeated(args, k, i) ==
    \E j \in (i + 1)..k : /\ args[j].option = args[i].option
                          /\ args[j].key = args[i].key

TellsFirst(args, k, config) ==
    /\ config \in Config
    /\ LastAmong(args, k, "motd", config.motd)
    /\ LastAmong(args, k, "signal-error", config.error)
    /\ config.allowList <=> \A i \in 1..k : args[i].option # "disallow-list"
    /\ \A i \in 1..k :
          args[i].option = "websocket-protocol-option" =>
              \/ LastPair(config.websocket, args[i].key, args[i].value)
              \/ Repeated(args, k, i)

LEMMA OneMoreGiven ==
    ASSUME NEW args, NEW k \in Nat, NEW opt, NEW value, LastAmong(args, k, opt, value)
    PROVE  LastAmong(args, k + 1, opt,
                     IF args[k + 1].option = opt THEN args[k + 1].value ELSE value)
<1>1. CASE args[k + 1].option = opt
  <2>1. k + 1 \in 1..(k + 1) /\ \A j \in (k + 2)..(k + 1) : FALSE
    OBVIOUS
  <2> QED BY <1>1, <2>1 DEF LastAmong
<1>2. CASE args[k + 1].option # opt
  <2>1. \A i \in 1..(k + 1) : i \in 1..k \/ i = k + 1
    OBVIOUS
  <2>2. \A i \in 1..k : i \in 1..(k + 1)
    OBVIOUS
  <2>3. \A i \in 1..k : \A j \in (i + 1)..(k + 1) : j \in (i + 1)..k \/ j = k + 1
    OBVIOUS
  <2> QED BY <1>2, <2>1, <2>2, <2>3 DEF LastAmong
<1> QED BY <1>1, <1>2

LEMMA PairAppended ==
    ASSUME NEW pairs \in Seq(Text \X Text), NEW k1 \in Text, NEW v1 \in Text
    PROVE  LET longer == Append(pairs, <<k1, v1>>)
           IN /\ LastPair(longer, k1, v1)
              /\ \A key, value : LastPair(pairs, key, value) /\ key # k1
                                    => LastPair(longer, key, value)
<1> DEFINE longer == Append(pairs, <<k1, v1>>)
<1>1. /\ DOMAIN pairs = 1..Len(pairs) /\ Len(pairs) \in Nat
      /\ DOMAIN longer = 1..(Len(pairs) + 1)
      /\ longer[Len(pairs) + 1] = <<k1, v1>>
      /\ \A p \in 1..Len(pairs) : longer[p] = pairs[p]
  OBVIOUS
<1>2. \A p \in 1..(Len(pairs) + 1) : p \in 1..Len(pairs) \/ p = Len(pairs) + 1
  BY <1>1
<1> HIDE DEF longer
<1>3. LastPair(longer, k1, v1)
  BY <1>1 DEF LastPair
<1>4. ASSUME NEW key, NEW value, LastPair(pairs, key, value), key # k1
      PROVE  LastPair(longer, key, value)
  <2>1. PICK p \in DOMAIN pairs : /\ pairs[p] = <<key, value>>
                                  /\ \A q \in DOMAIN pairs : pairs[q][1] = key => q <= p
    BY <1>4 DEF LastPair
  <2>2. p \in DOMAIN longer /\ longer[p] = <<key, value>>
    BY <1>1, <2>1
  <2>3. ASSUME NEW q \in DOMAIN longer, longer[q][1] = key
        PROVE  q <= p
    <3>1. q # Len(pairs) + 1
      BY <1>1, <1>4, <2>3
    <3> QED BY <1>1, <1>2, <2>1, <2>3, <3>1
  <2> QED BY <2>2, <2>3 DEF LastPair
<1> QED BY <1>3, <1>4 DEF longer

LEMMA OneArgument ==
    ASSUME NEW args \in Seq(Arguments), NEW k \in 0..(Len(args) - 1), NEW config,
           TellsFirst(args, k, config)
    PROVE  TellsFirst(args, k + 1, WithArgument(config, args[k + 1]))
<1> DEFINE arg == args[k + 1]
           next == WithArgument(config, arg)
<1>1. k \in Nat /\ arg \in Arguments /\ config \in Config
  BY DEF TellsFirst
<1>2. /\ next \in Config
      /\ next.motd = IF arg.option = "motd" THEN arg.value ELSE config.motd
      /\ next.error = IF arg.option = "signal-error" THEN arg.value ELSE config.error
      /\ next.allowList = (config.allowList /\ arg.option # "disallow-list")
      /\ next.websocket = IF arg.option = "websocket-protocol-option"
                            THEN Append(config.websocket, <<arg.key, arg.value>>)
                            ELSE config.websocket
  BY <1>1, ArgumentEffects
<1> HIDE DEF next
<1>3. LastAmong(args, k + 1, "motd", next.motd)
  <2>1. LastAmong(args, k, "motd", config.motd)
    BY DEF TellsFirst
  <2> QED BY <1>1, <1>2, <2>1, OneMoreGiven
<1>4. LastAmong(args, k + 1, "signal-error", next.error)
  <2>1. LastAmong(args, k, "signal-error", config.error)
    BY DEF TellsFirst
  <2> QED BY <1>1, <1>2, <2>1, OneMoreGiven
<1>5. \A i \in 1..(k + 1) : i \in 1..k \/ i = k + 1
  BY <1>1
<1>6. next.allowList <=> \A i \in 1..(k + 1) : args[i].option # "disallow-list"
  <2>1. config.allowList <=> \A i \in 1..k : args[i].option # "disallow-list"
    BY DEF TellsFirst
  <2>2. 1..k \subseteq 1..(k + 1) /\ k + 1 \in 1..(k + 1)
    BY <1>1
  <2> QED BY <1>2, <1>5, <2>1, <2>2
<1>7. ASSUME NEW i \in 1..(k + 1), args[i].option = "websocket-protocol-option"
      PROVE  \/ LastPair(next.websocket, args[i].key, args[i].value)
             \/ Repeated(args, k + 1, i)
  <2>1. config.websocket \in Seq(Text \X Text)
    BY <1>1 DEF Config
  <2>2. CASE i = k + 1
    <3>1. arg.key \in Text /\ arg.value \in Text
      BY <1>1, <1>7, <2>2, ArgumentForms DEF TextOptions
    <3>2. LastPair(next.websocket, arg.key, arg.value)
      BY <1>2, <1>7, <2>1, <2>2, <3>1, PairAppended
    <3> QED BY <2>2, <3>2
  <2>3. CASE i \in 1..k /\ Repeated(args, k, i)
    <3>1. (i + 1)..k \subseteq (i + 1)..(k + 1)
      BY <1>1, <2>3
    <3> QED BY <2>3, <3>1 DEF Repeated
  <2>4. CASE i \in 1..k /\ LastPair(config.websocket, args[i].key, args[i].value)
    <3>1. CASE arg.option # "websocket-protocol-option"
      BY <1>2, <2>4, <3>1
    <3>2. CASE arg.option = "websocket-protocol-option" /\ arg.key = args[i].key
      <4>1. k + 1 \in (i + 1)..(k + 1)
        BY <1>1, <2>4
      <4> QED BY <1>7, <3>2, <4>1 DEF Repeated
    <3>3. CASE arg.option = "websocket-protocol-option" /\ arg.key # args[i].key
      <4>1. arg.key \in Text /\ arg.value \in Text
        BY <1>1, <3>3, ArgumentForms DEF TextOptions
      <4>2. LastPair(next.websocket, args[i].key, args[i].value)
        BY <1>2, <2>1, <2>4, <3>3, <4>1, PairAppended
      <4> QED BY <4>2
    <3> QED BY <3>1, <3>2, <3>3
  <2>5. i \in 1..k => \/ LastPair(config.websocket, args[i].key, args[i].value)
                      \/ Repeated(args, k, i)
    BY <1>7 DEF TellsFirst
  <2> QED BY <1>5, <2>2, <2>3, <2>4, <2>5
<1> HIDE DEF arg
<1>8. TellsFirst(args, k + 1, next)
  BY <1>2, <1>3, <1>4, <1>6, <1>7 DEF TellsFirst
<1> QED BY <1>8 DEF next, arg

LEMMA AllArguments ==
    ASSUME NEW args \in Seq(Arguments)
    PROVE  TellsFirst(args, Len(args), Parsed(args))
<1>1. PICK after : /\ after[0] = DefaultConfig
                   /\ \A k \in 0..(Len(args) - 1) :
                         after[k + 1] = WithArgument(after[k], args[k + 1])
                   /\ Parsed(args) = after[Len(args)]
  BY ParsedInOrder
<1> DEFINE T == {k \in 0..Len(args) : TellsFirst(args, k, after[k])}
<1>2. Len(args) \in Nat
  OBVIOUS
<1>3. 0 \in T
  <2>1. DefaultConfig \in Config
    BY DEF DefaultConfig, Config
  <2>2. TellsFirst(args, 0, DefaultConfig)
    BY <2>1 DEF TellsFirst, DefaultConfig, LastAmong
  <2> QED BY <1>1, <1>2, <2>2
<1>4. ASSUME NEW k \in 0..(Len(args) - 1), k \in T
      PROVE  k + 1 \in T
  <2>1. TellsFirst(args, k + 1, after[k + 1])
    BY <1>1, <1>4, OneArgument
  <2>2. k + 1 \in 0..Len(args)
    BY <1>2, <1>4
  <2> QED BY <2>1, <2>2
<1> HIDE DEF T
<1>5. 0..Len(args) \subseteq T
  BY <1>2, <1>3, <1>4, UpTo
<1>6. Len(args) \in T
  BY <1>2, <1>5
<1> QED BY <1>1, <1>6 DEF T

\* server_tap.py:18-60, 80-121: for any number of arguments and any values.
THEOREM OptionsCount ==
    ASSUME NEW args \in Seq(Arguments)
    PROVE  LastValueCounts(args) /\ BlurringIsPrivate(args)
<1> DEFINE N == Len(args)
           config == Parsed(args)
           welcome == WelcomeFor(config, NotGiven)
           LastGiven(opt) == {i \in DOMAIN args :
                                /\ args[i].option = opt
                                /\ \A j \in (i + 1)..Len(args) : args[j].option # opt}
<1>1. TellsFirst(args, N, config)
  BY AllArguments
<1>2. N \in Nat /\ DOMAIN args = 1..N /\ \A i \in 1..N : args[i] \in Arguments
  OBVIOUS
<1> HIDE DEF config
<1>3. ASSUME NEW opt \in {"motd", "signal-error"}, NEW value, LastAmong(args, N, opt, value)
      PROVE  /\ \A i \in LastGiven(opt) : value = args[i].value /\ value # NotGiven
             /\ LastGiven(opt) = {} => value = NotGiven
  <2>1. \A i \in 1..N : args[i].option = opt => args[i].value \in Text
    BY <1>2, ArgumentForms DEF TextOptions
  <2>2. CASE value = NotGiven /\ \A i \in 1..N : args[i].option # opt
    BY <1>2, <2>2
  <2>3. CASE \E i \in 1..N : /\ args[i].option = opt
                             /\ args[i].value = value
                             /\ \A j \in (i + 1)..N : args[j].option # opt
    <3>1. PICK i \in 1..N : /\ args[i].option = opt
                            /\ args[i].value = value
                            /\ \A j \in (i + 1)..N : args[j].option # opt
      BY <2>3
    <3>2. i \in LastGiven(opt)
      BY <1>2, <3>1
    <3>3. ASSUME NEW m \in LastGiven(opt)
          PROVE  m = i
      <4>1. m \in 1..N /\ args[m].option = opt /\ \A j \in (m + 1)..N : args[j].option # opt
        BY <1>2
      <4>2. ~(m < i) /\ ~(i < m)
        <5>1. m < i => i \in (m + 1)..N
          BY <4>1
        <5>2. i < m => m \in (i + 1)..N
          BY <4>1
        <5> QED BY <3>1, <4>1, <5>1, <5>2
      <4> QED BY <4>1, <4>2
    <3>4. value # NotGiven
      BY <2>1, <3>1, TextAssumption
    <3> QED BY <3>1, <3>2, <3>3, <3>4
  <2> QED BY <1>3, <2>2, <2>3 DEF LastAmong
<1>4. /\ \A i \in LastGiven("motd") : config.motd = args[i].value /\ config.motd # NotGiven
      /\ LastGiven("motd") = {} => config.motd = NotGiven
  BY <1>1, <1>3 DEF TellsFirst
<1>5. /\ \A i \in LastGiven("signal-error") :
            config.error = args[i].value /\ config.error # NotGiven
      /\ LastGiven("signal-error") = {} => config.error = NotGiven
  BY <1>1, <1>3 DEF TellsFirst
<1>6. /\ "error" \in DOMAIN welcome <=> Given(config.error)
      /\ Given(config.error) => welcome["error"] = config.error
      /\ "motd" \in DOMAIN welcome <=> config.motd # NotGiven
      /\ config.motd # NotGiven => welcome["motd"] = config.motd
  BY DEF WelcomeFor, Welcome
<1> HIDE DEF welcome
<1>7. "error" \in DOMAIN welcome <=>
        \E i \in LastGiven("signal-error") : args[i].value # EmptyText
  <2> HIDE DEF LastGiven
  <2> QED BY <1>5, <1>6 DEF Given
<1>8. \A i \in LastGiven("signal-error") :
        args[i].value # EmptyText => welcome["error"] = args[i].value
  <2> HIDE DEF LastGiven
  <2> QED BY <1>5, <1>6 DEF Given
<1>9. /\ \A i \in LastGiven("motd") : welcome["motd"] = args[i].value
      /\ LastGiven("motd") = {} => "motd" \notin DOMAIN welcome
  <2> HIDE DEF LastGiven
  <2> QED BY <1>4, <1>6
<1>10. Listed(config, Text) = Text <=> \A i \in DOMAIN args : args[i].option # "disallow-list"
  <2>1. config.allowList <=> \A i \in 1..N : args[i].option # "disallow-list"
    BY <1>1 DEF TellsFirst
  <2>2. Listed(config, Text) = Text <=> config.allowList
    BY TextAssumption DEF Listed
  <2> QED BY <1>2, <2>1, <2>2
<1>11. ASSUME NEW i \in DOMAIN args, args[i].option = "websocket-protocol-option"
       PROVE  \/ ProtocolOptions(config)[args[i].key] = args[i].value
              \/ \E j \in (i + 1)..Len(args) : /\ args[j].option = args[i].option
                                               /\ args[j].key = args[i].key
  <2>1. Repeated(args, N, i) \/ LastPair(config.websocket, args[i].key, args[i].value)
    BY <1>1, <1>2, <1>11 DEF TellsFirst
  <2>2. CASE LastPair(config.websocket, args[i].key, args[i].value)
    <3> DEFINE pairs == config.websocket
               key == args[i].key
               IsLast(p) == /\ pairs[p][1] = key
                            /\ \A q \in DOMAIN pairs : pairs[q][1] = key => q <= p
               last == CHOOSE p \in DOMAIN pairs : IsLast(p)
    <3>1. PICK p \in DOMAIN pairs : /\ pairs[p] = <<key, args[i].value>>
                                    /\ \A q \in DOMAIN pairs : pairs[q][1] = key => q <= p
      BY <2>2 DEF LastPair
    <3>2. DOMAIN pairs \subseteq Int
      BY <1>1 DEF TellsFirst, Config
    <3>3. IsLast(p)
      BY <3>1
    <3>4. last \in DOMAIN pairs /\ IsLast(last)
      BY <3>3, Zenon
    <3>5. last = p
      <4> HIDE DEF last
      <4>1. last <= p /\ p <= last
        BY <3>3, <3>4
      <4> QED BY <3>2, <3>4, <4>1
    <3>6. ProtocolOptions(config)[key] = pairs[last][2]
      <4>1. key \in {pairs[q][1] : q \in DOMAIN pairs}
        BY <3>3
      <4> HIDE DEF key
      <4> QED BY <4>1, Zenon DEF ProtocolOptions
    <3>7. pairs[p][2] = args[i].value
      BY <3>1
    <3> QED BY <3>5, <3>6, <3>7
  <2> QED BY <2>1, <2>2 DEF Repeated
<1>12. BlurringIsPrivate(args)
  BY DEF BlurringIsPrivate, Blurs, LogsClients, LogsRequests
<1>13. LastValueCounts(args)
  <2> HIDE DEF LastGiven
  <2> QED BY <1>7, <1>8, <1>9, <1>10, <1>11, Zenon DEF LastValueCounts, config, welcome, LastGiven
<1> QED BY <1>12, <1>13

-----------------------------------------------------------------------------
(* The invariants of MCFunctions. *)

LEMMA Calls ==
    ASSUME Next
    PROVE  /\ called'.function = "summarize" => Summarize
           /\ called'.function = "bind" => LogVersion
           /\ called'.function = "locate" => LocatePeer
           /\ called'.function = "raise" => RaiseLimit
           /\ called'.function = "allocate" => ChooseNameplate
           /\ called'.function = "accept" => AcceptNameplate
           /\ called'.function = "options" => ParseOptions
           /\ called'.function = "release" => Release
           /\ called'.function = "version" => TellVersion
<1>1. CASE Summarize
  BY <1>1 DEF Summarize
<1>2. CASE ChooseNameplate
  <2>1. called'.function = "allocate"
    BY <1>2 DEF ChooseNameplate
  <2> QED BY <1>2, <2>1
<1>3. CASE AcceptNameplate
  <2>1. called'.function = "accept"
    BY <1>3 DEF AcceptNameplate
  <2> QED BY <1>3, <2>1
<1>4. CASE LocatePeer
  BY <1>4 DEF LocatePeer
<1>5. CASE RaiseLimit
  BY <1>5 DEF RaiseLimit
<1>6. CASE Release
  <2>1. PICK tags, clean, args, tagged :
          called' = [function |-> "release", tags |-> tags, clean |-> clean,
                     args |-> args, tagged |-> tagged]
    BY <1>6, Zenon DEF Release
  <2>2. called'.function = "release"
    BY <2>1
  <2> QED BY <1>6, <2>2
<1>7. CASE TellVersion
  BY <1>7 DEF TellVersion
<1>8. CASE ParseOptions
  <2>1. PICK args : called' = [function |-> "options", args |-> args]
    BY <1>8, Zenon DEF ParseOptions
  <2>2. called'.function = "options"
    BY <2>1
  <2> QED BY <1>8, <2>2
<1>9. CASE LogVersion
  BY <1>9 DEF LogVersion
<1> QED BY <1>1, <1>2, <1>3, <1>4, <1>5, <1>6, <1>7, <1>8, <1>9 DEF Next

LEMMA SummarizedRows ==
    ASSUME NEW rows \in MCRows
    PROVE  \E n \in Nat \ {0} : rows \in Table(n)
<1>1. PICK n \in 1..3 : rows \in [1..n -> [added : 1..3, mood : Moods \union {None}]]
  BY DEF MCRows
<1>2. rows \in Table(n)
  BY <1>1 DEF Table
<1> QED BY <1>2

\* docs/operations.md:42-44: the times of every row written to the usage database.
THEOREM UsageTimesAreRight == Spec => []UsageTimesTell
<1>1. Init => UsageTimesTell
  BY DEF Init, NoCall, UsageTimesTell
<1>2. UsageTimesTell /\ [Next]_called => UsageTimesTell'
  <2>1. CASE UNCHANGED called
    BY <2>1 DEF UsageTimesTell
  <2>2. ASSUME Next, called'.function = "summarize"
        PROVE  UsageTimesTell'
    <3>1. PICK rows \in MCRows, pruned \in BOOLEAN, blur \in {None, 0, 2} :
              called' = [function |-> "summarize", rows |-> rows, deleted |-> 4, pruned |-> pruned,
                         blur |-> blur, nameplate |-> SummarizeNameplate(rows, 4, pruned, blur),
                         mailbox |-> SummarizeMailbox(rows, 4, pruned, blur)]
      BY <2>2, Calls DEF Summarize
    <3>2. PICK n \in Nat \ {0} : rows \in Table(n)
      BY SummarizedRows
    <3>3. /\ TimesTell(rows, 4, blur, SummarizeNameplate(rows, 4, pruned, blur))
          /\ TimesTell(rows, 4, blur, SummarizeMailbox(rows, 4, pruned, blur))
      BY <3>2, TimesAreRight DEF SummarizeNameplate, SummarizeMailbox
    <3> QED BY <3>1, <3>3 DEF UsageTimesTell
  <2> QED BY <2>1, <2>2 DEF UsageTimesTell
<1> QED BY <1>1, <1>2, PTL DEF Spec

\* usage-v2.sql:18: no row of the usage database tells exactly when a client came.
THEOREM UsageTimesAreBlurred == Spec => []UsageIsBlurred
<1>1. Init => UsageIsBlurred
  BY DEF Init, NoCall, UsageIsBlurred
<1>2. UsageIsBlurred /\ [Next]_called => UsageIsBlurred'
  <2>1. CASE UNCHANGED called
    BY <2>1 DEF UsageIsBlurred
  <2>2. ASSUME Next, called'.function = "summarize"
        PROVE  UsageIsBlurred'
    <3>1. PICK rows \in MCRows, pruned \in BOOLEAN, blur \in {None, 0, 2} :
              called' = [function |-> "summarize", rows |-> rows, deleted |-> 4, pruned |-> pruned,
                         blur |-> blur, nameplate |-> SummarizeNameplate(rows, 4, pruned, blur),
                         mailbox |-> SummarizeMailbox(rows, 4, pruned, blur)]
      BY <2>2, Calls DEF Summarize
    <3>2. PICK n \in Nat \ {0} : rows \in Table(n)
      BY SummarizedRows
    <3>3. blur \in Intervals
      BY DEF Intervals
    <3>4. /\ StartIsBlurred(rows, blur, SummarizeNameplate(rows, 4, pruned, blur))
          /\ StartIsBlurred(rows, blur, SummarizeMailbox(rows, 4, pruned, blur))
      BY <3>2, <3>3, StartsAreBlurred DEF SummarizeNameplate, SummarizeMailbox
    <3> QED BY <3>1, <3>4 DEF UsageIsBlurred
  <2>3. ASSUME Next, called'.function = "bind"
        PROVE  UsageIsBlurred'
    <3>1. PICK server_rx \in 0..5, blur \in {None, 0, 2, 3} :
              called' = [function |-> "bind", time |-> server_rx, blur |-> blur,
                         connected |-> ConnectTime(server_rx, blur)]
      BY <2>3, Calls DEF LogVersion
    <3>2. blur \in Intervals /\ server_rx \in Nat
      BY DEF Intervals
    <3>3. IsBlurred(server_rx, blur, ConnectTime(server_rx, blur))
      BY <3>2, RoundedIsBlurred DEF ConnectTime
    <3> QED BY <3>1, <3>3 DEF UsageIsBlurred
  <2> QED BY <2>1, <2>2, <2>3 DEF UsageIsBlurred
<1> QED BY <1>1, <1>2, PTL DEF Spec

\* docs/operations.md:62: the mood of every mailbox's row is the most severe one.
THEOREM UsageMoodIsWorst == Spec => []UsageTellsWorstMood
<1>1. Init => UsageTellsWorstMood
  BY DEF Init, NoCall, UsageTellsWorstMood
<1>2. UsageTellsWorstMood /\ [Next]_called => UsageTellsWorstMood'
  <2>1. CASE UNCHANGED called
    BY <2>1 DEF UsageTellsWorstMood
  <2>2. ASSUME Next, called'.function = "summarize"
        PROVE  UsageTellsWorstMood'
    <3>1. PICK rows \in MCRows, pruned \in BOOLEAN, blur \in {None, 0, 2} :
              called' = [function |-> "summarize", rows |-> rows, deleted |-> 4, pruned |-> pruned,
                         blur |-> blur, nameplate |-> SummarizeNameplate(rows, 4, pruned, blur),
                         mailbox |-> SummarizeMailbox(rows, 4, pruned, blur)]
      BY <2>2, Calls DEF Summarize
    <3>2. MoodTells(rows, pruned, SummarizeMailbox(rows, 4, pruned, blur))
      BY SummarizedRows, MoodIsWorst
    <3> QED BY <3>1, <3>2 DEF UsageTellsWorstMood
  <2> QED BY <2>1, <2>2 DEF UsageTellsWorstMood
<1> QED BY <1>1, <1>2, PTL DEF Spec

\* docs/operations.md:15: connections from one place are recorded under one address.
THEOREM PlaceIsOne == Spec => []OnePlace
<1>1. Init => OnePlace
  BY DEF Init, NoCall, OnePlace
<1>2. OnePlace /\ [Next]_called => OnePlace'
  <2>1. CASE UNCHANGED called
    BY <2>1 DEF OnePlace
  <2>2. ASSUME Next, called'.function = "locate"
        PROVE  OnePlace'
    <3>1. PICK client \in V4Clients \union V6Clients : \E request \in Requests(client, "53276") :
              called' = [function |-> "locate", client |-> client, request |-> request]
      BY <2>2, Calls DEF LocatePeer
    <3>2. PICK request \in Requests(client, "53276") :
              called' = [function |-> "locate", client |-> client, request |-> request]
      BY <3>1
    <3>3. SamePlace(client, "53276", request)
      BY AddressIsTheClients
    <3> QED BY <3>2, <3>3 DEF OnePlace
  <2> QED BY <2>1, <2>2 DEF OnePlace
<1> QED BY <1>1, <1>2, PTL DEF Spec

\* increase_rlimits.py:16-20: startup never lowers the limit on open files.
THEOREM LimitIsNeverLowered == Spec => []RaisesLimit
<1>1. Init => RaisesLimit
  BY DEF Init, NoCall, RaisesLimit
<1>2. RaisesLimit /\ [Next]_called => RaisesLimit'
  <2>1. CASE UNCHANGED called
    BY <2>1 DEF RaisesLimit
  <2>2. ASSUME Next, called'.function = "raise"
        PROVE  RaisesLimit'
    <3>1. PICK p \in Platforms :
              called' = [function |-> "raise", platform |-> p, limit |-> Increased(p)]
      BY <2>2, Calls DEF RaiseLimit
    <3>2. LimitIsRaised(p, Increased(p))
      BY LimitGoesUp
    <3> QED BY <3>1, <3>2 DEF RaisesLimit
  <2> QED BY <2>1, <2>2 DEF RaisesLimit
<1> QED BY <1>1, <1>2, PTL DEF Spec

\* docs/server-protocol.md:129-130 up to three digits, and server.py:11-19, of every
\* name the server gives or takes.
THEOREM NamesAreSound == Spec => []ShortNamesFirst
<1>1. Init => ShortNamesFirst
  BY DEF Init, NoCall, ShortNamesFirst
<1>2. ShortNamesFirst /\ [Next]_called => ShortNamesFirst'
  <2>1. CASE UNCHANGED called
    BY <2>1 DEF ShortNamesFirst
  <2>2. ASSUME Next, called'.function = "allocate"
        PROVE  ShortNamesFirst'
    <3>1. PICK claimed \in SUBSET MCNames : \E name \in Outcomes(claimed) :
              called' = [function |-> "allocate", claimed |-> claimed, name |-> name]
      BY <2>2, Calls DEF ChooseNameplate
    <3>2. PICK name \in Outcomes(claimed) :
              called' = [function |-> "allocate", claimed |-> claimed, name |-> name]
      BY <3>1
    <3>3. AllocationIsSound(claimed, name)
      BY AllocationKeepsShort
    <3> QED BY <3>2, <3>3 DEF ShortNamesFirst
  <2>3. ASSUME Next, called'.function = "accept"
        PROVE  ShortNamesFirst'
    <3>1. PICK n \in 0..3 : \E text \in [1..n -> DecimalDigits \union Others] :
              called' = [function |-> "accept", text |-> text]
      BY <2>3, Calls DEF AcceptNameplate
    <3>2. PICK text \in [1..n -> DecimalDigits \union Others] :
              called' = [function |-> "accept", text |-> text]
      BY <3>1
    <3>3. text \in Seq(DecimalDigits \union Others)
      BY <3>2, SeqDef
    <3>4. AcceptedAreDigits(text)
      BY <3>3, AcceptedNamesAreDigits
    <3> QED BY <3>2, <3>4 DEF ShortNamesFirst
  <2> QED BY <2>1, <2>2, <2>3 DEF ShortNamesFirst
<1> QED BY <1>1, <1>2, PTL DEF Spec

\* server_tap.py:18-60 and 80-121, of every list of options on the command line.
THEOREM OptionsAreTold == Spec => []OptionsTell
<1>1. Init => OptionsTell
  BY DEF Init, NoCall, OptionsTell
<1>2. OptionsTell /\ [Next]_called => OptionsTell'
  <2>1. CASE UNCHANGED called
    BY <2>1 DEF OptionsTell
  <2>2. ASSUME Next, called'.function = "options"
        PROVE  OptionsTell'
    <3>1. PICK n \in 0..3 : \E args \in [1..n -> Arguments] :
              called' = [function |-> "options", args |-> args]
      BY <2>2, Calls, Zenon DEF ParseOptions
    <3>2. PICK args \in [1..n -> Arguments] :
              called' = [function |-> "options", args |-> args]
      BY <3>1
    <3>3. args \in Seq(Arguments)
      BY <3>2, SeqDef
    <3>4. LastValueCounts(args) /\ BlurringIsPrivate(args)
      BY <3>3, OptionsCount
    <3>5. called'.args = args
      BY <3>2
    <3> QED BY <3>4, <3>5, Zenon DEF OptionsTell
  <2> QED BY <2>1, <2>2 DEF OptionsTell
<1> QED BY <1>1, <1>2, PTL DEF Spec

\* update-version.py and _version.py: of every release and every tree.
THEOREM VersionsAreTold == Spec => []VersionsTell
<1>1. Init => VersionsTell
  BY DEF Init, NoCall, VersionsTell
<1>2. VersionsTell /\ [Next]_called => VersionsTell'
  <2>1. CASE UNCHANGED called
    BY <2>1 DEF VersionsTell
  <2>2. ASSUME Next, called'.function = "release"
        PROVE  VersionsTell'
    <3>1. PICK v \in MCVersions, w \in MCVersions, clean \in BOOLEAN,
               args \in SUBSET (Known \union {"--major"}) :
              called' = [function |-> "release", tags |-> {v, w}, clean |-> clean,
                         args |-> args, tagged |-> Tagged({v, w}, clean, args)]
      BY <2>2, Calls, Zenon DEF Release
    <3> DEFINE tags == {v, w}
    <3>2. tags \subseteq Versions /\ tags # {}
      BY DEF MCVersions
    <3>3. IsFiniteSet(tags)
      <4>1. tags = {v} \union {w} /\ IsFiniteSet({v})
        BY FS_Singleton
      <4> QED BY <4>1, FS_AddElement
    <3>4. ReleasesGoUp(tags, clean, args, Tagged(tags, clean, args))
      <4> HIDE DEF tags
      <4> QED BY <3>2, <3>3, ReleaseIsNewest
    <3> DEFINE tagged == Tagged(tags, clean, args)
    <3> HIDE DEF tagged
    <3>5. called' = [function |-> "release", tags |-> tags, clean |-> clean,
                     args |-> args, tagged |-> tagged]
      BY <3>1 DEF tagged
    <3> HIDE DEF tags
    <3>6. /\ called'.function = "release" /\ called'.tags = tags /\ called'.clean = clean
          /\ called'.args = args /\ called'.tagged = tagged
      BY <3>5
    <3>7. "release" # "version"
      OBVIOUS
    <3> QED BY <3>4, <3>6, <3>7, Zenon DEF VersionsTell, tagged
  <2>3. ASSUME Next, called'.function = "version"
        PROVE  VersionsTell'
    <3>1. PICK t \in {u \in Archives \union Checkouts : IsTree(u)} :
              called' = [function |-> "version", tree |-> t, version |-> Version(t)]
      BY <2>3, Calls, Zenon DEF TellVersion
    <3>2. VersionIsRight(t, Version(t))
      BY VersionIsTold
    <3> DEFINE version == Version(t)
    <3> HIDE DEF version
    <3>3. called' = [function |-> "version", tree |-> t, version |-> version]
      BY <3>1 DEF version
    <3>4. called'.function = "version" /\ called'.tree = t /\ called'.version = version
      BY <3>3
    <3>5. "release" # "version"
      OBVIOUS
    <3> QED BY <3>2, <3>4, <3>5, Zenon DEF VersionsTell, version
  <2> QED BY <2>1, <2>2, <2>3 DEF VersionsTell
<1> QED BY <1>1, <1>2, PTL DEF Spec
=============================================================================
