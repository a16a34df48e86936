------------------------- MODULE ChannelExpiryProofs -------------------------
(***************************************************************************)
(* How long a mailbox is kept, for any expiration time and any period that *)
(* is shorter.                                                             *)
(***************************************************************************)
EXTENDS ChannelExpiry, TLAPS

\* Every check resets the age of a mailbox somebody listens to, so its age runs
\* ahead of the client's absence by less than the time between two checks.
IdleWithAway ==
    /\ subscribed => up /\ idle <= sinceCheck
    /\ idle <= away + Period

\* Every check removes what has reached the expiration time.
IdleWithCheck == up /\ exists => idle < Expiration + sinceCheck

IInv == TypeOK /\ IdleWithAway /\ IdleWithCheck

\* The two halves of TypeOK: no prover does both.
Truths ==
    /\ exists \in BOOLEAN
    /\ subscribed \in BOOLEAN
    /\ up \in BOOLEAN
    /\ restarted \in BOOLEAN

Times ==
    /\ idle \in 0..Forever
    /\ away \in 0..Forever
    /\ sinceCheck \in 0..Period

LEMMA TypeOKHalves == TypeOK <=> Truths /\ Times
BY Zenon DEF TypeOK, Truths, Times

LEMMA InitIInv == Init => IInv
<1>1. Init => Truths
  BY Zenon DEF Init, Truths
<1>2. Init => Times /\ IdleWithAway /\ IdleWithCheck
  BY TimesAssumption DEF Init, Times, IdleWithAway, IdleWithCheck
<1> QED BY <1>1, <1>2, TypeOKHalves DEF IInv

LEMMA NextTruths == Truths /\ [Next]_vars => Truths'
<1> USE DEF Truths
<1>1. ASSUME Truths, Open \/ Leave \/ Add \/ Stop \/ Tick PROVE Truths'
  BY <1>1, Zenon DEF Open, Leave, Add, Stop, Tick
<1>2. ASSUME Truths, Check \/ Start PROVE Truths'
  BY <1>2, Zenon DEF Check, Start, FirstCheck, Prune
<1>3. ASSUME Truths, UNCHANGED vars PROVE Truths'
  BY <1>3, Zenon DEF vars
<1> QED BY <1>1, <1>2, <1>3, Zenon DEF Next

LEMMA NextTimes == IInv /\ [Next]_vars => Times'
<1>0. IInv => Times
  BY TypeOKHalves DEF IInv
<1> USE TimesAssumption DEF Times
<1>1. ASSUME Times, Open \/ Leave \/ Add \/ Stop PROVE Times'
  BY <1>1 DEF Open, Leave, Add, Stop
<1>2. ASSUME Times, Check \/ Start PROVE Times'
  BY <1>2 DEF Check, Start, FirstCheck, Prune, AgeAtCheck
<1>3. ASSUME Times, Tick PROVE Times'
  BY <1>3 DEF Tick, Later
<1>4. ASSUME Times, UNCHANGED vars PROVE Times'
  BY <1>4 DEF vars
<1> QED BY <1>0, <1>1, <1>2, <1>3, <1>4 DEF Next

LEMMA NextIdle == IInv /\ [Next]_vars => IdleWithAway' /\ IdleWithCheck'
<1>0. IInv <=> Truths /\ Times /\ IdleWithAway /\ IdleWithCheck
  BY TypeOKHalves DEF IInv
<1> USE <1>0, TimesAssumption DEF Times, IdleWithAway, IdleWithCheck
<1>1. ASSUME IInv, Open PROVE IdleWithAway' /\ IdleWithCheck'
  BY <1>1 DEF Open
<1>2. ASSUME IInv, Leave PROVE IdleWithAway' /\ IdleWithCheck'
  BY <1>2 DEF Leave
<1>3. ASSUME IInv, Add PROVE IdleWithAway' /\ IdleWithCheck'
  BY <1>3 DEF Add
<1>4. ASSUME IInv, Check PROVE IdleWithAway' /\ IdleWithCheck'
  <2>1. /\ up /\ up'
        /\ subscribed' = subscribed
        /\ sinceCheck' = 0
        /\ away' = away
        /\ idle' = IF subscribed THEN 0 ELSE idle
        /\ exists' => idle' < Expiration
    BY <1>4 DEF Check, Prune, AgeAtCheck
  <2> QED BY <2>1, <1>4
<1>5. ASSUME IInv, Start PROVE IdleWithAway' /\ IdleWithCheck'
  <2>1. /\ ~up /\ up'
        /\ subscribed' = subscribed
        /\ sinceCheck' = 0
        /\ away' = away
        /\ idle' = IF subscribed THEN 0 ELSE idle
        /\ exists' => idle' < Expiration
    BY <1>5 DEF Start, FirstCheck, Prune, AgeAtCheck
  <2> QED BY <2>1, <1>5
<1>6. ASSUME IInv, Stop PROVE IdleWithAway' /\ IdleWithCheck'
  BY <1>6 DEF Stop
<1>7. ASSUME IInv, Tick PROVE IdleWithAway' /\ IdleWithCheck'
  BY <1>7 DEF Tick, Later
<1>8. ASSUME IInv, UNCHANGED vars PROVE IdleWithAway' /\ IdleWithCheck'
  BY <1>8 DEF vars
<1> QED BY <1>1, <1>2, <1>3, <1>4, <1>5, <1>6, <1>7, <1>8 DEF Next

LEMMA SpecIInv == Spec => []IInv
<1>1. IInv /\ [Next]_vars => Truths' /\ Times'
  BY NextTruths, NextTimes, TypeOKHalves DEF IInv
<1>2. IInv /\ [Next]_vars => TypeOK'
  BY <1>1, Zenon DEF TypeOK, Truths, Times
<1>3. IInv /\ [Next]_vars => IInv'
  BY <1>2, NextIdle DEF IInv
<1> QED BY <1>3, InitIInv, PTL DEF Spec

\* A mailbox nobody uses is gone after the expiration time and a period of the
\* server's running, however often it is restarted (server_tap.py:101-117).
THEOREM MailboxesGoInTime == Spec => []GoneInTime
<1>1. IInv => GoneInTime
  BY TimesAssumption DEF IInv, TypeOK, IdleWithCheck, GoneInTime
<1> QED BY <1>1, SpecIInv, PTL

\* Only a check deletes, and what it finds old has been without a listener for
\* the expiration time less a period (server.py:485-500).
LEMMA DeletedAfterAway ==
    ASSUME IInv, [Next]_vars, exists, ~exists'
    PROVE  ~subscribed /\ away >= Expiration - Period
<1> USE TimesAssumption DEF IInv, TypeOK, IdleWithAway
<1>1. (Check \/ Start) /\ Prune
  BY DEF Next, Open, Leave, Add, Check, Start, FirstCheck, Stop, Tick, vars
<1>2. ~(AgeAtCheck < Expiration)
  BY <1>1 DEF Prune
<1>3. ~subscribed /\ idle >= Expiration
  BY <1>2 DEF AgeAtCheck
<1> QED BY <1>3

\* However often the server is restarted, a client may be away for the expiration
\* time less a period without losing its mailbox (server.py:466, server_tap.py:66).
THEOREM ClientsMayBeAway == Spec => KeptWhileAway
<1>1. IInv /\ [Next]_vars =>
        [exists /\ ~exists' => ~subscribed /\ away >= Expiration - Period]_vars
  BY DeletedAfterAway
<1> QED BY <1>1, SpecIInv, PTL DEF Spec, KeptWhileAway

-----------------------------------------------------------------------------
(* A server that is not restarted. *)

\* k checks have seen the mailbox without a listener since one left: it is no
\* older than k periods and what has passed of the next one, and the client has
\* been away for all of that but the part of a period in which it left.
ChecksWithout(k) ==
    /\ idle <= k * Period + sinceCheck
    /\ away = Forever \/ away >= k * Period + sinceCheck - Period

WholePeriods == up /\ ~restarted => \E k \in Nat : ChecksWithout(k)

LEMMA PeriodsBelow ==
    ASSUME NEW n \in Nat, NEW p \in Nat \ {0}
    PROVE  n \div p \in Nat /\ p * (n \div p) <= n
OBVIOUS

\* Arithmetic: the whole periods before a time lie within a smaller count.
LEMMA PeriodsBefore ==
    ASSUME NEW n \in Nat, NEW k \in Nat, NEW p \in Nat \ {0}, n < (k + 1) * p
    PROVE  p * (n \div p) <= k * p
<1> DEFINE q == n \div p
<1>1. q \in Nat /\ p * q <= n
  BY PeriodsBelow
<1> HIDE DEF q
<1>2. q <= k
  <2> SUFFICES ASSUME q >= k + 1 PROVE FALSE
    BY <1>1
  <2>1. PICK d \in Nat : q = k + 1 + d
    <3>1. q - (k + 1) \in Nat /\ q = k + 1 + (q - (k + 1))
      BY <1>1
    <3> QED BY <3>1
  <2>2. p * q = (k + 1) * p + p * d
    BY <2>1
  <2>3. p * d >= 0 /\ (k + 1) * p \in Nat /\ p * d \in Nat
    OBVIOUS
  <2> QED BY <1>1, <2>2, <2>3
<1>3. PICK e \in Nat : k = q + e
  <2>1. k - q \in Nat /\ k = q + (k - q)
    BY <1>1, <1>2
  <2> QED BY <2>1
<1>4. k * p = p * q + p * e /\ p * e \in Nat /\ p * q \in Nat
  BY <1>1, <1>3
<1> QED BY <1>4 DEF q

LEMMA InitWhole == Init => WholePeriods
BY DEF Init, WholePeriods

LEMMA NextWhole == IInv /\ WholePeriods /\ [Next]_vars => WholePeriods'
<1> SUFFICES ASSUME IInv, WholePeriods, [Next]_vars, up', ~restarted' PROVE (\E k \in Nat : ChecksWithout(k))'
  BY DEF WholePeriods
<1>0. Times /\ IdleWithAway
  BY TypeOKHalves DEF IInv
<1>1. CASE Open
  <2>1. ChecksWithout(0)'
    BY <1>0, <1>1, TimesAssumption DEF Open, ChecksWithout, Times
  <2> QED BY <2>1
<1>2. (up /\ ~restarted) \/ Open
  BY DEF Next, Open, Leave, Add, Check, Start, Stop, Tick, vars
<1> SUFFICES ASSUME up, ~restarted PROVE (\E k \in Nat : ChecksWithout(k))'
  BY <1>1, <1>2
<1>3. PICK k \in Nat : ChecksWithout(k)
  BY DEF WholePeriods
<1>4. k * Period \in Nat /\ (k + 1) * Period = k * Period + Period
  BY <1>3, TimesAssumption
<1>5. CASE Leave \/ UNCHANGED vars
  BY <1>3, <1>5 DEF Leave, vars, ChecksWithout
<1>6. CASE Add
  <2>1. ChecksWithout(k)'
    BY <1>0, <1>3, <1>4, <1>6 DEF Add, ChecksWithout, Times
  <2> QED BY <2>1
<1>7. CASE Check
  <2>1. /\ sinceCheck = Period /\ sinceCheck' = 0 /\ away' = away
        /\ idle' = idle \/ idle' = 0
    BY <1>7 DEF Check, Prune, AgeAtCheck
  <2>2. ChecksWithout(k + 1)'
    BY <1>0, <1>3, <1>4, <2>1, TimesAssumption DEF ChecksWithout, Times
  <2> QED BY <2>2
<1>8. CASE Tick
  <2>1. /\ sinceCheck < Period /\ sinceCheck' = sinceCheck + 1
        /\ idle' <= idle + 1
        /\ away' = IF subscribed THEN 0 ELSE Later(away)
    BY <1>0, <1>8, TimesAssumption DEF Tick, Later, Times
  <2>2. CASE subscribed
    <3>1. ChecksWithout(0)'
      BY <1>0, <2>1, <2>2, <1>8, TimesAssumption DEF ChecksWithout, Times, IdleWithAway, Tick, Later
    <3> QED BY <3>1
  <2>3. CASE ~subscribed
    <3>1. away' = Forever \/ away' >= k * Period + sinceCheck' - Period
      BY <1>0, <1>3, <1>4, <2>1, <2>3, TimesAssumption DEF ChecksWithout, Times, Later
    <3>2. idle' \in Nat /\ idle' <= k * Period + sinceCheck'
      BY <1>0, <1>3, <1>4, <2>1, <1>8, TimesAssumption DEF ChecksWithout, Times, Tick, Later
    <3>3. ChecksWithout(k)'
      BY <3>1, <3>2 DEF ChecksWithout
    <3> QED BY <3>3
  <2> QED BY <2>2, <2>3
<1> QED BY <1>1, <1>5, <1>6, <1>7, <1>8 DEF Next, Start, Stop

\* A client whose server is not restarted may be away for the whole periods that
\* fit below the expiration time, 10 of the 11 minutes (server_tap.py:66), for
\* any expiration time and any shorter period: the mailbox is deleted by a check,
\* and the last check that saw the listener is a whole number of periods ago.
THEOREM ClientsMayBeAwayLonger == Spec => KeptWhileRunning
<1>1. ASSUME IInv, WholePeriods, [Next]_vars, exists, ~exists', ~restarted'
      PROVE  away >= Period * ((Expiration - 1) \div Period)
  <2>0. Times
    BY <1>1, TypeOKHalves DEF IInv
  <2>1. Check
    BY <1>1 DEF Next, Open, Leave, Add, Start, Stop, Tick, vars
  <2>2. up /\ ~restarted /\ sinceCheck = Period /\ idle >= Expiration
    <3>1. up /\ ~restarted /\ sinceCheck = Period /\ ~(AgeAtCheck < Expiration)
      BY <1>1, <2>1 DEF Check, Prune
    <3>2. idle >= Expiration
      BY <2>0, <3>1, TimesAssumption DEF AgeAtCheck, Times
    <3> QED BY <3>1, <3>2
  <2>3. PICK k \in Nat : ChecksWithout(k)
    BY <1>1, <2>2 DEF WholePeriods
  <2>4. k * Period \in Nat /\ (k + 1) * Period = k * Period + Period /\ Expiration - 1 \in Nat
    BY <2>3, TimesAssumption
  <2>5. Expiration - 1 < (k + 1) * Period
    BY <2>0, <2>2, <2>3, <2>4, TimesAssumption DEF ChecksWithout, Times
  <2>6. Period * ((Expiration - 1) \div Period) <= k * Period
    BY <2>4, <2>5, PeriodsBefore, TimesAssumption
  <2>7. CASE away = Forever
    <3>1. Period * ((Expiration - 1) \div Period) <= Expiration - 1
      BY <2>4, PeriodsBelow, TimesAssumption
    <3> QED BY <2>4, <2>7, <3>1, TimesAssumption
  <2>8. CASE away >= k * Period + sinceCheck - Period
    <3>1. Period * ((Expiration - 1) \div Period) \in Int
      BY <2>4, TimesAssumption
    <3> QED BY <2>0, <2>2, <2>4, <2>6, <2>8, <3>1, TimesAssumption DEF Times
  <2> QED BY <2>3, <2>7, <2>8 DEF ChecksWithout
<1>2. IInv /\ WholePeriods /\ [Next]_vars =>
        [exists /\ ~exists' /\ ~restarted' =>
            away >= Period * ((Expiration - 1) \div Period)]_vars
  BY <1>1
<1> QED BY <1>2, InitWhole, NextWhole, SpecIInv, PTL DEF Spec, KeptWhileRunning
=============================================================================
